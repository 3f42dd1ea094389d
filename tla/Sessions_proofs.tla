-------------------------- MODULE Sessions_proofs --------------------------
(***************************************************************************)
(* Theorems about the two ends of an authenticated session: who may use    *)
(* the bridge (Access and its AuthService), for every number of devices,   *)
(* credentials, sockets, calls, relays, pairings, commands and failed      *)
(* writes; and the phone's session core (M1Core), for all slots and all    *)
(* bounds.                                                                 *)
(*                                                                         *)
(* First AuthService.  One inductive invariant serves its three            *)
(* properties: the types, the first property as it stands, and what the    *)
(* other two rest on.  A socket's token was issued, so it is never issued  *)
(* again; and as long as every write succeeded, the file is what is in     *)
(* memory and every nonce and token belongs to the present pairing of an   *)
(* active device.                                                          *)
(*                                                                         *)
(* Access does nothing to the registry, the tokens and the streams that    *)
(* AuthService does not allow: what is proved of it holds there.  On top   *)
(* of that, two invariants: the tier of a record, in memory and on disk,   *)
(* is the one that was chosen for its pairing, and every call under way    *)
(* carries the tier of its own; the copy of the identity file is the file, *)
(* while nobody else wrote it and no write failed.                         *)
(*                                                                         *)
(* The phone says it is ready only over a live stream of its transport, it *)
(* always has something that will move it, and it forgets a bridge for     *)
(* cause and wholly.  The three share one inductive invariant.  Its parts  *)
(* are predicates on the record of the object's fields.  So are the        *)
(* methods, and each has two lemmas: what it does to the fields, and that  *)
(* it keeps the parts, whichever action calls it.                          *)
(***************************************************************************)
EXTENDS Access, M1Core, TLAPS

Record == [state : {"none", "active", "revoked"}, pairing : Nat]
SocketRecord == [state : {"new", "live", "dropped", "refused", "closed"},
                 device : Device \cup {None}, token : Token \cup {None}]
Credential == [device : Device \cup {None}, pairing : Nat, late : BOOLEAN]

AuthTypes ==
  /\ devices \in [Device -> Record] /\ disk \in [Device -> Record]
  /\ nonces \in [Nonce -> Credential] /\ tokens \in [Token -> Credential]
  /\ sockets \in [Socket -> SocketRecord]
  /\ failures \in Nat /\ reported \subseteq Device

\* Whoever was handed a token on a socket was handed one that was issued.
SocketTokensAreIssued ==
  \A s \in Socket : sockets[s].state # "new" =>
    sockets[s].token \in Token /\ sockets[s].token \in issued

\* An entry is of the present pairing of an active device.
Current(entry) == entry.device # None =>
  Active(entry.device) /\ entry.pairing = devices[entry.device].pairing

\* While every write succeeded, the file and the credentials follow the registry.
WrittenIsCurrent == failures = 0 =>
  /\ disk = devices
  /\ \A n \in Nonce : Current(nonces[n])
  /\ \A t \in Token : Current(tokens[t])

IInv == /\ AuthTypes
        /\ RevokedIsOut
        /\ SocketTokensAreIssued
        /\ StreamTokenDiesWithIt
        /\ WrittenIsCurrent

-----------------------------------------------------------------------------
\* What the helpers on entries return: nothing but entries that were there.

LEMMA NoEntryIsCredential == noEntry \in Credential /\ noEntry.device = None
  BY DEF noEntry, Credential

\* What challenge and issue store is a credential of the device's present pairing.
LEMMA EntryIsCredential ==
  ASSUME AuthTypes, NEW d \in Device
  PROVE  Entry(d) \in Credential /\ Entry(d).device = d
         /\ Entry(d).pairing = devices[d].pairing
  BY DEF AuthTypes, Entry, Credential, Record

\* A sweep leaves an entry as it is or forgets it.
LEMMA SweptKeeps ==
  ASSUME NEW S, NEW entries \in [S -> Credential]
  PROVE  /\ Swept(entries) \in [S -> Credential]
         /\ \A e \in S : Swept(entries)[e] \in {entries[e], noEntry}
  BY NoEntryIsCredential DEF Swept

\* Dropping a device's entries leaves none of it and changes no other.
LEMMA WithoutKeeps ==
  ASSUME NEW S, NEW entries \in [S -> Credential], NEW d \in Device
  PROVE  /\ Without(entries, d) \in [S -> Credential]
         /\ \A e \in S : /\ Without(entries, d)[e] \in {entries[e], noEntry}
                         /\ Without(entries, d)[e].device # d
  BY NoEntryIsCredential, AuthAssumption DEF Without

-----------------------------------------------------------------------------
\* A bridge that starts with an empty registry.
LEMMA InitEstablishesIInv == AuthInit => IInv
<1> SUFFICES ASSUME AuthInit PROVE IInv
  OBVIOUS
<1>1. AuthTypes
  BY DEF AuthInit, AuthTypes, unknown, noEntry, unopened, Record, Credential, SocketRecord
<1>2. RevokedIsOut
  BY DEF AuthInit, RevokedIsOut
<1>3. SocketTokensAreIssued /\ StreamTokenDiesWithIt
  BY DEF AuthInit, SocketTokensAreIssued, StreamTokenDiesWithIt, unopened
<1>4. WrittenIsCurrent
  BY DEF AuthInit, WrittenIsCurrent, Current, noEntry
<1> QED
  BY <1>1, <1>2, <1>3, <1>4 DEF IInv

-----------------------------------------------------------------------------
\* One lemma per action: what it does to the parts of the invariant it can disturb.

LEMMA RegisterKeeps ==
  ASSUME IInv, NEW d \in Device, NEW written \in BOOLEAN, Register(d, written)
  PROVE  IInv'
<1>1. /\ ~ Active(d)
      /\ devices' = [devices EXCEPT ![d] = [state |-> "active", pairing |-> @.pairing + 1]]
      /\ reported' = reported \ {d}
      /\ UNCHANGED <<nonces, tokens, sockets, dshReady, issued>>
  BY DEF Register
<1>2. /\ IF written THEN disk' = devices' /\ failures' = failures
                    ELSE failures' = failures + 1 /\ disk' = disk
  BY DEF Register, Persist
<1>3. AuthTypes'
  <2>1. devices' \in [Device -> Record]
    BY <1>1 DEF IInv, AuthTypes, Record
  <2> QED
    BY <1>1, <1>2, <2>1 DEF IInv, AuthTypes
<1>4. RevokedIsOut'
  <2> SUFFICES ASSUME NEW e \in reported'
               PROVE  /\ devices'[e].state = "revoked" /\ disk'[e].state = "revoked"
                      /\ \A s \in Socket : sockets[s].device = e => sockets[s].state # "live"
                      /\ \A n \in Nonce : nonces[n].device # e
                      /\ \A t \in Token : tokens[t].device # e
    BY <1>1 DEF RevokedIsOut
  <2>1. e \in reported /\ e # d /\ e \in Device
    BY <1>1 DEF IInv, AuthTypes
  <2>2. devices'[e] = devices[e]
    BY <1>1, <2>1 DEF IInv, AuthTypes
  <2> QED
    BY <1>2, <2>1, <2>2 DEF IInv, RevokedIsOut
<1>5. SocketTokensAreIssued' /\ StreamTokenDiesWithIt'
  BY <1>1 DEF IInv, SocketTokensAreIssued, StreamTokenDiesWithIt
<1>6. WrittenIsCurrent'
  <2> SUFFICES ASSUME failures' = 0
               PROVE  /\ disk' = devices'
                      /\ \A n \in Nonce : Current(nonces[n])'
                      /\ \A t \in Token : Current(tokens[t])'
    BY DEF WrittenIsCurrent
  <2>1. failures = 0 /\ disk' = devices'
    BY <1>2 DEF IInv, AuthTypes
  <2>2. ASSUME NEW entry \in Credential, Current(entry)
        PROVE  entry.device # None => /\ entry.device # d
                                      /\ devices'[entry.device] = devices[entry.device]
    BY <1>1, <2>2 DEF Current, IInv, AuthTypes, Credential
  <2>3. \A n \in Nonce : nonces[n] \in Credential /\ Current(nonces[n])
    BY <2>1 DEF IInv, AuthTypes, WrittenIsCurrent
  <2>4. \A t \in Token : tokens[t] \in Credential /\ Current(tokens[t])
    BY <2>1 DEF IInv, AuthTypes, WrittenIsCurrent
  <2> QED
    BY <1>1, <2>1, <2>2, <2>3, <2>4 DEF Current, Active
<1> QED
  BY <1>3, <1>4, <1>5, <1>6 DEF IInv

\* revoke: the listeners drop every credential before it is reported.
LEMMA RevokeKeeps ==
  ASSUME IInv, NEW d \in Device, NEW written \in BOOLEAN, Revoke(d, written)
  PROVE  IInv'
<1>1. /\ devices' = [devices EXCEPT ![d].state = "revoked"]
      /\ UNCHANGED issued
  BY DEF Revoke
<1>2. devices' \in [Device -> Record] /\ devices'[d].state = "revoked"
  BY <1>1 DEF IInv, AuthTypes, Record
<1>3. \A e \in Device : e # d => devices'[e] = devices[e]
  BY <1>1 DEF IInv, AuthTypes
<1>4. CASE written
  <2>1. /\ disk' = devices' /\ failures' = failures
        /\ tokens' = Without(tokens, d) /\ nonces' = Without(nonces, d)
        /\ reported' = reported \cup {d}
        /\ sockets' = [s \in Socket |-> IF sockets[s].state = "live" /\ sockets[s].device = d
                               THEN [sockets[s] EXCEPT !.state = "dropped"] ELSE sockets[s]]
    BY <1>4 DEF Revoke, Persist, RevokeDeviceTokens, DisconnectDevice
  <2>2. /\ tokens' \in [Token -> Credential]
        /\ \A t \in Token : tokens'[t] \in {tokens[t], noEntry} /\ tokens'[t].device # d
    BY <2>1, WithoutKeeps DEF IInv, AuthTypes
  <2>3. /\ nonces' \in [Nonce -> Credential]
        /\ \A n \in Nonce : nonces'[n] \in {nonces[n], noEntry} /\ nonces'[n].device # d
    BY <2>1, WithoutKeeps DEF IInv, AuthTypes
  <2>4. \A s \in Socket :
          /\ sockets'[s] \in SocketRecord
          /\ sockets'[s].device = sockets[s].device /\ sockets'[s].token = sockets[s].token
          /\ \/ sockets'[s].state = sockets[s].state
             \/ sockets[s].state = "live" /\ sockets'[s].state = "dropped"
          /\ sockets'[s].device = d => sockets'[s].state # "live"
    BY <2>1 DEF IInv, AuthTypes, SocketRecord
  <2>5. AuthTypes'
    <3>1. sockets' \in [Socket -> SocketRecord]
      BY <2>1, <2>4
    <3> QED
      BY <1>2, <2>1, <2>2, <2>3, <3>1 DEF IInv, AuthTypes
  <2>6. RevokedIsOut'
    <3> SUFFICES ASSUME NEW e \in reported'
                 PROVE  /\ devices'[e].state = "revoked" /\ disk'[e].state = "revoked"
                        /\ \A s \in Socket : sockets'[s].device = e => sockets'[s].state # "live"
                        /\ \A n \in Nonce : nonces'[n].device # e
                        /\ \A t \in Token : tokens'[t].device # e
      BY DEF RevokedIsOut
    <3>1. CASE e = d
      BY <1>2, <2>1, <2>2, <2>3, <2>4, <3>1
    <3>2. CASE e # d
      <4>1. e \in reported /\ e \in Device
        BY <2>1, <3>2 DEF IInv, AuthTypes
      <4>2. noEntry.device # e
        BY <4>1, NoEntryIsCredential, AuthAssumption
      <4> QED
        BY <1>3, <2>1, <2>2, <2>3, <2>4, <3>2, <4>1, <4>2 DEF IInv, RevokedIsOut
    <3> QED
      BY <3>1, <3>2
  <2>7. SocketTokensAreIssued'
    BY <1>1, <2>4 DEF IInv, SocketTokensAreIssued
  <2>8. StreamTokenDiesWithIt'
    <3> SUFFICES ASSUME NEW s \in Socket, sockets'[s].state = "closed"
                 PROVE  tokens'[sockets'[s].token].device = None
      BY DEF StreamTokenDiesWithIt
    <3>1. sockets[s].state = "closed" /\ sockets'[s].token = sockets[s].token
      BY <2>4
    <3>2. sockets[s].token \in Token
      BY <3>1 DEF IInv, SocketTokensAreIssued
    <3> QED
      BY <2>2, <3>1, <3>2, NoEntryIsCredential DEF IInv, StreamTokenDiesWithIt
  <2>9. WrittenIsCurrent'
    <3> SUFFICES ASSUME failures' = 0
                 PROVE  /\ \A n \in Nonce : Current(nonces[n])'
                        /\ \A t \in Token : Current(tokens[t])'
      BY <2>1 DEF WrittenIsCurrent
    <3>1. \A n \in Nonce : Current(nonces[n])
      BY <2>1 DEF IInv, WrittenIsCurrent
    <3>2. \A t \in Token : Current(tokens[t])
      BY <2>1 DEF IInv, WrittenIsCurrent
    <3>3. \A n \in Nonce : nonces'[n].device \in Device \cup {None}
      BY <2>3 DEF Credential
    <3>4. \A t \in Token : tokens'[t].device \in Device \cup {None}
      BY <2>2 DEF Credential
    <3>5. \A n \in Nonce : Current(nonces[n])'
      BY <1>3, <2>3, <3>1, <3>3, NoEntryIsCredential DEF Current, Active
    <3>6. \A t \in Token : Current(tokens[t])'
      BY <1>3, <2>2, <3>2, <3>4, NoEntryIsCredential DEF Current, Active
    <3> QED
      BY <3>5, <3>6
  <2> QED
    BY <2>5, <2>6, <2>7, <2>8, <2>9 DEF IInv
<1>5. CASE ~ written
  <2>1. /\ failures' = failures + 1 /\ UNCHANGED <<disk, tokens, nonces, sockets, reported>>
    BY <1>5 DEF Revoke, Persist
  <2>2. AuthTypes'
    BY <1>2, <2>1 DEF IInv, AuthTypes
  <2>3. RevokedIsOut'
    BY <1>2, <1>3, <2>1 DEF IInv, AuthTypes, RevokedIsOut
  <2>4. SocketTokensAreIssued' /\ StreamTokenDiesWithIt'
    BY <1>1, <2>1 DEF IInv, SocketTokensAreIssued, StreamTokenDiesWithIt
  <2>5. WrittenIsCurrent'
    BY <2>1 DEF IInv, AuthTypes, WrittenIsCurrent
  <2> QED
    BY <2>2, <2>3, <2>4, <2>5 DEF IInv
<1> QED
  BY <1>4, <1>5
\* The device of a reported revocation is not active: nothing is issued to it.
LEMMA ReportedIsInactive ==
  ASSUME IInv
  PROVE  \A d \in reported : d \in Device /\ ~ Active(d)
  BY DEF IInv, AuthTypes, RevokedIsOut, Active

\* The actions that leave the registry's records alone change credentials and sockets
\* in few ways: an entry goes, ages, or is issued to an active device; a socket is
\* given a token of an active device, or closes and its token goes.
EntryFollows(new, old) ==
  \/ new.device = None
  \/ new.device = old.device /\ new.pairing = old.pairing

Issued(new) ==
  new.device \in Device /\ Active(new.device) /\ new.pairing = devices[new.device].pairing

\* The steps that change no record: what follows from an older entry needs no new proof,
\* and what is new was asked of the registry.
LEMMA CredentialsKeep ==
  ASSUME IInv,
         devices' = devices, reported' = reported, issued \subseteq issued',
         \/ disk' = disk /\ failures' = failures
         \/ disk' = devices /\ failures' = failures
         \/ disk' = disk /\ failures' = failures + 1,
         nonces' \in [Nonce -> Credential], tokens' \in [Token -> Credential],
         sockets' \in [Socket -> SocketRecord],
         \A n \in Nonce : EntryFollows(nonces'[n], nonces[n]) \/ Issued(nonces'[n]),
         \A t \in Token : \/ EntryFollows(tokens'[t], tokens[t])
                          \/ t \notin issued /\ Issued(tokens'[t]),
         \A s \in Socket :
           \/ sockets'[s] = sockets[s]
           \/ /\ sockets'[s].state # "closed"
              /\ sockets'[s].device \in Device /\ Active(sockets'[s].device)
              /\ sockets'[s].token \in Token /\ sockets'[s].token \in issued'
           \/ /\ sockets'[s].state = "closed" /\ sockets[s].state # "new"
              /\ sockets'[s].token = sockets[s].token
              /\ tokens'[sockets'[s].token].device = None
  PROVE  IInv'
<1>1. AuthTypes'
  BY DEF IInv, AuthTypes
<1>2. RevokedIsOut'
  <2> SUFFICES ASSUME NEW d \in reported
               PROVE  /\ devices[d].state = "revoked" /\ disk'[d].state = "revoked"
                      /\ \A s \in Socket : sockets'[s].device = d => sockets'[s].state # "live"
                      /\ \A n \in Nonce : nonces'[n].device # d
                      /\ \A t \in Token : tokens'[t].device # d
    BY DEF RevokedIsOut
  <2>1. d \in Device /\ ~ Active(d) /\ d # None
    BY ReportedIsInactive, AuthAssumption
  <2>2. devices[d].state = "revoked" /\ disk'[d].state = "revoked"
    BY DEF IInv, RevokedIsOut
  <2>3. \A n \in Nonce : nonces'[n].device # d
    BY <2>1 DEF IInv, RevokedIsOut, EntryFollows, Issued
  <2>4. \A t \in Token : tokens'[t].device # d
    BY <2>1 DEF IInv, RevokedIsOut, EntryFollows, Issued
  <2>5. \A s \in Socket : sockets'[s].device = d => sockets'[s].state # "live"
    BY <2>1 DEF IInv, RevokedIsOut
  <2> QED
    BY <2>2, <2>3, <2>4, <2>5
<1>3. SocketTokensAreIssued'
  BY DEF IInv, SocketTokensAreIssued
<1>4. StreamTokenDiesWithIt'
  <2> SUFFICES ASSUME NEW s \in Socket, sockets'[s].state = "closed"
               PROVE  tokens'[sockets'[s].token].device = None
    BY DEF StreamTokenDiesWithIt
  <2>1. CASE sockets'[s] = sockets[s]
    <3>1. /\ sockets[s].token \in Token /\ sockets[s].token \in issued
          /\ tokens[sockets[s].token].device = None
      BY <2>1 DEF IInv, SocketTokensAreIssued, StreamTokenDiesWithIt
    <3> QED
      BY <2>1, <3>1 DEF EntryFollows
  <2>2. CASE sockets'[s] # sockets[s]
    BY <2>2
  <2> QED
    BY <2>1, <2>2
<1>5. WrittenIsCurrent'
  <2> SUFFICES ASSUME failures' = 0
               PROVE  /\ disk' = devices
                      /\ \A n \in Nonce : Current(nonces[n])'
                      /\ \A t \in Token : Current(tokens[t])'
    BY DEF WrittenIsCurrent
  <2>1. failures = 0 /\ disk' = devices
    BY DEF IInv, AuthTypes, WrittenIsCurrent
  <2>2. \A n \in Nonce : Current(nonces[n])'
    BY <2>1 DEF IInv, WrittenIsCurrent, Current, Active, EntryFollows, Issued
  <2>3. \A t \in Token : Current(tokens[t])'
    BY <2>1 DEF IInv, WrittenIsCurrent, Current, Active, EntryFollows, Issued
  <2> QED
    BY <2>1, <2>2, <2>3
<1> QED
  BY <1>1, <1>2, <1>3, <1>4, <1>5 DEF IInv
\* A swept entry follows from the entry before.
LEMMA SweptFollows ==
  ASSUME NEW S, NEW entries \in [S -> Credential]
  PROVE  /\ Swept(entries) \in [S -> Credential]
         /\ \A e \in S : EntryFollows(Swept(entries)[e], entries[e])
  BY SweptKeeps, NoEntryIsCredential DEF EntryFollows

\* The maintenance timer's sweep of nonces and tokens.
LEMMA MaintainKeeps == IInv /\ Maintain => IInv'
<1> SUFFICES ASSUME IInv, Maintain PROVE IInv'
  OBVIOUS
<1>1. /\ nonces' = Swept(nonces) /\ tokens' = Swept(tokens)
      /\ UNCHANGED <<devices, disk, failures, reported, sockets, issued>>
  BY DEF Maintain, Sweep, registryVars
<1>2. nonces' \in [Nonce -> Credential] /\ \A n \in Nonce : EntryFollows(nonces'[n], nonces[n])
  BY <1>1, SweptFollows DEF IInv, AuthTypes
<1>3. tokens' \in [Token -> Credential] /\ \A t \in Token : EntryFollows(tokens'[t], tokens[t])
  BY <1>1, SweptFollows DEF IInv, AuthTypes
<1>4. sockets \in [Socket -> SocketRecord]
  BY DEF IInv, AuthTypes
<1> QED
  BY <1>1, <1>2, <1>3, <1>4, CredentialsKeep

\* A challenge is given to an active device only.
LEMMA ChallengeKeeps ==
  ASSUME IInv, NEW d \in Device, NEW n \in Nonce, Challenge(d, n)
  PROVE  IInv'
<1>1. /\ Active(d)
      /\ nonces' = [Swept(nonces) EXCEPT ![n] = Entry(d)] /\ tokens' = Swept(tokens)
      /\ issued \subseteq issued'
      /\ UNCHANGED <<devices, disk, failures, reported, sockets>>
  BY DEF Challenge, registryVars
<1>2. /\ Swept(nonces) \in [Nonce -> Credential]
      /\ \A m \in Nonce : EntryFollows(Swept(nonces)[m], nonces[m])
  BY SweptFollows DEF IInv, AuthTypes
<1>3. Entry(d) \in Credential /\ Issued(Entry(d))
  BY <1>1, EntryIsCredential DEF IInv, Issued
<1>4. nonces' \in [Nonce -> Credential]
  BY <1>1, <1>2, <1>3
<1>5. \A m \in Nonce : EntryFollows(nonces'[m], nonces[m]) \/ Issued(nonces'[m])
  BY <1>1, <1>2, <1>3
<1>6. tokens' \in [Token -> Credential] /\ \A t \in Token : EntryFollows(tokens'[t], tokens[t])
  BY <1>1, SweptFollows DEF IInv, AuthTypes
<1>7. sockets \in [Socket -> SocketRecord]
  BY DEF IInv, AuthTypes
<1> QED
  BY <1>1, <1>4, <1>5, <1>6, <1>7, CredentialsKeep

\* authenticate consumes the nonce and asks the registry again; the touch may fail to be
\* written.
LEMMA AuthenticateKeeps ==
  ASSUME IInv, NEW d \in Device, NEW n \in Nonce, NEW t \in Token, NEW written \in BOOLEAN,
         Authenticate(d, n, t, written)
  PROVE  IInv'
<1>1. /\ t \notin issued
      /\ nonces' = [nonces EXCEPT ![n] = noEntry]
      /\ UNCHANGED <<devices, reported, sockets>>
  BY DEF Authenticate
<1>2. sockets \in [Socket -> SocketRecord] /\ nonces \in [Nonce -> Credential]
      /\ tokens \in [Token -> Credential]
  BY DEF IInv, AuthTypes
<1>3. nonces' \in [Nonce -> Credential] /\ \A m \in Nonce : EntryFollows(nonces'[m], nonces[m])
  BY <1>1, <1>2, NoEntryIsCredential DEF EntryFollows
<1>4. \/ disk' = disk /\ failures' = failures
      \/ disk' = devices /\ failures' = failures
      \/ disk' = disk /\ failures' = failures + 1
  BY DEF Authenticate, Persist
<1>5. CASE Proves(d, n)
  <2>1. tokens' = [tokens EXCEPT ![t] = Entry(d)] /\ issued' = issued \cup {t}
    BY <1>5 DEF Authenticate
  <2>2. Entry(d) \in Credential /\ Issued(Entry(d))
    BY <1>5, EntryIsCredential DEF IInv, Issued, Proves
  <2>3. tokens' \in [Token -> Credential]
    BY <1>2, <2>1, <2>2
  <2>4. \A u \in Token : \/ EntryFollows(tokens'[u], tokens[u])
                         \/ u \notin issued /\ Issued(tokens'[u])
    BY <1>1, <1>2, <2>1, <2>2 DEF EntryFollows
  <2> QED
    BY <1>1, <1>2, <1>3, <1>4, <2>1, <2>3, <2>4, CredentialsKeep
<1>6. CASE ~ Proves(d, n)
  <2>1. tokens' = tokens /\ issued' = issued
    BY <1>6 DEF Authenticate
  <2>2. \A u \in Token : EntryFollows(tokens'[u], tokens[u])
    BY <2>1 DEF EntryFollows
  <2> QED
    BY <1>1, <1>2, <1>3, <1>4, <2>1, <2>2, CredentialsKeep
<1> QED
  BY <1>5, <1>6

\* verify forgets a token that is no longer good.
LEMMA VerifyKeeps ==
  ASSUME IInv, NEW t \in Token, Verify(t)
  PROVE  IInv'
<1>1. /\ tokens' \in {tokens, [tokens EXCEPT ![t] = noEntry]}
      /\ UNCHANGED <<devices, disk, failures, reported, nonces, sockets, issued>>
  BY DEF Verify, registryVars
<1>2. sockets \in [Socket -> SocketRecord] /\ nonces \in [Nonce -> Credential]
      /\ tokens \in [Token -> Credential]
  BY DEF IInv, AuthTypes
<1>3. tokens' \in [Token -> Credential] /\ \A u \in Token : EntryFollows(tokens'[u], tokens[u])
  BY <1>1, <1>2, NoEntryIsCredential DEF EntryFollows
<1>4. \A n \in Nonce : EntryFollows(nonces[n], nonces[n])
  BY DEF EntryFollows
<1> QED
  BY <1>1, <1>2, <1>3, <1>4, CredentialsKeep
\* A stream that opens rotates its token, for the device of the one it came with.
LEMMA UpgradeKeeps ==
  ASSUME IInv, NEW s \in Socket, NEW t \in Token, NEW fresh \in Token, Upgrade(s, t, fresh)
  PROVE  IInv'
<1> DEFINE d == tokens[t].device
<1>1. /\ sockets[s].state = "new" /\ Accepts(t) /\ fresh \notin issued
      /\ tokens' = [tokens EXCEPT ![t] = noEntry, ![fresh] = Entry(d)]
      /\ issued' = issued \cup {fresh}
      /\ UNCHANGED <<devices, disk, failures, reported, nonces>>
  BY DEF Upgrade, registryVars
<1>2. sockets \in [Socket -> SocketRecord] /\ nonces \in [Nonce -> Credential]
      /\ tokens \in [Token -> Credential]
  BY DEF IInv, AuthTypes
<1>3. d \in Device /\ Active(d)
  BY <1>1, <1>2 DEF Accepts, Credential
<1>4. Entry(d) \in Credential /\ Issued(Entry(d))
  BY <1>3, EntryIsCredential DEF IInv, Issued
<1>5. tokens' \in [Token -> Credential]
  BY <1>1, <1>2, <1>4, NoEntryIsCredential
<1>6. \A u \in Token : \/ EntryFollows(tokens'[u], tokens[u])
                       \/ u \notin issued /\ Issued(tokens'[u])
  BY <1>1, <1>2, <1>4, NoEntryIsCredential DEF EntryFollows
<1>7. \A n \in Nonce : EntryFollows(nonces[n], nonces[n])
  BY DEF EntryFollows
<1>8. \E state \in {"live", "refused"} :
        sockets' = [sockets EXCEPT ![s] = [state |-> state, device |-> d, token |-> fresh]]
  BY DEF Upgrade
<1>9. sockets' \in [Socket -> SocketRecord]
  BY <1>2, <1>3, <1>8 DEF SocketRecord
<1>10. \A x \in Socket : \/ sockets'[x] = sockets[x]
                         \/ /\ sockets'[x].state # "closed"
                            /\ sockets'[x].device \in Device /\ Active(sockets'[x].device)
                            /\ sockets'[x].token \in Token /\ sockets'[x].token \in issued'
  BY <1>1, <1>2, <1>3, <1>8
<1> QED
  BY <1>1, <1>2, <1>5, <1>6, <1>7, <1>9, <1>10, CredentialsKeep

\* A closed socket takes its token with it.
LEMMA SocketClosesKeeps ==
  ASSUME IInv, NEW s \in Socket, SocketCloses(s)
  PROVE  IInv'
<1>1. /\ sockets[s].state \in {"live", "dropped"}
      /\ sockets' = [sockets EXCEPT ![s].state = "closed"]
      /\ tokens' = [tokens EXCEPT ![sockets[s].token] = noEntry]
      /\ UNCHANGED <<devices, disk, failures, reported, nonces, issued>>
  BY DEF SocketCloses, registryVars
<1>2. sockets \in [Socket -> SocketRecord] /\ nonces \in [Nonce -> Credential]
      /\ tokens \in [Token -> Credential]
  BY DEF IInv, AuthTypes
<1>3. sockets[s].token \in Token
  BY <1>1 DEF IInv, SocketTokensAreIssued
<1>4. tokens' \in [Token -> Credential] /\ \A u \in Token : EntryFollows(tokens'[u], tokens[u])
  BY <1>1, <1>2, <1>3, NoEntryIsCredential DEF EntryFollows
<1>5. sockets' \in [Socket -> SocketRecord]
  BY <1>1, <1>2 DEF SocketRecord
<1>6. /\ sockets'[s].state = "closed" /\ sockets'[s].token = sockets[s].token
      /\ tokens'[sockets[s].token].device = None
      /\ \A x \in Socket \ {s} : sockets'[x] = sockets[x]
  BY <1>1, <1>2, <1>3, NoEntryIsCredential DEF SocketRecord
<1>7. \A n \in Nonce : EntryFollows(nonces[n], nonces[n])
  BY DEF EntryFollows
<1> QED
  BY <1>1, <1>2, <1>4, <1>5, <1>6, <1>7, CredentialsKeep

\* An entry that grows old follows from itself.
LEMMA AgedFollows ==
  ASSUME NEW S, NEW entries \in [S -> Credential], NEW e \in S, NEW aged,
         aged = [entries EXCEPT ![e].late = TRUE]
  PROVE  aged \in [S -> Credential] /\ \A f \in S : EntryFollows(aged[f], entries[f])
<1>1. [entries[e] EXCEPT !.late = TRUE] \in Credential
      /\ EntryFollows([entries[e] EXCEPT !.late = TRUE], entries[e])
  <2>1. entries[e] \in Credential
    OBVIOUS
  <2> QED
    BY <2>1 DEF Credential, EntryFollows
<1>2. aged = [entries EXCEPT ![e] = [entries[e] EXCEPT !.late = TRUE]]
  OBVIOUS
<1> QED
  BY <1>1, <1>2 DEF EntryFollows

\* Time passes for one nonce or one token.
LEMMA ElapsesKeeps == IInv /\ Elapses => IInv'
<1> SUFFICES ASSUME IInv, Elapses PROVE IInv'
  OBVIOUS
<1>1. UNCHANGED <<devices, disk, failures, reported, sockets, issued>>
  BY DEF Elapses, registryVars
<1>2. sockets \in [Socket -> SocketRecord] /\ nonces \in [Nonce -> Credential]
      /\ tokens \in [Token -> Credential]
  BY DEF IInv, AuthTypes
<1>3. CASE \E n \in Nonce : nonces' = [nonces EXCEPT ![n].late = TRUE] /\ tokens' = tokens
  <2>1. nonces' \in [Nonce -> Credential] /\ \A n \in Nonce : EntryFollows(nonces'[n], nonces[n])
    BY <1>2, <1>3, AgedFollows
  <2>2. \A t \in Token : EntryFollows(tokens'[t], tokens[t])
    BY <1>3 DEF EntryFollows
  <2> QED
    BY <1>1, <1>2, <1>3, <2>1, <2>2, CredentialsKeep
<1>4. CASE \E t \in Token : tokens' = [tokens EXCEPT ![t].late = TRUE] /\ nonces' = nonces
  <2>1. tokens' \in [Token -> Credential] /\ \A t \in Token : EntryFollows(tokens'[t], tokens[t])
    BY <1>2, <1>4, AgedFollows
  <2>2. \A n \in Nonce : EntryFollows(nonces'[n], nonces[n])
    BY <1>4 DEF EntryFollows
  <2> QED
    BY <1>1, <1>2, <1>4, <2>1, <2>2, CredentialsKeep
<1> QED
  BY <1>3, <1>4 DEF Elapses

\* After a restart the registry is its file, and there is nothing else.
LEMMA RestartKeeps == IInv /\ Restart => IInv'
<1> SUFFICES ASSUME IInv, Restart PROVE IInv'
  OBVIOUS
<1>1. /\ devices' = disk
      /\ UNCHANGED <<disk, failures, reported, issued>>
  BY DEF Restart
<1>2. /\ nonces' \in [Nonce -> Credential] /\ tokens' \in [Token -> Credential]
      /\ \A n \in Nonce : nonces'[n].device = None
      /\ \A t \in Token : tokens'[t].device = None
  BY NoEntryIsCredential DEF Restart
<1>3. /\ sockets' \in [Socket -> SocketRecord]
      /\ \A s \in Socket : /\ sockets'[s].token = sockets[s].token
                           /\ sockets'[s].state # "live"
                           /\ sockets'[s].state # "new" => sockets[s].state # "new"
  BY DEF Restart, IInv, AuthTypes, SocketRecord
<1>4. AuthTypes'
  BY <1>1, <1>2, <1>3 DEF IInv, AuthTypes
<1>5. RevokedIsOut'
  <2>1. \A d \in reported : disk[d].state = "revoked" /\ d # None
    BY AuthAssumption DEF IInv, AuthTypes, RevokedIsOut
  <2> QED
    BY <1>1, <1>2, <1>3, <2>1 DEF RevokedIsOut
<1>6. SocketTokensAreIssued'
  BY <1>1, <1>3 DEF IInv, SocketTokensAreIssued
<1>7. StreamTokenDiesWithIt'
  BY <1>2, <1>6 DEF SocketTokensAreIssued, StreamTokenDiesWithIt
<1>8. WrittenIsCurrent'
  BY <1>1, <1>2 DEF WrittenIsCurrent, Current
<1> QED
  BY <1>4, <1>5, <1>6, <1>7, <1>8 DEF IInv

\* Steps of the composition that leave the service alone.
LEMMA StutterKeeps ==
  IInv /\ UNCHANGED <<registryVars, nonces, tokens, sockets, issued>> => IInv'
  BY DEF registryVars, IInv, AuthTypes, RevokedIsOut, SocketTokensAreIssued,
         StreamTokenDiesWithIt, WrittenIsCurrent, Current, Active

\* All the steps of the service.
LEMMA StepPreservesIInv == IInv /\ [AuthNext]_authVars => IInv'
<1> SUFFICES ASSUME IInv, [AuthNext]_authVars PROVE IInv'
  OBVIOUS
<1>1. ASSUME NEW d \in Device, NEW written \in BOOLEAN, Register(d, written)
      PROVE  IInv'
  BY <1>1, RegisterKeeps
<1>2. ASSUME NEW d \in Device, NEW written \in BOOLEAN, Revoke(d, written)
      PROVE  IInv'
  BY <1>2, RevokeKeeps
<1>3. ASSUME NEW d \in Device, NEW n \in Nonce, Challenge(d, n)
      PROVE  IInv'
  BY <1>3, ChallengeKeeps
<1>4. ASSUME NEW d \in Device, NEW n \in Nonce \cap issued, NEW t \in Token,
             NEW written \in BOOLEAN, Authenticate(d, n, t, written)
      PROVE  IInv'
  BY <1>4, AuthenticateKeeps
<1>5. ASSUME NEW t \in Token \cap issued, Verify(t)
      PROVE  IInv'
  BY <1>5, VerifyKeeps
<1>6. ASSUME NEW s \in Socket, NEW t \in Token, NEW fresh \in Token, Upgrade(s, t, fresh)
      PROVE  IInv'
  BY <1>6, UpgradeKeeps
<1>7. ASSUME NEW s \in Socket, SocketCloses(s)
      PROVE  IInv'
  BY <1>7, SocketClosesKeeps
<1>8. CASE Maintain
  BY <1>8, MaintainKeeps
<1>9. CASE Elapses
  BY <1>9, ElapsesKeeps
<1>10. CASE DshReadiness
  BY <1>10, StutterKeeps DEF DshReadiness
<1>11. CASE Restart
  BY <1>11, RestartKeeps
<1>12. CASE UNCHANGED authVars
  BY <1>12, StutterKeeps DEF authVars
<1> QED
  BY <1>1, <1>2, <1>3, <1>4, <1>5, <1>6, <1>7, <1>8, <1>9, <1>10, <1>11, <1>12 DEF AuthNext

-----------------------------------------------------------------------------
\* The inductive invariant holds in every behaviour of the registry, the tokens and the
\* streams, whatever fails to be written and whenever the bridge restarts.
THEOREM IInvHolds == AuthSpec => []IInv
  BY InitEstablishesIInv, StepPreservesIInv, PTL DEF AuthSpec

\* A revocation that was reported to the operator is complete and stays so: whatever
\* requests, failed writes and restarts follow, the device is out in memory and on disk,
\* and holds no stream, token or nonce (registry.ts, revoke; tokens.ts, revokeDeviceTokens).
THEOREM RevocationIsComplete == AuthSpec => []RevokedIsOut
<1>1. IInv => RevokedIsOut
  BY DEF IInv
<1> QED
  BY <1>1, IInvHolds, PTL

\* The token handed out on a stream is accepted no more once that stream is closed, and
\* is never issued a second time (server.ts, handleUpgrade, onClose).
THEOREM StreamTokensDie == AuthSpec => []StreamTokenDiesWithIt
<1>1. IInv => StreamTokenDiesWithIt
  BY DEF IInv
<1> QED
  BY <1>1, IInvHolds, PTL

\* A device that is paired again starts from nothing, as long as no write of the registry
\* failed: every token and nonce that is good belongs to its present pairing.
THEOREM PairingsAreSeparate == AuthSpec => []NothingOutlivesAPairing
<1>1. ASSUME IInv
      PROVE  NothingOutlivesAPairing
  <2> SUFFICES ASSUME failures = 0
               PROVE  /\ \A t \in Token : Accepts(t) =>
                           tokens[t].pairing = devices[tokens[t].device].pairing
                      /\ \A n \in Nonce : \A d \in Device : Proves(d, n) =>
                           nonces[n].pairing = devices[d].pairing
    BY DEF NothingOutlivesAPairing
  <2>1. \A t \in Token : Current(tokens[t])
    BY <1>1 DEF IInv, WrittenIsCurrent
  <2>2. \A n \in Nonce : Current(nonces[n])
    BY <1>1 DEF IInv, WrittenIsCurrent
  <2> QED
    BY <2>1, <2>2, AuthAssumption DEF Current, Accepts, Proves
<1> QED
  BY <1>1, IInvHolds, PTL

-----------------------------------------------------------------------------
\* Access.

\* Confirm registers, RevokeDevice revokes, RestartBridge restarts; the rest is a step
\* of AuthService as it stands, or none.
LEMMA StepIsAuthStep == [AccessNext]_accessVars => [AuthNext]_authVars
<1> SUFFICES ASSUME [AccessNext]_accessVars PROVE AuthNext \/ UNCHANGED authVars
  OBVIOUS
<1>1. ASSUME NEW d \in Device, NEW t \in Tiers, NEW overRelay \in BOOLEAN,
             NEW written \in BOOLEAN, Confirm(d, t, overRelay, written)
      PROVE  AuthNext
  BY <1>1 DEF Confirm, AuthNext
<1>2. ASSUME NEW written \in BOOLEAN, ConfirmRoutes(written) \/ RemoveRoute(written)
      PROVE  UNCHANGED authVars
  BY <1>2 DEF ConfirmRoutes, RemoveRoute, AddRoute
<1>3. ASSUME NEW d \in Device, NEW written \in BOOLEAN,
             AssignRoute(d, written) \/ RevokeDevice(d, written)
      PROVE  AuthNext \/ UNCHANGED authVars
  BY <1>3 DEF AssignRoute, AddRoute, RevokeDevice, AuthNext
<1>4. ASSUME NEW d \in Device, LingerEnds(d) PROVE UNCHANGED authVars
  BY <1>4 DEF LingerEnds
<1>5. ASSUME NEW url, NEW written, SetRelay(url, written) PROVE UNCHANGED authVars
  BY <1>5 DEF SetRelay
<1>6. ASSUME NEW url, TerminalReads \/ TerminalWrites(url) PROVE UNCHANGED authVars
  BY <1>6 DEF TerminalReads, TerminalWrites
<1>7. ASSUME NEW c \in Call, NEW t \in Token \cap issued, Authorize(c, t) PROVE AuthNext
  BY <1>7 DEF Authorize, AuthNext
<1>8. ASSUME NEW c, NEW method, NEW sound, NEW connected,
             Evaluate(c, method, sound, connected) \/ CallEnds(c) PROVE UNCHANGED authVars
  BY <1>8 DEF Evaluate, CallEnds
<1>9. ASSUME NEW d \in Device, NEW n \in Nonce \cap issued, NEW t \in Token,
             NEW written \in BOOLEAN, AuthenticateDevice(d, n, t, written)
      PROVE  AuthNext
  BY <1>9 DEF AuthenticateDevice, AuthNext
<1>10. ASSUME \/ \E d \in Device, n \in Nonce : Challenge(d, n)
              \/ \E t \in Token \cap issued : Verify(t)
              \/ \E s \in Socket, t, fresh \in Token : Upgrade(s, t, fresh)
              \/ \E s \in Socket : SocketCloses(s)
              \/ Maintain \/ Elapses \/ DshReadiness
       PROVE  AuthNext
  BY <1>10 DEF AuthNext
<1>11. ASSUME NEW pin, RestartBridge(pin) PROVE AuthNext
  BY <1>11 DEF RestartBridge, AuthNext
<1>12. CASE UNCHANGED accessVars
  BY <1>12 DEF accessVars
<1> QED
  BY <1>1, <1>2, <1>3, <1>4, <1>5, <1>6, <1>7, <1>8, <1>9, <1>10, <1>11, <1>12 DEF AccessNext

\* The bridge with its calls, routes, relay and terminal implements AuthService: the
\* handlers around the registry, the tokens and the streams leave their rules intact.
THEOREM AccessImplementsAuth == AccessSpec => AuthSpec
<1>1. AccessInit => AuthInit
  BY DEF AccessInit
<1> QED
  BY <1>1, StepIsAuthStep, PTL DEF AccessSpec, AuthSpec

\* So a reported revocation stays complete (registry.ts, revoke).
THEOREM AccessKeepsRevokedOut == AccessSpec => []RevokedIsOut
  BY AccessImplementsAuth, RevocationIsComplete, PTL

-----------------------------------------------------------------------------
\* Tunnels: syncConnectors asks the registry, and a reported device is revoked there
\* and in its file.

LEMMA TunnelsInit == AccessInit => NoTunnelForTheRevoked
  BY DEF AccessInit, NoTunnelForTheRevoked

\* syncConnectors asks the registry: no step starts a connector for a device that was
\* reported revoked.
LEMMA TunnelsStep ==
  NoTunnelForTheRevoked /\ IInv /\ [AccessNext]_accessVars => NoTunnelForTheRevoked'
<1> SUFFICES ASSUME NoTunnelForTheRevoked, IInv, [AccessNext]_accessVars
             PROVE  NoTunnelForTheRevoked'
  OBVIOUS
<1>1. \A d \in reported : devices[d].state = "revoked" /\ disk[d].state = "revoked"
  BY DEF IInv, RevokedIsOut
<1>2. ASSUME reported' \subseteq reported, connectors' \subseteq connectors
      PROVE  NoTunnelForTheRevoked'
  BY <1>2 DEF NoTunnelForTheRevoked
<1>3. ASSUME NEW d \in Device, NEW t \in Tiers, NEW overRelay \in BOOLEAN,
             NEW written \in BOOLEAN, Confirm(d, t, overRelay, written)
      PROVE  NoTunnelForTheRevoked'
  BY <1>2, <1>3 DEF Confirm, Register
<1>4. ASSUME NEW d, NEW written \in BOOLEAN, AddRoute(d, written)
      PROVE  NoTunnelForTheRevoked'
  BY <1>1, <1>4 DEF AddRoute, authVars, registryVars, Synced, NoTunnelForTheRevoked
<1>5. ASSUME NEW d \in Device, NEW written \in BOOLEAN, RevokeDevice(d, written)
      PROVE  NoTunnelForTheRevoked'
  BY <1>5 DEF RevokeDevice, Revoke, NoTunnelForTheRevoked
<1>6. ASSUME NEW written \in BOOLEAN, RemoveRoute(written) PROVE NoTunnelForTheRevoked'
  BY <1>2, <1>6 DEF RemoveRoute, authVars, registryVars
<1>7. ASSUME NEW d, LingerEnds(d) PROVE NoTunnelForTheRevoked'
  BY <1>2, <1>7 DEF LingerEnds, authVars, registryVars
<1>8. ASSUME NEW url, NEW written, SetRelay(url, written) \/ TerminalReads \/ TerminalWrites(url)
      PROVE  NoTunnelForTheRevoked'
  BY <1>2, <1>8 DEF SetRelay, TerminalReads, TerminalWrites, routeVars, authVars, registryVars
<1>9. ASSUME NEW c, NEW t, Authorize(c, t) PROVE NoTunnelForTheRevoked'
  BY <1>2, <1>9 DEF Authorize, Verify, routeVars, registryVars
<1>10. ASSUME NEW c, NEW method, NEW sound, NEW connected,
             Evaluate(c, method, sound, connected) \/ CallEnds(c)
       PROVE  NoTunnelForTheRevoked'
  BY <1>2, <1>10 DEF Evaluate, CallEnds, routeVars, authVars, registryVars
<1>11. ASSUME NEW d, NEW n, NEW t, NEW written, AuthenticateDevice(d, n, t, written)
       PROVE  NoTunnelForTheRevoked'
  BY <1>2, <1>11 DEF AuthenticateDevice, Authenticate, routeVars
<1>12. ASSUME Unaffected,
              \/ \E d \in Device, n \in Nonce : Challenge(d, n)
              \/ \E t \in Token \cap issued : Verify(t)
              \/ \E s \in Socket, t, fresh \in Token : Upgrade(s, t, fresh)
              \/ \E s \in Socket : SocketCloses(s)
              \/ Maintain \/ Elapses \/ DshReadiness
       PROVE  NoTunnelForTheRevoked'
  <2>1. reported' = reported
    BY <1>12 DEF Challenge, Verify, Upgrade, SocketCloses, Maintain, Elapses, DshReadiness,
                 registryVars
  <2> QED
    BY <1>2, <1>12, <2>1 DEF Unaffected, routeVars
<1>13. ASSUME NEW pin, RestartBridge(pin) PROVE NoTunnelForTheRevoked'
  BY <1>1, <1>13 DEF RestartBridge, Restart, Synced, NoTunnelForTheRevoked
<1>14. CASE UNCHANGED accessVars
  BY <1>2, <1>14 DEF accessVars, routeVars, authVars, registryVars
<1> QED
  BY <1>3, <1>4, <1>5, <1>6, <1>7, <1>8, <1>9, <1>10, <1>11, <1>12, <1>13, <1>14
     DEF AccessNext, ConfirmRoutes, AssignRoute

\* No connector is there, or started again, for a device whose revocation was reported:
\* bridge.ts, syncConnectors and scheduleConnectorTeardown.
THEOREM TunnelsDie == AccessSpec => []NoTunnelForTheRevoked
<1>1. AccessSpec => []IInv
  BY AccessImplementsAuth, IInvHolds, PTL
<1> QED
  BY <1>1, TunnelsInit, TunnelsStep, PTL DEF AccessSpec

-----------------------------------------------------------------------------
\* Calls: a call carries what the operator chose, because a record does.

Under(c) == call[c].state \in {"reading", "forwarded"}

TierTypes ==
  /\ tier.now \in [Device -> Tiers] /\ tier.disk \in [Device -> Tiers]
  /\ tier = [now |-> tier.now, disk |-> tier.disk]
  /\ chosen \in [Device -> [1..MaxPairings -> Tiers]]
  /\ DOMAIN call = Call

\* A record that was paired counts from one; the file is never ahead of memory.
PairingsCount ==
  \A d \in Device :
    /\ devices[d].pairing \in 0..MaxPairings /\ disk[d].pairing \in 0..devices[d].pairing
    /\ devices[d].state = "active" => devices[d].pairing # 0
    /\ disk[d].state = "active" => disk[d].pairing # 0

TiersAreChosen ==
  \A d \in Device :
    /\ devices[d].pairing # 0 => tier.now[d] = chosen[d][devices[d].pairing]
    /\ disk[d].pairing # 0 => tier.disk[d] = chosen[d][disk[d].pairing]

CallsAreOfPairings ==
  \A c \in Call : Under(c) =>
    /\ call[c].device \in Device
    /\ call[c].pairing \in 1..devices[call[c].device].pairing
    /\ call[c].tier = chosen[call[c].device][call[c].pairing]
    /\ call[c].state = "forwarded" => call[c].method \in Allowed(call[c].tier) \ {"respond"}

TInv == TierTypes /\ PairingsCount /\ TiersAreChosen /\ CallsAreOfPairings

\* At the first start no device has a tier.
LEMMA TInvInit == AccessInit => TInv
<1> SUFFICES ASSUME AccessInit PROVE TInv
  OBVIOUS
<1>1. TierTypes
  BY DEF AccessInit, TierTypes, Tiers
<1>2. PairingsCount
  BY AuthAssumption DEF AccessInit, AuthInit, unknown, PairingsCount
<1>3. TiersAreChosen
  BY DEF AccessInit, AuthInit, unknown, TiersAreChosen
<1>4. CallsAreOfPairings
  BY DEF AccessInit, noCall, Under, CallsAreOfPairings
<1> QED
  BY <1>1, <1>2, <1>3, <1>4 DEF TInv

\* A pairing brings the tier the operator chose, and it alone.
LEMMA ConfirmKeepsTiers ==
  ASSUME TInv, IInv, NEW d \in Device, NEW t \in Tiers, NEW overRelay \in BOOLEAN,
         NEW written \in BOOLEAN, Confirm(d, t, overRelay, written)
  PROVE  TInv'
<1> DEFINE p == devices[d].pairing + 1
<1>1. /\ devices[d].pairing < MaxPairings
      /\ devices' = [devices EXCEPT ![d] = [state |-> "active", pairing |-> p]]
      /\ \/ written /\ disk' = devices'
         \/ ~ written /\ disk' = disk
      /\ call' = call
  BY DEF Confirm, Register, Persist
<1>2. /\ tier' = [now  |-> [tier.now EXCEPT ![d] = t],
                  disk |-> IF written THEN [tier.now EXCEPT ![d] = t] ELSE tier.disk]
      /\ chosen' = [chosen EXCEPT ![d][devices'[d].pairing] = t]
  BY DEF Confirm, TierWritten
<1>3. devices \in [Device -> Record] /\ disk \in [Device -> Record] /\ p \in 1..MaxPairings
  BY <1>1, AuthAssumption DEF IInv, AuthTypes, Record, TInv, PairingsCount
<1>4. /\ devices'[d] = [state |-> "active", pairing |-> p]
      /\ \A e \in Device \ {d} : devices'[e] = devices[e]
  BY <1>1, <1>3
<1>5. chosen' = [chosen EXCEPT ![d] = [chosen[d] EXCEPT ![p] = t]]
  BY <1>2, <1>4
<1>6. /\ chosen' \in [Device -> [1..MaxPairings -> Tiers]]
      /\ chosen'[d][p] = t
      /\ \A q \in 1..MaxPairings : q # p => chosen'[d][q] = chosen[d][q]
      /\ \A e \in Device \ {d} : chosen'[e] = chosen[e]
  BY <1>3, <1>5 DEF TInv, TierTypes
<1>7. TierTypes'
  BY <1>1, <1>2, <1>6 DEF TInv, TierTypes
<1>8. PairingsCount'
  <2> SUFFICES ASSUME NEW e \in Device
               PROVE  /\ devices'[e].pairing \in 0..MaxPairings
                      /\ disk'[e].pairing \in 0..devices'[e].pairing
                      /\ devices'[e].state = "active" => devices'[e].pairing # 0
                      /\ disk'[e].state = "active" => disk'[e].pairing # 0
    BY DEF PairingsCount
  <2>1. devices[e].pairing \in Nat /\ disk[e].pairing \in 0..devices[e].pairing
    BY <1>3 DEF Record, TInv, PairingsCount
  <2>2. /\ devices[e].pairing \in 0..MaxPairings
        /\ devices[e].state = "active" => devices[e].pairing # 0
        /\ disk[e].state = "active" => disk[e].pairing # 0
    BY DEF TInv, PairingsCount
  <2>3. CASE e = d
    BY <1>1, <1>3, <1>4, <2>1, <2>2, <2>3, AuthAssumption
  <2>4. CASE e # d
    <3>1. devices'[e] = devices[e] /\ (disk'[e] = disk[e] \/ disk'[e] = devices[e])
      BY <1>1, <1>4, <2>4
    <3>2. devices[e].pairing \in 0..devices[e].pairing
      BY <2>1
    <3> QED
      BY <2>1, <2>2, <3>1, <3>2
  <2> QED
    BY <2>3, <2>4
<1>9. TiersAreChosen'
  <2> SUFFICES ASSUME NEW e \in Device
               PROVE  /\ devices'[e].pairing # 0 => tier'.now[e] = chosen'[e][devices'[e].pairing]
                      /\ disk'[e].pairing # 0 => tier'.disk[e] = chosen'[e][disk'[e].pairing]
    BY DEF TiersAreChosen
  <2>1. /\ devices[e].pairing # 0 => tier.now[e] = chosen[e][devices[e].pairing]
        /\ disk[e].pairing # 0 => tier.disk[e] = chosen[e][disk[e].pairing]
        /\ disk[e].pairing \in 0..devices[e].pairing
        /\ devices[e].pairing \in 0..MaxPairings
    BY DEF TInv, TiersAreChosen, PairingsCount
  <2>2. tier.now \in [Device -> Tiers]
    BY DEF TInv, TierTypes
  <2>3. CASE e = d
    <3>1. disk[d].pairing # p /\ disk[d].pairing \in 0..MaxPairings
      BY <2>1, <2>3, <1>3, AuthAssumption
    <3>2. tier'.now[d] = t
      BY <1>2, <2>2
    <3>3. CASE written
      BY <1>1, <1>2, <1>4, <1>6, <2>2, <2>3, <3>2, <3>3
    <3>4. CASE ~ written
      BY <1>1, <1>2, <1>4, <1>6, <2>1, <2>3, <3>1, <3>2, <3>4, AuthAssumption
    <3> QED
      BY <3>3, <3>4
  <2>4. CASE e # d
    BY ZenonT(40), <1>1, <1>2, <1>4, <1>6, <2>1, <2>2, <2>4
  <2> QED
    BY <2>3, <2>4
<1>10. CallsAreOfPairings'
  <2> SUFFICES ASSUME NEW c \in Call, Under(c)
               PROVE  /\ call[c].device \in Device
                      /\ call[c].pairing \in 1..devices'[call[c].device].pairing
                      /\ call[c].tier = chosen'[call[c].device][call[c].pairing]
                      /\ call[c].state = "forwarded" =>
                           call[c].method \in Allowed(call[c].tier) \ {"respond"}
    BY <1>1 DEF CallsAreOfPairings, Under, Allowed
  <2>1. /\ call[c].device \in Device
        /\ call[c].pairing \in 1..devices[call[c].device].pairing
        /\ call[c].tier = chosen[call[c].device][call[c].pairing]
        /\ call[c].state = "forwarded" =>
             call[c].method \in Allowed(call[c].tier) \ {"respond"}
    BY DEF TInv, CallsAreOfPairings
  <2>2. CASE call[c].device = d
    <3>1. devices[d].pairing \in 0..MaxPairings
      BY DEF TInv, PairingsCount
    <3>2. call[c].pairing # p /\ call[c].pairing \in 1..MaxPairings /\ call[c].pairing \in 1..p
      BY <2>1, <2>2, <3>1, AuthAssumption
    <3> QED
      BY <1>4, <1>6, <2>1, <2>2, <3>2
  <2>3. CASE call[c].device # d
    BY <1>4, <1>6, <2>1, <2>3
  <2> QED
    BY <2>2, <2>3
<1> QED
  BY <1>7, <1>8, <1>9, <1>10 DEF TInv

\* What writes the registry without counting a pairing: the file may catch up, with the
\* tiers in memory.
LEMMA WritesKeepTiers ==
  ASSUME TInv, call' = call, chosen' = chosen,
         \A d \in Device : devices'[d].pairing = devices[d].pairing,
         \A d \in Device : devices'[d].state = "active" => devices[d].state = "active",
         tier'.now = tier.now, tier' = [now |-> tier'.now, disk |-> tier'.disk],
         \/ disk' = disk /\ tier'.disk = tier.disk
         \/ disk' = devices' /\ tier'.disk = tier.now
  PROVE  TInv'
<1>1. TierTypes'
  BY DEF TInv, TierTypes
<1>2. PairingsCount'
  BY AuthAssumption DEF TInv, PairingsCount
<1>3. TiersAreChosen'
  BY DEF TInv, TiersAreChosen
<1>4. CallsAreOfPairings'
  BY DEF TInv, CallsAreOfPairings, Under, Allowed
<1> QED
  BY <1>1, <1>2, <1>3, <1>4 DEF TInv

\* What touches the registry not at all, and one call at most.
LEMMA CallsKeepTiers ==
  ASSUME TInv, UNCHANGED <<devices, disk, tier, chosen>>, DOMAIN call' = Call,
         \A c \in Call :
           \/ call'[c] = call[c]
           \/ Under(c)' =>
                /\ call'[c].device \in Device
                /\ call'[c].pairing \in 1..devices[call'[c].device].pairing
                /\ call'[c].tier = chosen[call'[c].device][call'[c].pairing]
                /\ call'[c].state = "forwarded" =>
                     call'[c].method \in Allowed(call'[c].tier) \ {"respond"}
  PROVE  TInv'
<1>1. TierTypes' /\ PairingsCount' /\ TiersAreChosen'
  BY DEF TInv, TierTypes, PairingsCount, TiersAreChosen
<1>2. CallsAreOfPairings'
  BY DEF TInv, CallsAreOfPairings, Under, Allowed
<1> QED
  BY <1>1, <1>2 DEF TInv

\* A revocation changes neither tier nor file's tier.
LEMMA RevokeKeepsTiers ==
  ASSUME TInv, IInv, NEW d \in Device, NEW written \in BOOLEAN, RevokeDevice(d, written)
  PROVE  TInv'
<1>1. /\ Active(d) /\ devices' = [devices EXCEPT ![d].state = "revoked"]
      /\ \/ written /\ disk' = devices'
         \/ ~ written /\ disk' = disk
  BY DEF RevokeDevice, Revoke, Persist
<1>2. /\ tier' = [now |-> tier.now, disk |-> IF written THEN tier.now ELSE tier.disk]
      /\ call' = call /\ chosen' = chosen
  BY DEF RevokeDevice, TierWritten
<1>3. \A e \in Device : /\ devices'[e].pairing = devices[e].pairing
                        /\ devices'[e].state = "active" => devices[e].state = "active"
  BY <1>1 DEF IInv, AuthTypes, Record
<1> QED
  BY <1>1, <1>2, <1>3, WritesKeepTiers

\* The touch writes the records as they are.
LEMMA AuthenticateKeepsTiers ==
  ASSUME TInv, NEW d, NEW n, NEW t, NEW written \in BOOLEAN,
         AuthenticateDevice(d, n, t, written)
  PROVE  TInv'
<1>1. /\ devices' = devices /\ call' = call /\ chosen' = chosen
      /\ \/ written /\ Proves(d, n) /\ disk' = devices'
         \/ ~ (written /\ Proves(d, n)) /\ disk' = disk
  BY DEF AuthenticateDevice, Authenticate, Persist
<1>2. tier' = [now |-> tier.now, disk |-> IF written /\ Proves(d, n) THEN tier.now ELSE tier.disk]
  BY DEF AuthenticateDevice, TierWritten
<1> QED
  BY <1>1, <1>2, WritesKeepTiers

\* A call is authorized under the record of the moment.
LEMMA AuthorizeKeepsTiers ==
  ASSUME TInv, IInv, NEW c \in Call, NEW t \in Token, Authorize(c, t)
  PROVE  TInv'
<1> DEFINE d == tokens[t].device
<1>1. UNCHANGED <<devices, disk, tier, chosen>>
  BY DEF Authorize, Verify, registryVars
<1>2. CASE Accepts(t)
  <2>1. call' = [call EXCEPT ![c] =
          [state |-> "reading", device |-> d, pairing |-> devices[d].pairing,
           tier |-> tier.now[d], method |-> "none"]]
    BY <1>2 DEF Authorize
  <2>2. d \in Device /\ devices[d].state = "active"
    BY <1>2 DEF Accepts, Active, IInv, AuthTypes, Credential
  <2>3. devices[d].pairing \in 1..devices[d].pairing /\ tier.now[d] = chosen[d][devices[d].pairing]
    BY <2>2, AuthAssumption DEF TInv, PairingsCount, TiersAreChosen
  <2>4. DOMAIN call' = Call /\ \A x \in Call \ {c} : call'[x] = call[x]
    BY <2>1 DEF TInv, TierTypes
  <2>5. call'[c] = [state |-> "reading", device |-> d, pairing |-> devices[d].pairing,
                    tier |-> tier.now[d], method |-> "none"]
    BY <2>1 DEF TInv, TierTypes
  <2>6. /\ call'[c].device \in Device
        /\ call'[c].pairing \in 1..devices[call'[c].device].pairing
        /\ call'[c].tier = chosen[call'[c].device][call'[c].pairing]
        /\ call'[c].state # "forwarded"
    BY <2>2, <2>3, <2>5
  <2>7. \A x \in Call :
          \/ call'[x] = call[x]
          \/ /\ call'[x].device \in Device
             /\ call'[x].pairing \in 1..devices'[call'[x].device].pairing
             /\ call'[x].tier = chosen'[call'[x].device][call'[x].pairing]
             /\ call'[x].state # "forwarded"
    BY <1>1, <2>4, <2>6
  <2> QED
    BY ZenonT(40), <1>1, <2>4, <2>7, CallsKeepTiers
<1>3. CASE ~ Accepts(t)
  <2>1. /\ DOMAIN call' = Call
        /\ \A x \in Call : call'[x] = call[x] \/ ~ Under(x)'
    BY <1>3 DEF Authorize, TInv, TierTypes, Under, noCall
  <2> QED
    BY <1>1, <2>1, CallsKeepTiers
<1> QED
  BY <1>2, <1>3

\* The gate reads the call's own record.
LEMMA EvaluateKeepsTiers ==
  ASSUME TInv, NEW c \in Call, NEW method, NEW sound, NEW connected,
             Evaluate(c, method, sound, connected) \/ CallEnds(c)
  PROVE  TInv'
<1>1. UNCHANGED <<devices, disk, tier, chosen>>
  BY DEF Evaluate, CallEnds, authVars, registryVars
<1>2. CASE call' = [call EXCEPT ![c] = [noCall EXCEPT !.state = "ended"]]
  <2>1. /\ DOMAIN call' = Call
        /\ \A x \in Call : call'[x] = call[x] \/ ~ Under(x)'
    BY <1>2 DEF TInv, TierTypes, Under, noCall
  <2> QED
    BY <1>1, <2>1, CallsKeepTiers
<1>3. CASE /\ call[c].state = "reading" /\ method \in Allowed(call[c].tier) \ {"respond"}
           /\ call' = [call EXCEPT ![c].state = "forwarded", ![c].method = method]
  <2>1. DOMAIN call' = Call /\ \A x \in Call \ {c} : call'[x] = call[x]
    BY <1>3 DEF TInv, TierTypes
  <2>2. /\ call[c].device \in Device
        /\ call[c].pairing \in 1..devices[call[c].device].pairing
        /\ call[c].tier = chosen[call[c].device][call[c].pairing]
    BY <1>3 DEF TInv, CallsAreOfPairings, Under
  <2>3. Under(c)' => /\ call'[c].device = call[c].device /\ call'[c].pairing = call[c].pairing
                     /\ call'[c].tier = call[c].tier /\ call'[c].method = method
    BY <1>3 DEF TInv, TierTypes, Under
  <2> QED
    BY ZenonT(40), <1>1, <1>3, <2>1, <2>2, <2>3, CallsKeepTiers
<1> QED
  BY <1>2, <1>3 DEF Evaluate, CallEnds, Admits

\* A restart reads what was written.
LEMMA RestartKeepsTiers ==
  ASSUME TInv, NEW pin, RestartBridge(pin)
  PROVE  TInv'
<1>1. /\ devices' = disk /\ disk' = disk /\ chosen' = chosen
      /\ call' = [c \in Call |-> noCall]
  BY DEF RestartBridge, Restart
<1>2. tier' = [now |-> tier.disk, disk |-> tier.disk]
  BY DEF RestartBridge, TInv, TierTypes
<1>3. TierTypes'
  BY <1>1, <1>2 DEF TInv, TierTypes
<1>4. PairingsCount'
  BY <1>1, AuthAssumption DEF TInv, PairingsCount
<1>5. TiersAreChosen'
  BY <1>1, <1>2 DEF TInv, TiersAreChosen
<1>6. CallsAreOfPairings'
  BY <1>1 DEF CallsAreOfPairings, Under, noCall
<1> QED
  BY <1>3, <1>4, <1>5, <1>6 DEF TInv

\* All the steps of the composition.
LEMMA TInvStep == TInv /\ IInv /\ [AccessNext]_accessVars => TInv'
<1> SUFFICES ASSUME TInv, IInv, [AccessNext]_accessVars PROVE TInv'
  OBVIOUS
<1>1. ASSUME UNCHANGED <<devices, disk, tier, call, chosen>> PROVE TInv'
  BY <1>1 DEF TInv, TierTypes, PairingsCount, TiersAreChosen, CallsAreOfPairings, Under
<1>2. ASSUME NEW d \in Device, NEW t \in Tiers, NEW overRelay \in BOOLEAN,
             NEW written \in BOOLEAN, Confirm(d, t, overRelay, written)
      PROVE  TInv'
  BY <1>2, ConfirmKeepsTiers
<1>3. ASSUME NEW d, NEW written, AddRoute(d, written) \/ RemoveRoute(written) \/ LingerEnds(d)
      PROVE  TInv'
  BY <1>1, <1>3 DEF AddRoute, RemoveRoute, LingerEnds, authVars, registryVars
<1>4. ASSUME NEW d \in Device, NEW written \in BOOLEAN, RevokeDevice(d, written) PROVE TInv'
  BY <1>4, RevokeKeepsTiers
<1>5. ASSUME NEW url, NEW written, SetRelay(url, written) \/ TerminalReads \/ TerminalWrites(url)
      PROVE  TInv'
  BY <1>1, <1>5 DEF SetRelay, TerminalReads, TerminalWrites, authVars, registryVars
<1>6. ASSUME NEW c \in Call, NEW t \in Token, Authorize(c, t) PROVE TInv'
  BY <1>6, AuthorizeKeepsTiers
<1>7. ASSUME NEW c \in Call, NEW method, NEW sound, NEW connected,
             Evaluate(c, method, sound, connected) \/ CallEnds(c) PROVE TInv'
  BY <1>7, EvaluateKeepsTiers
<1>8. ASSUME NEW d, NEW n, NEW t, NEW written \in BOOLEAN, AuthenticateDevice(d, n, t, written)
      PROVE  TInv'
  BY <1>8, AuthenticateKeepsTiers
<1>9. ASSUME Unaffected,
             \/ \E d \in Device, n \in Nonce : Challenge(d, n)
             \/ \E t \in Token \cap issued : Verify(t)
             \/ \E s \in Socket, t, fresh \in Token : Upgrade(s, t, fresh)
             \/ \E s \in Socket : SocketCloses(s)
             \/ Maintain \/ Elapses \/ DshReadiness
      PROVE  TInv'
  <2>1. UNCHANGED <<devices, disk>>
    BY <1>9 DEF Challenge, Verify, Upgrade, SocketCloses, Maintain, Elapses, DshReadiness,
                registryVars
  <2> QED
    BY <1>1, <1>9, <2>1 DEF Unaffected
<1>10. ASSUME NEW pin, RestartBridge(pin) PROVE TInv'
  BY <1>10, RestartKeepsTiers
<1>11. CASE UNCHANGED accessVars
  BY <1>1, <1>11 DEF accessVars, authVars, registryVars
<1> QED
  BY <1>2, <1>3, <1>4, <1>5, <1>6, <1>7, <1>8, <1>9, <1>10, <1>11
     DEF AccessNext, ConfirmRoutes, AssignRoute

\* What dsh is asked is within the tier that the operator chose for the pairing by which
\* the caller was let in: server.ts, authorize and handleRpc; gate.ts, evaluate.
THEOREM CallsStayInScope == AccessSpec => []CallsAreInScope
<1>1. AccessSpec => []IInv
  BY AccessImplementsAuth, IInvHolds, PTL
<1>2. AccessSpec => []TInv
  BY <1>1, TInvInit, TInvStep, PTL DEF AccessSpec
<1>3. ASSUME TInv PROVE CallsAreInScope
  <2> SUFFICES ASSUME NEW c \in Call, call[c].state = "forwarded"
               PROVE  \/ call[c].method = "default"
                      \/ /\ call[c].method = "opt-in"
                         /\ chosen[call[c].device][call[c].pairing] = "extended"
    BY DEF CallsAreInScope
  <2>1. /\ call[c].method \in Allowed(call[c].tier) \ {"respond"}
        /\ call[c].tier = chosen[call[c].device][call[c].pairing]
    BY <1>3 DEF TInv, CallsAreOfPairings, Under
  <2> QED
    BY <2>1 DEF Allowed
<1> QED
  BY <1>2, <1>3, PTL

-----------------------------------------------------------------------------
\* The relay: a pin is the relay in use, and the copy is the file until another process
\* writes it or a write fails.

HInv ==
  /\ running.pin # None => running.active = running.pin
  /\ ~ foreign /\ unsaved = 0 => identity = file
  /\ unsaved \in Nat

\* All the steps of the composition: who writes the file, and who only reads it.
LEMMA HInvStep == HInv /\ [AccessNext]_accessVars => HInv'
<1> SUFFICES ASSUME HInv, [AccessNext]_accessVars PROVE HInv'
  OBVIOUS
<1>1. ASSUME UNCHANGED <<running, foreign, unsaved, identity, file>> PROVE HInv'
  BY <1>1 DEF HInv
<1>2. ASSUME NEW written \in BOOLEAN, Saves(written), running' = running PROVE HInv'
  BY <1>2 DEF Saves, HInv
<1>3. ASSUME NEW d, NEW written \in BOOLEAN, AddRoute(d, written) PROVE HInv'
  BY <1>2, <1>3 DEF AddRoute, relayVars
<1>4. ASSUME NEW written \in BOOLEAN, RemoveRoute(written) PROVE HInv'
  BY <1>1, <1>2, <1>4 DEF RemoveRoute, relayVars
<1>5. ASSUME NEW url, NEW written \in BOOLEAN, SetRelay(url, written) PROVE HInv'
  BY <1>2, <1>5 DEF SetRelay
<1>6. ASSUME NEW url, TerminalWrites(url) PROVE HInv'
  BY <1>6 DEF TerminalWrites, HInv
<1>7. ASSUME NEW pin, RestartBridge(pin) PROVE HInv'
  BY <1>7 DEF RestartBridge, NextRelay, HInv
<1>8. ASSUME NEW d, NEW t, NEW overRelay, NEW written, NEW c, NEW n, NEW method,
             NEW sound, NEW connected,
             \/ Confirm(d, t, overRelay, written) \/ RevokeDevice(d, written) \/ LingerEnds(d)
             \/ TerminalReads \/ Authorize(c, t) \/ Evaluate(c, method, sound, connected)
             \/ CallEnds(c) \/ AuthenticateDevice(d, n, t, written) \/ Unaffected
      PROVE  HInv'
  BY <1>1, <1>8 DEF Confirm, RevokeDevice, LingerEnds, TerminalReads, Authorize, Evaluate,
                    CallEnds, AuthenticateDevice, Unaffected, routeVars, relayVars
<1>9. CASE UNCHANGED accessVars
  BY <1>1, <1>9 DEF accessVars, routeVars, relayVars
<1> QED
  BY <1>3, <1>4, <1>5, <1>6, <1>7, <1>8, <1>9 DEF AccessNext, ConfirmRoutes, AssignRoute

\* The panel's hint says exactly whether a restart would change the relay in use, unless
\* the terminal wrote last or a write failed: panel/api.ts, relayView.
THEOREM HintIsExact == AccessSpec => []RestartHintIsExact
<1>1. AccessInit => HInv
  BY DEF AccessInit, HInv
<1>2. HInv => RestartHintIsExact
  BY DEF HInv, RestartHintIsExact, RestartRequired, NextRelay
<1> QED
  BY <1>1, <1>2, HInvStep, PTL DEF AccessSpec

-----------------------------------------------------------------------------
\* The phone's session core.
State == {"unstarted", "unpaired", "paired", "pairing", "connecting", "reconnecting", "ready",
          "harness-offline", "revoked", "pin-mismatch", "cleared", "refused",
          "relay-unavailable"}
TokenKind == {"none", "good", "dead"}
Attempts == [at : {"free", "challenge", "proof"}, transport : Nat, bridge : Nat, good : BOOLEAN]
Connecting == [at : {"none", "authenticating"}, generation : Nat, transport : Nat,
               auth : Auth \cup {NoAttempt}]
Core == [state : State, bridge : Nat, generation : Nat, transport : Nat, token : TokenKind,
         subscription : {"none", "dialling", "live"}, streamOf : Nat, retryTimer : BOOLEAN,
         connect : Connecting, authInFlight : Auth \cup {NoAttempt}, pairing : BOOLEAN,
         adopting : SUBSET Nat, clearing : SUBSET Nat, rejected : SUBSET Nat,
         auth : [Auth -> Attempts]]
Suspended == [at : {"free", "auth", "calling", "reauth", "recalling"}, transport : Nat,
              generation : Nat, auth : Auth \cup {NoAttempt}, token : TokenKind]

Follows(k) == k.subscription # "none" /\ k.streamOf = k.transport
Counts(k) == /\ k.connect.at # "none"
             /\ k.connect.generation = k.generation /\ k.connect.transport = k.transport

\* Transports are numbered in the order they are built, from one.
Numbered(k, n) ==
  /\ k.transport <= n /\ k.streamOf <= n /\ k.connect.transport <= n
  /\ \A a \in Auth : k.auth[a].transport <= n
  /\ \A a \in Auth : k.auth[a].at # "free" => k.auth[a].transport # 0
  /\ k.subscription # "none" => k.streamOf # 0

\* A connect under way is of a generation that has begun, and nothing follows the
\* stream of the current transport before it is over.
ConnectsFirst(k) ==
  k.connect.at # "none" => /\ k.connect.transport # 0
                           /\ k.connect.generation <= k.generation
                           /\ k.subscription # "none" => k.streamOf # k.transport

\* What the session waits for besides the bridge: the pairing run and the writes to the
\* store, those that were rejected among them.
Pending(k) == <<k.pairing, k.adopting, k.clearing, k.rejected>>
Waits(k) == k.pairing \/ k.generation \in k.adopting \cup k.clearing \cup k.rejected

\* Only generations that have begun issued a write, and a session that pairs has started
\* and was not revoked since.
Ledger(k) == /\ \A g \in k.adopting \cup k.clearing \cup k.rejected : g <= k.generation
             /\ k.pairing => k.state \notin {"revoked", "unstarted"}

\* It is ready over a live stream, or has not yet said that it was cleared.
Readiness == {"ready", "harness-offline"}
ReadyOnlyLive(k) ==
  k.state \in Readiness => \/ k.subscription = "live" /\ k.streamOf = k.transport
                           \/ k.generation \in k.clearing \cup k.rejected

\* A session that has lost its bridge holds nothing of it, and no connect counts.
HoldsNothing(k) ==
  k.bridge = 0 => /\ k.token = "none" /\ k.transport = 0 /\ k.subscription = "none"
                  /\ ~ k.retryTimer /\ k.generation \notin k.adopting
                  /\ k.connect.at # "none" => k.connect.generation < k.generation
\* An attempt over the current transport is for a bridge, and the session has one.
OwnAttempts(k) == \A a \in Auth : k.auth[a].at # "free" /\ k.auth[a].transport = k.transport
                                    => k.auth[a].bridge # 0 /\ k.bridge # 0
Moves(k) ==
  ~ Terminal(k) /\ k.state \notin Resting
    => k.retryTimer \/ Follows(k) \/ Counts(k) \/ Waits(k)

Calm(k) == HoldsNothing(k) /\ OwnAttempts(k) /\ Moves(k) /\ (k.state = "unstarted" => k.bridge = 0)

\* What holds in every state, and what the races that are noted can take away.
Fields(k, n) == /\ k \in Core /\ Numbered(k, n) /\ ConnectsFirst(k) /\ ReadyOnlyLive(k)
                /\ Ledger(k)
CoreInv == Fields(core, built) /\ (Undisturbed => Calm(core))

\* A request that is under way was sent over a transport.
UnderWay(q) == q.at # "free" \/ q.auth # NoAttempt
RequestInv == /\ request \in [Request -> Suspended]
              /\ \A r \in Request : UnderWay(request[r]) => request[r].transport # 0

\* A phone whose device the bridge never knew has begun nothing.
Bare(k) == /\ k.bridge = 0 /\ k.transport = 0 /\ k.authInFlight = NoAttempt
           /\ k.connect.at = "none" /\ k.subscription = "none"
           /\ \A a \in Auth : k.auth[a].at = "free"

CauseInv ==
  /\ device \in {"unpaired", "active", "revoked"} /\ everRevoked \in BOOLEAN
  /\ device = "revoked" => everRevoked
  /\ core.state = "revoked" /\ "nonce lost" \notin mishaps => everRevoked
  /\ device = "unpaired" => Bare(core)

M1Inv == /\ built \in Nat /\ intents \in Nat /\ faults \in Nat
         /\ CoreInv /\ RequestInv /\ CauseInv

-----------------------------------------------------------------------------
\* What the methods do to the fields.

\* A method that begins no generation, no write and no pairing run waits for the same.
LEMMA AlikeWaits ==
  ASSUME NEW k, NEW s, Pending(s) = Pending(k), s.generation = k.generation
  PROVE  /\ Waits(s) <=> Waits(k)
         /\ s.generation \in s.adopting <=> k.generation \in k.adopting
         /\ s.generation \in s.clearing \cup s.rejected
              <=> k.generation \in k.clearing \cup k.rejected
         /\ Ledger(k) /\ (s.state = k.state \/ s.state \notin {"revoked", "unstarted"})
              => Ledger(s)
  BY DEF Pending, Waits, Ledger

\* teardownTransport drops the transport with everything that belongs to it.
LEMMA TeardownTransportFacts ==
  ASSUME NEW k \in Core
  PROVE  LET t == TeardownTransport(k)
         IN  /\ t \in Core
             /\ t.subscription = "none" /\ t.transport = 0
             /\ t.token = "none" /\ t.authInFlight = NoAttempt
             /\ t.state = k.state /\ t.bridge = k.bridge /\ t.generation = k.generation
             /\ t.streamOf = k.streamOf /\ t.retryTimer = k.retryTimer
             /\ t.connect = k.connect /\ Pending(t) = Pending(k) /\ t.auth = k.auth
  BY DEF TeardownTransport, Core, TokenKind, Pending

\* teardown stops the timer as well.
LEMMA TeardownFacts ==
  ASSUME NEW k \in Core
  PROVE  LET t == Teardown(k)
         IN  /\ t \in Core
             /\ t.subscription = "none" /\ t.transport = 0
             /\ t.token = "none" /\ t.authInFlight = NoAttempt /\ t.retryTimer = FALSE
             /\ t.state = k.state /\ t.bridge = k.bridge /\ t.generation = k.generation
             /\ t.streamOf = k.streamOf
             /\ t.connect = k.connect /\ Pending(t) = Pending(k) /\ t.auth = k.auth
<1> DEFINE t == TeardownTransport(k)
<1>1. /\ t \in Core /\ t.subscription = "none" /\ t.transport = 0
      /\ t.token = "none" /\ t.authInFlight = NoAttempt
      /\ t.state = k.state /\ t.bridge = k.bridge /\ t.generation = k.generation
      /\ t.streamOf = k.streamOf /\ t.connect = k.connect
      /\ Pending(t) = Pending(k) /\ t.auth = k.auth
  BY TeardownTransportFacts
<1>2. Teardown(k) = [t EXCEPT !.retryTimer = FALSE]
  BY DEF Teardown
<1> HIDE DEF t
<1>3. Teardown(k) \in Core
  BY ONLY ZenonT(60), <1>1, <1>2 DEF Core
<1> QED BY ONLY <1>1, <1>2, <1>3 DEF Core, Pending

\* scheduleRetry, when the session has not ended.
LEMMA ScheduleRetryFacts ==
  ASSUME NEW k \in Core, ~ Terminal(k)
  PROVE  LET s == ScheduleRetry(k)
         IN  /\ s \in Core
             /\ s.subscription = "none" /\ s.transport = 0
             /\ s.token = "none" /\ s.authInFlight = NoAttempt
             /\ s.state = "reconnecting" /\ s.retryTimer = TRUE
             /\ s.bridge = k.bridge /\ s.generation = k.generation /\ s.streamOf = k.streamOf
             /\ s.connect = k.connect /\ Pending(s) = Pending(k) /\ s.auth = k.auth
<1> DEFINE t == TeardownTransport(k)
<1>1. ScheduleRetry(k) = [t EXCEPT !.state = "reconnecting", !.retryTimer = TRUE]
  BY DEF ScheduleRetry
<1>2. /\ t \in Core /\ t.subscription = "none" /\ t.transport = 0 /\ t.token = "none"
      /\ t.authInFlight = NoAttempt /\ t.bridge = k.bridge /\ t.generation = k.generation
      /\ t.streamOf = k.streamOf /\ t.connect = k.connect /\ Pending(t) = Pending(k)
      /\ t.auth = k.auth
  BY TeardownTransportFacts
<1> HIDE DEF t
<1> QED BY ZenonT(40), <1>1, <1>2 DEF Core, State, Pending

\* applyRevocation, when it was not applied before.
LEMMA ApplyRevocationFacts ==
  ASSUME NEW k \in Core, k.state # "revoked"
  PROVE  LET s == ApplyRevocation(k)
         IN  /\ s \in Core
             /\ s.subscription = "none" /\ s.transport = 0
             /\ s.token = "none" /\ s.authInFlight = NoAttempt
             /\ s.state = "revoked" /\ s.retryTimer = FALSE
             /\ s.bridge = 0 /\ s.generation = k.generation + 1 /\ s.streamOf = k.streamOf
             /\ s.connect = k.connect /\ s.auth = k.auth /\ s.pairing = FALSE
             /\ s.adopting = k.adopting /\ s.clearing = k.clearing /\ s.rejected = k.rejected
<1> DEFINE t == Teardown(k)
<1>1. ApplyRevocation(k) = [t EXCEPT !.generation = t.generation + 1, !.bridge = 0,
                                     !.pairing = FALSE, !.state = "revoked"]
  BY DEF ApplyRevocation
<1>2. /\ t \in Core /\ t.subscription = "none" /\ t.transport = 0 /\ t.token = "none"
      /\ t.authInFlight = NoAttempt /\ t.generation = k.generation /\ t.retryTimer = FALSE
      /\ t.streamOf = k.streamOf /\ t.connect = k.connect /\ Pending(t) = Pending(k)
      /\ t.auth = k.auth
  BY TeardownFacts
<1> HIDE DEF t
<1>3. t.generation + 1 \in Nat
  BY <1>2 DEF Core
<1>4. ApplyRevocation(k) \in Core
  <2>1. PICK state \in State, generation \in Nat, bridge \in Nat :
          state = "revoked" /\ generation = t.generation + 1 /\ bridge = 0
    BY <1>3 DEF State
  <2>2. ApplyRevocation(k) = [t EXCEPT !.generation = generation, !.bridge = bridge,
                                       !.pairing = FALSE, !.state = state]
    BY <1>1, <2>1
  <2> QED BY ONLY ZenonT(60), <1>2, <2>2 DEF Core
<1> QED BY <1>1, <1>2, <1>4 DEF Core, Pending

\* authenticate begins an attempt over the current transport, or joins the one in flight.
LEMMA AuthenticatingFacts ==
  ASSUME NEW k \in Core, NEW a \in Auth
  PROVE  LET s == Authenticating(k, a)
         IN  /\ s \in Core
             /\ s.subscription = k.subscription /\ s.transport = k.transport
             /\ s.token = k.token /\ s.state = k.state /\ s.retryTimer = k.retryTimer
             /\ s.bridge = k.bridge /\ s.generation = k.generation /\ s.streamOf = k.streamOf
             /\ s.connect = k.connect /\ Pending(s) = Pending(k)
             /\ \A b \in Auth : \/ s.auth[b] = k.auth[b]
                                \/ /\ s.auth[b].transport = k.transport
                                   /\ s.auth[b].bridge = k.bridge
                                   /\ k.authInFlight = NoAttempt
             /\ Attempt(k, a) \in Auth \cup {NoAttempt}
  BY DEF Authenticating, Attempt, Core, Attempts, Pending

\* connect builds a transport when a bridge is known and no other call is under way.
Connected(k, t, s) ==
  /\ s \in Core
  /\ s.subscription = k.subscription /\ s.transport = t
  /\ s.token = k.token /\ s.state = "connecting" /\ s.retryTimer = FALSE
  /\ s.bridge = k.bridge /\ s.generation = k.generation /\ s.streamOf = k.streamOf
  /\ s.connect.at # "none" /\ s.connect.generation = k.generation /\ s.connect.transport = t
  /\ Pending(s) = Pending(k)
  /\ \A b \in Auth : \/ s.auth[b] = k.auth[b]
                     \/ s.auth[b].transport = t /\ s.auth[b].bridge = k.bridge

\* What connect leaves when it goes on (Connected).
LEMMA ConnectFacts ==
  ASSUME NEW k \in Core, NEW a \in Auth, NEW t \in Nat, Connects(k), k.connect.at = "none"
  PROVE  Connected(k, t, Connect(k, a, t))
<1> DEFINE c == [k EXCEPT !.retryTimer = FALSE, !.state = "connecting", !.transport = t]
           g == Authenticating(c, a)
<1>1. /\ c \in Core /\ c.transport = t /\ c.state = "connecting" /\ c.retryTimer = FALSE
      /\ c.subscription = k.subscription /\ c.token = k.token /\ c.bridge = k.bridge
      /\ c.generation = k.generation /\ c.streamOf = k.streamOf /\ Pending(c) = Pending(k)
      /\ c.auth = k.auth
  BY DEF Core, State, Pending
<1>2. Connect(k, a, t) = [g EXCEPT !.connect =
                            [at |-> "authenticating", generation |-> k.generation,
                             transport |-> t, auth |-> Attempt(c, a)]]
  BY DEF Connect
<1> HIDE DEF c
<1>3. /\ g \in Core /\ Attempt(c, a) \in Auth \cup {NoAttempt}
      /\ g.subscription = k.subscription /\ g.transport = t
      /\ g.token = k.token /\ g.state = "connecting" /\ g.retryTimer = FALSE
      /\ g.bridge = k.bridge /\ g.generation = k.generation /\ g.streamOf = k.streamOf
      /\ Pending(g) = Pending(k)
      /\ \A b \in Auth : \/ g.auth[b] = k.auth[b]
                         \/ g.auth[b].transport = t /\ g.auth[b].bridge = k.bridge
  BY <1>1, AuthenticatingFacts
<1> HIDE DEF g
<1>4. k.generation \in Nat
  BY DEF Core
<1> QED BY <1>2, <1>3, <1>4 DEF Core, Connecting, Connected, Pending

-----------------------------------------------------------------------------
\* What the methods keep.

\* Whoever tears the transport down leaves the attempts and the connect where they were.
LEMMA TearingKeeps ==
  ASSUME NEW k \in Core, NEW n \in Nat, Numbered(k, n), ConnectsFirst(k),
         NEW s \in Core, s.subscription = "none", s.transport = 0, s.streamOf = k.streamOf,
         s.connect = k.connect, s.auth = k.auth, s.generation >= k.generation
  PROVE  Numbered(s, n) /\ ConnectsFirst(s) /\ OwnAttempts(s)
<1>1. Numbered(s, n)
  BY DEF Numbered
<1>2. ConnectsFirst(s)
  BY DEF ConnectsFirst, Core, Connecting
<1>3. OwnAttempts(s)
  BY DEF OwnAttempts, Numbered
<1> QED BY <1>1, <1>2, <1>3

\* A session that is torn down and has ended, or waits for a pairing or a write, holds
\* nothing: it needs no bridge to be calm, if none of its connects counts.
LEMMA EndingKeeps ==
  ASSUME NEW k \in Core, NEW n \in Nat, Numbered(k, n), ConnectsFirst(k), Ledger(k),
         NEW s \in Core, s.subscription = "none", s.transport = 0, s.token = "none",
         s.retryTimer = FALSE, s.streamOf = k.streamOf,
         s.connect = k.connect, s.auth = k.auth,
         Terminal(s) \/ Waits(s), s.state \in Readiness => s.generation \in s.clearing,
         s.state = "unstarted" => s.bridge = 0,
         s.generation = k.generation + 1, s.adopting = k.adopting, s.rejected = k.rejected,
         s.clearing = k.clearing \/ s.clearing = k.clearing \cup {s.generation},
         s.pairing => s.state \notin {"revoked", "unstarted"}
  PROVE  Fields(s, n) /\ Calm(s)
<1>1. /\ k.generation \in Nat /\ k.connect.generation \in Nat
      /\ k.adopting \in SUBSET Nat /\ k.clearing \in SUBSET Nat /\ k.rejected \in SUBSET Nat
  BY DEF Core, Connecting
<1>2. Numbered(s, n) /\ ConnectsFirst(s) /\ OwnAttempts(s)
  BY <1>1, TearingKeeps
<1>3. ReadyOnlyLive(s)
  BY DEF ReadyOnlyLive
<1>4. HoldsNothing(s)
  BY <1>1 DEF HoldsNothing, ConnectsFirst, Ledger
<1>5. Ledger(s)
  <2>1. ASSUME NEW g \in s.adopting \cup s.clearing \cup s.rejected
        PROVE  g <= s.generation
    <3>1. g \in k.adopting \cup k.clearing \cup k.rejected \/ g = s.generation
      BY <2>1
    <3>2. g \in k.adopting \cup k.clearing \cup k.rejected => g \in Nat /\ g <= k.generation
      BY <1>1 DEF Ledger
    <3> QED BY <1>1, <3>1, <3>2
  <2> QED BY <2>1 DEF Ledger
<1>6. Moves(s)
  BY DEF Moves
<1> QED BY <1>2, <1>3, <1>4, <1>5, <1>6 DEF Fields, Calm

\* Backing off keeps the session moving.
LEMMA ScheduleRetryKeeps ==
  ASSUME NEW k \in Core, NEW n \in Nat, Numbered(k, n), ConnectsFirst(k), Ledger(k)
  PROVE  /\ Fields(ScheduleRetry(k), n)
         /\ k.bridge # 0 /\ OwnAttempts(k) => Calm(ScheduleRetry(k))
<1>1. CASE Terminal(k)
  BY <1>1 DEF ScheduleRetry, Terminal, Fields, Calm, HoldsNothing, Moves, ReadyOnlyLive, Readiness
<1>2. CASE ~ Terminal(k)
  <2> DEFINE s == ScheduleRetry(k)
  <2>1. /\ s \in Core /\ s.subscription = "none" /\ s.transport = 0
        /\ s.state = "reconnecting" /\ s.retryTimer = TRUE /\ s.bridge = k.bridge
        /\ s.generation = k.generation /\ s.streamOf = k.streamOf
        /\ s.connect = k.connect /\ s.auth = k.auth /\ Pending(s) = Pending(k)
    BY <1>2, ScheduleRetryFacts
  <2> HIDE DEF s
  <2>2. k.generation \in Nat
    BY DEF Core
  <2>3. Numbered(s, n) /\ ConnectsFirst(s) /\ OwnAttempts(s)
    BY <2>1, <2>2, TearingKeeps
  <2>4. Fields(s, n)
    BY <2>1, <2>3, AlikeWaits DEF Fields, ReadyOnlyLive, Readiness
  <2>5. k.bridge # 0 => Calm(s)
    BY <2>1, <2>3 DEF Calm, HoldsNothing, Moves
  <2> QED BY <2>4, <2>5 DEF s
<1> QED BY <1>1, <1>2

\* A failure ends the session or leaves it a timer.
LEMMA HandleFailureKeeps ==
  ASSUME NEW k \in Core, NEW n \in Nat, Numbered(k, n), ConnectsFirst(k), Ledger(k),
         NEW failure
  PROVE  LET s == HandleFailure(k, failure)
         IN  /\ Fields(s, n)
             /\ k.bridge # 0 /\ OwnAttempts(k) => Calm(s)
             /\ s.state = "revoked" => \/ k.state = "revoked"
                                       \/ failure \in {"unauthenticated", "device-revoked"}
<1> DEFINE s == HandleFailure(k, failure)
<1>1. CASE Terminal(k)
  <2>1. s = k
    BY <1>1 DEF HandleFailure
  <2> QED BY <1>1, <2>1 DEF Terminal, Fields, Calm, HoldsNothing, Moves, ReadyOnlyLive, Readiness
<1>2. CASE ~ Terminal(k) /\ failure = "pin-mismatch"
  <2> DEFINE t == Teardown(k)
  <2>1. s = [t EXCEPT !.state = "pin-mismatch"]
    BY <1>2 DEF HandleFailure
  <2>2. /\ t \in Core /\ t.subscription = "none" /\ t.transport = 0 /\ t.token = "none"
        /\ t.retryTimer = FALSE /\ t.bridge = k.bridge /\ t.generation = k.generation
        /\ t.streamOf = k.streamOf /\ t.connect = k.connect /\ t.auth = k.auth
        /\ Pending(t) = Pending(k)
    BY TeardownFacts
  <2> HIDE DEF t
  <2>3. /\ s \in Core /\ s.subscription = "none" /\ s.transport = 0 /\ s.token = "none"
        /\ s.retryTimer = FALSE /\ s.bridge = k.bridge /\ s.generation = k.generation
        /\ s.streamOf = k.streamOf /\ s.connect = k.connect /\ s.auth = k.auth
        /\ s.state = "pin-mismatch" /\ Pending(s) = Pending(k)
    BY <2>1, <2>2 DEF Core, State, Pending
  <2> HIDE DEF s
  <2>4. Terminal(s)
    BY <2>3 DEF Terminal
  <2>5. k.generation \in Nat
    BY DEF Core
  <2>6. Numbered(s, n) /\ ConnectsFirst(s) /\ OwnAttempts(s)
    BY <2>3, <2>5, TearingKeeps
  <2>7. Fields(s, n)
    BY <2>3, <2>6, AlikeWaits DEF Fields, ReadyOnlyLive, Readiness
  <2>8. k.bridge # 0 => Calm(s)
    BY <2>3, <2>4, <2>6 DEF Calm, HoldsNothing, Moves
  <2> QED BY <2>3, <2>7, <2>8 DEF s
<1>3. CASE ~ Terminal(k) /\ failure \in {"unauthenticated", "device-revoked"}
  <2>1. s = ApplyRevocation(k) /\ k.state # "revoked"
    BY <1>3 DEF HandleFailure, Terminal
  <2> HIDE DEF s
  <2>2. /\ s \in Core /\ s.subscription = "none" /\ s.transport = 0 /\ s.token = "none"
        /\ s.retryTimer = FALSE /\ s.state = "revoked" /\ s.generation = k.generation + 1
        /\ s.streamOf = k.streamOf /\ s.connect = k.connect /\ s.auth = k.auth
        /\ s.pairing = FALSE /\ s.adopting = k.adopting /\ s.clearing = k.clearing
        /\ s.rejected = k.rejected
    BY <2>1, ApplyRevocationFacts
  <2>3. Terminal(s) /\ s.state \notin Readiness
    BY <2>2 DEF Terminal, Readiness
  <2>4. Fields(s, n) /\ Calm(s)
    BY <2>2, <2>3, EndingKeeps
  <2> QED BY <1>3, <2>4 DEF s
<1>4. CASE /\ ~ Terminal(k)
           /\ failure \notin {"pin-mismatch", "unauthenticated", "device-revoked"}
  <2>1. s = ScheduleRetry(k)
    BY <1>4 DEF HandleFailure
  <2>2. s.state = "reconnecting"
    BY <1>4, <2>1, ScheduleRetryFacts
  <2> HIDE DEF s
  <2> QED BY <2>1, <2>2, ScheduleRetryKeeps DEF s
<1> QED BY <1>1, <1>2, <1>3, <1>4

\* An attempt is for the bridge and the transport of the session that begins it.
LEMMA AuthenticatingKeeps ==
  ASSUME NEW k, NEW n \in Nat, Fields(k, n), NEW a \in Auth,
         k.transport # 0 \/ k.authInFlight # NoAttempt
  PROVE  /\ Fields(Authenticating(k, a), n)
         /\ Calm(k) => Calm(Authenticating(k, a))
<1> DEFINE s == Authenticating(k, a)
<1>1. k \in Core /\ Numbered(k, n) /\ ConnectsFirst(k) /\ ReadyOnlyLive(k)
      /\ Ledger(k)
  BY DEF Fields
<1>2. /\ s \in Core
      /\ s.subscription = k.subscription /\ s.transport = k.transport
      /\ s.token = k.token /\ s.state = k.state /\ s.retryTimer = k.retryTimer
      /\ s.bridge = k.bridge /\ s.generation = k.generation /\ s.streamOf = k.streamOf
      /\ s.connect = k.connect /\ Pending(s) = Pending(k)
  BY <1>1, AuthenticatingFacts
<1>3. \A b \in Auth : \/ s.auth[b] = k.auth[b]
                       \/ /\ s.auth[b].transport = k.transport
                          /\ s.auth[b].bridge = k.bridge
                          /\ k.authInFlight = NoAttempt
  BY <1>1, AuthenticatingFacts
<1> HIDE DEF s
<1>4. Numbered(s, n)
  BY <1>1, <1>2, <1>3 DEF Numbered
<1>5. Fields(s, n)
  BY <1>1, <1>2, <1>4, AlikeWaits DEF Fields, ConnectsFirst, ReadyOnlyLive
<1>6. Calm(k) => Calm(s)
  <2>1. Calm(k) => OwnAttempts(s)
    BY <1>2, <1>3 DEF OwnAttempts, Calm, HoldsNothing
  <2> QED BY <1>2, <2>1, AlikeWaits DEF Calm, HoldsNothing, Moves, Terminal, Follows, Counts
<1> QED BY <1>5, <1>6 DEF s

\* A connect that is not swallowed counts.
LEMMA CallsKeeps ==
  ASSUME NEW k \in Core, built \in Nat, Numbered(k, built), ConnectsFirst(k), Ledger(k),
         k.connect.at # "none" \/ ~ Connects(k) => ReadyOnlyLive(k),
         Calls(k)
  PROVE  /\ built' \in Nat
         /\ Fields(core', built')
         /\ Connects(k) /\ ~ Swallowed(k) => Calm(core')
         /\ ~ Connects(k) => core' = k
         /\ core'.state \in {k.state, "connecting"}
<1>1. PICK a \in Auth : core' = Connect(k, a, built + 1) /\ Builds(k)
  BY DEF Calls, FreeAuths, NextTransport
<1>6. core' = Connect(k, a, built + 1)
  BY <1>1
<1>7. IF Connects(k) /\ k.connect.at = "none" THEN built' = built + 1 ELSE built' = built
  BY <1>1 DEF Builds, NextTransport
<1>4. CASE ~ Connects(k) \/ k.connect.at # "none"
  <2>1. core' = k /\ built' = built
    BY <1>4, <1>6, <1>7 DEF Connect
  <2> QED BY <1>4, <2>1 DEF Fields, Swallowed
<1>5. CASE Connects(k) /\ k.connect.at = "none"
  <2>1. built' = built + 1
    BY <1>5, <1>7
  <2> DEFINE t == built + 1
  <2>0. t \in Nat /\ core' = Connect(k, a, t)
    BY <1>6
  <2> HIDE DEF t
  <2>2a. Connected(k, t, core')
    BY <1>5, <2>0, ConnectFacts
  <2> USE DEF t
  <2>2. /\ core' \in Core
        /\ core'.subscription = k.subscription /\ core'.transport = built + 1
        /\ core'.token = k.token /\ core'.state = "connecting"
        /\ core'.bridge = k.bridge /\ core'.generation = k.generation
        /\ core'.streamOf = k.streamOf
        /\ core'.connect.at # "none" /\ core'.connect.generation = k.generation
        /\ core'.connect.transport = built + 1 /\ Pending(core') = Pending(k)
    BY <2>2a DEF Connected
  <2>3. \A b \in Auth : \/ core'.auth[b] = k.auth[b]
                         \/ /\ core'.auth[b].transport = built + 1
                            /\ core'.auth[b].bridge = k.bridge
    BY <2>2a DEF Connected
  <2>4. /\ k.streamOf \in Nat /\ k.generation \in Nat /\ k.transport \in Nat
        /\ \A b \in Auth : k.auth[b].transport \in Nat
    BY DEF Core, Attempts
  <2>5. Numbered(core', built')
    BY <2>1, <2>2, <2>3, <2>4 DEF Numbered
  <2>6. ConnectsFirst(core') /\ ReadyOnlyLive(core')
    BY <2>2, <2>4 DEF Numbered, ConnectsFirst, ReadyOnlyLive, Readiness
  <2>7. OwnAttempts(core')
    BY <1>5, <2>2, <2>3, <2>4 DEF OwnAttempts, Numbered, Connects
  <2>8. Calm(core')
    BY <1>5, <2>2, <2>7 DEF Calm, HoldsNothing, Moves, Counts, Connects
  <2>9. Fields(core', built')
    BY <2>2, <2>5, <2>6, AlikeWaits DEF Fields
  <2>10. built' \in Nat /\ core'.state \in {k.state, "connecting"}
    BY <2>1, <2>2
  <2> QED BY <1>5, <2>8, <2>9, <2>10
<1> QED BY <1>4, <1>5

\* connect notes that it was swallowed.
LEMMA ConnectOnKeeps ==
  ASSUME NEW k \in Core, built \in Nat, Numbered(k, built), ConnectsFirst(k), Ledger(k),
         k.connect.at # "none" \/ ~ Connects(k) => ReadyOnlyLive(k),
         ConnectOn(k)
  PROVE  /\ built' \in Nat
         /\ Fields(core', built')
         /\ Undisturbed' => Undisturbed
         /\ Undisturbed' /\ Connects(k) => Calm(core')
         /\ ~ Connects(k) => core' = k
         /\ core'.state \in {k.state, "connecting"}
         /\ "nonce lost" \in mishaps' <=> "nonce lost" \in mishaps
<1>1. Calls(k) /\ Note("connect swallowed", Swallowed(k))
  BY DEF ConnectOn
<1>2. Undisturbed' => Undisturbed /\ ~ Swallowed(k)
  BY <1>1 DEF Undisturbed, Note
<1>3. "nonce lost" \in mishaps' <=> "nonce lost" \in mishaps
  BY <1>1 DEF Note
<1> QED BY <1>1, <1>2, <1>3, CallsKeeps

\* What only touches tokens, attempts that end or go on, or which kind of readiness it is,
\* keeps the parts, as long as it brings no token without a bridge.
Akin(k, s) ==
  /\ s \in Core
  /\ s.transport = k.transport /\ s.subscription = k.subscription /\ s.streamOf = k.streamOf
  /\ s.connect = k.connect /\ s.generation = k.generation /\ s.retryTimer = k.retryTimer
  /\ s.state = k.state \/ (s.state \in Readiness /\ k.state \in Readiness)
  /\ Pending(s) = Pending(k)
  /\ \A b \in Auth : \/ s.auth[b] = noAuth
                     \/ /\ s.auth[b].transport = k.auth[b].transport
                        /\ s.auth[b].bridge = k.auth[b].bridge
                        /\ s.auth[b].at # "free" => k.auth[b].at # "free"

\* What resembles a good state in all that moves it is one.
LEMMA AkinKeeps ==
  ASSUME NEW k, NEW n \in Nat, Fields(k, n), NEW s, Akin(k, s)
  PROVE  /\ Fields(s, n)
         /\ Calm(k) /\ (s.bridge = 0 <=> k.bridge = 0) /\ (k.bridge = 0 => s.token = "none")
              => Calm(s)
<1>0. /\ s \in Core
      /\ s.transport = k.transport /\ s.subscription = k.subscription /\ s.streamOf = k.streamOf
      /\ s.connect = k.connect /\ s.generation = k.generation /\ s.retryTimer = k.retryTimer
      /\ s.state = k.state \/ (s.state \in Readiness /\ k.state \in Readiness)
      /\ Pending(s) = Pending(k)
  BY DEF Akin
<1>a. \A b \in Auth : \/ s.auth[b] = noAuth
                      \/ /\ s.auth[b].transport = k.auth[b].transport
                         /\ s.auth[b].bridge = k.auth[b].bridge
                         /\ s.auth[b].at # "free" => k.auth[b].at # "free"
  BY DEF Akin
<1>1. k \in Core /\ Numbered(k, n) /\ ConnectsFirst(k) /\ ReadyOnlyLive(k)
      /\ Ledger(k)
  BY DEF Fields
<1>2. \A b \in Auth : s.auth[b] = noAuth => s.auth[b].at = "free" /\ s.auth[b].transport = 0
  BY DEF noAuth
<1>3. Numbered(s, n)
  BY <1>0, <1>a, <1>1, <1>2 DEF Numbered
<1>4. Fields(s, n)
  BY <1>0, <1>1, <1>3, AlikeWaits DEF Fields, ConnectsFirst, ReadyOnlyLive, Readiness
<1>5. ASSUME Calm(k), s.bridge = 0 <=> k.bridge = 0, k.bridge = 0 => s.token = "none"
      PROVE  Calm(s)
  <2>1. HoldsNothing(s)
    BY <1>0, <1>5, AlikeWaits DEF Calm, HoldsNothing
  <2>2. OwnAttempts(s)
    BY <1>0, <1>a, <1>2, <1>5 DEF Calm, OwnAttempts
  <2>3. Terminal(s) <=> Terminal(k)
    BY <1>0 DEF Terminal, Readiness
  <2>4. Moves(s)
    BY <1>0, <1>5, <2>3, AlikeWaits DEF Calm, Moves, Follows, Counts, Readiness, Resting
  <2> QED BY <1>0, <1>5, <2>1, <2>2, <2>4 DEF Calm, Readiness
<1> QED BY <1>4, <1>5

\* runAuthenticate and authenticate end: the attempt is over, and a good one brings a token.
Settled(k, a, outcome, s) ==
  /\ s \in Core
  /\ s.transport = k.transport /\ s.subscription = k.subscription /\ s.streamOf = k.streamOf
  /\ s.connect = k.connect /\ s.generation = k.generation /\ s.retryTimer = k.retryTimer
  /\ s.state = k.state /\ Pending(s) = Pending(k)
  /\ s.auth[a] = noAuth /\ \A b \in Auth : s.auth[b] = k.auth[b] \/ s.auth[b] = noAuth
  /\ s.bridge = k.bridge \/ (outcome = "ok" /\ s.bridge = k.auth[a].bridge)
  /\ outcome # "ok" => s.token = k.token

\* What an attempt to authenticate leaves (Settled).
LEMMA AdoptedFacts ==
  ASSUME NEW k \in Core, NEW a \in Auth, NEW outcome, NEW tierChanged \in BOOLEAN
  PROVE  Settled(k, a, outcome, Adopted(k, a, outcome, tierChanged))
<1> DEFINE f == [k EXCEPT !.auth[a] = noAuth, !.authInFlight = NoAttempt]
<1>1. noAuth \in Attempts
  BY DEF noAuth, Attempts
<1>2. /\ f \in Core
      /\ f.transport = k.transport /\ f.subscription = k.subscription
      /\ f.streamOf = k.streamOf /\ f.connect = k.connect /\ f.generation = k.generation
      /\ f.retryTimer = k.retryTimer /\ f.state = k.state /\ Pending(f) = Pending(k)
      /\ f.bridge = k.bridge /\ f.token = k.token
      /\ f.auth[a] = noAuth /\ \A b \in Auth : f.auth[b] = k.auth[b] \/ f.auth[b] = noAuth
  BY <1>1 DEF Core, Pending
<1>3. Adopted(k, a, outcome, tierChanged)
        = IF outcome # "ok" THEN f
          ELSE [f EXCEPT !.token = "good",
                         !.bridge = IF tierChanged THEN k.auth[a].bridge ELSE f.bridge]
  BY DEF Adopted
<1> HIDE DEF f
<1>4. k.auth[a].bridge \in Nat
  BY DEF Core, Attempts
<1> DEFINE s == Adopted(k, a, outcome, tierChanged)
<1> HIDE DEF s
<1>5. ASSUME outcome # "ok"  PROVE Settled(k, a, outcome, s)
  <2>1. s = f
    BY <1>3, <1>5 DEF s
  <2> QED BY <1>2, <1>5, <2>1 DEF Settled
<1>6. ASSUME outcome = "ok"  PROVE Settled(k, a, outcome, s)
  <2>1. PICK b \in {k.bridge, k.auth[a].bridge} : s = [f EXCEPT !.token = "good", !.bridge = b]
    BY <1>2, <1>3, <1>6 DEF s
  <2>2. b \in Nat
    BY <1>4 DEF Core
  <2>3. s \in Core
    BY <1>2, <2>1, <2>2 DEF Core, TokenKind
  <2>4. /\ s.transport = f.transport /\ s.subscription = f.subscription
        /\ s.streamOf = f.streamOf /\ s.connect = f.connect /\ s.generation = f.generation
        /\ s.retryTimer = f.retryTimer /\ s.state = f.state /\ Pending(s) = Pending(f)
        /\ s.bridge = b /\ s.auth = f.auth
    BY <1>2, <2>1 DEF Core, Pending
  <2> QED BY <1>2, <1>6, <2>1, <2>3, <2>4 DEF Settled
<1> QED BY <1>5, <1>6 DEF s

\* connect goes on after its authentication: it opens the stream of its transport, leaves
\* the session to whoever replaced it, or looks at its failure.
LEMMA ConnectResumesKeeps ==
  ASSUME NEW k, NEW n \in Nat, Fields(k, n), k.connect.at # "none", NEW outcome
  PROVE  LET s == ConnectResumes(k, outcome)
         IN  /\ Fields(s, n)
             /\ Calm(k) => Calm(s)
             /\ s.state = "revoked" =>
                  \/ k.state = "revoked"
                  \/ /\ outcome \in {"unauthenticated", "device-revoked"}
                     /\ k.connect.generation = k.generation
<1> DEFINE d == [k EXCEPT !.connect = noConnect]
           c == k.connect
           s == ConnectResumes(k, outcome)
<1>1. k \in Core /\ Numbered(k, n) /\ ConnectsFirst(k) /\ ReadyOnlyLive(k)
      /\ Ledger(k)
  BY DEF Fields
<1>2. /\ d \in Core /\ d.connect = noConnect
      /\ d.transport = k.transport /\ d.subscription = k.subscription
      /\ d.streamOf = k.streamOf /\ d.generation = k.generation
      /\ d.retryTimer = k.retryTimer /\ d.state = k.state /\ d.bridge = k.bridge
      /\ d.token = k.token /\ d.auth = k.auth /\ Pending(d) = Pending(k)
  BY <1>1 DEF Core, Connecting, noConnect, Pending
<1>a. s = CASE c.generation # k.generation -> d
            [] c.generation = k.generation /\ outcome = "ok" ->
                 IF c.transport = k.transport THEN OpenStream(d) ELSE d
            [] OTHER -> HandleFailure(d, outcome)
  BY DEF ConnectResumes
<1> HIDE DEF d, s
<1>3. Numbered(d, n) /\ ConnectsFirst(d) /\ ReadyOnlyLive(d) /\ Ledger(d)
  BY <1>1, <1>2, AlikeWaits DEF Numbered, ConnectsFirst, ReadyOnlyLive, noConnect
<1>4. OwnAttempts(k) => OwnAttempts(d)
  BY <1>2 DEF OwnAttempts
<1>5. ASSUME ~ Counts(k), s = d  PROVE Fields(s, n) /\ (Calm(k) => Calm(s)) /\ s.state = k.state
  <2>1. Fields(s, n)
    BY <1>2, <1>3, <1>5 DEF Fields
  <2>2. Calm(k) => Calm(s)
    BY <1>2, <1>4, <1>5, AlikeWaits DEF Calm, HoldsNothing, Moves, Terminal, Follows, noConnect
  <2> QED BY <1>2, <1>5, <2>1, <2>2
<1>6. CASE c.generation # k.generation
  <2>1. s = d /\ ~ Counts(k)
    BY <1>a, <1>6 DEF Counts
  <2> QED BY <1>5, <2>1 DEF s
<1>7. CASE c.generation = k.generation /\ outcome = "ok" /\ c.transport # k.transport
  <2>1. s = d /\ ~ Counts(k)
    BY <1>a, <1>7 DEF Counts
  <2> QED BY <1>5, <2>1 DEF s
<1>8. CASE c.generation = k.generation /\ outcome = "ok" /\ c.transport = k.transport
  <2>1. s = OpenStream(d)
    BY <1>a, <1>8
  <2>2. /\ s \in Core /\ s.connect = noConnect
        /\ s.transport = k.transport /\ s.subscription = "dialling"
        /\ s.streamOf = k.transport /\ s.generation = k.generation
        /\ s.retryTimer = k.retryTimer /\ s.state = k.state /\ s.bridge = k.bridge
        /\ s.token = k.token /\ s.auth = k.auth /\ Pending(s) = Pending(k)
    BY <1>2, <2>1 DEF OpenStream, Core, Pending
  <2>3. /\ k.transport # 0
        /\ k.state \in Readiness => k.generation \in k.clearing \cup k.rejected
    BY <1>1, <1>8 DEF ConnectsFirst, ReadyOnlyLive
  <2>4. Fields(s, n)
    BY <1>1, <2>2, <2>3, AlikeWaits
       DEF Fields, Numbered, ConnectsFirst, ReadyOnlyLive, noConnect
  <2>5. Calm(k) => Calm(s)
    BY <2>2, <2>3, AlikeWaits DEF Calm, HoldsNothing, OwnAttempts, Moves, Terminal, Follows
  <2> QED BY <2>2, <2>4, <2>5 DEF s
<1>9. CASE c.generation = k.generation /\ outcome # "ok"
  <2>1. s = HandleFailure(d, outcome)
    BY <1>a, <1>9
  <2>2. Calm(k) => d.bridge # 0
    BY <1>1, <1>2, <1>9 DEF Calm, HoldsNothing, Core, Connecting
  <2>3. /\ Fields(s, n)
        /\ d.bridge # 0 /\ OwnAttempts(d) => Calm(s)
        /\ s.state = "revoked" => \/ d.state = "revoked"
                                  \/ outcome \in {"unauthenticated", "device-revoked"}
    BY <1>2, <1>3, <2>1, HandleFailureKeeps
  <2>4. Calm(k) => Calm(s)
    BY <1>4, <2>2, <2>3 DEF Calm
  <2> QED BY <1>2, <1>9, <2>3, <2>4 DEF s
<1> QED BY <1>6, <1>7, <1>8, <1>9

\* The whole of it, as an authentication's end runs it.
LEMMA AuthSettlesKeeps ==
  ASSUME NEW a \in Auth, NEW outcome, NEW tierChanged \in BOOLEAN,
         built \in Nat, Fields(core, built), core.auth[a].at # "free",
         AuthSettles(a, outcome, tierChanged)
  PROVE  /\ Fields(core', built)
         /\ Calm(core) /\ (outcome = "ok" => core.auth[a].transport = core.transport)
              => Calm(core')
         /\ core'.state = "revoked" =>
              \/ core.state = "revoked"
              \/ outcome \in {"unauthenticated", "device-revoked"}
<1> DEFINE k == Adopted(core, a, outcome, tierChanged)
<1>1. core' = IF core.connect.at # "none" /\ core.connect.auth = a
              THEN ConnectResumes(k, outcome) ELSE k
  BY DEF AuthSettles
<1>2. core \in Core /\ Settled(core, a, outcome, k)
  BY AdoptedFacts DEF Fields
<1> HIDE DEF k
<1>8. Akin(core, k)
  BY <1>2 DEF Settled, Akin
<1>3. /\ Fields(k, built)
      /\ Calm(core) /\ (k.bridge = 0 <=> core.bridge = 0) /\ (core.bridge = 0 => k.token = "none")
           => Calm(k)
  BY <1>8, AkinKeeps
<1>4. ASSUME Calm(core), outcome = "ok" => core.auth[a].transport = core.transport
      PROVE  Calm(k)
  <2>1. k.bridge = 0 <=> core.bridge = 0
    BY <1>2, <1>4 DEF Settled, Calm, OwnAttempts
  <2>2. core.bridge = 0 => k.token = "none"
    BY <1>2, <1>4 DEF Settled, Calm, HoldsNothing, Fields, Numbered
  <2> QED BY <1>3, <1>4, <2>1, <2>2
<1>5. k.state = core.state /\ k.connect = core.connect
  BY <1>2 DEF Settled
<1>6. CASE core.connect.at # "none" /\ core.connect.auth = a
  <2>1. core' = ConnectResumes(k, outcome) /\ k.connect.at # "none"
    BY <1>1, <1>5, <1>6
  <2> QED BY <1>3, <1>4, <1>5, <2>1, ConnectResumesKeeps
<1>7. CASE ~ (core.connect.at # "none" /\ core.connect.auth = a)
  <2>1. core' = k
    BY <1>1, <1>7
  <2> QED BY <1>3, <1>4, <1>5, <2>1
<1> QED BY <1>6, <1>7

-----------------------------------------------------------------------------
\* Every action keeps what is said of the fields.

\* The facts an action starts from.
LEMMA CoreFacts ==
  ASSUME CoreInv
  PROVE  /\ core \in Core /\ Numbered(core, built) /\ ConnectsFirst(core)
         /\ ReadyOnlyLive(core) /\ Ledger(core) /\ Fields(core, built)
         /\ Undisturbed => Calm(core)
  BY DEF CoreInv, Fields

\* start: the first connect, if there is a bridge.
LEMMA StartKeeps ==
  ASSUME built \in Nat, CoreInv, Start  PROVE CoreInv'
<1>1. CASE device = "active"
  <2> DEFINE k == [core EXCEPT !.bridge = 1, !.state = "paired"]
  <2>1. ConnectOn(k)
    BY <1>1 DEF Start
  <2>2. /\ k \in Core /\ k.bridge = 1 /\ k.state = "paired"
        /\ k.transport = core.transport /\ k.subscription = core.subscription
        /\ k.streamOf = core.streamOf /\ k.connect = core.connect /\ k.auth = core.auth
        /\ k.generation = core.generation /\ Pending(k) = Pending(core)
    BY CoreFacts DEF Core, State, Pending
  <2> HIDE DEF k
  <2>3. /\ Numbered(k, built) /\ ConnectsFirst(k) /\ ReadyOnlyLive(k) /\ Ledger(k)
        /\ Connects(k)
    BY <2>2, CoreFacts, AlikeWaits DEF Numbered, ConnectsFirst, ReadyOnlyLive, Readiness, Connects, Terminal
  <2>4. Fields(core', built') /\ (Undisturbed' /\ Connects(k) => Calm(core'))
    BY <2>1, <2>2, <2>3, ConnectOnKeeps
  <2> QED BY <2>3, <2>4 DEF CoreInv
<1>2. CASE device # "active"
  <2>1. core' = [core EXCEPT !.state = "unpaired"] /\ UNCHANGED <<built, mishaps>>
        /\ core.state = "unstarted"
    BY <1>2 DEF Start
  <2>2. /\ core' \in Core /\ core'.bridge = core.bridge /\ core'.state = "unpaired"
        /\ core'.transport = core.transport /\ core'.subscription = core.subscription
        /\ core'.streamOf = core.streamOf /\ core'.connect = core.connect
        /\ core'.auth = core.auth /\ core'.generation = core.generation
        /\ core'.token = core.token /\ core'.retryTimer = core.retryTimer
        /\ Pending(core') = Pending(core)
    BY <2>1, CoreFacts DEF Core, State, Pending
  <2>3. Fields(core', built')
    BY <2>1, <2>2, CoreFacts, AlikeWaits
       DEF Fields, Numbered, ConnectsFirst, ReadyOnlyLive, Readiness
  <2>4. Calm(core) => Calm(core')
    BY <2>1, <2>2, AlikeWaits DEF Calm, HoldsNothing, OwnAttempts, Moves, Resting
  <2> QED BY <2>1, <2>3, <2>4, CoreFacts DEF CoreInv, Undisturbed
<1> QED BY <1>1, <1>2

\* reconnectNow: tears down and connects.
LEMMA ReconnectNowKeeps ==
  ASSUME built \in Nat, CoreInv, ReconnectNow  PROVE CoreInv'
<1> DEFINE k == TeardownTransport(core)
<1>1. ConnectOn(k) /\ Connects(core)
  BY DEF ReconnectNow
<1>2. /\ k \in Core /\ k.subscription = "none" /\ k.transport = 0
      /\ k.state = core.state /\ k.bridge = core.bridge /\ k.generation = core.generation
      /\ k.streamOf = core.streamOf /\ k.connect = core.connect /\ k.auth = core.auth
      /\ Pending(k) = Pending(core)
  BY CoreFacts, TeardownTransportFacts
<1> HIDE DEF k
<1>3. core.generation \in Nat
  BY CoreFacts DEF Core
<1>4. Numbered(k, built) /\ ConnectsFirst(k) /\ Ledger(k)
  BY <1>2, <1>3, CoreFacts, TearingKeeps, AlikeWaits
<1>5. Connects(k)
  BY <1>1, <1>2 DEF Connects, Terminal
<1>6. k.connect.at # "none" => ReadyOnlyLive(k)
  BY <1>2, CoreFacts, AlikeWaits DEF ConnectsFirst, ReadyOnlyLive
<1>7. Fields(core', built') /\ (Undisturbed' /\ Connects(k) => Calm(core'))
  BY <1>1, <1>2, <1>4, <1>5, <1>6, ConnectOnKeeps
<1> QED BY <1>5, <1>7 DEF CoreInv

\* pair: tears down, and nothing needs to move it while it waits.
LEMMA PairKeeps ==
  ASSUME built \in Nat, CoreInv, Pair  PROVE CoreInv'
<1> DEFINE t == Teardown(core)
<1>1. /\ core' = [t EXCEPT !.generation = t.generation + 1, !.state = "pairing",
                           !.pairing = TRUE]
      /\ UNCHANGED <<built, mishaps>>
  BY DEF Pair
<1>2. /\ t \in Core /\ t.subscription = "none" /\ t.transport = 0 /\ t.token = "none"
      /\ t.retryTimer = FALSE /\ t.generation = core.generation
      /\ t.streamOf = core.streamOf /\ t.connect = core.connect /\ t.auth = core.auth
      /\ t.adopting = core.adopting /\ t.clearing = core.clearing
      /\ t.rejected = core.rejected
  BY CoreFacts, TeardownFacts DEF Pending
<1> HIDE DEF t
<1>3. t.generation + 1 \in Nat
  BY <1>2 DEF Core
<1>4. core' \in Core
  BY <1>1, <1>2, <1>3 DEF Core, State
<1>5. /\ core'.subscription = "none" /\ core'.transport = 0 /\ core'.token = "none"
      /\ core'.retryTimer = FALSE /\ core'.generation = core.generation + 1
      /\ core'.state = "pairing"
      /\ core'.streamOf = core.streamOf /\ core'.connect = core.connect
      /\ core'.auth = core.auth
      /\ core'.pairing /\ core'.adopting = core.adopting
      /\ core'.clearing = core.clearing /\ core'.rejected = core.rejected
  BY <1>1, <1>2 DEF Core
<1>6. Fields(core', built) /\ Calm(core')
  BY <1>4, <1>5, CoreFacts, EndingKeeps DEF Waits, Readiness
<1> QED BY <1>1, <1>6 DEF CoreInv

\* clear forgets the bridge and all that belongs to it, and waits for its write.
LEMMA ClearPairingKeeps ==
  ASSUME built \in Nat, CoreInv, ClearPairing  PROVE CoreInv'
<1> DEFINE t == Teardown(core)
<1>1. /\ core' = [t EXCEPT !.generation = t.generation + 1, !.bridge = 0, !.pairing = FALSE,
                           !.clearing = t.clearing \cup {core.generation + 1}]
      /\ UNCHANGED <<built, mishaps>>
  BY DEF ClearPairing
<1>2. /\ t \in Core /\ t.subscription = "none" /\ t.transport = 0 /\ t.token = "none"
      /\ t.retryTimer = FALSE /\ t.generation = core.generation
      /\ t.streamOf = core.streamOf /\ t.connect = core.connect /\ t.auth = core.auth
      /\ t.adopting = core.adopting /\ t.clearing = core.clearing
      /\ t.rejected = core.rejected
  BY CoreFacts, TeardownFacts DEF Pending
<1> HIDE DEF t
<1>3. core.generation + 1 \in Nat /\ t.clearing \in SUBSET Nat
  BY <1>2 DEF Core
<1>4. core' \in Core
  BY <1>1, <1>2, <1>3 DEF Core
<1>5. /\ core'.subscription = "none" /\ core'.transport = 0 /\ core'.token = "none"
      /\ core'.retryTimer = FALSE /\ core'.generation = core.generation + 1
      /\ core'.bridge = 0 /\ core'.pairing = FALSE
      /\ core'.streamOf = core.streamOf /\ core'.connect = core.connect
      /\ core'.auth = core.auth
      /\ core'.adopting = core.adopting /\ core'.rejected = core.rejected
      /\ core'.clearing = core.clearing \cup {core'.generation}
  BY <1>1, <1>2 DEF Core
<1>6. Fields(core', built) /\ Calm(core')
  BY <1>4, <1>5, CoreFacts, EndingKeeps DEF Waits
<1> QED BY <1>1, <1>6 DEF CoreInv

\* The wiped store is confirmed: the session has ended, and holds what it held.
LEMMA ClearSettlesKeeps ==
  ASSUME built \in Nat, CoreInv, NEW g, ClearSettles(g)  PROVE CoreInv'
<1>1. /\ core' = [core EXCEPT !.clearing = core.clearing \ {g}, !.state = "cleared"]
      /\ UNCHANGED <<built, mishaps>>
  BY DEF ClearSettles
<1>2. PICK clearing \in SUBSET Nat : clearing = core.clearing \ {g}
  BY CoreFacts DEF Core
<1>3. /\ core' \in Core /\ core'.bridge = core.bridge /\ core'.state = "cleared"
      /\ core'.transport = core.transport /\ core'.subscription = core.subscription
      /\ core'.streamOf = core.streamOf /\ core'.connect = core.connect
      /\ core'.auth = core.auth /\ core'.generation = core.generation
      /\ core'.token = core.token /\ core'.retryTimer = core.retryTimer
      /\ core'.pairing = core.pairing /\ core'.adopting = core.adopting
      /\ core'.rejected = core.rejected /\ core'.clearing = clearing
  BY <1>1, <1>2, CoreFacts DEF Core, State
<1>4. Ledger(core')
  BY <1>2, <1>3, CoreFacts DEF Ledger
<1>5. Fields(core', built)
  BY <1>3, <1>4, CoreFacts DEF Fields, Numbered, ConnectsFirst, ReadyOnlyLive, Readiness
<1>6. Calm(core) => Calm(core')
  BY <1>3 DEF Calm, HoldsNothing, OwnAttempts, Moves, Terminal
<1> QED BY <1>1, <1>5, <1>6, CoreFacts DEF CoreInv, Undisturbed

\* A rejected write leaves everything as it is, and the session waiting for it.
LEMMA WriteRejectedKeeps ==
  ASSUME built \in Nat, CoreInv, NEW g, WriteRejected(g)  PROVE CoreInv'
<1>1. /\ core' = [core EXCEPT !.adopting = core.adopting \ {g},
                             !.clearing = core.clearing \ {g},
                             !.rejected = core.rejected \cup {g}]
      /\ g \in core.adopting \cup core.clearing /\ UNCHANGED <<built, mishaps>>
  BY DEF WriteRejected
<1>2. PICK adopting \in SUBSET Nat, clearing \in SUBSET Nat, rejected \in SUBSET Nat :
        /\ adopting = core.adopting \ {g} /\ clearing = core.clearing \ {g}
        /\ rejected = core.rejected \cup {g}
  BY <1>1, CoreFacts DEF Core
<1>3. /\ core' \in Core /\ core'.bridge = core.bridge /\ core'.state = core.state
      /\ core'.transport = core.transport /\ core'.subscription = core.subscription
      /\ core'.streamOf = core.streamOf /\ core'.connect = core.connect
      /\ core'.auth = core.auth /\ core'.generation = core.generation
      /\ core'.token = core.token /\ core'.retryTimer = core.retryTimer
      /\ core'.pairing = core.pairing /\ core'.adopting = adopting
      /\ core'.clearing = clearing /\ core'.rejected = rejected
  BY <1>1, <1>2, CoreFacts DEF Core
<1>4. /\ adopting \cup clearing \cup rejected
           = core.adopting \cup core.clearing \cup core.rejected
      /\ adopting \subseteq core.adopting
      /\ core.clearing \cup core.rejected \subseteq clearing \cup rejected
  BY <1>1, <1>2
<1>5. Ledger(core') /\ ReadyOnlyLive(core')
  BY <1>3, <1>4, CoreFacts DEF Ledger, ReadyOnlyLive
<1>6. Fields(core', built)
  BY <1>3, <1>5, CoreFacts DEF Fields, Numbered, ConnectsFirst
<1>7. Calm(core) => Calm(core')
  <2>1. Waits(core) => Waits(core')
    BY <1>3, <1>4 DEF Waits
  <2> QED BY <1>3, <1>4, <2>1
         DEF Calm, HoldsNothing, OwnAttempts, Moves, Terminal, Follows, Counts
<1> QED BY <1>1, <1>6, <1>7, CoreFacts DEF CoreInv, Undisturbed

\* The write of a new route settles: the session connects, if it still is the one that
\* issued the write.
LEMMA AdoptionSettlesKeeps ==
  ASSUME built \in Nat, CoreInv, NEW g, AdoptionSettles(g)  PROVE CoreInv'
<1> DEFINE k == [core EXCEPT !.adopting = core.adopting \ {g}, !.state = "paired"]
<1>1. Calls(k) /\ g \in core.adopting
  BY DEF AdoptionSettles
<1>2. Undisturbed' => Undisturbed /\ g = core.generation /\ ~ Swallowed(k)
  <2>1. mishaps' = mishaps \cup {what \in {"connect swallowed", "adopted late"} :
                      IF what = "adopted late" THEN g # core.generation ELSE Swallowed(k)}
    BY DEF AdoptionSettles
  <2>2. g # core.generation => "adopted late" \in mishaps'
    BY <2>1
  <2>3. Swallowed(k) => "connect swallowed" \in mishaps'
    BY <2>1
  <2>4. mishaps \subseteq mishaps'
    BY <2>1
  <2> QED BY <2>2, <2>3, <2>4 DEF Undisturbed
<1>3. k = [core EXCEPT !.adopting = core.adopting \ {g}, !.state = "paired"]
  OBVIOUS
<1> HIDE DEF k
<1>4. PICK adopting \in SUBSET Nat : adopting = core.adopting \ {g}
  BY CoreFacts DEF Core
<1>5. /\ k \in Core /\ k.bridge = core.bridge /\ k.state = "paired"
      /\ k.transport = core.transport /\ k.subscription = core.subscription
      /\ k.streamOf = core.streamOf /\ k.connect = core.connect /\ k.auth = core.auth
      /\ k.generation = core.generation
      /\ k.pairing = core.pairing /\ k.adopting = adopting
      /\ k.clearing = core.clearing /\ k.rejected = core.rejected
  BY <1>3, <1>4, CoreFacts DEF Core, State
<1>6. Numbered(k, built) /\ ConnectsFirst(k) /\ ReadyOnlyLive(k) /\ Ledger(k)
  BY <1>4, <1>5, CoreFacts
     DEF Numbered, ConnectsFirst, ReadyOnlyLive, Readiness, Ledger
<1>7. Fields(core', built') /\ (Connects(k) /\ ~ Swallowed(k) => Calm(core'))
  BY <1>1, <1>5, <1>6, CallsKeeps
<1>8. Undisturbed' => Connects(k)
  BY <1>1, <1>2, <1>5, CoreFacts DEF Connects, Terminal, Calm, HoldsNothing
<1> QED BY <1>2, <1>7, <1>8 DEF CoreInv

\* The end of pair: a new bridge whose write the session waits for, or a state that waits
\* for the user.
LEMMA PairEndsKeeps ==
  ASSUME built \in Nat, intents \in Nat, CoreInv, NEW ok \in BOOLEAN, PairEnds(ok)
  PROVE  CoreInv'
<1> DEFINE q == [core EXCEPT !.pairing = FALSE]
<1>0. /\ q \in Core /\ q.bridge = core.bridge /\ q.token = core.token
      /\ q.transport = core.transport /\ q.subscription = core.subscription
      /\ q.streamOf = core.streamOf /\ q.connect = core.connect /\ q.auth = core.auth
      /\ q.generation = core.generation /\ q.retryTimer = core.retryTimer
      /\ q.adopting = core.adopting /\ q.clearing = core.clearing
      /\ q.rejected = core.rejected /\ q.pairing = FALSE /\ q.state = core.state
  BY CoreFacts DEF Core
<1>a. UNCHANGED <<built, mishaps>>
  BY DEF PairEnds
<1>b. core.adopting \in SUBSET Nat /\ core.generation \in Nat
  BY CoreFacts DEF Core
<1>1. CASE ok
  <2>1. core' = [q EXCEPT !.bridge = intents + 1,
                          !.adopting = q.adopting \cup {core.generation}]
    BY <1>1 DEF PairEnds
  <2>2. PICK n \in Nat \ {0} : n = intents + 1
    OBVIOUS
  <2>3. PICK adopting \in SUBSET Nat : adopting = core.adopting \cup {core.generation}
    BY <1>b
  <2> HIDE DEF q
  <2>4. /\ core' \in Core /\ core'.bridge = n /\ core'.state = core.state
        /\ core'.transport = core.transport /\ core'.subscription = core.subscription
        /\ core'.streamOf = core.streamOf /\ core'.connect = core.connect
        /\ core'.auth = core.auth /\ core'.generation = core.generation
        /\ core'.token = core.token /\ core'.retryTimer = core.retryTimer
        /\ core'.pairing = FALSE /\ core'.adopting = adopting
        /\ core'.clearing = core.clearing /\ core'.rejected = core.rejected
    BY <1>0, <2>1, <2>2, <2>3 DEF Core
  <2>5. Ledger(core') /\ ReadyOnlyLive(core')
    BY <1>b, <2>3, <2>4, CoreFacts DEF Ledger, ReadyOnlyLive
  <2>6. Fields(core', built')
    BY <1>a, <2>4, <2>5, CoreFacts DEF Fields, Numbered, ConnectsFirst
  <2>7. ASSUME Calm(core)  PROVE Calm(core')
    <3>1. core.state # "unstarted"
      BY CoreFacts DEF Ledger, PairEnds
    <3>2. HoldsNothing(core') /\ OwnAttempts(core')
      BY <2>2, <2>4, <2>7 DEF Calm, HoldsNothing, OwnAttempts
    <3>3. Waits(core')
      BY <2>3, <2>4 DEF Waits
    <3> QED BY <2>4, <3>1, <3>2, <3>3 DEF Calm, Moves
  <2> QED BY <1>a, <2>6, <2>7, CoreFacts DEF CoreInv, Undisturbed
<1>2. CASE ~ ok
  <2>2. PICK state \in {"refused", "unpaired", "relay-unavailable"} :
          core' = [q EXCEPT !.state = state]
    BY <1>2 DEF PairEnds, AfterPairFailure
  <2> HIDE DEF q
  <2>3. /\ core' \in Core /\ core'.bridge = core.bridge /\ core'.state = state
        /\ core'.transport = core.transport /\ core'.subscription = core.subscription
        /\ core'.streamOf = core.streamOf /\ core'.connect = core.connect
        /\ core'.auth = core.auth /\ core'.generation = core.generation
        /\ core'.token = core.token /\ core'.retryTimer = core.retryTimer
        /\ core'.pairing = FALSE /\ core'.adopting = core.adopting
        /\ core'.clearing = core.clearing /\ core'.rejected = core.rejected
    BY <1>0, <2>2 DEF Core, State
  <2>4. Ledger(core')
    BY <2>3, CoreFacts DEF Ledger
  <2>5. Fields(core', built')
    BY <1>a, <2>2, <2>3, <2>4, CoreFacts
       DEF Fields, Numbered, ConnectsFirst, ReadyOnlyLive, Readiness
  <2>6. Calm(core) => Calm(core')
    BY <2>2, <2>3 DEF Calm, HoldsNothing, OwnAttempts, Moves, Terminal, Resting
  <2> QED BY <1>a, <2>5, <2>6, CoreFacts DEF CoreInv, Undisturbed
<1> QED BY <1>1, <1>2

\* The bridge accepts the proof: a token, if the attempt is adopted.
LEMMA ProofAcceptedKeeps ==
  ASSUME built \in Nat, CoreInv, NEW a \in Auth, ProofAccepted(a)  PROVE CoreInv'
<1>1. PICK tierChanged \in BOOLEAN : AuthSettles(a, "ok", tierChanged)
  BY DEF ProofAccepted
<1>2. core.auth[a].at # "free" /\ built' = built
  BY <1>1 DEF ProofAccepted, AuthSettles
<1>3. Undisturbed' => Undisturbed /\ core.auth[a].transport = core.transport
  BY DEF ProofAccepted, Note, Undisturbed
<1>4. /\ Fields(core', built)
      /\ Calm(core) /\ core.auth[a].transport = core.transport => Calm(core')
  BY <1>1, <1>2, CoreFacts, AuthSettlesKeeps
<1> QED BY <1>2, <1>3, <1>4, CoreFacts DEF CoreInv

\* The bridge refuses: an attempt that a connect waits for forgets the bridge.
LEMMA AuthRefusedKeeps ==
  ASSUME built \in Nat, CoreInv, NEW a \in Auth, AuthRefused(a)  PROVE CoreInv'
<1>1. AuthSettles(a, "unauthenticated", FALSE) /\ core.auth[a].at # "free"
  BY DEF AuthRefused
<1>2. built' = built
  BY <1>1 DEF AuthSettles
<1>3. Undisturbed' => Undisturbed
  BY DEF AuthRefused, Note, Undisturbed
<1>4. FALSE \in BOOLEAN /\ "unauthenticated" # "ok"
  OBVIOUS
<1>5. Fields(core', built) /\ (Calm(core) => Calm(core'))
  BY <1>1, <1>4, CoreFacts, AuthSettlesKeeps
<1> QED BY <1>2, <1>3, <1>5, CoreFacts DEF CoreInv

\* The exchange fails: a connect that waits for it falls back to the retry timer, or ends
\* in the terminal state.
LEMMA AuthFailsKeeps ==
  ASSUME built \in Nat, CoreInv, NEW a \in Auth, AuthFails(a)  PROVE CoreInv'
<1>1. PICK failure \in {"offline", "pin-mismatch"} : AuthSettles(a, failure, FALSE)
  BY DEF AuthFails
<1>2. core.auth[a].at # "free" /\ UNCHANGED mishaps
  BY DEF AuthFails
<1>3. built' = built
  BY <1>1 DEF AuthSettles
<1>4. Fields(core', built) /\ (Calm(core) => Calm(core'))
  BY <1>1, <1>2, CoreFacts, AuthSettlesKeeps
<1> QED BY <1>2, <1>3, <1>4, CoreFacts DEF CoreInv, Undisturbed

\* A step to an akin record that brings no token.
LEMMA AkinStep ==
  ASSUME built \in Nat, CoreInv, Akin(core, core'), core'.bridge = core.bridge,
         core.token = "none" => core'.token = "none", UNCHANGED <<built, mishaps>>
  PROVE  CoreInv'
<1>1. /\ Fields(core', built)
      /\ Calm(core) /\ (core.bridge = 0 => core'.token = "none") => Calm(core')
  BY CoreFacts, AkinKeeps
<1>2. Calm(core) => (core.bridge = 0 => core'.token = "none")
  BY DEF Calm, HoldsNothing
<1>3. built' = built /\ (Undisturbed' => Calm(core))
  BY CoreFacts DEF Undisturbed
<1> QED BY <1>1, <1>2, <1>3 DEF CoreInv

\* A step of one attempt over its transport.
LEMMA AttemptStep ==
  ASSUME built \in Nat, CoreInv, NEW a \in Auth, NEW x \in Attempts,
         x.transport = core.auth[a].transport, x.bridge = core.auth[a].bridge,
         x.at # "free" => core.auth[a].at # "free",
         core' = [core EXCEPT !.auth = [core.auth EXCEPT ![a] = x]],
         UNCHANGED <<built, mishaps>>
  PROVE  CoreInv'
<1> DEFINE auth == [core.auth EXCEPT ![a] = x]
<1>1. /\ auth \in [Auth -> Attempts]
      /\ \A b \in Auth : /\ auth[b].transport = core.auth[b].transport
                         /\ auth[b].bridge = core.auth[b].bridge
                         /\ auth[b].at # "free" => core.auth[b].at # "free"
  BY CoreFacts DEF Core
<1>2. core' = [core EXCEPT !.auth = auth]
  OBVIOUS
<1> HIDE DEF auth
<1>3. core' \in Core
  BY <1>1, <1>2, CoreFacts DEF Core
<1>4. Akin(core, core') /\ core'.bridge = core.bridge /\ core'.token = core.token
  <2>1. core'.auth = auth
    BY <1>2, CoreFacts DEF Core
  <2>2. /\ Pending(core') = Pending(core) /\ core'.bridge = core.bridge
        /\ core'.token = core.token /\ core'.state = core.state
        /\ core'.transport = core.transport /\ core'.subscription = core.subscription
        /\ core'.streamOf = core.streamOf /\ core'.retryTimer = core.retryTimer
        /\ core'.generation = core.generation /\ core'.connect = core.connect
        /\ core'.authInFlight = core.authInFlight
    BY <1>2, CoreFacts DEF Core, Pending
  <2> QED BY <1>1, <1>3, <2>1, <2>2 DEF Akin
<1> QED BY <1>4, AkinStep

\* The attempt goes on to its proof.
LEMMA ChallengeAnswersKeeps ==
  ASSUME built \in Nat, CoreInv, NEW a \in Auth, ChallengeAnswers(a)  PROVE CoreInv'
<1>1. /\ core' = [core EXCEPT !.auth[a].at = "proof", !.auth[a].good = TRUE]
      /\ core.auth[a].at = "challenge" /\ UNCHANGED <<built, mishaps>>
  BY DEF ChallengeAnswers
<1>2. PICK x \in Attempts : x = [core.auth[a] EXCEPT !.at = "proof", !.good = TRUE]
  BY ZenonT(40), CoreFacts DEF Core, Attempts
<1>3. /\ x.transport = core.auth[a].transport /\ x.bridge = core.auth[a].bridge
      /\ x.at # "free" => core.auth[a].at # "free"
  BY <1>1, <1>2, CoreFacts DEF Core, Attempts
<1>4. core' = [core EXCEPT !.auth = [core.auth EXCEPT ![a] = x]]
  BY <1>1, <1>2, CoreFacts DEF Core
<1> QED BY <1>1, <1>3, <1>4, AttemptStep

\* The bridge forgets a nonce.
LEMMA NonceElapsesKeeps ==
  ASSUME built \in Nat, CoreInv, NEW a \in Auth, NonceElapses(a)  PROVE CoreInv'
<1>1. core' = [core EXCEPT !.auth[a].good = FALSE] /\ UNCHANGED <<built, mishaps>>
  BY DEF NonceElapses
<1>2. PICK x \in Attempts : x = [core.auth[a] EXCEPT !.good = FALSE]
  BY ZenonT(40), CoreFacts DEF Core, Attempts
<1>3. /\ x.transport = core.auth[a].transport /\ x.bridge = core.auth[a].bridge
      /\ x.at # "free" => core.auth[a].at # "free"
  BY <1>1, <1>2, CoreFacts DEF Core, Attempts
<1>4. core' = [core EXCEPT !.auth = [core.auth EXCEPT ![a] = x]]
  BY <1>1, <1>2, CoreFacts DEF Core
<1> QED BY <1>1, <1>3, <1>4, AttemptStep

\* The bridge forgets: tokens die, and nothing that moves the session is among them.
LEMMA ForgettingKeeps ==
  ASSUME built \in Nat, CoreInv, Forgetting, UNCHANGED <<built, mishaps>>  PROVE CoreInv'
<1>1. core' = [core EXCEPT !.token = IF core.token = "good" THEN "dead" ELSE core.token,
                 !.auth = [a \in Auth |-> [core.auth[a] EXCEPT !.good = FALSE]]]
  BY DEF Forgetting
<1>2. PICK token \in TokenKind : token = IF core.token = "good" THEN "dead" ELSE core.token
  BY CoreFacts DEF Core, TokenKind
<1> DEFINE auth == [a \in Auth |-> [core.auth[a] EXCEPT !.good = FALSE]]
<1>3. /\ auth \in [Auth -> Attempts]
      /\ \A b \in Auth : /\ auth[b].transport = core.auth[b].transport
                         /\ auth[b].bridge = core.auth[b].bridge
                         /\ auth[b].at = core.auth[b].at
  BY ZenonT(40), CoreFacts DEF Core, Attempts
<1>4. core' = [core EXCEPT !.token = token, !.auth = auth]
  BY <1>1, <1>2
<1> HIDE DEF auth
<1>5. Akin(core, core') /\ core'.bridge = core.bridge /\ core'.token = token
  BY <1>3, <1>4, CoreFacts DEF Akin, Core, Pending
<1> QED BY <1>2, <1>5, AkinStep

\* The hello of the stream the session follows makes it ready.
LEMMA HelloKeeps ==
  ASSUME built \in Nat, CoreInv, Hello  PROVE CoreInv'
<1>1. /\ core' = [core EXCEPT !.subscription = "live", !.state = "ready"]
      /\ core.subscription # "none" /\ core.streamOf = core.transport
      /\ core.token = "good" /\ UNCHANGED <<built, mishaps>>
  BY DEF Hello, Following
<1>2. /\ core' \in Core /\ core'.bridge = core.bridge /\ core'.state = "ready"
      /\ core'.transport = core.transport /\ core'.subscription = "live"
      /\ core'.streamOf = core.streamOf /\ core'.connect = core.connect
      /\ core'.auth = core.auth /\ core'.generation = core.generation
      /\ core'.token = core.token /\ core'.retryTimer = core.retryTimer
      /\ Pending(core') = Pending(core)
  BY <1>1, CoreFacts DEF Core, State, Pending
<1>3. Fields(core', built)
  <2>1. Ledger(core')
    BY <1>2, CoreFacts, AlikeWaits DEF Fields
  <2> QED BY <1>1, <1>2, <2>1, CoreFacts DEF Fields, Numbered, ConnectsFirst, ReadyOnlyLive
<1>4. Calm(core) => Calm(core')
  BY <1>1, <1>2, AlikeWaits DEF Calm, HoldsNothing, OwnAttempts, Moves, Follows
<1> QED BY <1>1, <1>3, <1>4, CoreFacts DEF CoreInv, Undisturbed

\* Whoever follows the current transport's stream has a transport and, calm, a bridge.
LEMMA FollowingFacts ==
  ASSUME CoreInv, Following
  PROVE  core.transport # 0 /\ (Calm(core) => core.bridge # 0)
  BY CoreFacts DEF Following, Numbered, Calm, HoldsNothing

\* A stream that ends: the retry timer, if it is the current one.
LEMMA StreamClosesKeeps ==
  ASSUME built \in Nat, CoreInv, StreamCloses  PROVE CoreInv'
<1> DEFINE k == [core EXCEPT !.subscription = "none"]
<1>1. core' = ScheduleRetry(k) /\ Following /\ UNCHANGED <<built, mishaps>>
  BY DEF StreamCloses
<1>2. /\ k \in Core /\ k.bridge = core.bridge /\ k.subscription = "none"
      /\ k.transport = core.transport
      /\ k.streamOf = core.streamOf /\ k.connect = core.connect /\ k.auth = core.auth
      /\ k.generation = core.generation /\ k.state = core.state
      /\ Pending(k) = Pending(core)
  BY CoreFacts DEF Core, Pending
<1> HIDE DEF k
<1>3. /\ Numbered(k, built) /\ ConnectsFirst(k) /\ Ledger(k)
      /\ OwnAttempts(core) => OwnAttempts(k)
  BY <1>2, CoreFacts, AlikeWaits DEF Numbered, ConnectsFirst, OwnAttempts
<1>4. Fields(core', built) /\ (k.bridge # 0 /\ OwnAttempts(k) => Calm(core'))
  BY <1>1, <1>2, <1>3, ScheduleRetryKeeps
<1>5. Calm(core) => Calm(core')
  BY <1>1, <1>2, <1>3, <1>4, FollowingFacts DEF Calm
<1> QED BY <1>1, <1>4, <1>5, CoreFacts DEF CoreInv, Undisturbed

\* The revoked frame forgets the bridge.
LEMMA RevokedFrameKeeps ==
  ASSUME built \in Nat, CoreInv, RevokedFrame  PROVE CoreInv'
<1>1. core' = ApplyRevocation(core) /\ UNCHANGED <<built, mishaps>>
  BY DEF RevokedFrame
<1>2. CASE core.state = "revoked"
  <2>1. core' = core
    BY <1>1, <1>2 DEF ApplyRevocation
  <2> QED BY <1>1, <2>1, CoreFacts DEF CoreInv, Undisturbed
<1>3. CASE core.state # "revoked"
  <2>1. /\ core' \in Core /\ core'.subscription = "none" /\ core'.transport = 0
        /\ core'.token = "none" /\ core'.retryTimer = FALSE
        /\ core'.generation = core.generation + 1 /\ core'.state = "revoked"
        /\ core'.streamOf = core.streamOf /\ core'.connect = core.connect
        /\ core'.auth = core.auth
        /\ core'.pairing = FALSE /\ core'.adopting = core.adopting
        /\ core'.clearing = core.clearing /\ core'.rejected = core.rejected
    BY <1>1, <1>3, CoreFacts, ApplyRevocationFacts
  <2>2. Fields(core', built) /\ Calm(core')
    BY <2>1, CoreFacts, EndingKeeps DEF Terminal, Readiness
  <2> QED BY <1>1, <2>2 DEF CoreInv
<1> QED BY <1>2, <1>3

\* The token is about to expire: another attempt over the same transport.
LEMMA TokenExpiringKeeps ==
  ASSUME built \in Nat, CoreInv, TokenExpiring  PROVE CoreInv'
<1>1. PICK a \in Auth : core' = Authenticating(core, a)
  BY DEF TokenExpiring, FreeAuths
<1>2. Following /\ UNCHANGED <<built, mishaps>>
  BY DEF TokenExpiring, Live
<1>3. Fields(core', built) /\ (Calm(core) => Calm(core'))
  BY <1>1, <1>2, CoreFacts, FollowingFacts, AuthenticatingKeeps
<1> QED BY <1>2, <1>3, CoreFacts DEF CoreInv, Undisturbed

\* dsh goes or comes: one kind of readiness for the other.
LEMMA HarnessGoesOrComesKeeps ==
  ASSUME built \in Nat, CoreInv, HarnessGoesOrComes  PROVE CoreInv'
<1>1. PICK state \in Readiness : core' = [core EXCEPT !.state = state]
  BY DEF HarnessGoesOrComes, Readiness
<1>2. core.state \in Readiness /\ UNCHANGED <<built, mishaps>>
  BY DEF HarnessGoesOrComes, Readiness
<1>3. Akin(core, core') /\ core'.bridge = core.bridge /\ core'.token = core.token
  BY <1>1, <1>2, CoreFacts DEF Akin, Core, State, Readiness, Pending
<1> QED BY <1>2, <1>3, AkinStep

\* The retry timer fires: a connect takes its place.
LEMMA RetryTimerKeeps ==
  ASSUME built \in Nat, CoreInv, RetryTimer  PROVE CoreInv'
<1> DEFINE k == [core EXCEPT !.retryTimer = FALSE]
<1>1. ConnectOn(k)
  BY DEF RetryTimer
<1>2. /\ k \in Core /\ k.bridge = core.bridge /\ k.state = core.state
      /\ k.transport = core.transport /\ k.subscription = core.subscription
      /\ k.streamOf = core.streamOf /\ k.connect = core.connect /\ k.auth = core.auth
      /\ k.generation = core.generation /\ k.token = core.token /\ k.retryTimer = FALSE
      /\ Pending(k) = Pending(core)
  BY CoreFacts DEF Core, Pending
<1> HIDE DEF k
<1>3. Numbered(k, built) /\ ConnectsFirst(k) /\ ReadyOnlyLive(k) /\ Ledger(k)
  BY <1>2, CoreFacts, AlikeWaits DEF Numbered, ConnectsFirst, ReadyOnlyLive
<1>4. /\ Fields(core', built')
      /\ Undisturbed' => Undisturbed
      /\ Undisturbed' /\ Connects(k) => Calm(core')
      /\ ~ Connects(k) => core' = k
  BY <1>1, <1>2, <1>3, ConnectOnKeeps
<1>5. Calm(core) /\ ~ Connects(k) => Calm(k)
  <2>1. core.retryTimer
    BY DEF RetryTimer
  <2> QED BY <1>2, <2>1, AlikeWaits
         DEF Calm, HoldsNothing, OwnAttempts, Moves, Connects, Terminal
<1>6. Undisturbed' => Calm(core')
  BY <1>4, <1>5, CoreFacts
<1> QED BY <1>4, <1>6 DEF CoreInv

\* A request is sent; nothing of the session changes.
LEMMA SendKeeps ==
  ASSUME built \in Nat, CoreInv, NEW r \in Request, Send(r)  PROVE CoreInv'
<1>1. core.transport # 0 /\ UNCHANGED <<built, mishaps>>
  BY DEF Send
<1>2. core' = core \/ \E a \in Auth : core' = Authenticating(core, a)
  BY DEF Send, FreeAuths
<1>3. Fields(core', built) /\ (Calm(core) => Calm(core'))
  BY <1>1, <1>2, CoreFacts, AuthenticatingKeeps
<1> QED BY <1>1, <1>3, CoreFacts DEF CoreInv, Undisturbed

\* A request is answered.
LEMMA AnsweredKeeps ==
  ASSUME built \in Nat, CoreInv, NEW r \in Request, Answered(r)  PROVE CoreInv'
<1>1. UNCHANGED <<built, mishaps>>
  BY DEF Answered
<1>2. \/ core' = core
      \/ core.state = "ready" /\ core' = [core EXCEPT !.state = "harness-offline"]
  BY DEF Answered, NoteHarnessDown
<1>3. Akin(core, core') /\ core'.bridge = core.bridge /\ core'.token = core.token
  <2>1. CASE core' = core
    BY <2>1, CoreFacts DEF Akin, Pending
  <2>2. CASE core.state = "ready" /\ core' = [core EXCEPT !.state = "harness-offline"]
    BY <2>2, CoreFacts DEF Akin, Core, State, Readiness, Pending
  <2> QED BY <1>2, <2>1, <2>2
<1> QED BY <1>1, <1>3, AkinStep

\* A request that is refused starts an attempt, and waits for it.
LEMMA UnauthorizedKeeps ==
  ASSUME built \in Nat, CoreInv, NEW r \in Request, Unauthorized(r)  PROVE CoreInv'
<1> DEFINE k == [core EXCEPT !.token = "none"]
<1>1. UNCHANGED <<built, mishaps>>
  BY DEF Unauthorized
<1>2. \/ core' = k
      \/ /\ k.authInFlight # NoAttempt \/ k.transport # 0
         /\ \E a \in Auth : core' = Authenticating(k, a)
  BY DEF Unauthorized, FreeAuths
<1>3. Akin(core, k) /\ k.bridge = core.bridge /\ k.token = "none"
  BY CoreFacts DEF Akin, Core, TokenKind, Pending
<1> HIDE DEF k
<1>4. Fields(k, built) /\ (Calm(core) => Calm(k))
  BY <1>3, CoreFacts, AkinKeeps
<1>5. Fields(core', built) /\ (Calm(k) => Calm(core'))
  BY <1>2, <1>4, AuthenticatingKeeps
<1> QED BY <1>1, <1>4, <1>5, CoreFacts DEF CoreInv, Undisturbed

\* A first call that fails on the way takes the transport down and sets the retry timer.
LEMMA RequestFailsKeeps ==
  ASSUME built \in Nat, CoreInv, RequestInv, NEW r \in Request, RequestFails(r)
  PROVE  CoreInv'
<1>1. core' = HandleFailure(core, "offline") /\ built' = built /\ request[r].at = "calling"
  BY DEF RequestFails
<1>2. Undisturbed' => Undisturbed /\ request[r].transport = core.transport
  BY DEF RequestFails, Note, Undisturbed
<1>3. request[r].transport # 0
  BY <1>1 DEF RequestInv, UnderWay
<1>4. /\ Fields(core', built)
      /\ core.bridge # 0 /\ OwnAttempts(core) => Calm(core')
  BY <1>1, CoreFacts, HandleFailureKeeps
<1>5. Undisturbed' => Calm(core')
  BY <1>2, <1>3, <1>4, CoreFacts DEF Calm, HoldsNothing
<1> QED BY <1>1, <1>4, <1>5 DEF CoreInv

-----------------------------------------------------------------------------
\* Requests.

LEMMA NoRequestIsSuspended == noRequest \in Suspended /\ ~ UnderWay(noRequest)
  BY DEF noRequest, Suspended, TokenKind, UnderWay

\* Requests end, go on over their transports, or are sent over one.
LEMMA RequestsStep ==
  ASSUME RequestInv,
         request' \in [Request -> Suspended],
         \A r \in Request : \/ request'[r] = noRequest
                            \/ request'[r].transport # 0
                            \/ /\ request'[r].transport = request[r].transport
                               /\ UnderWay(request'[r]) => UnderWay(request[r])
  PROVE  RequestInv'
<1>1. \A r \in Request : UnderWay(request'[r]) => request'[r].transport # 0
  BY NoRequestIsSuspended DEF RequestInv
<1> QED BY <1>1 DEF RequestInv

\* The end of an authentication reaches the requests that waited for it.
LEMMA ResumeKeepsRequests ==
  ASSUME RequestInv, NEW a \in Auth, NEW outcome, NEW token \in TokenKind,
         RequestsResume(a, outcome, token)
  PROVE  RequestInv'
<1>1. \A r \in Request :
        \/ request'[r] = request[r]
        \/ request'[r] = noRequest
        \/ /\ request[r].auth = a
           /\ \E at \in {"recalling", "calling"} :
                request'[r] = [request[r] EXCEPT !.auth = NoAttempt, !.token = token, !.at = at]
  BY DEF RequestsResume
<1>2. request' = [r \in Request |-> request'[r]]
  BY DEF RequestsResume
<1>3. ASSUME NEW r \in Request
      PROVE  /\ request'[r] \in Suspended
             /\ \/ request'[r] = noRequest
                \/ /\ request'[r].transport = request[r].transport
                   /\ UnderWay(request'[r]) => UnderWay(request[r])
  <2>1. request[r] \in Suspended
    BY DEF RequestInv
  <2>2. CASE request'[r] = request[r] \/ request'[r] = noRequest
    BY <2>1, <2>2, NoRequestIsSuspended
  <2>3. CASE request[r].auth = a /\
             \E at \in {"recalling", "calling"} :
               request'[r] = [request[r] EXCEPT !.auth = NoAttempt, !.token = token, !.at = at]
    BY <2>1, <2>3, M1Assumption DEF Suspended, UnderWay
  <2> QED BY <1>1, <2>2, <2>3
<1>4. request' \in [Request -> Suspended]
  BY <1>2, <1>3
<1> QED BY <1>3, <1>4, RequestsStep

\* Tokens die where the bridge forgets them, and the requests do not notice.
LEMMA DyingKeepsRequests ==
  ASSUME RequestInv,
         request' = [r \in Request |-> IF request[r].token = "good"
                                      THEN [request[r] EXCEPT !.token = "dead"] ELSE request[r]]
  PROVE  RequestInv'
<1>1. request' \in [Request -> Suspended]
  BY DEF RequestInv, Suspended, TokenKind
<1>2. \A r \in Request : /\ request'[r].transport = request[r].transport
                         /\ UnderWay(request'[r]) => UnderWay(request[r])
  BY DEF RequestInv, Suspended, UnderWay
<1> QED BY <1>1, <1>2, RequestsStep

\* One request changes: it ends, is sent, or goes on over its transport.
LEMMA OneRequestKeeps ==
  ASSUME RequestInv, NEW r \in Request, NEW q \in Suspended,
         request' = [request EXCEPT ![r] = q],
         \/ q = noRequest
         \/ q.transport # 0
         \/ q.transport = request[r].transport /\ (UnderWay(q) => UnderWay(request[r]))
  PROVE  RequestInv'
<1>1. request' \in [Request -> Suspended]
  BY DEF RequestInv
<1>2. \A s \in Request : request'[s] = IF s = r THEN q ELSE request[s]
  BY DEF RequestInv
<1> QED BY <1>1, <1>2, RequestsStep

\* Every step keeps requests tied to transports and attempts that exist.
LEMMA RequestStep ==
  ASSUME CoreInv, RequestInv, M1Next  PROVE RequestInv'
<1>0. core \in Core /\ core.token \in TokenKind /\ core.transport \in Nat /\ core.generation \in Nat
  BY CoreFacts DEF Core
<1>1. CASE UNCHANGED request
  BY <1>1 DEF RequestInv
<1>2. ASSUME NEW a \in Auth, NEW outcome, NEW tierChanged \in BOOLEAN,
             AuthSettles(a, outcome, tierChanged)
      PROVE  RequestInv'
  <2> DEFINE k == Adopted(core, a, outcome, tierChanged)
  <2>1. RequestsResume(a, outcome, k.token)
    BY <1>2 DEF AuthSettles
  <2>2. k.token \in TokenKind
    BY <1>0, AdoptedFacts DEF Settled, Core
  <2> QED BY <2>1, <2>2, ResumeKeepsRequests
<1>3. ASSUME NEW a \in Auth, ProofAccepted(a) \/ AuthRefused(a) \/ AuthFails(a)
      PROVE  RequestInv'
  <2>1. \E outcome \in {"ok", "unauthenticated", "offline", "pin-mismatch"},
           tierChanged \in BOOLEAN : AuthSettles(a, outcome, tierChanged)
    <3>1. CASE ProofAccepted(a)
      BY <3>1 DEF ProofAccepted
    <3>2. CASE AuthRefused(a)
      BY <3>2 DEF AuthRefused
    <3>3. CASE AuthFails(a)
      BY <3>3 DEF AuthFails
    <3> QED BY <1>3, <3>1, <3>2, <3>3
  <2> QED BY <1>2, <2>1
<1>4. CASE Hello \/ BridgeRestarts \/ Revoked
  <2>1. request' = [r \in Request |-> IF request[r].token = "good"
                                     THEN [request[r] EXCEPT !.token = "dead"] ELSE request[r]]
    <3>1. CASE Hello
      BY <3>1 DEF Hello
    <3>2. CASE BridgeRestarts \/ Revoked
      <4>1. request' = [r \in Request |->
                          [request[r] EXCEPT !.token = IF request[r].token = "good" THEN "dead"
                                                       ELSE request[r].token]]
        BY <3>2 DEF BridgeRestarts, Revoked, Forgetting
      <4>2. \A r \in Request :
              [request[r] EXCEPT !.token = IF request[r].token = "good" THEN "dead"
                                           ELSE request[r].token]
                = IF request[r].token = "good" THEN [request[r] EXCEPT !.token = "dead"]
                  ELSE request[r]
        BY DEF RequestInv, Suspended
      <4> QED BY <4>1, <4>2
    <3> QED BY <1>4, <3>1, <3>2
  <2> QED BY <2>1, DyingKeepsRequests
<1>5. ASSUME NEW r \in Request, Answered(r) \/ Refused(r) \/ RequestFails(r)
      PROVE  RequestInv'
  <2>1. request' = [request EXCEPT ![r] = noRequest]
    BY <1>5 DEF Answered, Refused, RequestFails
  <2> QED BY <2>1, NoRequestIsSuspended, OneRequestKeeps
<1>6. ASSUME NEW r \in Request, Send(r)  PROVE RequestInv'
  <2> DEFINE new == [noRequest EXCEPT !.transport = core.transport,
                                      !.generation = core.generation]
  <2>1. new \in Suspended /\ new.transport = core.transport
    BY <1>0, NoRequestIsSuspended DEF Suspended
  <2>2. core.transport # 0
    BY <1>6 DEF Send
  <2>3. \/ \E a \in Auth : request' = [request EXCEPT ![r] = [new EXCEPT !.at = "auth",
                                                             !.auth = Attempt(core, a)]]
        \/ request' = [request EXCEPT ![r] = [new EXCEPT !.at = "calling", !.token = core.token]]
    BY <1>6 DEF Send, FreeAuths
  <2> HIDE DEF new
  <2>4. CASE request' = [request EXCEPT ![r] = [new EXCEPT !.at = "calling",
                                                           !.token = core.token]]
    <3>1. PICK q : q = [new EXCEPT !.at = "calling", !.token = core.token]
      OBVIOUS
    <3>2. q \in Suspended /\ q.transport # 0
      BY <1>0, <2>1, <2>2, <3>1 DEF Suspended
    <3> QED BY <2>4, <3>1, <3>2, OneRequestKeeps
  <2>5. ASSUME NEW a \in Auth,
               request' = [request EXCEPT ![r] = [new EXCEPT !.at = "auth",
                                                             !.auth = Attempt(core, a)]]
        PROVE  RequestInv'
    <3>1. PICK q : q = [new EXCEPT !.at = "auth", !.auth = Attempt(core, a)]
      OBVIOUS
    <3>2. Attempt(core, a) \in Auth \cup {NoAttempt}
      BY <1>0, AuthenticatingFacts
    <3>3. q \in Suspended /\ q.transport # 0
      BY <2>1, <2>2, <3>1, <3>2 DEF Suspended
    <3> QED BY <2>5, <3>1, <3>3, OneRequestKeeps
  <2> QED BY <2>3, <2>4, <2>5
<1>7. ASSUME NEW r \in Request, Unauthorized(r)  PROVE RequestInv'
  <2> DEFINE k == [core EXCEPT !.token = "none"]
  <2>1. /\ request[r].at = "calling" /\ request[r] \in Suspended
        /\ UnderWay(request[r])
    BY <1>7 DEF Unauthorized, RequestInv, UnderWay
  <2>2. k \in Core
    BY <1>0 DEF Core, TokenKind
  <2>3. \/ request' = [request EXCEPT ![r] = noRequest]
        \/ \E a \in Auth : request' = [request EXCEPT ![r].at = "reauth",
                                                     ![r].auth = Attempt(k, a)]
    BY <1>7 DEF Unauthorized, FreeAuths
  <2> HIDE DEF k
  <2>4. CASE request' = [request EXCEPT ![r] = noRequest]
    BY <2>4, NoRequestIsSuspended, OneRequestKeeps
  <2>5. ASSUME NEW a \in Auth,
               request' = [request EXCEPT ![r].at = "reauth", ![r].auth = Attempt(k, a)]
        PROVE  RequestInv'
    <3>1. PICK q : q = [request[r] EXCEPT !.at = "reauth", !.auth = Attempt(k, a)]
      OBVIOUS
    <3>2. Attempt(k, a) \in Auth \cup {NoAttempt}
      BY <2>2, AuthenticatingFacts
    <3>3. q \in Suspended /\ q.transport = request[r].transport
      BY <2>1, <3>1, <3>2 DEF Suspended
    <3>4. request' = [request EXCEPT ![r] = q]
      BY <2>5, <3>1 DEF RequestInv
    <3> QED BY <2>1, <3>3, <3>4, OneRequestKeeps
  <2> QED BY <2>3, <2>4, <2>5
<1>8. \/ UNCHANGED request
      \/ \E a \in Auth : ProofAccepted(a) \/ AuthRefused(a) \/ AuthFails(a)
      \/ Hello \/ BridgeRestarts \/ Revoked
      \/ \E r \in Request : \/ Answered(r) \/ Refused(r) \/ RequestFails(r)
                            \/ Send(r) \/ Unauthorized(r)
  BY DEF M1Next, Start, ReconnectNow, Pair, PairEnds, ClearPairing, AdoptionSettles,
         ClearSettles, WriteRejected, ChallengeAnswers, NonceElapses, StreamCloses, RevokedFrame, TokenExpiring, HarnessGoesOrComes, RetryTimer
<1> QED BY <1>1, <1>3, <1>4, <1>5, <1>6, <1>7, <1>8

-----------------------------------------------------------------------------
\* Why a session may say that it was revoked.

\* A step that gives no new reason to say so, unless the device is revoked.
LEMMA CauseStep ==
  ASSUME CauseInv, UNCHANGED <<device, everRevoked>>,
         "nonce lost" \in mishaps => "nonce lost" \in mishaps',
         core'.state = "revoked" /\ "nonce lost" \notin mishaps'
           => core.state = "revoked" \/ device = "revoked",
         device = "unpaired" => Bare(core')
  PROVE  CauseInv'
  BY DEF CauseInv

\* Connecting says nothing of who revoked whom.
LEMMA ConnectOnKeepsCause ==
  ASSUME built \in Nat, CoreInv, CauseInv, NEW k \in Core, Numbered(k, built), ConnectsFirst(k),
         Ledger(k),
         k.connect.at # "none" \/ ~ Connects(k) => ReadyOnlyLive(k), ConnectOn(k),
         k.state # "revoked" \/ k.state = core.state,
         device = "unpaired" => Bare(k),
         UNCHANGED <<device, everRevoked>>
  PROVE  CauseInv'
<1>1. /\ ~ Connects(k) => core' = k
      /\ core'.state \in {k.state, "connecting"}
      /\ "nonce lost" \in mishaps' <=> "nonce lost" \in mishaps
  BY ConnectOnKeeps
<1>2. device = "unpaired" => ~ Connects(k)
  BY DEF Bare, Connects
<1> QED BY <1>1, <1>2, CauseStep

\* An attempt that ends in a refusal has a cause.
LEMMA SettlingKeepsCause ==
  ASSUME built \in Nat, CoreInv, CauseInv, NEW a \in Auth, NEW outcome, core.auth[a].at # "free",
         NEW tierChanged \in BOOLEAN, AuthSettles(a, outcome, tierChanged),
         outcome \in {"unauthenticated", "device-revoked"}
           => device = "revoked" \/ "nonce lost" \in mishaps',
         "nonce lost" \in mishaps => "nonce lost" \in mishaps'
  PROVE  CauseInv'
<1>1. core'.state = "revoked" => \/ core.state = "revoked"
                                \/ outcome \in {"unauthenticated", "device-revoked"}
  BY CoreFacts, AuthSettlesKeeps
<1>2. UNCHANGED <<device, everRevoked>>
  BY DEF AuthSettles
<1>3. device # "unpaired"
  BY DEF CauseInv, Bare
<1> QED BY <1>1, <1>2, <1>3, CauseStep

\* Every step: what the phone forgets, it forgets for cause.
LEMMA CauseKept ==
  ASSUME built \in Nat, intents \in Nat, CoreInv, CauseInv, RequestInv, M1Next
  PROVE  CauseInv'
<1>0. /\ core \in Core /\ core.generation \in Nat
      /\ Numbered(core, built) /\ ConnectsFirst(core) /\ ReadyOnlyLive(core) /\ Ledger(core)
  BY CoreFacts DEF Core
<1>a. device = "unpaired" => Bare(core)
  BY DEF CauseInv
<1>1. CASE Start
  <2>1. CASE device = "active"
    <3> DEFINE k == [core EXCEPT !.bridge = 1, !.state = "paired"]
    <3>1. ConnectOn(k) /\ UNCHANGED <<device, everRevoked>>
      BY <1>1, <2>1 DEF Start
    <3>2. /\ k \in Core /\ k.state = "paired"
          /\ k.transport = core.transport /\ k.subscription = core.subscription
          /\ k.streamOf = core.streamOf /\ k.connect = core.connect /\ k.auth = core.auth
          /\ k.generation = core.generation /\ Pending(k) = Pending(core)
      BY <1>0 DEF Core, State, Pending
    <3> HIDE DEF k
    <3>3. Numbered(k, built) /\ ConnectsFirst(k) /\ ReadyOnlyLive(k) /\ Ledger(k)
      BY <1>0, <3>2, AlikeWaits DEF Numbered, ConnectsFirst, ReadyOnlyLive, Readiness
    <3> QED BY <2>1, <3>1, <3>2, <3>3, ConnectOnKeepsCause
  <2>2. CASE device # "active"
    <3>1. core' = [core EXCEPT !.state = "unpaired"]
          /\ UNCHANGED <<device, everRevoked, mishaps>>
      BY <1>1, <2>2 DEF Start
    <3>2. core'.state = "unpaired" /\ (Bare(core) => Bare(core'))
      BY <1>0, <3>1 DEF Core, Bare
    <3> QED BY <1>a, <3>1, <3>2, CauseStep
  <2> QED BY <2>1, <2>2
<1>2. CASE ReconnectNow
  <2> DEFINE k == TeardownTransport(core)
  <2>1. ConnectOn(k) /\ Connects(core) /\ UNCHANGED <<device, everRevoked>>
    BY <1>2 DEF ReconnectNow
  <2>2. /\ k \in Core /\ k.subscription = "none" /\ k.transport = 0
        /\ k.state = core.state /\ k.bridge = core.bridge /\ k.generation = core.generation
        /\ k.streamOf = core.streamOf /\ k.connect = core.connect /\ k.auth = core.auth
        /\ Pending(k) = Pending(core)
    BY <1>0, TeardownTransportFacts
  <2> HIDE DEF k
  <2>3. Numbered(k, built) /\ ConnectsFirst(k) /\ Ledger(k)
    BY <1>0, <2>2, TearingKeeps, AlikeWaits
  <2>4. k.connect.at # "none" \/ ~ Connects(k) => ReadyOnlyLive(k)
    BY <1>0, <2>1, <2>2, AlikeWaits DEF ConnectsFirst, ReadyOnlyLive, Connects, Terminal
  <2>5. device # "unpaired"
    BY <1>a, <2>1 DEF Bare, Connects
  <2> QED BY <2>1, <2>2, <2>3, <2>4, <2>5, ConnectOnKeepsCause
<1>3. CASE Pair \/ ClearPairing
  <2> DEFINE t == Teardown(core)
  <2>1. UNCHANGED <<device, everRevoked, mishaps>>
    BY <1>3 DEF Pair, ClearPairing
  <2>2. \/ core' = [t EXCEPT !.generation = t.generation + 1, !.state = "pairing",
                             !.pairing = TRUE]
        \/ core' = [t EXCEPT !.generation = t.generation + 1, !.bridge = 0, !.pairing = FALSE,
                             !.clearing = t.clearing \cup {core.generation + 1}]
    BY <1>3 DEF Pair, ClearPairing
  <2>3. /\ t \in Core /\ t.subscription = "none" /\ t.transport = 0 /\ t.authInFlight = NoAttempt
        /\ t.bridge = core.bridge /\ t.connect = core.connect /\ t.auth = core.auth
        /\ t.state = core.state
    BY <1>0, TeardownFacts
  <2> HIDE DEF t
  <2>4. /\ core'.state \in {core.state, "pairing"} /\ core'.transport = 0 /\ core'.authInFlight = NoAttempt
        /\ core'.subscription = "none" /\ core'.bridge \in {0, core.bridge}
        /\ core'.connect = core.connect /\ core'.auth = core.auth
    BY ZenonT(40), <2>2, <2>3 DEF Core
  <2>5. Bare(core) => Bare(core')
    BY <2>4 DEF Bare
  <2> QED BY <1>a, <2>1, <2>4, <2>5, CauseStep
<1>4. ASSUME NEW ok \in BOOLEAN, PairEnds(ok)  PROVE CauseInv'
  <2> DEFINE q == [core EXCEPT !.pairing = FALSE]
  <2>0. /\ q \in Core /\ q.bridge = core.bridge /\ q.authInFlight = core.authInFlight
        /\ q.transport = core.transport /\ q.subscription = core.subscription
        /\ q.connect = core.connect /\ q.auth = core.auth /\ q.state = core.state
    BY <1>0 DEF Core
  <2>a. UNCHANGED mishaps /\ core.state # "revoked"
    BY <1>0, <1>4 DEF PairEnds, Ledger
  <2>1. CASE ok
    <3>1. /\ core' = [q EXCEPT !.bridge = intents + 1,
                               !.adopting = q.adopting \cup {core.generation}]
          /\ device' = "active" /\ everRevoked' = FALSE
      BY <1>4, <2>1 DEF PairEnds
    <3> HIDE DEF q
    <3>2. core'.state = core.state
      BY <2>0, <3>1 DEF Core
    <3> QED BY <2>a, <3>1, <3>2 DEF CauseInv
  <2>2. CASE ~ ok
    <3>1. PICK state \in {"refused", "unpaired", "relay-unavailable"} :
            core' = [q EXCEPT !.state = state]
      BY <1>4, <2>2 DEF PairEnds, AfterPairFailure
    <3>2. UNCHANGED <<device, everRevoked>>
      BY <1>4, <2>2 DEF PairEnds
    <3> HIDE DEF q
    <3>3. core'.state # "revoked" /\ (Bare(core) => Bare(core'))
      BY <2>0, <3>1 DEF Core, Bare
    <3> QED BY <1>a, <2>a, <3>2, <3>3, CauseStep
  <2> QED BY <2>1, <2>2
<1>16. ASSUME NEW g, AdoptionSettles(g)  PROVE CauseInv'
  <2> DEFINE k == [core EXCEPT !.adopting = core.adopting \ {g}, !.state = "paired"]
  <2>1. Calls(k) /\ UNCHANGED <<device, everRevoked>>
    BY <1>16 DEF AdoptionSettles
  <2>2. "nonce lost" \in mishaps => "nonce lost" \in mishaps'
    BY <1>16 DEF AdoptionSettles
  <2>3. k = [core EXCEPT !.adopting = core.adopting \ {g}, !.state = "paired"]
    OBVIOUS
  <2>4. PICK adopting \in SUBSET Nat : adopting = core.adopting \ {g}
    BY <1>0 DEF Core
  <2> HIDE DEF k
  <2>5. /\ k \in Core /\ k.bridge = core.bridge /\ k.state = "paired"
        /\ k.transport = core.transport /\ k.subscription = core.subscription
        /\ k.streamOf = core.streamOf /\ k.connect = core.connect /\ k.auth = core.auth
        /\ k.generation = core.generation /\ k.authInFlight = core.authInFlight
        /\ k.pairing = core.pairing /\ k.adopting = adopting
        /\ k.clearing = core.clearing /\ k.rejected = core.rejected
    BY <1>0, <2>3, <2>4 DEF Core, State
  <2>6. Numbered(k, built) /\ ConnectsFirst(k) /\ ReadyOnlyLive(k) /\ Ledger(k)
    BY <1>0, <2>4, <2>5 DEF Numbered, ConnectsFirst, ReadyOnlyLive, Readiness, Ledger
  <2>7. core'.state # "revoked" /\ (~ Connects(k) => core' = k)
    BY <2>1, <2>5, <2>6, CallsKeeps
  <2>8. device = "unpaired" => Bare(core')
    BY <1>a, <2>5, <2>7 DEF Bare, Connects
  <2> QED BY <2>1, <2>2, <2>7, <2>8, CauseStep
<1>17. ASSUME NEW g, ClearSettles(g) \/ WriteRejected(g)  PROVE CauseInv'
  <2>1. UNCHANGED <<device, everRevoked, mishaps>>
    BY <1>17 DEF ClearSettles, WriteRejected
  <2>2. \/ core' = [core EXCEPT !.clearing = core.clearing \ {g}, !.state = "cleared"]
        \/ core' = [core EXCEPT !.adopting = core.adopting \ {g},
                               !.clearing = core.clearing \ {g},
                               !.rejected = core.rejected \cup {g}]
    BY <1>17 DEF ClearSettles, WriteRejected
  <2>3. core'.state \in {core.state, "cleared"} /\ (Bare(core) => Bare(core'))
    BY <1>0, <2>2 DEF Core, Bare
  <2> QED BY <1>a, <2>1, <2>3, CauseStep
<1>5. ASSUME NEW a \in Auth, ChallengeAnswers(a) \/ NonceElapses(a)  PROVE CauseInv'
  <2>1. core.auth[a].at # "free" /\ UNCHANGED <<device, everRevoked, mishaps>>
    BY <1>5 DEF ChallengeAnswers, NonceElapses
  <2>2. device # "unpaired"
    BY <1>a, <2>1 DEF Bare
  <2>3. core'.state = core.state
    BY <1>0, <1>5 DEF ChallengeAnswers, NonceElapses, Core
  <2> QED BY <2>1, <2>2, <2>3, CauseStep
<1>6. ASSUME NEW a \in Auth, ProofAccepted(a)  PROVE CauseInv'
  <2>1. PICK tierChanged \in BOOLEAN : AuthSettles(a, "ok", tierChanged)
    BY <1>6 DEF ProofAccepted
  <2>2. core.auth[a].at # "free" /\ ("nonce lost" \in mishaps => "nonce lost" \in mishaps')
    BY <1>6 DEF ProofAccepted, Note
  <2> QED BY <2>1, <2>2, SettlingKeepsCause
<1>7. ASSUME NEW a \in Auth, AuthRefused(a)  PROVE CauseInv'
  <2>1. AuthSettles(a, "unauthenticated", FALSE) /\ core.auth[a].at # "free"
    BY <1>7 DEF AuthRefused
  <2>2. /\ "nonce lost" \in mishaps => "nonce lost" \in mishaps'
        /\ device = "active" => "nonce lost" \in mishaps'
    BY <1>7 DEF AuthRefused, Note
  <2>3. device = "active" \/ device = "revoked"
    BY <1>a, <2>1 DEF CauseInv, Bare
  <2>4. FALSE \in BOOLEAN
    OBVIOUS
  <2> QED BY <2>1, <2>2, <2>3, <2>4, SettlingKeepsCause
<1>8. ASSUME NEW a \in Auth, AuthFails(a)  PROVE CauseInv'
  <2>1. PICK failure \in {"offline", "pin-mismatch"} : AuthSettles(a, failure, FALSE)
    BY <1>8 DEF AuthFails
  <2>2. core.auth[a].at # "free" /\ UNCHANGED mishaps
    BY <1>8 DEF AuthFails
  <2>3. failure \notin {"unauthenticated", "device-revoked"} /\ FALSE \in BOOLEAN
    OBVIOUS
  <2> QED BY <2>1, <2>2, <2>3, SettlingKeepsCause
<1>9. CASE Hello \/ StreamCloses \/ HarnessGoesOrComes \/ TokenExpiring \/ RevokedFrame
  <2>1. core.subscription # "none" /\ UNCHANGED <<device, everRevoked, mishaps>>
    BY <1>9 DEF Hello, StreamCloses, HarnessGoesOrComes, TokenExpiring, RevokedFrame,
                Live, Following
  <2>2. device # "unpaired"
    BY <1>a, <2>1 DEF Bare
  <2>3. core'.state = "revoked" => core.state = "revoked" \/ device = "revoked"
    <3>1. CASE Hello
      BY <1>0, <3>1 DEF Hello, Core
    <3>2. CASE StreamCloses
      <4> DEFINE k == [core EXCEPT !.subscription = "none"]
      <4>1. core' = ScheduleRetry(k)
        BY <3>2 DEF StreamCloses
      <4>2. k \in Core /\ k.state = core.state
        BY <1>0 DEF Core
      <4> HIDE DEF k
      <4>3. core' = k \/ core'.state = "reconnecting"
        BY <4>1, <4>2, ScheduleRetryFacts DEF ScheduleRetry
      <4> QED BY <4>2, <4>3
    <3>3. CASE HarnessGoesOrComes
      BY <1>0, <3>3 DEF HarnessGoesOrComes, Core
    <3>4. CASE TokenExpiring
      BY <1>0, <3>4, AuthenticatingFacts DEF TokenExpiring, FreeAuths
    <3>5. CASE RevokedFrame
      BY <3>5 DEF RevokedFrame
    <3> QED BY <1>9, <3>1, <3>2, <3>3, <3>4, <3>5
  <2> QED BY <2>1, <2>2, <2>3, CauseStep
<1>10. CASE RetryTimer
  <2> DEFINE k == [core EXCEPT !.retryTimer = FALSE]
  <2>1. ConnectOn(k) /\ UNCHANGED <<device, everRevoked>>
    BY <1>10 DEF RetryTimer
  <2>2. /\ k \in Core /\ k.bridge = core.bridge /\ k.state = core.state
        /\ k.transport = core.transport /\ k.subscription = core.subscription
        /\ k.streamOf = core.streamOf /\ k.connect = core.connect /\ k.auth = core.auth
        /\ k.generation = core.generation /\ k.authInFlight = core.authInFlight
        /\ Pending(k) = Pending(core)
    BY <1>0 DEF Core, Pending
  <2> HIDE DEF k
  <2>3. Numbered(k, built) /\ ConnectsFirst(k) /\ ReadyOnlyLive(k) /\ Ledger(k)
    BY <1>0, <2>2, AlikeWaits DEF Numbered, ConnectsFirst, ReadyOnlyLive
  <2>4. device = "unpaired" => Bare(k)
    BY <1>a, <2>2 DEF Bare
  <2> QED BY <2>1, <2>2, <2>3, <2>4, ConnectOnKeepsCause
<1>11. ASSUME NEW r \in Request, Send(r)  PROVE CauseInv'
  <2>1. core.transport # 0 /\ UNCHANGED <<device, everRevoked, mishaps>>
    BY <1>11 DEF Send
  <2>2. device # "unpaired"
    BY <1>a, <2>1 DEF Bare
  <2>3. core' = core \/ \E a \in Auth : core' = Authenticating(core, a)
    BY <1>11 DEF Send, FreeAuths
  <2>4. core'.state = core.state
    BY <1>0, <2>3, AuthenticatingFacts
  <2> QED BY <2>1, <2>2, <2>4, CauseStep
<1>12. ASSUME NEW r \in Request, Answered(r) \/ Refused(r)  PROVE CauseInv'
  <2>1. UNCHANGED <<device, everRevoked, mishaps>>
    BY <1>12 DEF Answered, Refused
  <2>2. core' = core \/ core' = [core EXCEPT !.state = "harness-offline"]
    BY <1>12 DEF Answered, Refused, NoteHarnessDown
  <2>3. core'.state \in {core.state, "harness-offline"} /\ (Bare(core) => Bare(core'))
    BY <1>0, <2>2 DEF Core, Bare
  <2> QED BY <1>a, <2>1, <2>3, CauseStep
<1>13. ASSUME NEW r \in Request, Unauthorized(r)  PROVE CauseInv'
  <2> DEFINE k == [core EXCEPT !.token = "none"]
  <2>1. UNCHANGED <<device, everRevoked, mishaps>>
    BY <1>13 DEF Unauthorized
  <2>2. \/ core' = k
        \/ /\ ~ (k.authInFlight = NoAttempt /\ (k.bridge = 0 \/ k.transport = 0))
           /\ \E a \in Auth : core' = Authenticating(k, a)
    BY <1>13 DEF Unauthorized, FreeAuths
  <2>3. k \in Core /\ k.state = core.state /\ (Bare(core) => Bare(k))
    BY <1>0 DEF Core, TokenKind, Bare
  <2> HIDE DEF k
  <2>4. core'.state = core.state
    BY <2>2, <2>3, AuthenticatingFacts
  <2>5. Bare(k) => core' = k
    BY <2>2 DEF Bare
  <2> QED BY <1>a, <2>1, <2>3, <2>4, <2>5, CauseStep
<1>14. ASSUME NEW r \in Request, RequestFails(r)  PROVE CauseInv'
  <2>1. core' = HandleFailure(core, "offline") /\ UNCHANGED <<device, everRevoked>>
    BY <1>14 DEF RequestFails
  <2>2. "nonce lost" \in mishaps => "nonce lost" \in mishaps'
    BY <1>14 DEF RequestFails, Note
  <2>3. core' = core \/ (~ Terminal(core) /\ core' = ScheduleRetry(core))
    BY <2>1 DEF HandleFailure
  <2>4. core'.state \in {core.state, "reconnecting"} /\ (Bare(core) => Bare(core'))
    <3>1. CASE core' = core
      BY <3>1
    <3>2. CASE ~ Terminal(core) /\ core' = ScheduleRetry(core)
      <4>1. /\ core'.state = "reconnecting" /\ core'.bridge = core.bridge
            /\ core'.transport = 0 /\ core'.authInFlight = NoAttempt /\ core'.subscription = "none"
            /\ core'.connect = core.connect /\ core'.auth = core.auth
        BY <1>0, <3>2, ScheduleRetryFacts
      <4> QED BY <4>1 DEF Bare
    <3> QED BY <2>3, <3>1, <3>2
  <2> QED BY <1>a, <2>1, <2>2, <2>4, CauseStep
<1>15. CASE BridgeRestarts \/ Revoked
  <2>1. core' = [core EXCEPT !.token = IF core.token = "good" THEN "dead" ELSE core.token,
                   !.auth = [a \in Auth |-> [core.auth[a] EXCEPT !.good = FALSE]]]
    BY <1>15 DEF BridgeRestarts, Revoked, Forgetting
  <2>2. core'.state = core.state /\ (Bare(core) => Bare(core'))
    BY <1>0, <2>1 DEF Core, Attempts, Bare
  <2>3. CASE BridgeRestarts
    <3>1. UNCHANGED <<device, everRevoked, mishaps>>
      BY <2>3 DEF BridgeRestarts
    <3> QED BY <1>a, <2>2, <3>1, CauseStep
  <2>4. CASE Revoked
    BY <2>4 DEF Revoked, CauseInv
  <2> QED BY <1>15, <2>3, <2>4
<1> QED BY <1>1, <1>2, <1>3, <1>4, <1>5, <1>6, <1>7, <1>8, <1>9, <1>10, <1>11, <1>12, <1>13,
           <1>14, <1>15, <1>16, <1>17 DEF M1Next

-----------------------------------------------------------------------------
\* The theorems.

LEMMA M1InitEstablishesInv == M1Init => M1Inv
<1> SUFFICES ASSUME M1Init PROVE M1Inv
  OBVIOUS
<1>1. /\ noAuth \in Attempts /\ noAuth.at = "free" /\ noAuth.transport = 0
      /\ noConnect \in Connecting /\ noConnect.at = "none" /\ noConnect.transport = 0
  BY DEF noAuth, noConnect, Attempts, Connecting
<1>2. /\ core \in Core
      /\ core.state = "unstarted" /\ core.bridge = 0 /\ core.transport = 0
      /\ core.token = "none" /\ core.subscription = "none" /\ core.streamOf = 0
      /\ core.retryTimer = FALSE /\ core.connect = noConnect /\ core.authInFlight = NoAttempt
      /\ \A a \in Auth : core.auth[a] = noAuth
      /\ core.adopting = {} /\ core.clearing = {} /\ core.rejected = {} /\ core.pairing = FALSE
  BY <1>1 DEF M1Init, Core, State, TokenKind
<1>3. built = 0
  BY DEF M1Init
<1>4. Fields(core, built)
  BY <1>1, <1>2, <1>3 
     DEF Fields, Numbered, ConnectsFirst, ReadyOnlyLive, Readiness, Ledger
<1>5. Calm(core)
  BY <1>1, <1>2 DEF Calm, HoldsNothing, OwnAttempts, Moves, Resting
<1>6. RequestInv
  BY NoRequestIsSuspended DEF M1Init, RequestInv
<1>7. CauseInv
  BY <1>1, <1>2 DEF M1Init, CauseInv, Bare
<1> QED BY <1>4, <1>5, <1>6, <1>7 DEF M1Init, M1Inv, CoreInv

\* The counters stay numbers.
LEMMA CountersKeepTypes ==
  ASSUME built \in Nat, intents \in Nat, faults \in Nat, M1Next
  PROVE  built' \in Nat /\ intents' \in Nat /\ faults' \in Nat
<1> DEFINE Typed == built' \in Nat /\ intents' \in Nat /\ faults' \in Nat
<1>0. Fault => faults' \in Nat
  BY DEF Fault
<1>a. ASSUME NEW k, Calls(k)  PROVE built' \in Nat
  <2>1. built' = built + 1 \/ built' = built
    BY <1>a DEF Calls, Builds, NextTransport
  <2> QED BY <2>1
<1>1. ASSUME NEW k, ConnectOn(k)  PROVE built' \in Nat
  BY <1>a, <1>1 DEF ConnectOn
<1>2. CASE Start
  BY <1>1, <1>2 DEF Start
<1>3. CASE ReconnectNow
  BY <1>1, <1>3 DEF ReconnectNow, Intent
<1>4. CASE Pair \/ ClearPairing
  BY <1>4 DEF Pair, ClearPairing, Intent
<1>5. ASSUME NEW ok \in BOOLEAN, PairEnds(ok)  PROVE Typed
  BY <1>5 DEF PairEnds
<1>11. ASSUME NEW g, AdoptionSettles(g) \/ ClearSettles(g) \/ WriteRejected(g)  PROVE Typed
  BY <1>0, <1>a, <1>11 DEF AdoptionSettles, ClearSettles, WriteRejected
<1>6. ASSUME NEW a \in Auth, \/ ChallengeAnswers(a) \/ ProofAccepted(a) \/ AuthRefused(a)
                             \/ AuthFails(a) \/ NonceElapses(a)
      PROVE  Typed
  <2>1. UNCHANGED <<built, intents>> /\ (Fault \/ UNCHANGED faults)
    <3>1. CASE ChallengeAnswers(a)
      BY <3>1 DEF ChallengeAnswers
    <3>2. CASE ProofAccepted(a)
      BY <3>2 DEF ProofAccepted, AuthSettles
    <3>3. CASE AuthRefused(a)
      BY <3>3 DEF AuthRefused, AuthSettles
    <3>4. CASE AuthFails(a)
      BY <3>4 DEF AuthFails, AuthSettles
    <3>5. CASE NonceElapses(a)
      BY <3>5 DEF NonceElapses
    <3> QED BY <1>6, <3>1, <3>2, <3>3, <3>4, <3>5
  <2> QED BY <1>0, <2>1
<1>7. CASE Hello \/ StreamCloses \/ RevokedFrame \/ TokenExpiring \/ HarnessGoesOrComes
  BY <1>7 DEF Hello, StreamCloses, RevokedFrame, TokenExpiring, HarnessGoesOrComes, Fault
<1>8. CASE RetryTimer
  BY <1>1, <1>8 DEF RetryTimer
<1>9. ASSUME NEW r \in Request, \/ Send(r) \/ Answered(r) \/ Unauthorized(r)
                                \/ Refused(r) \/ RequestFails(r)
      PROVE  Typed
  <2>1. UNCHANGED <<built, intents>> /\ (Fault \/ UNCHANGED faults)
    BY <1>9 DEF Send, Answered, Unauthorized, Refused, RequestFails
  <2> QED BY <1>0, <2>1
<1>10. CASE BridgeRestarts \/ Revoked
  BY <1>10 DEF BridgeRestarts, Revoked, Fault
<1> QED BY <1>2, <1>3, <1>4, <1>5, <1>6, <1>7, <1>8, <1>9, <1>10,
           <1>11 DEF M1Next

\* All the steps of the session.
LEMMA M1StepKeepsInv == M1Inv /\ [M1Next]_m1Vars => M1Inv'
<1> SUFFICES ASSUME M1Inv, [M1Next]_m1Vars PROVE M1Inv'
  OBVIOUS
<1>1. built \in Nat /\ intents \in Nat /\ faults \in Nat /\ CoreInv /\ RequestInv /\ CauseInv
  BY DEF M1Inv
<1>2. CASE UNCHANGED m1Vars
  BY <1>1, <1>2 DEF m1Vars, M1Inv, CoreInv, RequestInv, CauseInv, Undisturbed
<1>3. CASE M1Next
  <2>1. built' \in Nat /\ intents' \in Nat /\ faults' \in Nat
    BY <1>1, <1>3, CountersKeepTypes
  <2>3. CoreInv'
    <3>1. ASSUME NEW a \in Auth,
                 \/ ChallengeAnswers(a) \/ ProofAccepted(a) \/ AuthRefused(a)
                 \/ AuthFails(a) \/ NonceElapses(a)
          PROVE  CoreInv'
      BY <1>1, <3>1, ChallengeAnswersKeeps, ProofAcceptedKeeps, AuthRefusedKeeps,
         AuthFailsKeeps, NonceElapsesKeeps
    <3>2. ASSUME NEW r \in Request,
                 \/ Send(r) \/ Answered(r) \/ Unauthorized(r) \/ Refused(r) \/ RequestFails(r)
          PROVE  CoreInv'
      <4>1. CASE Refused(r)
        BY <1>1, <4>1 DEF Refused, CoreInv, Undisturbed
      <4> QED BY <1>1, <3>2, <4>1, SendKeeps, AnsweredKeeps, UnauthorizedKeeps,
                 RequestFailsKeeps
    <3>3. CASE Start \/ ReconnectNow \/ Pair \/ (\E ok \in BOOLEAN : PairEnds(ok))
               \/ ClearPairing
               \/ \E g \in core.adopting \cup core.clearing :
                    AdoptionSettles(g) \/ ClearSettles(g) \/ WriteRejected(g)
      BY <1>1, <3>3, StartKeeps, ReconnectNowKeeps, PairKeeps, PairEndsKeeps,
         ClearPairingKeeps, AdoptionSettlesKeeps, ClearSettlesKeeps, WriteRejectedKeeps
    <3>4. CASE Hello \/ StreamCloses \/ RevokedFrame \/ TokenExpiring \/ HarnessGoesOrComes
               \/ RetryTimer
      BY <1>1, <3>4, HelloKeeps, StreamClosesKeeps, RevokedFrameKeeps, TokenExpiringKeeps,
         HarnessGoesOrComesKeeps, RetryTimerKeeps
    <3>5. CASE BridgeRestarts \/ Revoked
      BY <1>1, <3>5, ForgettingKeeps DEF BridgeRestarts, Revoked
    <3> QED BY <1>3, <3>1, <3>2, <3>3, <3>4, <3>5 DEF M1Next
  <2>4. RequestInv'
    BY <1>1, <1>3, RequestStep
  <2>5. CauseInv'
    BY <1>1, <1>3, CauseKept
  <2> QED BY <2>1, <2>3, <2>4, <2>5 DEF M1Inv
<1> QED BY <1>2, <1>3

\* The fields keep their types and the parts above hold in every behaviour of the phone's
\* session (core.ts), for all slots, transports, intents and faults.
THEOREM M1InvHolds == M1Spec => []M1Inv
  BY M1InitEstablishesInv, M1StepKeepsInv, PTL DEF M1Spec

\* The phone says it is ready, or that only dsh is away, while a stream of its current
\* transport is live, or while a clear has torn it down and its write to the store is not
\* confirmed, and at no other time (core.ts, onHello, onStreamClosed and clear).
THEOREM ReadinessIsHonest == M1Spec => []ReadyIsLive
<1>1. M1Inv => ReadyIsLive
  <2> SUFFICES ASSUME M1Inv PROVE ReadyIsLive
    OBVIOUS
  <2>1. ReadyOnlyLive(core)
    BY CoreFacts DEF M1Inv
  <2> QED BY <2>1 DEF ReadyIsLive, ReadyOnlyLive, Readiness, Live, Following
<1> QED BY <1>1, M1InvHolds, PTL

\* A session that is neither ended nor at rest has a timer, a stream, a connect that
\* counts, a pairing run or a write it waits for, but for the races that are noted and a
\* rejected write (core.ts, connect, scheduleRetry, handleFailure, runPair and clear).
THEOREM SomethingMovesIt == M1Spec => []NeverIdle
<1>1. M1Inv => NeverIdle
  <2> SUFFICES ASSUME M1Inv, Undisturbed, ~ Terminal(core), core.state \notin Resting,
                      core.generation \notin core.rejected
               PROVE  Moving \/ core.pairing \/ core.generation \in core.adopting \cup core.clearing
    BY DEF NeverIdle
  <2>1. Moves(core)
    BY CoreFacts DEF M1Inv, Calm
  <2> QED BY <2>1 DEF Moves, Waits, Follows, Counts, Moving, Following, ConnectCounts
<1> QED BY <1>1, M1InvHolds, PTL

\* The phone forgets its bridge as revoked only if it was, and then holds nothing of it
\* (core.ts, applyRevocation, clear and what is under way when they run).
THEOREM ForgetsRightly == M1Spec => []ForgetsForCauseAndWholly
<1>1. M1Inv => ForgetsForCauseAndWholly
  <2> SUFFICES ASSUME M1Inv PROVE ForgottenHoldsNothing /\ ForgetsForCause
    BY DEF ForgetsForCauseAndWholly
  <2>1. Undisturbed => HoldsNothing(core)
    BY CoreFacts DEF M1Inv, Calm
  <2>2. ForgottenHoldsNothing
    BY <2>1 DEF ForgottenHoldsNothing, HoldsNothing
  <2>3. ForgetsForCause
    BY DEF M1Inv, CauseInv, ForgetsForCause
  <2> QED BY <2>2, <2>3
<1> QED BY <1>1, M1InvHolds, PTL

============================================================================
