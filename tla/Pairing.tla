------------------------------- MODULE Pairing -------------------------------
(***************************************************************************)
(* Pairing a phone over the LAN: the bridge's single pairing session       *)
(* (bridge/src/identity/pairing.ts), the windows the operator opens on it  *)
(* from a CLI or the panel (bridge/src/bridge.ts, beginPair), the claim    *)
(* handler (bridge/src/http/server.ts, handlePairClaim) and the phone that *)
(* posts its claim until it knows the outcome (src/m1/pair-flow.ts,        *)
(* claimAndConfirm).                                                       *)
(*                                                                         *)
(* A window mints one token, so a window stands for its token. A proof is  *)
(* a phone's signature over the token it scanned. The short authentication *)
(* string is a digest of token and key: it stands for the pair of them.    *)
(* An answer of the bridge is on its way until the phone receives it.      *)
(* Time is whether a token's 120 seconds are over.                         *)
(***************************************************************************)
EXTENDS FiniteSets, Naturals

CONSTANTS
  Window,     \* the windows of a behaviour: terminals or panels that ask to pair
  Phone,
  None,
  Tier        \* scope tiers an operator may ask for

\* How the flow of a phone ends: as the bridge answers, or on its own account.
Outcome == {"paired", "pairing-rejected", "pairing-invalid", "dsh-unavailable",
            "unreachable", "timeout", "cancelled"}

ASSUME PairingAssumption ==
  None \notin Window \cup Phone \cup Outcome \cup {"awaiting-confirmation"}

VARIABLES
  session,      \* PairingManager.session
  elapsed,      \* tokens whose time is over
  dshReachable,
  window,       \* per window: the variables of its beginPair
  registry,     \* per phone: its DeviceRecord, and (history) the token it paired by
  phone,        \* per phone: the token it scanned, its place in pair-flow, and the
                \* answer to its last post that is on its way
  confirmed     \* history: the phone and token the operator confirmed, and where

pairingVars == <<session, elapsed, dshReachable, window, registry, phone, confirmed>>

noSession == [token |-> None, state |-> "none", pending |-> None]
unopened  == [state |-> "unused", shown |-> <<None, None>>, paired |-> FALSE,
              declined |-> FALSE, tier |-> None]
unpaired  == [state |-> "idle", token |-> None, answer |-> None]
unknown   == [state |-> "none", tier |-> None, by |-> None]

PairingInit ==
  /\ session = noSession /\ elapsed = {} /\ dshReachable = TRUE /\ confirmed = {}
  /\ window = [w \in Window |-> unopened]
  /\ registry = [p \in Phone |-> unknown]
  /\ phone = [p \in Phone |-> unpaired]

-----------------------------------------------------------------------------
\* PairingManager.

\* current: expiry applies to an unclaimed session only.
Current == IF session.state = "awaiting-claim" /\ session.token \in elapsed
           THEN [session EXCEPT !.state = "expired"] ELSE session

\* The claim consumes the token: the result, and the session after it.
Claim_KeepToken(p, token) ==
  IF dshReachable /\ Current.token = token
     /\ Current.state \in {"awaiting-claim", "awaiting-confirmation"}
  THEN [reply |-> "awaiting-confirmation",
        session |-> [Current EXCEPT !.state = "awaiting-confirmation", !.pending = p]]
  ELSE [reply |-> "pairing-invalid", session |-> Current]
Claim(p, token) ==
  CASE ~ dshReachable -> [reply |-> "dsh-unavailable", session |-> session]
    [] dshReachable /\ (Current.state # "awaiting-claim" \/ Current.token # token) ->
         [reply |-> "pairing-invalid", session |-> Current]
    [] dshReachable /\ Current.state = "awaiting-claim" /\ Current.token = token
         /\ registry[p].state = "active" ->
         [reply |-> "pairing-invalid", session |-> [Current EXCEPT !.state = "failed"]]
    [] OTHER -> [reply |-> "awaiting-confirmation",
                 session |-> [Current EXCEPT !.state = "awaiting-confirmation", !.pending = p]]

\* pollClaim: a read by the phone that claimed, with its proof for this token.
OwnClaim_KeyOnly(p, token) == session.pending = p
OwnClaim(p, token) == session.pending = p /\ session.token = token
Decision(p) ==
  CASE session.state = "awaiting-confirmation" -> "awaiting-confirmation"
    [] session.state = "completed" /\ registry[p].state = "active" -> "paired"
    [] OTHER -> "pairing-rejected"

Confirmable == session.state = "awaiting-confirmation" /\ session.pending # None

-----------------------------------------------------------------------------
\* The windows.

Finished(w) == [window[w] EXCEPT !.state = "finished"]

\* Opening a window replaces the session, whatever became of it.
BeginPair(w, tier) ==
  /\ window[w].state = "unused"
  /\ window' = [window EXCEPT ![w].state = "open", ![w].tier = tier]
  /\ session' = [token |-> w, state |-> "awaiting-claim", pending |-> None]
  /\ UNCHANGED <<elapsed, dshReachable, registry, phone, confirmed>>

\* A window for a relay that the bridge has no URL of: the session is replaced before
\* that is noticed, and the new one is cancelled.
RefusesRelay(w) ==
  /\ window[w].state = "unused"
  /\ window' = [window EXCEPT ![w].state = "closed"]
  /\ session' = noSession
  /\ UNCHANGED <<elapsed, dshReachable, registry, phone, confirmed>>

\* The window's timer: it reports a session that ended, or shows a claim, once.
PollWindow(w) ==
  /\ window[w].state = "open"
  /\ session' = Current
  /\ \/ /\ Current.state \in {"none", "expired", "failed"}
        /\ window' = [window EXCEPT ![w] = Finished(w)]
     \/ /\ Current.state = "awaiting-confirmation" /\ Current.pending # None
        /\ window[w].shown = <<None, None>>
        /\ window' = [window EXCEPT ![w].shown = <<Current.pending, Current.token>>]
  /\ UNCHANGED <<elapsed, dshReachable, registry, phone, confirmed>>

\* The operator compared the code that was shown, and decides.
Deciding(w) == window[w].state = "open" /\ window[w].shown # <<None, None>>

Accept(w) ==
  /\ Deciding(w)
  /\ IF Confirmable
     THEN LET p == session.pending
          IN  /\ registry' = [registry EXCEPT ![p] =
                                [state |-> "active", tier |-> window[w].tier,
                                 by |-> session.token]]
              /\ session' = [session EXCEPT !.state = "completed"]
              /\ window' = [window EXCEPT ![w] = [Finished(w) EXCEPT !.paired = TRUE]]
              /\ confirmed' = confirmed \cup {[phone |-> p, token |-> session.token, at |-> w]}
     ELSE /\ window' = [window EXCEPT ![w] = Finished(w)]
          /\ session' = Current
          /\ UNCHANGED <<registry, confirmed>>
  /\ UNCHANGED <<elapsed, dshReachable, phone>>

Decline(w) ==
  /\ Deciding(w)
  /\ session' = IF session.state = "awaiting-confirmation"
                THEN [session EXCEPT !.state = "failed"] ELSE session
  /\ window' = [window EXCEPT ![w] = [Finished(w) EXCEPT !.declined = TRUE]]
  /\ UNCHANGED <<elapsed, dshReachable, registry, phone, confirmed>>

KeepsSession_Never(w) == FALSE
KeepsSession(w) == window[w].paired \/ window[w].declined

\* The operator cancels, or the terminal hangs up: whatever its window came to.
Cancel(w) ==
  /\ window[w].state \in {"open", "finished"}
  /\ window' = [window EXCEPT ![w].state = "closed"]
  /\ session' = IF KeepsSession(w) THEN session ELSE noSession
  /\ UNCHANGED <<elapsed, dshReachable, registry, phone, confirmed>>

-----------------------------------------------------------------------------
\* The phone.

Scan_NoGeneration(p, w) ==
  /\ phone[p].state # "posting"
  /\ window[w].state = "open"
  /\ phone' = [phone EXCEPT ![p].state = "posting", ![p].token = w]
  /\ UNCHANGED <<session, elapsed, dshReachable, window, registry, confirmed>>
\* The QR code is on the screen of an open window. A new run strands the one before:
\* an answer that is still on its way to it is not looked at.
Scan(p, w) ==
  /\ phone[p].state # "posting"
  /\ window[w].state = "open"
  /\ phone' = [phone EXCEPT ![p] = [state |-> "posting", token |-> w, answer |-> None]]
  /\ UNCHANGED <<session, elapsed, dshReachable, window, registry, confirmed>>

\* handlePairClaim: a claim that was made is polled, any other is a first claim.
Answer(p, token) == IF OwnClaim(p, token) THEN [reply |-> Decision(p), session |-> session]
                    ELSE Claim(p, token)

\* What the phone makes of an answer: it goes on posting while the operator has not
\* decided.
Learns(p, reply) ==
  phone' = [phone EXCEPT ![p].state = IF reply = "awaiting-confirmation" THEN "posting"
                                      ELSE reply,
                         ![p].answer = None]

\* One post of the claim reaches the bridge, which answers.
Post(p) ==
  /\ phone[p].state = "posting" /\ phone[p].answer = None
  /\ LET answer == Answer(p, phone[p].token)
     IN  /\ session' = answer.session
         /\ phone' = [phone EXCEPT ![p].answer = answer.reply]
  /\ UNCHANGED <<elapsed, dshReachable, window, registry, confirmed>>

\* Its answer arrives; what happened to session and device in between, it does not tell.
AnswerArrives(p) ==
  /\ phone[p].state = "posting" /\ phone[p].answer # None
  /\ Learns(p, phone[p].answer)
  /\ UNCHANGED <<session, elapsed, dshReachable, window, registry, confirmed>>

\* A post or its answer is lost, which ends the flow; the deadline of the phone is later
\* than the token's; or its screen is left.
GiveUp(p) ==
  /\ phone[p].state = "posting"
  /\ \/ phone[p].token \in elapsed /\ phone' = [phone EXCEPT ![p].state = "timeout"]
     \/ phone' = [phone EXCEPT ![p].state = "cancelled"]
     \/ phone' = [phone EXCEPT ![p].state = "unreachable"]
  /\ UNCHANGED <<session, elapsed, dshReachable, window, registry, confirmed>>

\* Someone posts the token with a proof that does not verify: it is spent.
BadProof(w) ==
  /\ dshReachable
  /\ session' = IF Current.state = "awaiting-claim" /\ Current.token = w
                THEN [Current EXCEPT !.state = "failed"] ELSE Current
  /\ UNCHANGED <<elapsed, dshReachable, window, registry, phone, confirmed>>

-----------------------------------------------------------------------------
\* Around them.

TokenElapses(w) ==
  /\ window[w].state # "unused" /\ w \notin elapsed
  /\ elapsed' = elapsed \cup {w}
  /\ UNCHANGED <<session, dshReachable, window, registry, phone, confirmed>>

DshReachability == /\ dshReachable' = ~ dshReachable
                   /\ UNCHANGED <<session, elapsed, window, registry, phone, confirmed>>

\* The operator revokes a device; it may pair again later.
Revoke(p) ==
  /\ registry[p].state = "active"
  /\ registry' = [registry EXCEPT ![p].state = "revoked"]
  /\ UNCHANGED <<session, elapsed, dshReachable, window, phone, confirmed>>

PairingNext ==
  \/ \E w \in Window, tier \in Tier : BeginPair(w, tier)
  \/ \E w \in Window : \/ RefusesRelay(w) \/ PollWindow(w) \/ Accept(w) \/ Decline(w) \/ Cancel(w)
                       \/ BadProof(w) \/ TokenElapses(w)
  \/ \E p \in Phone, w \in Window : Scan(p, w)
  \/ \E p \in Phone : Post(p) \/ AnswerArrives(p) \/ GiveUp(p) \/ Revoke(p)
  \/ DshReachability

PairingSpec == PairingInit /\ [][PairingNext]_pairingVars

-----------------------------------------------------------------------------
\* A phone was told this, or is being told it.
Hears(p, reply) == phone[p].state = reply \/ phone[p].answer = reply

\* Type invariant; a claimed session has a device exactly from its claim on.
PairingTypeOK ==
  /\ session.state \in {"none", "awaiting-claim", "awaiting-confirmation", "completed",
                        "failed", "expired"}
  /\ session.token \in Window \cup {None} /\ session.pending \in Phone \cup {None}
  /\ session.state \in {"awaiting-confirmation", "completed"} => session.pending # None
  /\ session.state \in {"awaiting-claim", "expired"} => session.pending = None
  /\ \A p \in Phone : /\ phone[p].state \in Outcome \cup {"idle", "posting"}
                      /\ phone[p].answer \in Outcome \cup {"awaiting-confirmation", None}
                      /\ registry[p].state \in {"none", "active", "revoked"}
                      /\ registry[p].tier \in Tier \cup {None}
  /\ \A w \in Window : window[w].state \in {"unused", "open", "finished", "closed"}

\* A token pairs at most one phone, in at most one confirmation, whatever claims,
\* windows and operators race for it.
TokenIsSingleUse ==
  \A c, d \in confirmed : c.token = d.token => c = d

\* A phone that believes it is paired, or is being told so, was confirmed by the operator
\* for the very token it scanned.
PairedWasConfirmed ==
  \A p \in Phone : Hears(p, "paired") =>
    \E c \in confirmed : c.phone = p /\ c.token = phone[p].token

\* The session pairs whom the operator confirmed, once for each token.
PairingIsSound == PairingTypeOK /\ TokenIsSingleUse /\ PairedWasConfirmed

\* The pairing that a phone believes in, or is being told of, is the one that the bridge
\* has on record for its device, revoked since or not: whatever windows, claims,
\* revocations and new pairings its answer crossed on the way, it never takes up a pairing
\* that another one replaced.
BelievesWhatIsOnRecord ==
  \A p \in Phone : Hears(p, "paired") => registry[p].by = phone[p].token

\* No window but w was ever opened: each of the next two promises is kept to an
\* operator who uses one window, and broken between two of them.
Alone(w) == \A v \in Window \ {w} : window[v].state = "unused"

\* "the code the operator compares is a fingerprint of the exact pairing being
\* confirmed" (pairing.ts, computeSas): the device a window registers is the one whose
\* code it has shown, whoever claims, cancels and expires meanwhile.
ConfirmsWhatWasShown ==
  \A c \in confirmed : Alone(c.at) => window[c.at].shown = <<c.phone, c.token>>

\* "A completed pairing must not be undone" (bridge.ts, cancel): a phone that still
\* posts its claim after the operator confirmed it is not told that it is invalid,
\* even when the terminal hung up in between.
CompletedIsLearned ==
  \A c \in confirmed :
    Alone(c.at) /\ phone[c.phone].token = c.token /\ registry[c.phone].state = "active"
      => ~ Hears(c.phone, "pairing-invalid")
=============================================================================
