------------------------------- MODULE Panel -------------------------------
(***************************************************************************)
(* Pairing from the browser: the panel's controller, which turns the       *)
(* messages of a pairing window into one snapshot                          *)
(* (bridge/src/panel/pairing.ts), its HTTP routes                          *)
(* (bridge/src/panel/api.ts, server.ts), and the pages that poll it        *)
(* (plugins/dsh-bridge/panel-ui/panel.js).  A window is opened by the      *)
(* panel, or by a terminal over the control socket                         *)
(* (bridge/src/control.ts, cli.ts): both act on the session of Pairing.    *)
(*                                                                         *)
(* A request of a page is under way, or answered, until its answer         *)
(* arrives; requests of one page overtake each other.  What phones do      *)
(* after their claim is left to Pairing.                                   *)
(***************************************************************************)
EXTENDS Pairing

CONSTANTS
  Tab,          \* pages that show the panel
  MaxRefreshes  \* bound: polls of one page under way at a time

ASSUME PanelAssumption == MaxRefreshes \in Nat

VARIABLES
  panel,   \* PanelPairingController: handle, snapshot; the windows it opened
  tab      \* per page: what it shows, its timer, its requests

panelVars == <<pairingVars, panel, tab>>

Shot(phase, w, rev) == [phase |-> phase, of |-> w, rev |-> rev]
blank == [shows |-> Shot("idle", None, 0), polling |-> FALSE, requests |-> {},
          started |-> None, overtaken |-> FALSE]

PanelInit == /\ PairingInit
             /\ panel = [handle |-> None, snapshot |-> Shot("idle", None, 0), opened |-> {}]
             /\ tab = [t \in Tab |-> blank]

Active(shot)   == shot.phase \in {"open", "claimed"}
Terminal(shot) == shot.phase \in {"done", "failed"}

-----------------------------------------------------------------------------
\* PanelPairingController.

\* ingest: a message of a window that the panel opened, whichever it is.
Ingest(w, phase) ==
  panel' = IF w \in panel.opened
           THEN [panel EXCEPT !.snapshot = Shot(phase, w, @.rev + 1),
                              !.handle = IF phase = "claimed" THEN @ ELSE None]
           ELSE panel

StartPairing_NoCancel(w, tier) ==
  /\ BeginPair(w, tier)
  /\ panel' = [handle |-> w, snapshot |-> Shot("open", w, panel.snapshot.rev + 1),
               opened |-> panel.opened \cup {w}]
\* start: the window before is cancelled first, and the new one takes its place.
Replaces(w, record, shot) ==
  /\ window[w].state = "unused"
  /\ window' = [v \in Window |->
       IF v = w THEN record
       ELSE IF v = panel.handle THEN [window[v] EXCEPT !.state = "closed"] ELSE window[v]]
  /\ panel' = [handle |-> w, snapshot |-> shot, opened |-> panel.opened \cup {w}]
  /\ UNCHANGED <<elapsed, dshReachable, registry, phone, confirmed>>

StartPairing(w, tier) ==
  /\ Replaces(w, [window[w] EXCEPT !.state = "open", !.tier = tier],
              Shot("open", w, panel.snapshot.rev + 1))
  /\ session' = [token |-> w, state |-> "awaiting-claim", pending |-> None]

\* A relay was asked for that the bridge has no URL of: beginPair reports the failure
\* before it returns, and the handle that start stores afterwards does nothing.
StartIsRefused(w) ==
  /\ Replaces(w, [window[w] EXCEPT !.state = "closed"],
              Shot("failed", w, panel.snapshot.rev + 2))
  /\ session' = noSession

Claimed == panel.handle # None /\ panel.snapshot.phase = "claimed"
Confirm(accept) ==
  LET w == panel.handle IN
  /\ IF accept THEN Accept(w) ELSE Decline(w)
  /\ Ingest(w, IF window'[w].paired THEN "done" ELSE "failed")

\* cancel: with a snapshot that has ended only the handle goes.
CancelPairing ==
  IF Terminal(panel.snapshot)
  THEN panel' = [panel EXCEPT !.handle = None] /\ UNCHANGED pairingVars
  ELSE /\ Cancel(panel.handle)
       /\ panel' = [panel EXCEPT !.handle = None, !.snapshot = Shot("idle", None, @.rev + 1)]

\* The timer of a window.
Polls(w) ==
  /\ PollWindow(w)
  /\ Ingest(w, IF window'[w].state = "finished" THEN "failed" ELSE "claimed")
  /\ UNCHANGED tab

-----------------------------------------------------------------------------
\* A page.

Request(kind, step) == [kind |-> kind, step |-> step, reply |-> None]
Sends(t, request) ==
  /\ request \notin tab[t].requests
  /\ tab' = [tab EXCEPT ![t].requests = @ \cup {request}]
  /\ UNCHANGED <<pairingVars, panel>>

\* The button of a request is disabled until it is over, and an operator has one hand.
Free(t) == \A r \in tab[t].requests : r.kind = "refresh"

Button == {"start", "accept", "decline", "cancel"}
Offers(t, kind) ==
  CASE kind = "start"  -> tab[t].shows.phase = "idle"
    [] kind = "cancel" -> Active(tab[t].shows)
    [] OTHER           -> tab[t].shows.phase = "claimed"

Clicks(t, kind) ==
  /\ Offers(t, kind) /\ Free(t)
  /\ kind = "start" => \E w \in Window : window[w].state = "unused"
  /\ Sends(t, Request(kind, "post"))

\* The page is loaded, or refreshed.
Refreshes(t) ==
  /\ Cardinality({r \in tab[t].requests : r.kind = "refresh"}) < MaxRefreshes
  /\ Sends(t, Request("refresh", "get"))
Ticks(t) == tab[t].polling /\ Refreshes(t)

\* "Pair another device".
Resets(t) ==
  /\ Terminal(tab[t].shows)
  /\ tab' = [tab EXCEPT ![t].shows = Shot("idle", None, @.rev)]
  /\ UNCHANGED <<pairingVars, panel>>

Answers(t, r, reply) ==
  tab' = [tab EXCEPT ![t].requests = (@ \ {r}) \cup {[r EXCEPT !.reply = reply]}]
Refused == "refused"

\* The bridge serves a request: one synchronous step of the controller.
Serves(t, r) ==
  /\ r \in tab[t].requests /\ r.reply = None
  /\ \/ /\ r.step = "get" /\ Answers(t, r, panel.snapshot)
        /\ UNCHANGED <<pairingVars, panel>>
     \/ /\ r.step = "post" /\ r.kind = "start"
        /\ \E w \in Window : /\ \/ \E tier \in Tier : StartPairing(w, tier)
                               \/ StartIsRefused(w)
                            /\ Answers(t, r, w)
     \/ /\ r.step = "post" /\ r.kind \in {"accept", "decline"}
        /\ IF Claimed THEN Confirm(r.kind = "accept") /\ Answers(t, r, "ok")
           ELSE Answers(t, r, Refused) /\ UNCHANGED <<pairingVars, panel>>
     \/ /\ r.step = "post" /\ r.kind = "cancel"
        /\ IF panel.handle # None THEN CancelPairing /\ Answers(t, r, "ok")
           ELSE Answers(t, r, Refused) /\ UNCHANGED <<pairingVars, panel>>

Keeps_OpenOnly(shot) == shot.phase = "open"
Keeps(shot) == Active(shot)

\* refreshPairing: the page shows what it is told, and polls while a pairing is active.
Renders(t, r) ==
  [tab[t] EXCEPT !.shows = r.reply, !.polling = Keeps(r.reply),
                 !.requests = @ \ {r},
                 !.started = IF Terminal(r.reply) /\ r.reply.of = @ THEN None ELSE @,
                 !.overtaken = @ \/ r.reply.rev < tab[t].shows.rev]

\* An answer arrives: after a successful POST the page asks for the snapshot.
Receives(t, r) ==
  /\ r \in tab[t].requests /\ r.reply # None
  /\ tab' = [tab EXCEPT ![t] =
       IF r.step = "get" THEN Renders(t, r)
       ELSE IF r.reply = Refused THEN [@ EXCEPT !.requests = @ \ {r}]
       ELSE [@ EXCEPT !.requests = (@ \ {r}) \cup {Request(r.kind, "get")},
                      !.started = IF r.kind = "start" THEN r.reply ELSE @]]
  /\ UNCHANGED <<pairingVars, panel>>

-----------------------------------------------------------------------------
\* A terminal: one window on its connection to the control socket. Its operator
\* decides on the code it prints, and the window is cancelled when it hangs up.
TerminalOpens(w, tier) == BeginPair(w, tier) /\ UNCHANGED <<panel, tab>>
TerminalIsRefused(w)   == RefusesRelay(w) /\ UNCHANGED <<panel, tab>>
TerminalDecides(w)     == w \notin panel.opened /\ (Accept(w) \/ Decline(w))
                          /\ UNCHANGED <<panel, tab>>
TerminalLeaves(w)      == w \notin panel.opened /\ Cancel(w) /\ UNCHANGED <<panel, tab>>

\* The time of a token counts while its session waits for a claim.
Elapses(w) == /\ session.token = w /\ session.state = "awaiting-claim"
              /\ TokenElapses(w) /\ UNCHANGED <<panel, tab>>

\* handlePairClaim, a first claim, with the code that a window shows.
PhoneClaims(p, w) ==
  /\ window[w].state = "open"
  /\ session' = Claim(p, w).session
  /\ UNCHANGED <<elapsed, dshReachable, window, registry, phone, confirmed, panel, tab>>

PanelNext ==
  \/ \E w \in Window, tier \in Tier : TerminalOpens(w, tier)
  \/ \E w \in Window : \/ TerminalIsRefused(w) \/ TerminalDecides(w) \/ TerminalLeaves(w)
                       \/ Polls(w) \/ Elapses(w)
  \/ \E t \in Tab : \/ \E kind \in Button : Clicks(t, kind)
                    \/ Refreshes(t) \/ Ticks(t) \/ Resets(t)
                    \/ \E r \in tab[t].requests : Serves(t, r) \/ Receives(t, r)
  \/ \E p \in Phone, w \in Window : PhoneClaims(p, w)

PanelSpec == PanelInit /\ [][PanelNext]_panelVars

\* The timers of a page, and requests on the loopback interface that get their answers.
PanelFairness == \A t \in Tab :
  /\ WF_panelVars(Ticks(t))
  /\ \A kind \in {"refresh"} \cup Button :
       /\ WF_panelVars(\E r \in tab[t].requests : r.kind = kind /\ Serves(t, r))
       /\ WF_panelVars(\E r \in tab[t].requests : r.kind = kind /\ Receives(t, r))
PanelFairSpec == PanelSpec /\ PanelFairness

-----------------------------------------------------------------------------
\* "Starting a new pairing first cancels the previous one" (panel/pairing.ts): of all
\* windows the panel opened one is open at most, it is the one the panel can decide or
\* cancel, and the snapshot tells its phase. After a start that was refused the panel
\* holds on to a window that never opened, but says that it failed and lets nobody
\* decide on it.
OneOpenWindow ==
  /\ \A w \in panel.opened :
       window[w].state = "open" <=> panel.handle = w /\ Active(panel.snapshot)
  /\ Active(panel.snapshot) => panel.handle # None
  /\ panel.handle # None =>
       /\ panel.snapshot.of = panel.handle
       /\ Active(panel.snapshot) \/ panel.snapshot.phase = "failed"
       /\ Claimed <=> Deciding(panel.handle)

\* The page on which a pairing was started shows how that pairing ended, unless the
\* operator opened another window, or an older answer arrived after a newer one: the
\* page does not compare their revisions, and stops polling when an old answer says idle.
StartedIsShown ==
  \A t \in Tab, w \in Window :
    (tab[t].started = w /\ panel.snapshot.of = w /\ Terminal(panel.snapshot))
      ~> (tab[t].started # w \/ panel.snapshot.of # w \/ tab[t].overtaken)
=============================================================================
