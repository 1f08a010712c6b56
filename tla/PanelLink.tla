------------------------------ MODULE PanelLink ------------------------------
(***************************************************************************)
(* The side panel's port to the service worker, from the panel's side      *)
(* (sidepanel/connection.ts, sidepanel/panel.ts) and the worker's          *)
(* (background/index.ts), composed with WorkerTab: both share the service  *)
(* worker, whose death closes every port and whose boot every answer waits *)
(* for.                                                                    *)
(***************************************************************************)
EXTENDS WorkerTab

CONSTANTS
    Ports, \* the ids of ports, reused when a port has closed at both ends
    Uses   \* bound: what the user does in the panel, and changes of the session's state

ASSUME PanelLinkAssumption == None \notin Ports /\ IsFiniteSet(Ports) /\ Uses \in Nat

VARIABLES
    port,     \* the panel's current port
    live,     \* the ports open at both ends
    attached, \* panelPorts: the ports whose connection the worker has handled
    inbox,    \* what the worker has not handled yet, and what awaits `booted`
    got, old, \* the current port brought a state, and has lived for STABLE_MS
    used,     \* silentRetryUsed
    timer,    \* the timer of NO_STATE_TIMEOUT_MS is set
    retries,  \* the silent retries whose 400 ms are not over
    conn,     \* what the panel shows of the connection; "closed" before it opens
    shown,    \* the version of the state it shows
    version,  \* the version of the session's state
    push,     \* pushTimer is set
    exporting,\* an export has been asked for
    uses

panelVars == <<port, live, attached, inbox, got, old, used, timer, retries, conn, shown,
               version, push, exporting, uses>>
allVars == <<vars, panelVars>>
link == <<port, live, got, old, used, timer, retries, conn, shown, exporting>>
served == <<attached, inbox, version, push>>

Empty == 0 \* the version of emptyState()

PanelInitWith(n) ==
    /\ port = None /\ live = {} /\ attached = {} /\ inbox = {}
    /\ got = FALSE /\ old = FALSE /\ used = FALSE /\ timer = FALSE /\ retries = 0
    /\ conn = "closed" /\ shown = Empty /\ version = 1 /\ push = FALSE
    /\ exporting = FALSE /\ uses = n
PanelInit == PanelInitWith(0)

Use == uses < Uses /\ uses' = uses + 1

-----------------------------------------------------------------------------
(* The panel. *)

Lost == port' = None /\ timer' = FALSE /\ conn' = "lost"

\* connect(), which wakes the worker and asks for a snapshot, or finds the extension gone.
Connect(open) ==
    \/ \E p \in Ports \ open :
         /\ port' = p /\ live' = open \cup {p}
         /\ inbox' = inbox \cup {<<"connect", p>>, <<"snapshot", p>>}
         /\ got' = FALSE /\ old' = FALSE /\ timer' = TRUE /\ conn' = "connecting"
         /\ boot' = IF boot = "dead" THEN "reading" ELSE boot
    \/ Lost /\ live' = open /\ UNCHANGED <<inbox, got, old, boot>>

Opens ==
    /\ conn = "closed" /\ Use
    /\ Connect(live)
    /\ UNCHANGED <<attached, used, retries, shown, version, push, exporting>>

\* The retry button: the old port is closed, and the silent retry may be used again.
Reconnects ==
    /\ conn = "lost" /\ Use
    /\ Connect(live \ {port}) /\ used' = FALSE
    /\ attached' = attached \ {port}
    /\ UNCHANGED <<retries, shown, version, push, exporting>>

SilentRetry ==
    /\ retries > 0 /\ retries' = retries - 1
    /\ Connect(live)
    /\ UNCHANGED <<attached, used, shown, version, push, exporting, uses>>

\* onDisconnect of the current port: one silent retry for a port that was stable, else lost.
Disconnected ==
    /\ port # None /\ port \notin live
    /\ IF got /\ old /\ ~used
       THEN /\ used' = TRUE /\ retries' = retries + 1
            /\ port' = None /\ timer' = FALSE /\ UNCHANGED conn
       ELSE Lost /\ UNCHANGED <<used, retries>>
    /\ UNCHANGED <<live, got, old, shown, exporting, served, uses>>

NoState ==
    /\ timer /\ timer' = FALSE /\ conn' = "lost"
    /\ UNCHANGED <<port, live, got, old, used, retries, shown, exporting, served, uses>>

Ages ==
    /\ port # None /\ ~old /\ old' = TRUE
    /\ UNCHANGED <<port, live, got, used, timer, retries, conn, shown, exporting, served, uses>>

\* send(): without a port, or with one that is gone, the panel shows the lost state.
Sends(request) ==
    IF port \in live
    THEN inbox' = inbox \cup {<<request, port>>} /\ UNCHANGED <<port, timer, conn>>
    ELSE UNCHANGED inbox /\ Lost

\* exportSession: one at a time, while the connection is open.
Exports ==
    /\ conn = "open" /\ ~exporting /\ Use
    /\ exporting' = TRUE /\ Sends("export")
    /\ UNCHANGED <<live, got, old, used, retries, shown, attached, version, push>>

ExportTimesOut ==
    /\ exporting /\ exporting' = FALSE
    /\ UNCHANGED <<port, live, got, old, used, timer, retries, conn, shown, served, uses>>

-----------------------------------------------------------------------------
(* The worker. *)

\* store.snapshot(): before store.restore() it is the empty state.
Snapshot == IF boot = "reading" THEN Empty ELSE version

\* pushState to the attached ports: the panel listens to its current one only.
PushTo(ports) ==
    /\ push' = FALSE
    /\ IF port \in ports
       THEN /\ shown' = Snapshot /\ got' = TRUE /\ conn' = "open"
            /\ timer' = IF got THEN timer ELSE FALSE
            /\ used' = IF old THEN FALSE ELSE used
       ELSE UNCHANGED <<shown, got, conn, timer, used>>

\* onConnect: the port is kept and everyone gets the state, restored or not.
Attaches ==
    /\ boot # "dead"
    /\ \E p \in live :
         /\ <<"connect", p>> \in inbox /\ inbox' = inbox \ {<<"connect", p>>}
         /\ attached' = (attached \cap live) \cup {p}
         /\ PushTo(attached')
    /\ UNCHANGED <<port, live, old, retries, version, exporting, uses>>

\* Mutant of Answerable: a request does not await the boot.
AnswerableAtOnce == boot # "dead"

\* handlePanel awaits `booted`.
Answerable == boot = "done"

\* A request of the panel; every one but an export ends in pushState.
Handles ==
    /\ Answerable
    /\ \E p \in attached \cap live :
         \/ /\ <<"snapshot", p>> \in inbox /\ inbox' = inbox \ {<<"snapshot", p>>}
            /\ PushTo(attached) /\ UNCHANGED exporting
         \/ /\ <<"export", p>> \in inbox /\ inbox' = inbox \ {<<"export", p>>}
            /\ exporting' = IF p = port THEN FALSE ELSE exporting
            /\ UNCHANGED <<push, shown, got, conn, timer, used>>
    /\ UNCHANGED <<port, live, attached, old, retries, version, uses>>

\* store.onChange schedules a push when there is somebody to push to.
Changes ==
    /\ boot = "done" /\ Use
    /\ version' = version + 1 /\ push' = (push \/ attached # {})
    /\ UNCHANGED <<link, attached, inbox>>

Pushes ==
    /\ push /\ PushTo(attached)
    /\ UNCHANGED <<port, live, attached, inbox, old, retries, version, exporting, uses>>

\* The worker's death closes its ports and forgets what it had not handled.
PortsClose ==
    /\ live' = {} /\ attached' = {} /\ inbox' = {} /\ push' = FALSE
    /\ UNCHANGED <<port, got, old, used, timer, retries, conn, shown, version, exporting, uses>>

PanelConnects == Opens \/ Reconnects \/ SilentRetry
PanelStep == Disconnected \/ NoState \/ Ages \/ Exports \/ ExportTimesOut
             \/ Attaches \/ Handles \/ Changes \/ Pushes
PanelLinkNext ==
    \/ Next /\ IF boot' = "dead" /\ boot # "dead" THEN PortsClose ELSE UNCHANGED panelVars
    \/ PanelConnects /\ UNCHANGED <<tab, known, task, early, taken, ops, faults>>
    \/ PanelStep /\ UNCHANGED vars

\* Timers fire, ports deliver, and the worker handles what it received.
PanelFairness ==
    /\ WF_allVars(SilentRetry /\ UNCHANGED <<tab, known, task, early, taken, ops, faults>>)
    /\ WF_allVars((Disconnected \/ NoState) /\ UNCHANGED vars)
    /\ WF_allVars(ExportTimesOut /\ UNCHANGED vars)
    /\ WF_allVars(Attaches /\ UNCHANGED vars)
    /\ WF_allVars(Handles /\ UNCHANGED vars)
    /\ WF_allVars(Pushes /\ UNCHANGED vars)

PanelLinkSpec == Init /\ PanelInit /\ [][PanelLinkNext]_allVars
PanelLinkFairSpec == PanelLinkSpec /\ Fairness /\ PanelFairness

-----------------------------------------------------------------------------
(* What is claimed. *)

\* What the panel shows catches up with the session's state, across deaths of the worker and
\* silent retries, unless it says that the connection is lost.
PanelCatchesUp == (conn \in {"connecting", "open"} /\ shown # version) ~> (shown = version \/ conn = "lost")

\* "Owns the `alt:panel` port": one port at a time; violated.
OnePort == Cardinality(live) <= 1
==============================================================================
