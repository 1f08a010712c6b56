----------------------------- MODULE HelperLink ------------------------------
(***************************************************************************)
(* The service worker's WebSocket to the helper (background/connection.ts, *)
(* docs/adr/0016) and the helper's end of it (tools/mock-helper): pairing  *)
(* by a token, retries after a close, after a version that does not fit    *)
(* and, by an alarm, after Chrome has stopped the worker.                  *)
(*                                                                         *)
(* The delay of a retry grows with the attempts; only that it comes is     *)
(* modelled. Frames that change no state of the link are left out.         *)
(***************************************************************************)
EXTENDS Integers, Sequences, FiniteSetsExt

CONSTANTS
    Sockets, \* how many sockets can be alive at a time
    Troubles \* bound: crashes and restarts of the helper, evictions of the worker, pairings

ASSUME HelperLinkAssumption == Sockets \in Nat \ {0} /\ Troubles \in Nat

VARIABLES
    worker,  \* [alive, status, ever, ws, timer, refused, token]: the fields of Connection
    waiting, \* the calls of chrome.storage.local under way: <<"get">> or <<"set", token>>
    saved,  \* STORAGE_TOKEN there, 0 if there is none
    sock,    \* per socket its phase, whether its handlers are set, the hello and the frames on their way
    helper,  \* [up, wants, fits]: the token it wants, and whether its version is ours
    troubles

linkVars == <<worker, waiting, saved, sock, helper, troubles>>

NoSocket == 0
Free == [phase |-> "none", heard |-> FALSE, hello |-> 0, frames |-> <<>>]
Booting == [alive |-> TRUE, status |-> "no_token", ever |-> FALSE, ws |-> NoSocket, timer |-> FALSE,
            refused |-> FALSE, token |-> 0]

LinkInit ==
    /\ worker = Booting /\ waiting = <<<<"get">>>> /\ saved \in {0, 1}
    /\ sock = [s \in 1..Sockets |-> Free]
    /\ helper = [up |-> FALSE, wants |-> 1, fits |-> TRUE]
    /\ troubles = 0

Trouble == troubles < Troubles /\ troubles' = troubles + 1

-----------------------------------------------------------------------------
(* What the methods of Connection do: w is the worker, all its sockets. *)

\* connect(): the socket that ws named before is not looked at.
Dials(w, all) ==
    IF w.token = 0 THEN worker' = [w EXCEPT !.timer = FALSE, !.status = "no_token"] /\ sock' = all
    ELSE LET s == Min({i \in DOMAIN all : all[i].phase = "none"})
         IN /\ sock' = [all EXCEPT ![s] = [Free EXCEPT !.phase = "connecting", !.heard = TRUE]]
            /\ worker' = [w EXCEPT !.timer = FALSE, !.ws = s,
                                   !.status = IF @ = "version_mismatch" THEN @
                                              ELSE IF w.ever THEN "reconnecting" ELSE "connecting"]

\* The socket that teardown closes.
Dropped(w, all) == [i \in DOMAIN all |-> IF i = w.ws THEN Free ELSE all[i]]

\* teardown.
TornDown(w) == [w EXCEPT !.ws = NoSocket, !.timer = FALSE]

\* Mutant of Paired: the refusal of the last token is not forgotten.
PairedStill(w, token) == [TornDown(w) EXCEPT !.token = token]

\* setToken, once the storage has it.
Paired(w, token) == [TornDown(w) EXCEPT !.token = token, !.refused = FALSE]

\* onClosed.
OnClosed(w) ==
    LET gone == [w EXCEPT !.ws = NoSocket]
    IN IF w.refused THEN [gone EXCEPT !.status = "pairing_failed"]
       ELSE IF w.status = "version_mismatch" THEN [gone EXCEPT !.timer = TRUE]
       ELSE [gone EXCEPT !.timer = TRUE, !.status = IF w.ever THEN "reconnecting" ELSE "down"]

-----------------------------------------------------------------------------
(* The worker. *)

\* chrome.storage answers in order: start() goes on with the token it read, setToken() with the new one.
Storage ==
    /\ waiting # <<>> /\ waiting' = Tail(waiting)
    /\ IF Head(waiting)[1] = "get"
       THEN Dials([worker EXCEPT !.token = saved], sock) /\ UNCHANGED saved
       ELSE LET token == Head(waiting)[2]
            IN /\ saved' = token
               /\ Dials(Paired(worker, token), Dropped(worker, sock))
    /\ UNCHANGED <<helper, troubles>>

\* The developer enters a token that the helper has printed; the message wakes the worker if need be.
SetToken(token) ==
    /\ Trouble /\ token <= helper.wants
    /\ waiting' = (IF worker.alive THEN waiting ELSE <<<<"get">>>>) \o <<<<"set", token>>>>
    /\ worker' = IF worker.alive THEN worker ELSE Booting
    /\ UNCHANGED <<saved, sock, helper>>

\* The condition of wake().
Idle == worker.ws = NoSocket /\ ~worker.timer

\* The keep-alive alarm: it starts the worker, or wakes the loop.
Alarm ==
    /\ IF ~worker.alive THEN worker' = Booting /\ waiting' = <<<<"get">>>> /\ UNCHANGED sock
       ELSE Idle /\ worker.token # 0 /\ ~worker.refused /\ Dials(worker, sock) /\ UNCHANGED waiting
    /\ UNCHANGED <<saved, helper, troubles>>

Retry ==
    /\ worker.timer /\ Dials(worker, sock)
    /\ UNCHANGED <<waiting, saved, helper, troubles>>

\* onopen: hello goes out on the socket that ws names, if that one is open.
SocketOpens(s) ==
    /\ sock[s].phase = "connecting" /\ helper.up
    /\ LET open == [sock EXCEPT ![s].phase = "open"]
       IN sock' = IF sock[s].heard /\ worker.ws # NoSocket /\ open[worker.ws].phase = "open"
                  THEN [open EXCEPT ![worker.ws].hello = worker.token] ELSE open
    /\ UNCHANGED <<worker, waiting, saved, helper, troubles>>

\* The browser gives up on a helper that is not there.
Refuses(s) ==
    /\ sock[s].phase = "connecting" /\ ~helper.up
    /\ sock' = [sock EXCEPT ![s].phase = "closing"]
    /\ UNCHANGED <<worker, waiting, saved, helper, troubles>>

\* onFrame: a welcome, one of another version, or the error of a wrong token.
Frame(s) ==
    /\ sock[s].frames # <<>>
    /\ LET frame == Head(sock[s].frames)
           rest == [sock EXCEPT ![s].frames = Tail(@)]
       IN CASE frame = "welcome" -> /\ worker' = [worker EXCEPT !.ever = TRUE, !.status = "connected"]
                                    /\ sock' = rest
            [] frame = "mismatch" -> /\ worker' = [TornDown(worker) EXCEPT !.status = "version_mismatch", !.timer = TRUE]
                                     /\ sock' = Dropped(worker, rest)
            [] frame = "refused" -> /\ worker' = [worker EXCEPT !.refused = TRUE, !.status = "pairing_failed"]
                                    /\ sock' = rest
    /\ UNCHANGED <<waiting, saved, helper, troubles>>

\* onclose, after the frames.
Closes(s) ==
    /\ sock[s].phase = "closing" /\ sock[s].frames = <<>>
    /\ sock' = [sock EXCEPT ![s] = Free]
    /\ worker' = IF worker.ws = s THEN OnClosed(worker) ELSE worker
    /\ UNCHANGED <<waiting, saved, helper, troubles>>

\* Chrome stops the worker: its sockets close, what it asked of the storage is done all the same.
Evict ==
    /\ worker.alive /\ Trouble
    /\ worker' = [Booting EXCEPT !.alive = FALSE] /\ waiting' = <<>>
    /\ saved' = IF waiting # <<>> /\ waiting[Len(waiting)][1] = "set" THEN waiting[Len(waiting)][2] ELSE saved
    /\ sock' = [s \in DOMAIN sock |-> Free]
    /\ UNCHANGED helper

-----------------------------------------------------------------------------
(* The helper. *)

\* Session.onFrame and onHello: a wrong token is told so, and the socket closed.
Hears(s) ==
    /\ sock[s].phase = "open" /\ sock[s].hello # 0
    /\ sock' = [sock EXCEPT ![s].hello = 0,
                            ![s].phase = IF sock[s].hello = helper.wants THEN "open" ELSE "closing",
                            ![s].frames = Append(@, IF sock[s].hello # helper.wants THEN "refused"
                                                    ELSE IF helper.fits THEN "welcome" ELSE "mismatch")]
    /\ UNCHANGED <<worker, waiting, saved, helper, troubles>>

\* It starts, as another version or with another token if so told, which it prints.
HelperStarts(fits, anew) ==
    /\ ~helper.up
    /\ helper' = [up |-> TRUE, fits |-> fits, wants |-> helper.wants + (IF anew THEN 1 ELSE 0)]
    /\ UNCHANGED <<worker, waiting, saved, sock, troubles>>

\* It stops: every socket is terminated.
HelperStops ==
    /\ helper.up /\ Trouble
    /\ helper' = [helper EXCEPT !.up = FALSE]
    /\ sock' = [s \in DOMAIN sock |-> IF sock[s].phase \in {"open", "closing"}
                                      THEN [sock[s] EXCEPT !.phase = "closing", !.hello = 0, !.frames = <<>>] ELSE sock[s]]
    /\ UNCHANGED <<worker, waiting, saved>>

LinkNext ==
    \/ Storage
    \/ \E token \in 1..Troubles : SetToken(token)
    \/ Alarm
    \/ Retry
    \/ \E s \in DOMAIN sock : SocketOpens(s)
    \/ \E s \in DOMAIN sock : Refuses(s)
    \/ \E s \in DOMAIN sock : Frame(s)
    \/ \E s \in DOMAIN sock : Closes(s)
    \/ Evict
    \/ \E s \in DOMAIN sock : Hears(s)
    \/ \E fits, anew \in BOOLEAN : HelperStarts(fits, anew)
    \/ HelperStops

LinkSpec == LinkInit /\ [][LinkNext]_linkVars

\* Chrome: storage answers, alarms and timers fire, events of sockets come. The helper answers a hello.
LinkFairness ==
    /\ WF_linkVars(Storage) /\ WF_linkVars(Alarm) /\ WF_linkVars(Retry)
    /\ \A s \in 1..Sockets : WF_linkVars(SocketOpens(s)) /\ WF_linkVars(Refuses(s)) /\ WF_linkVars(Frame(s))
                             /\ WF_linkVars(Closes(s)) /\ WF_linkVars(Hears(s))

-----------------------------------------------------------------------------
(* One link that heals. *)

\* Whatever the order of pairings, retries, alarms and restarts, there is one socket at a time
\* (connection.ts:1 "The single WebSocket to the helper").
OneSocket == Cardinality({s \in DOMAIN sock : sock[s].phase \in {"connecting", "open"}}) <= 1

\* And a helper that stays, whose version fits and whose token is stored, is connected to in the end
\* (connection.ts, retries; wake).
LinkHeals ==
    /\ []OneSocket
    /\ helper.up /\ helper.fits /\ saved = helper.wants
         ~> worker.status = "connected" \/ ~(helper.up /\ helper.fits /\ saved = helper.wants)
==============================================================================
