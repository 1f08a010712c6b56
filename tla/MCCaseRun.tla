----------------------------- MODULE MCCaseRun -----------------------------
(* Cases and applications for TLC. *)
EXTENDS CaseRun

MCCases ==
    {[kind |-> "plain", expect |-> e] : e \in {"accept", "reject", "observe"}}
    \cup {[kind |-> k, expect |-> "observe"] : k \in {"keyboard", "reload", "double", "back"}}

App(check, fate, code, main) ==
    [check |-> check, fate |-> fate, status |-> code, main |-> main, tells |-> FALSE, moves |-> FALSE,
     resets |-> FALSE, strict |-> FALSE, guards |-> FALSE, autosave |-> FALSE, banner |-> FALSE, resends |-> FALSE]

Sending(code) ==
    {App("sends", IF code = 200 THEN "takes" ELSE IF code = 422 THEN "refuses"
                  ELSE IF code = 500 THEN "crashes" ELSE "loses", code, m) : m \in BOOLEAN}

\* Every honest application, with one status for each fate; what it does with an answer matters only
\* when it sends, or takes the input itself.
MCApps ==
    LET all == [check : {"native", "inline", "silent", "local", "sends"},
                fate : {"takes", "refuses", "crashes", "loses"}, status : {0, 200, 422, 500}, main : BOOLEAN,
                tells : BOOLEAN, moves : BOOLEAN, resets : BOOLEAN, strict : BOOLEAN, guards : BOOLEAN,
                autosave : {FALSE}, banner : {FALSE}, resends : BOOLEAN]
    IN {a \in all : /\ Honest(a)
                    /\ a.check # "sends" => a.status = 0 /\ ~a.guards /\ ~a.resends
                    /\ a.check \notin {"sends", "local"} => ~(a.main \/ a.tells \/ a.moves \/ a.resets \/ a.strict)
                    /\ a.fate # "takes" => ~a.resets /\ ~a.guards /\ ~a.resends
                    /\ a.strict => a.resets}

\* Applications of several documents with a standing alert.
BannerApps == {[a EXCEPT !.banner = TRUE] : a \in {x \in Sending(200) : x.main}}

\* Applications that refuse with a 200.
QuietApps == {[App("sends", "refuses", 200, FALSE) EXCEPT !.tells = TRUE]}

\* Applications that keep what they take in the browser, and empty the form.
LocalApps == {[App("local", "takes", 0, FALSE) EXCEPT !.tells = TRUE, !.resets = TRUE, !.strict = TRUE]}

\* Applications that save while they are filled in.
AutosaveApps == {[App("inline", "refuses", 0, FALSE) EXCEPT !.autosave = TRUE]}
=============================================================================
