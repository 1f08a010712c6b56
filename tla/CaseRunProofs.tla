--------------------------- MODULE CaseRunProofs ---------------------------
(***************************************************************************)
(* Proofs about a test case: the types, that Back is blamed only for what  *)
(* it sent, and that the verdict is right about every honest application,  *)
(* however many polls there are and whatever happens between them; and of  *)
(* its form that what is reported of the fields and seen of the page is    *)
(* true.                                                                   *)
(***************************************************************************)
EXTENDS CaseRun, FormFill, SequenceTheorems, WellFoundedInduction, TLAPS

-----------------------------------------------------------------------------
(* Requests: their numbers tell them apart, and Back alone sends in phase 2. *)

Request == [n : 0..3, phase : 0..2]
Recorded == [n : 0..3, phase : 0..2, end : 0..2, status : Nat]

Document == [loaded : BOOLEAN, observed : BOOLEAN, invalid : BOOLEAN, fieldError : BOOLEAN,
             message : {"none", "error", "success"}, reset : BOOLEAN, moved : BOOLEAN]
Views == [invalid : BOOLEAN, fieldError : BOOLEAN, error : BOOLEAN, success : BOOLEAN,
          reset : BOOLEAN, moved : BOOLEAN, quiet : BOOLEAN]

Shapes ==
    /\ case \in [kind : {"plain", "keyboard", "reload", "double", "back"},
                 expect : {"accept", "reject", "observe"}]
    /\ app \in Applications
    /\ safe \in BOOLEAN /\ tab \in BOOLEAN /\ quiet \in BOOLEAN /\ resent \in BOOLEAN
    /\ pc \in Ends \cup {"start", "reveal", "fill", "act", "poll", "answer", "back"}
    /\ left \in 0..MaxPolls /\ phase \in 0..2 /\ outcome \in Outcomes
    /\ status \in {"none", "pass", "unexpected", "inconclusive", "skipped", "error"}
    /\ page \in Document /\ reply \in Views /\ last \in Views
    /\ answered \in Nat
    /\ open \subseteq Request /\ network \subseteq Recorded

\* Where the executor is tells the phase.
Phases ==
    /\ pc \in {"start", "reveal", "fill", "act"} => phase = 0
    /\ pc \in {"poll", "answer", "back"} => phase \in {1, 2}
    /\ pc = "back" => phase = 1 /\ case.kind = "back"
    /\ phase = 2 => case.kind = "back"
    /\ pc = "answer" => left > 0
    /\ pc \in {"fill", "act", "poll", "answer"} => case.kind # "keyboard"
    /\ (pc = "done") = (status # "none")

\* A number is used once.
Numbers ==
    /\ \A e, f \in network : e.n = f.n => e = f
    /\ \A r, q \in open : r.n = q.n => r = q
    /\ \A e \in network, r \in open : e.n # r.n

\* What a phase can have sent.
Sources ==
    /\ pc \in {"start", "reveal", "fill"} => open = {} /\ network = {}
    /\ \A e \in network \cup open :
         /\ phase = 0 => e.n = 0
         /\ phase = 1 => e.n < 3
         /\ e.phase = 2 => app.resends

RequestInv == Shapes /\ Phases /\ Numbers /\ Sources /\ BackBlamesBack

-----------------------------------------------------------------------------
(* A plain case and an honest application. *)

\* The server has answered, and the answer is recorded.
Heard == \E e \in network : e.n > 0 /\ e.phase >= 1 /\ e.status = app.status

OnlySubmissions ==
    /\ open # {} \/ network # {} => app.check = "sends"
    /\ \A r \in open : r.n > 0 /\ r.phase >= 1
    /\ \A e \in network : e.n > 0 /\ e.phase >= 1 /\ e.status \in {0, app.status}

\* What a page, or a view of it, may show.
Truthful(invalid, fieldError, error, success, reset, moved) ==
    /\ invalid => app.check = "native"
    /\ fieldError => app.check = "inline" \/ (app.check = "sends" /\ Heard)
    /\ error => app.check = "sends" /\ Heard /\ app.fate # "takes" /\ app.tells
    /\ success => app.fate = "takes" /\ (app.check = "local" \/ (app.check = "sends" /\ Heard))
    /\ reset => app.resets /\ app.fate = "takes" /\ (app.check = "local" \/ (app.check = "sends" /\ Heard))
    /\ moved => app.check = "local" \/ (app.check = "sends" /\ Heard)

TruthfulPage ==
    Truthful(page.invalid, page.fieldError, page.message = "error", page.message = "success", page.reset, page.moved)
TruthfulView(v) == Truthful(v.invalid, v.fieldError, v.error, v.success, v.reset, v.moved)

\* What a client-side check, or a script that takes the input, leaves to be seen.
Telling(v) ==
    /\ app.check = "native" => v.invalid
    /\ app.check = "inline" => v.fieldError
    /\ app.check = "local" => v.success \/ v.reset
TellingPage ==
    /\ app.check = "native" => page.observed /\ page.invalid
    /\ app.check = "inline" => page.fieldError
    /\ app.check = "local" => page.message = "success" \/ page.reset

Evidence ==
    /\ OnlySubmissions
    /\ answered > 0 \/ ~page.loaded => app.check = "sends" /\ Heard
    /\ TruthfulPage /\ TruthfulView(reply) /\ TruthfulView(last)
    /\ pc = "act" => page.observed
    /\ phase = 1 /\ tab => TellingPage
    /\ pc = "answer" => Telling(reply)
    /\ pc \in {"poll", "answer"} /\ left < MaxPolls => ~tab \/ Telling(last)

VerdictInv ==
    case.kind = "plain" /\ Honest(app) => Evidence /\ VerdictIsRight

-----------------------------------------------------------------------------
(* What the executor concludes. *)

LEMMA OutcomeTyped == ASSUME NEW v, NEW sent PROVE Outcome(v, sent) \in Outcomes \ {"none", "blocked_unsafe"}
BY DEF Outcome, Outcomes

LEMMA VerdictTyped ==
    ASSUME NEW expect \in {"accept", "reject", "observe"}, NEW out \in Outcomes \ {"none"}
    PROVE  Verdict(expect, out) \in {"pass", "unexpected", "inconclusive", "skipped"}
BY DEF Verdict, Outcomes

LEMMA ConcludeTyped ==
    ASSUME Shapes, Phases, pc \in {"poll", "answer"}, NEW v, Conclude(v)
    PROVE  /\ pc' \in {"done", "back"} /\ outcome' \in Outcomes /\ resent' \in BOOLEAN
           /\ status' \in {"none", "pass", "unexpected", "inconclusive", "skipped", "error"}
           /\ (pc' = "done") = (status' # "none")
           /\ pc' = "back" => phase = 1 /\ case.kind = "back"
           /\ resent' => resent \/ \E e \in network : e.phase = 2
<1> DEFINE out == Outcome(v, Window(1, network))
<1>1. out \in Outcomes \ {"none"} BY OutcomeTyped
<1>2. /\ Verdict(case.expect, out) \in {"pass", "unexpected", "inconclusive", "skipped"}
      /\ Verdict(case.expect, "no_response") \in {"pass", "unexpected", "inconclusive", "skipped"}
  <2>1. case.expect \in {"accept", "reject", "observe"} BY DEF Shapes
  <2>2. "no_response" \in Outcomes \ {"none"} BY DEF Outcomes
  <2> QED BY <1>1, <2>1, <2>2, VerdictTyped
<1>3. Window(2, network) # {} => \E e \in network : e.phase = 2
  BY DEF Window, Shapes, Recorded
<1>4. case.kind \in {"plain", "reload", "double", "back"} /\ phase \in {1, 2} /\ (phase = 2 => case.kind = "back")
  BY DEF Shapes, Phases
<1>5. "no_response" \in Outcomes /\ outcome \in Outcomes /\ resent \in BOOLEAN /\ status = "none"
  BY DEF Shapes, Phases, Outcomes
<1> HIDE DEF out
<1>6. CASE case.kind = "reload"
  BY <1>2, <1>5, <1>6 DEF Conclude, Finish
<1>7. CASE case.kind = "double"
  BY <1>1, <1>5, <1>7 DEF Conclude, Finish, out
<1>8. CASE case.kind = "back" /\ phase = 1
  BY <1>1, <1>5, <1>8 DEF Conclude, Finish, out
<1>9. CASE case.kind = "back" /\ phase = 2
  BY <1>3, <1>5, <1>9 DEF Conclude, Finish
<1>10. CASE case.kind = "plain"
  BY <1>1, <1>2, <1>5, <1>10 DEF Conclude, Finish, out
<1> QED BY <1>4, <1>6, <1>7, <1>8, <1>9, <1>10

-----------------------------------------------------------------------------
(* What every step keeps, whatever the application. *)

\* A poll that is answered or over.
Concluded(v) ==
    /\ v \in Views /\ Conclude(v) /\ pc \in {"poll", "answer"}
    /\ UNCHANGED <<case, safe, reply, phase, browserVars>>

LEMMA ConcludedKeeps ==
    ASSUME RequestInv, NEW v, Concluded(v), last' \in Views, left' \in 0..MaxPolls
    PROVE  RequestInv'
<1>1. /\ pc' \in {"done", "back"} /\ outcome' \in Outcomes /\ resent' \in BOOLEAN
      /\ status' \in {"none", "pass", "unexpected", "inconclusive", "skipped", "error"}
      /\ (pc' = "done") = (status' # "none")
      /\ pc' = "back" => phase = 1 /\ case.kind = "back"
      /\ resent' => resent \/ \E e \in network : e.phase = 2
  BY ConcludeTyped DEF RequestInv, Concluded
<1>2. Shapes' BY <1>1 DEF RequestInv, Shapes, Concluded, browserVars, Ends
<1>3. Phases' BY <1>1 DEF RequestInv, Phases, Concluded
<1>4. Numbers' BY DEF RequestInv, Numbers, Concluded, browserVars
<1>5. Sources' BY <1>1 DEF RequestInv, Sources, Concluded, browserVars
<1>6. BackBlamesBack' BY <1>1 DEF RequestInv, Sources, BackBlamesBack, Concluded, browserVars
<1> QED BY <1>2, <1>3, <1>4, <1>5, <1>6 DEF RequestInv

LEMMA ViewTyped == ASSUME Shapes PROVE View \in Views
BY DEF Shapes, View, Views, Document, Applications

LEMMA NothingTyped == Nothing \in Views
BY DEF Nothing, Views

LEMMA DocumentsTyped ==
    ASSUME Shapes
    PROVE  /\ Fresh \in Document /\ Shown(page) \in Document /\ Shown(Fresh) \in Document
           /\ [Fresh EXCEPT !.observed = TRUE] \in Document
           /\ [page EXCEPT !.observed = TRUE] \in Document /\ [page EXCEPT !.invalid = TRUE] \in Document
           /\ [page EXCEPT !.fieldError = TRUE] \in Document /\ [page EXCEPT !.loaded = FALSE] \in Document
<1>1. page \in Document /\ app.tells \in BOOLEAN /\ app.main \in BOOLEAN /\ app.moves \in BOOLEAN /\ app.resets \in BOOLEAN
  BY DEF Shapes, Applications
<1>2. Fresh \in Document BY DEF Fresh, Document
<1>3. ASSUME NEW p \in Document PROVE Shown(p) \in Document
  <2>1. p.message \in {"none", "error", "success"} BY <1>3 DEF Document
  <2>2. (app.moves /\ (app.main \/ app.fate = "takes")) \in BOOLEAN
        /\ (~app.main /\ app.resets /\ app.fate = "takes") \in BOOLEAN
        /\ (app.main /\ app.fate = "refuses") \in BOOLEAN
    OBVIOUS
  <2> QED BY <2>1, <2>2 DEF Document, Shown
<1>4. ASSUME NEW p \in Document
      PROVE  /\ [p EXCEPT !.observed = TRUE] \in Document /\ [p EXCEPT !.invalid = TRUE] \in Document
             /\ [p EXCEPT !.fieldError = TRUE] \in Document /\ [p EXCEPT !.loaded = FALSE] \in Document
  BY DEF Document
<1> QED BY <1>1, <1>2, <1>3, <1>4

LEMMA AbortedRequests ==
    ASSUME NEW R \in SUBSET Request, NEW end \in 0..2
    PROVE  /\ Aborted(R, end) \subseteq Recorded
           /\ \A e \in Aborted(R, end) : \E r \in R : e.n = r.n /\ e.phase = r.phase /\ e.status = 0 /\ e.end = end
BY DEF Aborted, Request, Recorded

\* The executor's steps up to the submission.
LEMMA PreparationKeeps == ASSUME RequestInv, Load \/ Reveal \/ Fill PROVE RequestInv'
<1> DEFINE Untouched == UNCHANGED <<case, safe, left, reply, last, phase, resent, app, tab, answered, network>>
<1>1. Verdict(case.expect, "blocked_unsafe") = "skipped" BY DEF Verdict
<1>2. "no_response" \in Outcomes /\ "blocked_unsafe" \in Outcomes BY DEF Outcomes
<1>3. phase = 0 /\ Untouched /\ status = "none" /\ pc \in {"start", "reveal", "fill"} /\ open = {} /\ network = {}
  BY DEF RequestInv, Phases, Sources, Load, Reveal, Fill, browserVars
<1>4. /\ outcome' \in Outcomes
      /\ status' \in {"none", "pass", "unexpected", "inconclusive", "skipped", "error"}
      /\ pc' \in {"done", "threw", "reveal", "fill", "act"}
      /\ (pc' = "done") = (status' # "none")
      /\ pc' \in {"fill", "act"} => case.kind # "keyboard"
  <2>1. CASE Load BY <1>1, <1>2, <1>3, <2>1 DEF RequestInv, Shapes, Load, Fail, Finish
  <2>2. CASE Reveal BY <1>2, <1>3, <2>2 DEF RequestInv, Shapes, Reveal, Fail, Finish
  <2>3. CASE Fill BY <1>2, <1>3, <2>3 DEF RequestInv, Shapes, Phases, Fill, Fail, Finish
  <2> QED BY <2>1, <2>2, <2>3
<1>5. /\ page' \in Document /\ quiet' \in BOOLEAN
      /\ open' = {} \/ (pc = "fill" /\ \E b \in {0, 1} : open' = {[n |-> 0, phase |-> b]})
      /\ pc' \in {"reveal", "fill"} => open' = {}
  <2>1. CASE Load \/ Reveal BY <1>3, <2>1 DEF RequestInv, Shapes, Load, Reveal, browserVars
  <2>2. CASE Fill BY <1>3, <2>2, DocumentsTyped DEF RequestInv, Shapes, Fill, Autosave, Fail, Finish
  <2> QED BY <2>1, <2>2
<1>6. open' \subseteq Request /\ \A r \in open' : r.n = 0 /\ r.phase < 2
  BY <1>5 DEF Request
<1>7. Shapes' BY <1>3, <1>4, <1>5, <1>6 DEF RequestInv, Shapes, Ends
<1>8. Phases' BY <1>3, <1>4 DEF RequestInv, Phases
<1>9. Numbers' BY <1>3, <1>5 DEF Numbers
<1>10. Sources' BY <1>3, <1>4, <1>5, <1>6 DEF Sources
<1>11. BackBlamesBack' BY <1>3 DEF RequestInv, BackBlamesBack
<1> QED BY <1>7, <1>8, <1>9, <1>10, <1>11 DEF RequestInv

\* What a click does to the document and to the requests.
LEMMA ClickedTyped ==
    ASSUME RequestInv, phase = 0, Clicked
    PROVE  /\ page' \in Document
           /\ \E sent, gone \in SUBSET {[n |-> 1, phase |-> 1], [n |-> 2, phase |-> 1]} :
                /\ sent \cap gone = {}
                /\ open' = open \cup sent /\ network' = network \cup Aborted(gone, 1)
<1> DEFINE Both == {[n |-> 1, phase |-> 1], [n |-> 2, phase |-> 1]}
<1>1. page' \in Document BY DocumentsTyped DEF RequestInv, Shapes, Clicked
<1>2. CASE UNCHANGED <<open, network>>
  <2>1. open' = open \cup {} /\ network' = network \cup Aborted({}, 1) BY <1>2 DEF Aborted
  <2>2. {} \in SUBSET Both /\ {} \cap {} = {} OBVIOUS
  <2> QED BY <1>1, <2>1, <2>2
<1>3. CASE app.check = "sends"
  <2> DEFINE clicks == IF case.kind = "double" /\ ~app.guards THEN 1..2 ELSE 1..1
             requests == {[n |-> n, phase |-> 1] : n \in clicks}
             gone == IF app.main THEN {r \in requests : r.n < Cardinality(clicks)} ELSE {}
  <2>1. requests \subseteq Both OBVIOUS
  <2>2. gone \subseteq requests OBVIOUS
  <2>3. open' = open \cup (requests \ gone) /\ network' = network \cup Aborted(gone, 1)
    BY <1>3 DEF Clicked
  <2> HIDE DEF requests, gone
  <2>4. requests \ gone \in SUBSET Both /\ gone \in SUBSET Both /\ (requests \ gone) \cap gone = {} BY <2>1, <2>2
  <2> QED BY <1>1, <2>3, <2>4
<1> QED BY <1>2, <1>3 DEF Clicked

LEMMA SubmitKeeps == ASSUME RequestInv, Submit PROVE RequestInv'
<1> DEFINE Both == {[n |-> 1, phase |-> 1], [n |-> 2, phase |-> 1]}
<1>1. /\ phase = 0 /\ phase' = 1 /\ quiet' = FALSE /\ pc = "act" /\ pc' = "poll" /\ left' = MaxPolls /\ last' = Nothing
      /\ UNCHANGED <<case, safe, resent, app, tab, answered, outcome, status, reply>>
      /\ status = "none" /\ case.kind # "keyboard"
  BY DEF RequestInv, Phases, Submit, Settling
<1>2. /\ page' \in Document
      /\ \E sent, gone \in SUBSET Both :
           /\ sent \cap gone = {}
           /\ open' = open \cup sent /\ network' = network \cup Aborted(gone, 1)
  <2>1. CASE tab BY <1>1, <2>1, ClickedTyped DEF Submit
  <2>2. CASE ~tab
    <3>1. open' = open \cup {} /\ network' = network \cup Aborted({}, 1) BY <2>2 DEF Submit, Aborted
    <3>2. page' \in Document BY <2>2 DEF Submit, RequestInv, Shapes
    <3> QED BY <3>1, <3>2
  <2> QED BY <2>1, <2>2
<1>3. PICK sent, gone \in SUBSET Both :
           /\ sent \cap gone = {}
           /\ open' = open \cup sent /\ network' = network \cup Aborted(gone, 1)
  BY <1>2
<1>4. \A b \in Both : b \in Request /\ b.n \in {1, 2} /\ b.phase = 1 BY DEF Request
<1>5. \A b, c \in Both : b.n = c.n => b = c OBVIOUS
<1> HIDE DEF Both
<1>6. gone \in SUBSET Request /\ 1 \in 0..2 BY <1>4
<1>7. /\ Aborted(gone, 1) \subseteq Recorded
      /\ \A e \in Aborted(gone, 1) : \E r \in gone : e.n = r.n /\ e.phase = r.phase /\ e.status = 0 /\ e.end = 1
  BY <1>6, AbortedRequests
<1>8. \A e, f \in Aborted(gone, 1) : e.n = f.n => e = f
  BY <1>5 DEF Aborted
<1>9. \A r \in open : r.n = 0 BY <1>1 DEF RequestInv, Sources
<1>10. \A e \in network : e.n = 0 BY <1>1 DEF RequestInv, Sources
<1>11. Shapes'
  <2>1. open' \subseteq Request /\ network' \subseteq Recorded BY <1>3, <1>4, <1>7 DEF RequestInv, Shapes
  <2>2. left' \in 0..MaxPolls /\ phase' \in 0..2 /\ last' \in Views BY <1>1, NothingTyped, CaseRunAssumption
  <2> QED BY <1>1, <1>2, <2>1, <2>2 DEF RequestInv, Shapes, Ends
<1>12. Phases' BY <1>1 DEF RequestInv, Phases
<1>13. Numbers'
  <2>1. \A e, f \in network' : e.n = f.n => e = f BY <1>3, <1>4, <1>7, <1>8, <1>10 DEF RequestInv, Numbers
  <2>2. \A r, q \in open' : r.n = q.n => r = q BY <1>3, <1>4, <1>5, <1>9 DEF RequestInv, Numbers
  <2>3. \A e \in network', r \in open' : e.n # r.n
    <3> SUFFICES ASSUME NEW e \in network', NEW r \in open', e.n = r.n PROVE FALSE OBVIOUS
    <3>1. CASE e \in network BY <1>3, <1>4, <1>10, <3>1 DEF RequestInv, Numbers
    <3>2. CASE e \notin network
      <4>1. PICK g \in gone : e.n = g.n BY <1>3, <1>7, <3>2
      <4>2. g \in Both /\ g.n \in {1, 2} BY <1>4
      <4>3. ASSUME r \in open PROVE FALSE
        <5>1. r.n = 0 BY <1>9, <4>3
        <5> QED BY <5>1, <4>1, <4>2
      <4>4. r \in sent BY <1>3, <4>3
      <4>5. r = g BY <1>5, <4>1, <4>2, <4>4
      <4> QED BY <1>3, <4>4, <4>5
    <3> QED BY <3>1, <3>2
  <2> QED BY <2>1, <2>2, <2>3 DEF Numbers
<1>14. Sources'
  <2>1. \A e \in network \cup open : e.n = 0 /\ (e.phase = 2 => app.resends) BY <1>1 DEF RequestInv, Sources
  <2>2. \A e \in network' \cup open' : e.n < 3 /\ (e.phase = 2 => app.resends)
    BY <1>3, <1>4, <1>7, <2>1
  <2> QED BY <1>1, <2>2 DEF Sources
<1>15. BackBlamesBack' BY <1>1 DEF RequestInv, BackBlamesBack
<1> QED BY <1>11, <1>12, <1>13, <1>14, <1>15 DEF RequestInv

\* Requests end: some with a response, some with the document that sent them.
LEMMA EndedKeep ==
    ASSUME RequestInv, NEW R \in SUBSET open, NEW end \in 0..2
    PROVE  /\ Aborted(R, end) \subseteq Recorded
           /\ \A e, f \in network \cup Aborted(R, end) : e.n = f.n => e = f
           /\ \A e \in network \cup Aborted(R, end), r \in open \ R : e.n # r.n
           /\ \A e \in network \cup Aborted(R, end) :
                (phase = 0 => e.n = 0) /\ (phase = 1 => e.n < 3) /\ (e.phase = 2 => app.resends)
<1>1. R \in SUBSET Request BY DEF RequestInv, Shapes
<1>2. /\ Aborted(R, end) \subseteq Recorded
      /\ \A e \in Aborted(R, end) : \E r \in R : e.n = r.n /\ e.phase = r.phase /\ e.status = 0 /\ e.end = end
  BY <1>1, AbortedRequests
<1>3. \A r, q \in R : r.n = q.n => r = q BY DEF RequestInv, Numbers
<1>4. \A e, f \in Aborted(R, end) : e.n = f.n => e = f
  BY <1>3 DEF Aborted
<1>5. \A e \in network, r \in open : e.n # r.n BY DEF RequestInv, Numbers
<1>6. \A r, q \in open : r.n = q.n => r = q BY DEF RequestInv, Numbers
<1>7. \A e, f \in network : e.n = f.n => e = f BY DEF RequestInv, Numbers
<1>8. \A e, f \in network \cup Aborted(R, end) : e.n = f.n => e = f
  BY <1>2, <1>4, <1>5, <1>7
<1>9. \A e \in network \cup Aborted(R, end), r \in open \ R : e.n # r.n
  BY <1>2, <1>5, <1>6
<1>10. \A e \in network \cup open :
         (phase = 0 => e.n = 0) /\ (phase = 1 => e.n < 3) /\ (e.phase = 2 => app.resends)
  BY DEF RequestInv, Sources
<1>11. \A e \in network \cup Aborted(R, end) :
         (phase = 0 => e.n = 0) /\ (phase = 1 => e.n < 3) /\ (e.phase = 2 => app.resends)
  BY <1>2, <1>10
<1> QED BY <1>2, <1>8, <1>9, <1>11

LEMMA ReloadKeeps == ASSUME RequestInv, Reload PROVE RequestInv'
<1>0. /\ pc = "act" /\ phase = 0 /\ status = "none" /\ case.kind = "reload"
      /\ UNCHANGED <<case, safe, resent, app, tab, answered, outcome, status, reply>>
  BY DEF Reload, RequestInv, Phases, Settling
<1>1. BackBlamesBack' BY <1>0 DEF RequestInv, BackBlamesBack
<1>2. CASE tab
  <2>1. /\ phase' = 1 /\ quiet' = FALSE /\ page' = [Fresh EXCEPT !.observed = TRUE]
        /\ open' = {} /\ network' = network \cup Aborted(open, 1)
        /\ pc' = "poll" /\ left' = MaxPolls /\ last' = Nothing
    BY <1>2 DEF Reload, Settling
  <2>2. /\ Aborted(open, 1) \subseteq Recorded
        /\ \A e, f \in network \cup Aborted(open, 1) : e.n = f.n => e = f
        /\ \A e \in network \cup Aborted(open, 1) :
                (phase = 0 => e.n = 0) /\ (phase = 1 => e.n < 3) /\ (e.phase = 2 => app.resends)
    <3>1. open \in SUBSET open /\ 1 \in 0..2 OBVIOUS
    <3> QED BY <3>1, EndedKeep
  <2>3. Shapes'
    <3>1. open' \subseteq Request /\ network' \subseteq Recorded BY <2>1, <2>2 DEF RequestInv, Shapes
    <3>2. left' \in 0..MaxPolls /\ phase' \in 0..2 /\ last' \in Views BY <2>1, NothingTyped, CaseRunAssumption
    <3>3. page' \in Document BY <2>1, DocumentsTyped DEF RequestInv
    <3> QED BY <1>0, <2>1, <3>1, <3>2, <3>3 DEF RequestInv, Shapes, Ends
  <2>4. Phases' BY <1>0, <2>1 DEF RequestInv, Phases
  <2>5. Numbers' BY <2>1, <2>2 DEF Numbers
  <2>6. Sources' BY <1>0, <2>1, <2>2 DEF Sources
  <2> QED BY <1>1, <2>3, <2>4, <2>5, <2>6 DEF RequestInv
<1>3. CASE ~tab
  <2>1. pc' = "threw" /\ UNCHANGED <<phase, quiet, page, open, network, left, last>> BY <1>3 DEF Reload
  <2>2. Shapes' BY <1>0, <2>1 DEF RequestInv, Shapes, Ends
  <2>3. Phases' BY <1>0, <2>1 DEF RequestInv, Phases
  <2>4. Numbers' BY <2>1 DEF RequestInv, Numbers
  <2>5. Sources' BY <1>0, <2>1 DEF RequestInv, Sources
  <2> QED BY <1>1, <2>2, <2>3, <2>4, <2>5 DEF RequestInv
<1> QED BY <1>2, <1>3

LEMMA BackKeeps == ASSUME RequestInv, Back PROVE RequestInv'
<1>1. /\ pc = "back" /\ phase = 1 /\ phase' = 2 /\ quiet' = FALSE /\ status = "none" /\ case.kind = "back"
      /\ pc' = "poll" /\ left' = MaxPolls /\ last' = Nothing
      /\ UNCHANGED <<case, safe, resent, app, tab, answered, outcome, status, reply>>
  BY DEF RequestInv, Phases, Back, Settling
<1>2. PICK lost \in SUBSET open :
        /\ page' \in Document
        /\ network' = network \cup Aborted(lost, 2)
        /\ \/ open' = open /\ lost = {}
           \/ open' = (open \ lost) \cup (IF app.resends THEN {[n |-> 3, phase |-> 2]} ELSE {})
  <2>1. CASE ~tab
    <3>1. page' = page /\ network' = network \cup Aborted({}, 2) /\ open' = open BY <2>1 DEF Back, Aborted
    <3>2. page' \in Document /\ {} \in SUBSET open BY <3>1 DEF RequestInv, Shapes
    <3> QED BY <3>1, <3>2
  <2>2. CASE tab
    <3>1. PICK lost \in {{}, open} :
            /\ open' = (open \ lost) \cup (IF app.resends THEN {[n |-> 3, phase |-> 2]} ELSE {})
            /\ network' = network \cup Aborted(lost, 2)
            /\ page' = [Fresh EXCEPT !.observed = TRUE]
      BY <2>2 DEF Back
    <3>2. page' \in Document BY <3>1, DocumentsTyped DEF RequestInv
    <3>3. lost \in SUBSET open OBVIOUS
    <3> QED BY <3>1, <3>2, <3>3
  <2> QED BY <2>1, <2>2 DEF RequestInv, Shapes
<1>3. /\ Aborted(lost, 2) \subseteq Recorded
      /\ \A e, f \in network \cup Aborted(lost, 2) : e.n = f.n => e = f
      /\ \A e \in network \cup Aborted(lost, 2), r \in open \ lost : e.n # r.n
      /\ \A e \in network \cup Aborted(lost, 2) :
           (phase = 0 => e.n = 0) /\ (phase = 1 => e.n < 3) /\ (e.phase = 2 => app.resends)
  <2>1. 2 \in 0..2 OBVIOUS
  <2> QED BY <2>1, EndedKeep
<1> DEFINE new == [n |-> 3, phase |-> 2]
<1>4. new \in Request /\ new.n = 3 /\ new.phase = 2 BY DEF Request
<1>5. open' \subseteq (open \ lost) \cup {new} /\ (new \in open' => new \in open \ lost \/ app.resends) BY <1>2
<1> HIDE DEF new
<1>6. \A r \in open : r.n < 3 /\ (r.phase = 2 => app.resends) BY <1>1 DEF RequestInv, Sources
<1>7. Shapes'
  <2>1. open' \subseteq Request /\ network' \subseteq Recorded BY <1>2, <1>3, <1>4, <1>5 DEF RequestInv, Shapes
  <2>2. left' \in 0..MaxPolls /\ phase' \in 0..2 /\ last' \in Views BY <1>1, NothingTyped, CaseRunAssumption
  <2> QED BY <1>1, <1>2, <2>1, <2>2 DEF RequestInv, Shapes, Ends
<1>8. Phases' BY <1>1 DEF RequestInv, Phases
<1>9. Numbers'
  <2>1. \A r, q \in open : r.n = q.n => r = q BY DEF RequestInv, Numbers
  <2>2. \A r, q \in open' : r.n = q.n => r = q BY <1>4, <1>5, <1>6, <2>1
  <2>3. \A e \in network', r \in open' : e.n # r.n BY <1>1, <1>2, <1>3, <1>4, <1>5
  <2> QED BY <1>2, <1>3, <2>2, <2>3 DEF Numbers
<1>10. Sources' BY <1>1, <1>2, <1>3, <1>4, <1>5, <1>6 DEF Sources
<1>11. BackBlamesBack' BY <1>1 DEF RequestInv, BackBlamesBack
<1> QED BY <1>7, <1>8, <1>9, <1>10, <1>11 DEF RequestInv

LEMMA PollingKeeps == ASSUME RequestInv, Poll \/ Answer \/ TimeUp PROVE RequestInv'
<1>1. CASE Poll
  <2>1. UNCHANGED <<case, safe, last, phase, outcome, status, resent, browserVars>> /\ pc = "poll" /\ status = "none"
    BY <1>1 DEF Poll, RequestInv, Phases
  <2>2. pc' \in {"poll", "answer"} /\ left' \in 0..MaxPolls /\ reply' \in Views /\ (pc' = "answer" => left' > 0)
    BY <1>1, ViewTyped, CaseRunAssumption DEF Poll, RequestInv, Shapes
  <2>3. Shapes' BY <2>1, <2>2 DEF RequestInv, Shapes, Ends, browserVars
  <2>4. Phases' BY <2>1, <2>2 DEF RequestInv, Phases
  <2>5. Numbers' BY <2>1 DEF RequestInv, Numbers, browserVars
  <2>6. Sources' BY <2>1, <2>2 DEF RequestInv, Sources, browserVars
  <2>7. BackBlamesBack' BY <2>1 DEF RequestInv, BackBlamesBack, browserVars
  <2> QED BY <2>3, <2>4, <2>5, <2>6, <2>7 DEF RequestInv
<1>2. CASE Answer /\ pc' = "poll"
  <2>1. /\ UNCHANGED <<case, safe, reply, phase, browserVars>> /\ last' = reply
        /\ pc = "answer" /\ status = "none" /\ left > 0
    BY <1>2 DEF Answer, RequestInv, Phases
  <2>2. left' = left - 1 /\ UNCHANGED <<outcome, status, resent>>
    BY <1>2, <2>1 DEF Answer, Conclude, Finish
  <2>3. left' \in 0..MaxPolls BY <2>1, <2>2, CaseRunAssumption DEF RequestInv, Shapes
  <2>4. Shapes' BY <1>2, <2>1, <2>2, <2>3 DEF RequestInv, Shapes, Ends, browserVars
  <2>5. Phases' BY <1>2, <2>1, <2>2 DEF RequestInv, Phases
  <2>6. Numbers' BY <2>1 DEF RequestInv, Numbers, browserVars
  <2>7. Sources' BY <1>2, <2>1 DEF RequestInv, Sources, browserVars
  <2>8. BackBlamesBack' BY <2>1, <2>2 DEF RequestInv, BackBlamesBack, browserVars
  <2> QED BY <2>4, <2>5, <2>6, <2>7, <2>8 DEF RequestInv
<1>3. CASE Answer /\ pc' # "poll"
  <2>1. Concluded(reply) /\ last' = reply /\ left' = left BY <1>3 DEF Answer, Concluded, RequestInv, Shapes
  <2>2. last' \in Views /\ left' \in 0..MaxPolls BY <2>1 DEF RequestInv, Shapes
  <2> QED BY <2>1, <2>2, ConcludedKeeps
<1>4. CASE TimeUp
  <2>1. Concluded(last) /\ last' = last /\ left' = left BY <1>4 DEF TimeUp, Concluded, RequestInv, Shapes
  <2>2. last' \in Views /\ left' \in 0..MaxPolls BY <2>1 DEF RequestInv, Shapes
  <2> QED BY <2>1, <2>2, ConcludedKeeps
<1> QED BY <1>1, <1>2, <1>3, <1>4

LEMMA HappensKeeps == ASSUME RequestInv, Happens PROVE RequestInv'
<1>1. UNCHANGED <<app, executorVars>> /\ pc \notin Ends BY DEF Happens, Respond, Show, Loaded, Stir, TabCloses
<1>2. Phases' BY <1>1 DEF RequestInv, Phases, executorVars
<1>3. BackBlamesBack' BY <1>1 DEF RequestInv, BackBlamesBack, executorVars
<1>4. /\ tab' \in BOOLEAN /\ quiet' \in BOOLEAN /\ page' \in Document /\ answered' \in Nat
  <2>a. tab \in BOOLEAN /\ quiet \in BOOLEAN /\ answered \in Nat /\ page \in Document BY DEF RequestInv, Shapes
  <2>b. Shown(page) \in Document /\ Shown(Fresh) \in Document /\ [page EXCEPT !.loaded = FALSE] \in Document
    BY DocumentsTyped DEF RequestInv
  <2>1. CASE Respond
    <3>1. page' \in {page, [page EXCEPT !.loaded = FALSE]} /\ answered' \in {answered, answered + 1}
          /\ UNCHANGED <<tab, quiet>>
      BY <2>1 DEF Respond
    <3>2. page' \in Document BY <3>1, <2>a, <2>b
    <3>3. answered' \in Nat
      <4>1. answered' \in {answered, answered + 1} BY <3>1
      <4> QED BY <4>1, <2>a
    <3> QED BY <3>1, <3>2, <3>3, <2>a
  <2>2. CASE Show
    <3>1. page' = Shown(page) /\ answered' = answered - 1 /\ answered > 0 /\ quiet' = FALSE /\ tab' = tab
      BY <2>2 DEF Show
    <3>2. page' \in Document BY <3>1, <2>b
    <3>3. answered' \in Nat BY <3>1, <2>a
    <3> QED BY <3>1, <3>2, <3>3, <2>a
  <2>3. CASE Loaded
    <3>1. page' = Shown(Fresh) /\ quiet' = FALSE /\ UNCHANGED <<tab, answered>> BY <2>3 DEF Loaded
    <3> QED BY <3>1, <2>a, <2>b
  <2>4. CASE Stir
    <3>1. quiet' = ~quiet /\ UNCHANGED <<tab, page, answered>> BY <2>4 DEF Stir
    <3> QED BY <3>1 DEF RequestInv, Shapes
  <2>5. CASE TabCloses BY <2>5 DEF TabCloses, RequestInv, Shapes
  <2> QED BY <2>1, <2>2, <2>3, <2>4, <2>5 DEF Happens
<1>5. CASE UNCHANGED <<open, network>>
  <2>1. Shapes' BY <1>1, <1>4, <1>5 DEF RequestInv, Shapes, executorVars
  <2>2. Numbers' BY <1>5 DEF RequestInv, Numbers
  <2>3. Sources' BY <1>1, <1>5 DEF RequestInv, Sources, executorVars
  <2> QED BY <1>2, <1>3, <2>1, <2>2, <2>3 DEF RequestInv
<1>6. CASE TabCloses
  <2>1. open' = {} /\ network' = network \cup Aborted(open, phase) BY <1>6 DEF TabCloses
  <2>2. /\ Aborted(open, phase) \subseteq Recorded
        /\ \A e, f \in network \cup Aborted(open, phase) : e.n = f.n => e = f
        /\ \A e \in network \cup Aborted(open, phase) :
             (phase = 0 => e.n = 0) /\ (phase = 1 => e.n < 3) /\ (e.phase = 2 => app.resends)
    <3>1. open \in SUBSET open /\ phase \in 0..2 BY DEF RequestInv, Shapes
    <3> QED BY <3>1, EndedKeep
  <2>3. Shapes'
    <3>1. open' \subseteq Request /\ network' \subseteq Recorded BY <2>1, <2>2 DEF RequestInv, Shapes
    <3> QED BY <1>1, <1>4, <3>1 DEF RequestInv, Shapes, executorVars
  <2>4. Numbers' BY <2>1, <2>2 DEF Numbers
  <2>5. pc \in {"start", "reveal", "fill"} => network' = {} BY <2>1 DEF RequestInv, Sources, Aborted
  <2>6. Sources' BY <1>1, <2>1, <2>2, <2>5 DEF Sources, executorVars
  <2> QED BY <1>2, <1>3, <2>3, <2>4, <2>6 DEF RequestInv
<1>7. CASE Respond
  <2>1. PICK r \in open :
          /\ open' = open \ {r}
          /\ network' = network \cup {[n |-> r.n, phase |-> r.phase, end |-> phase,
                                       status |-> IF r.n = 0 THEN 200 ELSE app.status]}
    BY <1>7 DEF Respond
  <2> DEFINE e0 == [n |-> r.n, phase |-> r.phase, end |-> phase, status |-> IF r.n = 0 THEN 200 ELSE app.status]
  <2>2. r \in Request /\ app.status \in Nat /\ phase \in 0..2 BY DEF RequestInv, Shapes, Applications
  <2>3. e0 \in Recorded /\ e0.n = r.n /\ e0.phase = r.phase BY <2>2 DEF Request, Recorded
  <2> HIDE DEF e0
  <2>4. network' = network \cup {e0} BY <2>1 DEF e0
  <2>5. Shapes'
    <3>1. open' \subseteq Request /\ network' \subseteq Recorded BY <2>1, <2>3, <2>4 DEF RequestInv, Shapes
    <3> QED BY <1>1, <1>4, <3>1 DEF RequestInv, Shapes, executorVars
  <2>6. Numbers' BY <2>1, <2>3, <2>4 DEF RequestInv, Numbers
  <2>7. Sources' BY <1>1, <2>1, <2>3, <2>4 DEF RequestInv, Sources, executorVars
  <2> QED BY <1>2, <1>3, <2>5, <2>6, <2>7 DEF RequestInv
<1> QED BY <1>5, <1>6, <1>7 DEF Happens, Show, Loaded, Stir

LEMMA RequestInvInit == Init => RequestInv
<1> SUFFICES ASSUME Init PROVE RequestInv OBVIOUS
<1>1. case \in [kind : {"plain", "keyboard", "reload", "double", "back"}, expect : {"accept", "reject", "observe"}]
      /\ app \in Applications
  BY CaseRunAssumption DEF Init
<1>2. Fresh \in Document BY DEF Fresh, Document
<1>3. left \in 0..MaxPolls BY CaseRunAssumption DEF Init
<1>4. outcome \in Outcomes BY DEF Init, Outcomes
<1>5. reply \in Views /\ last \in Views BY NothingTyped DEF Init
<1>6. open \subseteq Request /\ network \subseteq Recorded BY DEF Init
<1>7. safe \in BOOLEAN /\ tab \in BOOLEAN /\ quiet \in BOOLEAN /\ resent \in BOOLEAN BY DEF Init
<1>8. page \in Document /\ answered \in Nat /\ phase \in 0..2 BY <1>2 DEF Init
<1>9. pc = "start" /\ status = "none" BY DEF Init
<1>10. Shapes BY <1>1, <1>3, <1>4, <1>5, <1>6, <1>7, <1>8, <1>9 DEF Shapes
<1> QED BY <1>10 DEF Init, RequestInv, Phases, Numbers, Sources, BackBlamesBack

LEMMA RequestInvStep == RequestInv /\ [Next]_vars => RequestInv'
<1> SUFFICES ASSUME RequestInv, [Next]_vars PROVE RequestInv' OBVIOUS
<1>1. CASE UNCHANGED vars
  BY <1>1 DEF RequestInv, Shapes, Phases, Numbers, Sources, BackBlamesBack, vars, executorVars, browserVars
<1>2. CASE Execute
  BY <1>2, PreparationKeeps, SubmitKeeps, ReloadKeeps, BackKeeps, PollingKeeps DEF Execute
<1>3. CASE Happens BY <1>3, HappensKeeps
<1> QED BY <1>1, <1>2, <1>3 DEF Next

\* What the executor, the recorder and the page hold keeps its shape for any number of polls and
\* any applications, and the recorder never gives one request two ends.
THEOREM CaseTypes == Spec => []TypeOK
<1>1. RequestInv => TypeOK BY DEF RequestInv, Shapes, Phases, Numbers, TypeOK
<1> QED BY <1>1, RequestInvInit, RequestInvStep, PTL DEF Spec

\* runCase() blames browser Back only for requests that Back has sent, whatever the application and
\* however late the submission's own response.
THEOREM BackIsBlamedRightly == Spec => []BackBlamesBack
<1>1. RequestInv => BackBlamesBack BY DEF RequestInv
<1> QED BY <1>1, RequestInvInit, RequestInvStep, PTL DEF Spec

-----------------------------------------------------------------------------
(* The verdict on an honest application. *)

\* What classifyOutcome() says of what an honest application leaves to be seen.
LEMMA OutcomeOfHonest ==
    ASSUME RequestInv, Honest(app), OnlySubmissions, NEW v \in Views, TruthfulView(v), ~tab \/ Telling(v),
           NEW out, out = Outcome(v, Window(1, network))
    PROVE  /\ out \in {"accepted", "navigated"} => Takes /\ app.fate # "crashes"
           /\ out \in {"rejected_client", "rejected_server"} => ~Takes /\ app.fate # "crashes"
           /\ out = "server_error" => app.fate = "crashes"
           /\ out = "no_response" => \/ ~tab \/ app.check = "silent"
                                     \/ app.check = "sends" /\ ~\E e \in network : e.n > 0 /\ e.status > 0
<1>1. Window(1, network) = network BY DEF Window, OnlySubmissions
<1>2. \A e \in network : e.n > 0 /\ e.phase >= 1 /\ e.status \in {0, app.status} BY DEF OnlySubmissions
<1>3. app.status \in Nat /\ app.check \in {"native", "inline", "silent", "local", "sends"}
      /\ app.fate \in {"takes", "refuses", "crashes", "loses"}
  BY DEF RequestInv, Shapes, Applications
<1>4. /\ v.invalid \in BOOLEAN /\ v.fieldError \in BOOLEAN /\ v.error \in BOOLEAN /\ v.success \in BOOLEAN
      /\ v.reset \in BOOLEAN /\ v.moved \in BOOLEAN
  BY DEF Views
<1>5. out = Outcome(v, network) BY <1>1
<1>6. CASE app.check = "sends" /\ Heard
  <2>1. PICK e \in network : e.status = app.status BY <1>6 DEF Heard
  <2>2. network # {} BY <2>1
  <2>3. CASE app.fate = "takes"
    <3>1. app.status \in 200..399 BY <1>6, <2>3 DEF Honest, Codes
    <3>2. ~v.error BY <2>3 DEF TruthfulView, Truthful
    <3>3. \A f \in network : f.status \notin 400..499 /\ f.status \notin 500..599
      <4>1. app.status \notin 400..499 /\ app.status \notin 500..599
        <5>1. app.status \in Int /\ app.status <= 399 BY <1>3, <3>1
        <5>2. \A n \in Int : n <= 399 => ~(400 <= n) /\ ~(500 <= n) OBVIOUS
        <5> QED BY <5>1, <5>2
      <4>2. 0 \notin 400..499 /\ 0 \notin 500..599 OBVIOUS
      <4>3. \A f \in network : f.status \in {0, app.status} BY <1>2
      <4> QED BY <4>1, <4>2, <4>3
    <3>4. e.status \in 200..399 BY <2>1, <3>1
    <3>5. out = IF v.moved /\ ~v.success THEN "navigated" ELSE "accepted"
      BY <1>4, <1>5, <2>2, <3>2, <3>3, <3>4 DEF Outcome
    <3> QED BY <1>6, <2>3, <3>5 DEF Takes
  <2>4. CASE app.fate = "refuses"
    <3>1. app.status \in 400..499 BY <1>6, <2>4 DEF Honest, Codes
    <3>2. out = "rejected_server" BY <1>2, <1>4, <1>5, <2>1, <2>2, <3>1 DEF Outcome
    <3> QED BY <1>6, <2>4, <3>2 DEF Takes
  <2>5. CASE app.fate = "crashes"
    <3>1. app.status \in 500..599 BY <1>6, <2>5 DEF Honest, Codes
    <3>2. out = "server_error" BY <1>5, <2>1, <3>1 DEF Outcome
    <3> QED BY <2>5, <3>2
  <2>6. CASE app.fate = "loses"
    <3>1. app.status = 0 /\ ~app.tells BY <1>6, <2>6 DEF Honest, Codes
    <3>2. ~v.error BY <3>1 DEF TruthfulView, Truthful
    <3>3. \A f \in network : f.status = 0 BY <1>2, <3>1
    <3>4. out = "no_response" BY <1>4, <1>5, <2>2, <3>2, <3>3 DEF Outcome
    <3> QED BY <1>6, <3>3, <3>4
  <2> QED BY <1>3, <2>3, <2>4, <2>5, <2>6
<1>7. CASE app.check = "sends" /\ ~Heard
  <2>1. ~v.invalid /\ ~v.fieldError /\ ~v.error /\ ~v.success /\ ~v.reset /\ ~v.moved
    BY <1>7 DEF TruthfulView, Truthful
  <2>2. \A e \in network : e.status = 0 BY <1>2, <1>7 DEF Heard
  <2>3. out = "no_response" BY <1>5, <2>1, <2>2 DEF Outcome
  <2> QED BY <1>7, <2>2, <2>3
<1>8. CASE app.check # "sends"
  <2>1. network = {} BY <1>8 DEF OnlySubmissions
  <2>2. /\ ~v.error
        /\ v.invalid => app.check = "native"
        /\ v.fieldError => app.check = "inline"
        /\ v.success \/ v.reset \/ v.moved => app.check = "local"
    BY <1>8 DEF TruthfulView, Truthful
  <2>3. out = IF v.invalid \/ v.fieldError THEN "rejected_client"
              ELSE IF v.success \/ v.reset THEN "accepted"
              ELSE IF v.moved THEN "navigated" ELSE "no_response"
    BY <1>4, <1>5, <2>1, <2>2 DEF Outcome
  <2>4. app.check = "local" => app.fate = "takes" BY DEF Honest
  <2>5. app.check \in {"native", "inline", "silent"} => app.fate = "refuses" BY DEF Honest
  <2>6. Takes <=> app.check = "local" BY <1>8 DEF Takes
  <2>7. out = "no_response" => ~tab \/ app.check = "silent"
    BY <1>3, <1>8, <2>3 DEF Telling
  <2> QED BY <1>3, <1>8, <2>2, <2>3, <2>4, <2>5, <2>6, <2>7
<1> QED BY <1>6, <1>7, <1>8

\* What judge() makes of it.
LEMMA JudgedRightly ==
    ASSUME RequestInv, Honest(app), case.kind = "plain", OnlySubmissions,
           NEW v \in Views, TruthfulView(v), ~tab \/ Telling(v), Conclude(v),
           UNCHANGED <<case, app, tab, network, phase>>
    PROVE  VerdictIsRight'
<1> DEFINE out == Outcome(v, Window(1, network))
<1>1. /\ out \in {"accepted", "navigated"} => Takes /\ app.fate # "crashes"
      /\ out \in {"rejected_client", "rejected_server"} => ~Takes /\ app.fate # "crashes"
      /\ out = "server_error" => app.fate = "crashes"
      /\ out = "no_response" => \/ ~tab \/ app.check = "silent"
                                \/ app.check = "sends" /\ ~\E e \in network : e.n > 0 /\ e.status > 0
  BY OutcomeOfHonest
<1>2. out \in Outcomes \ {"none", "blocked_unsafe"} BY OutcomeTyped
<1>3. status' = Verdict(case.expect, out) BY DEF Conclude, Finish
<1> HIDE DEF out
<1>4. SUFFICES ASSUME case.expect \in {"accept", "reject"}
      PROVE  /\ status' = "pass" => app.fate # "crashes" /\ Takes = (case.expect = "accept")
             /\ status' = "unexpected" => app.fate = "crashes" \/ Takes # (case.expect = "accept")
             /\ status' = "inconclusive" =>
                  \/ ~tab \/ app.check = "silent"
                  \/ app.check = "sends" /\ ~\E e \in network : e.n > 0 /\ e.status > 0
  BY DEF RequestInv, Shapes, VerdictIsRight, Takes
<1>5. /\ status' = "pass" => IF case.expect = "accept" THEN out \in {"accepted", "navigated"}
                             ELSE out \in {"rejected_client", "rejected_server"}
      /\ status' = "unexpected" => \/ out = "server_error"
                                   \/ IF case.expect = "accept" THEN out \in {"rejected_client", "rejected_server"}
                                      ELSE out \in {"accepted", "navigated"}
      /\ status' = "inconclusive" => out = "no_response"
  BY <1>2, <1>3, <1>4 DEF Verdict, Outcomes
<1>6. Takes \in BOOLEAN BY DEF Takes
<1> QED BY <1>1, <1>4, <1>5, <1>6

\* As long as a case has not been judged nothing is claimed of it.
LEMMA NotJudged == ASSUME pc' # "done" \/ phase' = 0 PROVE VerdictIsRight'
BY DEF VerdictIsRight, Submitted

LEMMA PreparationEvidence ==
    ASSUME RequestInv, case.kind = "plain", Honest(app), Evidence, Load \/ Reveal \/ Fill
    PROVE  Evidence' /\ VerdictIsRight'
<1>1. /\ phase = 0 /\ network = {} /\ open = {}
      /\ UNCHANGED <<case, left, reply, last, phase, app, tab, answered, network>>
  BY DEF RequestInv, Phases, Sources, Load, Reveal, Fill, browserVars
<1>2. VerdictIsRight' BY <1>1, NotJudged
<1>3. ~Heard BY <1>1 DEF Heard
<1>4. ~page.invalid \/ app.check = "native" BY DEF Evidence, TruthfulPage, Truthful
<1>5. pc' \notin {"poll", "answer"} BY DEF Load, Reveal, Fill, Fail, Finish
<1>6. /\ open' = {}
      /\ page' = page \/ page' = [page EXCEPT !.observed = TRUE]
      /\ pc' = "act" => page' = [page EXCEPT !.observed = TRUE]
  BY <1>1 DEF Load, Reveal, Fill, Fail, Finish, Autosave, Honest, browserVars
<1>7. page \in Document BY DEF RequestInv, Shapes
<1>8. /\ page'.loaded = page.loaded /\ page'.invalid = page.invalid /\ page'.fieldError = page.fieldError
      /\ page'.message = page.message /\ page'.reset = page.reset /\ page'.moved = page.moved
      /\ pc' = "act" => page'.observed
  BY <1>6, <1>7 DEF Document
<1>9. Heard' <=> Heard BY <1>1 DEF Heard
<1>10. OnlySubmissions' BY <1>1, <1>6 DEF OnlySubmissions
<1>11. TruthfulPage' BY <1>1, <1>8, <1>9 DEF Evidence, TruthfulPage, Truthful
<1>12. TruthfulView(reply)' /\ TruthfulView(last)' BY <1>1, <1>9 DEF Evidence, TruthfulView, Truthful
<1>13. answered' > 0 \/ ~page'.loaded => app'.check = "sends" /\ Heard'
  BY <1>1, <1>8, <1>9 DEF Evidence
<1> QED BY <1>1, <1>2, <1>5, <1>8, <1>10, <1>11, <1>12, <1>13 DEF Evidence

LEMMA SubmitEvidence ==
    ASSUME RequestInv, case.kind = "plain", Honest(app), Evidence, Submit
    PROVE  Evidence' /\ VerdictIsRight'
<1>1. /\ phase = 0 /\ phase' = 1 /\ pc' = "poll" /\ left' = MaxPolls /\ last' = Nothing
      /\ UNCHANGED <<case, app, tab, answered, reply>> /\ page.observed
  BY DEF RequestInv, Phases, Submit, Settling, Evidence
<1>2. VerdictIsRight' BY <1>1, NotJudged
<1>3. network = {} /\ open = {} /\ ~Heard /\ answered = 0 /\ page.loaded
  <2>1. \A e \in network \cup open : e.n = 0 BY <1>1 DEF RequestInv, Sources
  <2>2. network = {} /\ open = {} BY <2>1 DEF Evidence, OnlySubmissions
  <2> QED BY <2>2 DEF Evidence, Heard, RequestInv, Shapes
<1>4. ~Heard' \/ app.check = "sends"
  <2>1. CASE ~tab BY <1>1, <1>3, <2>1 DEF Submit, Heard
  <2>2. CASE tab BY <1>1, <1>3, <2>2 DEF Submit, Clicked, Heard
  <2> QED BY <2>1, <2>2
<1>5. OnlySubmissions'
  <2>1. CASE tab /\ app.check = "sends"
    <3>1. PICK sent, gone \in SUBSET {[n |-> 1, phase |-> 1], [n |-> 2, phase |-> 1]} :
            open' = open \cup sent /\ network' = network \cup Aborted(gone, 1)
      BY <1>1, <2>1, ClickedTyped DEF Submit
    <3>2. \A r \in sent \cup gone : r.n > 0 /\ r.phase = 1 /\ r \in Request BY DEF Request
    <3>3. gone \in SUBSET Request /\ 1 \in 0..2 BY <3>2
    <3>4. \A e \in Aborted(gone, 1) : \E r \in gone : e.n = r.n /\ e.phase = r.phase /\ e.status = 0 /\ e.end = 1
      BY <3>3, AbortedRequests
    <3> QED BY <1>1, <1>3, <2>1, <3>1, <3>2, <3>4 DEF OnlySubmissions
  <2>2. CASE ~(tab /\ app.check = "sends")
    <3>1. UNCHANGED <<open, network>> BY <2>2 DEF Submit, Clicked
    <3> QED BY <1>1, <1>3, <3>1 DEF OnlySubmissions
  <2> QED BY <2>1, <2>2
<1>6. page \in Document /\ page' \in Document /\ app \in Applications
  <2>1. CASE tab BY <1>1, <2>1, ClickedTyped DEF Submit, RequestInv, Shapes
  <2>2. CASE ~tab BY <2>2 DEF Submit, RequestInv, Shapes
  <2> QED BY <2>1, <2>2
<1>7. page'.loaded /\ TruthfulPage' /\ (tab => TellingPage')
  <2>1. CASE page' = page /\ (~tab \/ app.check \in {"silent", "sends"})
    <3>1. TruthfulPage' BY <1>1, <1>3, <2>1 DEF Evidence, TruthfulPage, Truthful
    <3>2. tab => TellingPage' BY <1>1, <2>1 DEF TellingPage
    <3> QED BY <1>3, <2>1, <3>1, <3>2
  <2>2. CASE tab /\ app.check = "native"
    <3>1. page' = [page EXCEPT !.invalid = TRUE] BY <2>2 DEF Submit, Clicked
    <3>2. /\ page'.loaded = page.loaded /\ page'.observed = page.observed /\ page'.invalid
          /\ page'.fieldError = page.fieldError /\ page'.message = page.message
          /\ page'.reset = page.reset /\ page'.moved = page.moved
      BY <1>6, <3>1 DEF Document
    <3>3. TruthfulPage' BY <1>1, <1>3, <2>2, <3>2 DEF Evidence, TruthfulPage, Truthful
    <3>4. TellingPage' BY <1>1, <2>2, <3>2 DEF TellingPage
    <3> QED BY <1>3, <3>2, <3>3, <3>4
  <2>3. CASE tab /\ app.check = "inline"
    <3>1. page' = [page EXCEPT !.fieldError = TRUE] BY <2>3 DEF Submit, Clicked
    <3>2. /\ page'.loaded = page.loaded /\ page'.invalid = page.invalid
          /\ page'.fieldError /\ page'.message = page.message
          /\ page'.reset = page.reset /\ page'.moved = page.moved
      BY <1>6, <3>1 DEF Document
    <3>3. TruthfulPage' BY <1>1, <1>3, <2>3, <3>2 DEF Evidence, TruthfulPage, Truthful
    <3>4. TellingPage' BY <1>1, <2>3, <3>2 DEF TellingPage
    <3> QED BY <1>3, <3>2, <3>3, <3>4
  <2>4. CASE tab /\ app.check = "local"
    <3>1. page' = Shown(page) BY <2>4 DEF Submit, Clicked
    <3>2. app.fate = "takes" /\ ~app.main /\ (app.tells \/ app.resets) BY <2>4 DEF Honest
    <3>3. /\ page'.loaded = page.loaded /\ page'.invalid = page.invalid /\ ~page'.fieldError
          /\ page'.message = IF app.tells THEN "success" ELSE page.message
          /\ page'.reset = app.resets
      BY <1>6, <3>1, <3>2 DEF Document, Shown, Applications
    <3>4. TruthfulPage' BY <1>1, <1>3, <2>4, <3>2, <3>3 DEF Evidence, TruthfulPage, Truthful
    <3>5. TellingPage' BY <1>1, <2>4, <3>2, <3>3 DEF TellingPage
    <3> QED BY <1>3, <3>3, <3>4, <3>5
  <2>5. app.check \in {"native", "inline", "silent", "local", "sends"} BY <1>6 DEF Applications
  <2>6. ~tab \/ app.check \in {"silent", "sends"} => page' = page BY DEF Submit, Clicked
  <2> QED BY <2>1, <2>2, <2>3, <2>4, <2>5, <2>6
<1>8. TruthfulView(reply)' BY <1>1, <1>3 DEF Evidence, TruthfulView, Truthful
<1>9. TruthfulView(last)'
  <2>1. last' = Nothing BY <1>1
  <2> QED BY <2>1 DEF TruthfulView, Truthful, Nothing
<1>10. ~(answered' > 0) BY <1>1, <1>3
<1>11. ~(left' < MaxPolls) BY <1>1, CaseRunAssumption
<1> QED BY <1>1, <1>2, <1>5, <1>7, <1>8, <1>9, <1>10, <1>11 DEF Evidence

\* A view is as truthful and as telling as the page it was taken of.
LEMMA ViewOfPage ==
    ASSUME RequestInv, Honest(app), Evidence
    PROVE  TruthfulView(View) /\ (TellingPage => Telling(View))
<1>1. page \in Document /\ app \in Applications BY DEF RequestInv, Shapes
<1>2. /\ View.invalid = (page.observed /\ page.invalid)
      /\ View.fieldError = (page.fieldError \/ (page.reset /\ app.strict))
      /\ View.error = (page.message = "error" \/ (app.banner /\ ~page.observed))
      /\ View.success = (page.message = "success")
      /\ View.reset = page.reset /\ View.moved = page.moved
  BY DEF View
<1>3. ~app.banner /\ (app.check = "local" => ~(app.resets /\ app.strict)) BY DEF Honest
<1>4. TruthfulView(View) BY <1>1, <1>2, <1>3 DEF Evidence, TruthfulPage, TruthfulView, Truthful, Document, Applications
<1>5. TellingPage => Telling(View) BY <1>1, <1>2 DEF TellingPage, Telling, Document
<1> QED BY <1>4, <1>5

LEMMA ConcludedEvidence ==
    ASSUME RequestInv, case.kind = "plain", Honest(app), Evidence, NEW v, Concluded(v),
           TruthfulView(v), ~tab \/ Telling(v), last' = v
    PROVE  Evidence' /\ VerdictIsRight'
<1>1. UNCHANGED <<case, safe, reply, phase, browserVars>> /\ v \in Views /\ Conclude(v) BY DEF Concluded
<1>2. UNCHANGED <<case, app, tab, network, phase>> BY <1>1 DEF browserVars
<1>3. OnlySubmissions BY DEF Evidence
<1>4. VerdictIsRight' BY <1>1, <1>2, <1>3, JudgedRightly
<1>5. pc' = "done" BY <1>1 DEF Conclude, Finish
<1>6. Heard' <=> Heard BY <1>1 DEF Heard, browserVars
<1>7. TruthfulView(last)' BY <1>2, <1>6 DEF TruthfulView, Truthful
<1>8. TruthfulView(reply)' BY <1>1, <1>2, <1>6 DEF Evidence, TruthfulView, Truthful
<1>9. TruthfulPage' BY <1>1, <1>6 DEF Evidence, TruthfulPage, Truthful, browserVars
<1>10. OnlySubmissions' BY <1>1, <1>3 DEF OnlySubmissions, browserVars
<1>11. phase' = 1 /\ tab' => TellingPage' BY <1>1 DEF Evidence, TellingPage, browserVars
<1>12. answered' > 0 \/ ~page'.loaded => app'.check = "sends" /\ Heard' BY <1>1, <1>6 DEF Evidence, browserVars
<1> QED BY <1>4, <1>5, <1>7, <1>8, <1>9, <1>10, <1>11, <1>12 DEF Evidence

LEMMA PollingEvidence ==
    ASSUME RequestInv, case.kind = "plain", Honest(app), Evidence, Poll \/ Answer \/ TimeUp
    PROVE  Evidence' /\ VerdictIsRight'
<1>0. phase = 1 BY DEF RequestInv, Phases, Poll, Answer, TimeUp
<1>1. ASSUME UNCHANGED browserVars, UNCHANGED phase
      PROVE  /\ OnlySubmissions' /\ TruthfulPage' /\ (phase' = 1 /\ tab' => TellingPage') /\ (Heard' <=> Heard)
             /\ answered' > 0 \/ ~page'.loaded => app'.check = "sends" /\ Heard'
  <2>1. Heard' <=> Heard BY <1>1 DEF Heard, browserVars
  <2>2. OnlySubmissions' BY <1>1 DEF Evidence, OnlySubmissions, browserVars
  <2>3. TruthfulPage' BY <1>1, <2>1 DEF Evidence, TruthfulPage, Truthful, browserVars
  <2>4. phase' = 1 /\ tab' => TellingPage' BY <1>1 DEF Evidence, TellingPage, browserVars
  <2>5. answered' > 0 \/ ~page'.loaded => app'.check = "sends" /\ Heard' BY <1>1, <2>1 DEF Evidence, browserVars
  <2> QED BY <2>1, <2>2, <2>3, <2>4, <2>5
<1>2. CASE Poll /\ tab /\ page.loaded
  <2>1. /\ reply' = View /\ pc = "poll" /\ pc' = "answer" /\ left' = left
        /\ UNCHANGED <<case, last, phase, browserVars>>
    BY <1>2 DEF Poll
  <2>2. VerdictIsRight' BY <2>1, NotJudged
  <2>3. TruthfulView(View) /\ Telling(View) BY <1>0, <1>2, ViewOfPage DEF Evidence
  <2>4. /\ OnlySubmissions' /\ TruthfulPage' /\ (phase' = 1 /\ tab' => TellingPage') /\ (Heard' <=> Heard)
        /\ answered' > 0 \/ ~page'.loaded => app'.check = "sends" /\ Heard'
    BY <1>1, <2>1
  <2>5. app' = app /\ tab' = tab BY <2>1 DEF browserVars
  <2>6. TruthfulView(reply)' /\ Telling(reply)'
    BY <2>1, <2>3, <2>4, <2>5 DEF TruthfulView, Truthful, Telling
  <2>7. TruthfulView(last)' BY <2>1, <2>4, <2>5 DEF Evidence, TruthfulView, Truthful
  <2>8. left' < MaxPolls => ~tab' \/ Telling(last)' BY <2>1, <2>5 DEF Evidence, Telling
  <2> QED BY <2>1, <2>2, <2>4, <2>6, <2>7, <2>8 DEF Evidence
<1>3. CASE Poll /\ ~(tab /\ page.loaded)
  <2>1. pc' = "poll" /\ UNCHANGED <<case, reply, last, phase, browserVars>>
    BY <1>3 DEF Poll
  <2>2. VerdictIsRight' BY <2>1, NotJudged
  <2>3. ~tab \/ app.check = "sends" BY <1>3 DEF Evidence
  <2>4. /\ OnlySubmissions' /\ TruthfulPage' /\ (phase' = 1 /\ tab' => TellingPage') /\ (Heard' <=> Heard)
        /\ answered' > 0 \/ ~page'.loaded => app'.check = "sends" /\ Heard'
    BY <1>1, <2>1
  <2>5. app' = app /\ tab' = tab BY <2>1 DEF browserVars
  <2>6. TruthfulView(reply)' BY <2>1, <2>4, <2>5 DEF Evidence, TruthfulView, Truthful
  <2>7. TruthfulView(last)' BY <2>1, <2>4, <2>5 DEF Evidence, TruthfulView, Truthful
  <2>8. ~tab' \/ Telling(last)' BY <2>3, <2>5 DEF Telling
  <2> QED BY <2>1, <2>2, <2>4, <2>6, <2>7, <2>8 DEF Evidence
<1>4. CASE Answer /\ pc' = "poll"
  <2>1. pc = "answer" /\ last' = reply /\ UNCHANGED <<case, reply, phase, browserVars>>
    BY <1>4 DEF Answer
  <2>2. VerdictIsRight' BY <1>4, NotJudged
  <2>4. /\ OnlySubmissions' /\ TruthfulPage' /\ (phase' = 1 /\ tab' => TellingPage') /\ (Heard' <=> Heard)
        /\ answered' > 0 \/ ~page'.loaded => app'.check = "sends" /\ Heard'
    BY <1>1, <2>1
  <2>5. app' = app /\ tab' = tab BY <2>1 DEF browserVars
  <2>6. TruthfulView(reply)' /\ TruthfulView(last)' BY <2>1, <2>4, <2>5 DEF Evidence, TruthfulView, Truthful
  <2>7. Telling(last)' BY <2>1, <2>5 DEF Evidence, Telling
  <2> QED BY <1>4, <2>1, <2>2, <2>4, <2>6, <2>7 DEF Evidence
<1>5. CASE Answer /\ pc' # "poll"
  <2>1. Concluded(reply) /\ last' = reply BY <1>5 DEF Answer, Concluded, RequestInv, Shapes
  <2>2. TruthfulView(reply) /\ Telling(reply) BY <1>5 DEF Answer, Evidence
  <2> QED BY <2>1, <2>2, ConcludedEvidence
<1>6. CASE TimeUp
  <2>1. Concluded(last) /\ last' = last BY <1>6 DEF TimeUp, Concluded, RequestInv, Shapes
  <2>2. left < MaxPolls BY <1>6, CaseRunAssumption DEF TimeUp
  <2>3. TruthfulView(last) /\ (~tab \/ Telling(last)) BY <1>6, <2>2 DEF TimeUp, Evidence
  <2> QED BY <2>1, <2>3, ConcludedEvidence
<1> QED BY <1>2, <1>3, <1>4, <1>5, <1>6

\* A page that shows an answer, p being the page before.
LEMMA ShownIsTruthful ==
    ASSUME RequestInv, Honest(app), app.check = "sends", Heard, NEW p, p \in {page, Fresh}, TruthfulPage,
           page' = Shown(p), app' = app, Heard'
    PROVE  TruthfulPage'
<1>1. app \in Applications /\ page \in Document /\ Fresh \in Document BY DocumentsTyped DEF RequestInv, Shapes
<1>2. p \in Document BY <1>1
<1>3. /\ page'.invalid = p.invalid
      /\ page'.message = IF ~app.tells THEN p.message ELSE IF app.fate = "takes" THEN "success" ELSE "error"
      /\ page'.reset = (~app.main /\ app.resets /\ app.fate = "takes")
  BY <1>1, <1>2 DEF Shown, Document, Applications
<1>4. /\ ~p.invalid
      /\ p.message = "error" => app.fate # "takes" /\ app.tells
      /\ p.message = "success" => app.fate = "takes"
  <2>1. CASE p = Fresh BY <2>1 DEF Fresh
  <2>2. CASE p = page BY <2>2 DEF TruthfulPage, Truthful
  <2> QED BY <2>1, <2>2
<1> QED BY <1>3, <1>4 DEF TruthfulPage, Truthful

LEMMA HappensEvidence ==
    ASSUME RequestInv, case.kind = "plain", Honest(app), Evidence, Happens
    PROVE  Evidence' /\ VerdictIsRight'
<1>1. UNCHANGED <<app, executorVars>> /\ pc \notin Ends /\ pc' = pc
  BY DEF Happens, Respond, Show, Loaded, Stir, TabCloses, executorVars
<1>2. VerdictIsRight' BY <1>1, NotJudged DEF Ends
<1>3. UNCHANGED <<case, pc, left, reply, last, phase, app>> BY <1>1 DEF executorVars
<1>4. ASSUME Heard => Heard', tab' => tab
      PROVE  /\ TruthfulView(reply)' /\ TruthfulView(last)'
             /\ pc' = "answer" => Telling(reply)'
             /\ pc' \in {"poll", "answer"} /\ left' < MaxPolls => ~tab' \/ Telling(last)'
  <2>1. TruthfulView(reply)' /\ TruthfulView(last)' BY <1>3, <1>4 DEF Evidence, TruthfulView, Truthful
  <2>2. Telling(reply)' <=> Telling(reply) BY <1>3 DEF Telling
  <2>3. Telling(last)' <=> Telling(last) BY <1>3 DEF Telling
  <2> QED BY <1>3, <1>4, <2>1, <2>2, <2>3 DEF Evidence
<1>5. pc = "act" => ~Heard
  <2>1. pc = "act" => phase = 0 BY DEF RequestInv, Phases
  <2>2. phase = 0 => \A e \in network : e.n = 0 BY DEF RequestInv, Sources
  <2> QED BY <2>1, <2>2 DEF Heard, Evidence, OnlySubmissions
<1>6. CASE Respond
  <2>1. PICK r \in open :
          /\ open' = open \ {r}
          /\ network' = network \cup {[n |-> r.n, phase |-> r.phase, end |-> phase,
                                       status |-> IF r.n = 0 THEN 200 ELSE app.status]}
    BY <1>6 DEF Respond
  <2>2. r.n > 0 /\ r.phase >= 1 /\ app.check = "sends" BY <2>1 DEF Evidence, OnlySubmissions
  <2> DEFINE e0 == [n |-> r.n, phase |-> r.phase, end |-> phase, status |-> IF r.n = 0 THEN 200 ELSE app.status]
  <2>3. r.n \in Nat BY DEF RequestInv, Shapes, Request
  <2>4. e0.n = r.n /\ e0.phase = r.phase /\ e0.status = app.status BY <2>2, <2>3
  <2> HIDE DEF e0
  <2>5. network' = network \cup {e0} BY <2>1 DEF e0
  <2>6. Heard' BY <1>3, <2>2, <2>4, <2>5 DEF Heard
  <2>7. OnlySubmissions' BY <1>3, <2>1, <2>2, <2>4, <2>5 DEF Evidence, OnlySubmissions
  <2>8. page' \in {page, [page EXCEPT !.loaded = FALSE]} /\ tab' = tab BY <1>6 DEF Respond
  <2>9. page \in Document BY DEF RequestInv, Shapes
  <2>10. /\ page'.observed = page.observed /\ page'.invalid = page.invalid /\ page'.fieldError = page.fieldError
         /\ page'.message = page.message /\ page'.reset = page.reset /\ page'.moved = page.moved
    BY <2>8, <2>9 DEF Document
  <2>11. TruthfulPage' BY <1>3, <2>6, <2>10 DEF Evidence, TruthfulPage, Truthful
  <2>12. phase' = 1 /\ tab' => TellingPage' BY <1>3, <2>2 DEF TellingPage
  <2>13. pc' = "act" => page'.observed BY <1>3, <2>10 DEF Evidence
  <2> QED BY <1>2, <1>3, <1>4, <2>2, <2>6, <2>7, <2>8, <2>11, <2>12, <2>13 DEF Evidence
<1>7. CASE Show \/ Loaded
  <2>1. app.check = "sends" /\ Heard BY <1>7 DEF Show, Loaded, Evidence
  <2>2. UNCHANGED <<app, tab, open, network>> BY <1>7 DEF Show, Loaded
  <2>3. Heard' BY <2>1, <2>2 DEF Heard
  <2>4. PICK p \in {page, Fresh} : page' = Shown(p) BY <1>7 DEF Show, Loaded
  <2>5. TruthfulPage' BY <2>1, <2>2, <2>3, <2>4, ShownIsTruthful DEF Evidence
  <2>6. OnlySubmissions' BY <2>2 DEF Evidence, OnlySubmissions
  <2>7. phase' = 1 /\ tab' => TellingPage' BY <2>1, <2>2 DEF TellingPage
  <2>8. pc' # "act" BY <1>3, <1>5, <2>1
  <2> QED BY <1>2, <1>4, <2>1, <2>2, <2>3, <2>5, <2>6, <2>7, <2>8 DEF Evidence
<1>8. CASE Stir
  <2>1. UNCHANGED <<app, tab, page, open, answered, network>> BY <1>8 DEF Stir
  <2>2. Heard' <=> Heard BY <2>1 DEF Heard
  <2>3. TruthfulPage' BY <2>1, <2>2 DEF Evidence, TruthfulPage, Truthful
  <2>4. OnlySubmissions' BY <2>1 DEF Evidence, OnlySubmissions
  <2>5. phase' = 1 /\ tab' => TellingPage' BY <1>3, <2>1 DEF Evidence, TellingPage
  <2> QED BY <1>2, <1>3, <1>4, <2>1, <2>2, <2>3, <2>4, <2>5 DEF Evidence
<1>9. CASE TabCloses
  <2>1. /\ ~tab' /\ open' = {} /\ network' = network \cup Aborted(open, phase)
        /\ UNCHANGED <<app, page, answered>>
    BY <1>9 DEF TabCloses
  <2>2. open \in SUBSET Request /\ phase \in 0..2 BY DEF RequestInv, Shapes
  <2>3. \A e \in Aborted(open, phase) : \E r \in open : e.n = r.n /\ e.phase = r.phase /\ e.status = 0 /\ e.end = phase
    BY <2>2, AbortedRequests
  <2>4. Heard => Heard' BY <2>1 DEF Heard
  <2>5. open = {} => Aborted(open, phase) = {} BY DEF Aborted
  <2>6. OnlySubmissions' BY <2>1, <2>3, <2>5 DEF Evidence, OnlySubmissions
  <2>7. TruthfulPage' BY <2>1, <2>4 DEF Evidence, TruthfulPage, Truthful
  <2> QED BY <1>2, <1>3, <1>4, <2>1, <2>4, <2>6, <2>7 DEF Evidence
<1> QED BY <1>6, <1>7, <1>8, <1>9 DEF Happens

LEMMA VerdictInvInit == Init => VerdictInv
<1> SUFFICES ASSUME Init PROVE VerdictInv OBVIOUS
<1>1. OnlySubmissions BY DEF Init, OnlySubmissions
<1>2. TruthfulPage BY DEF Init, Fresh, TruthfulPage, Truthful
<1>3. TruthfulView(reply) /\ TruthfulView(last) BY DEF Init, Nothing, TruthfulView, Truthful
<1>4. page.loaded BY DEF Init, Fresh
<1> QED BY <1>1, <1>2, <1>3, <1>4 DEF Init, VerdictInv, Evidence, VerdictIsRight

LEMMA VerdictInvStep == RequestInv /\ VerdictInv /\ [Next]_vars => VerdictInv'
<1> SUFFICES ASSUME RequestInv, VerdictInv, [Next]_vars PROVE VerdictInv' OBVIOUS
<1>1. CASE UNCHANGED vars
  <2>1. Heard' <=> Heard BY <1>1 DEF Heard, vars, browserVars
  <2>2. VerdictIsRight' <=> VerdictIsRight
    BY <1>1 DEF VerdictIsRight, Submitted, Takes, vars, executorVars, browserVars
  <2>3. OnlySubmissions' <=> OnlySubmissions BY <1>1 DEF OnlySubmissions, vars, browserVars
  <2>4. TruthfulPage' <=> TruthfulPage BY <1>1, <2>1 DEF TruthfulPage, Truthful, vars, browserVars
  <2>5. (TruthfulView(reply)' <=> TruthfulView(reply)) /\ (TruthfulView(last)' <=> TruthfulView(last))
    BY <1>1, <2>1 DEF TruthfulView, Truthful, vars, executorVars, browserVars
  <2>6. /\ (Telling(reply)' <=> Telling(reply)) /\ (Telling(last)' <=> Telling(last))
        /\ (TellingPage' <=> TellingPage)
    BY <1>1 DEF Telling, TellingPage, vars, executorVars, browserVars
  <2>7. UNCHANGED <<case, app, answered, page, pc, phase, tab, left>> BY <1>1 DEF vars, executorVars, browserVars
  <2>8. Honest(app)' <=> Honest(app) BY <2>7 DEF Honest, Codes
  <2> QED BY <2>1, <2>2, <2>3, <2>4, <2>5, <2>6, <2>7, <2>8 DEF VerdictInv, Evidence
<1>2. CASE Next
  <2>1. UNCHANGED <<case, app>>
    BY <1>2 DEF Next, Execute, Load, Reveal, Fill, Submit, Reload, Poll, Answer, TimeUp, Back, Happens,
                Respond, Show, Loaded, Stir, TabCloses, executorVars, browserVars
  <2>2. SUFFICES ASSUME case.kind = "plain", Honest(app) PROVE Evidence' /\ VerdictIsRight'
    BY <2>1 DEF VerdictInv, Honest, Codes
  <2>3. Evidence BY <2>2 DEF VerdictInv
  <2>4. ~Reload /\ ~Back BY <2>2 DEF Reload, Back, RequestInv, Phases
  <2>5. CASE Execute
    BY <2>2, <2>3, <2>4, <2>5, PreparationEvidence, SubmitEvidence, PollingEvidence DEF Execute
  <2>6. CASE Happens BY <2>2, <2>3, <2>6, HappensEvidence
  <2> QED BY <1>2, <2>5, <2>6 DEF Next
<1> QED BY <1>1, <1>2

\* A case passes only when the application did what the case expects, is unexpected only when it
\* did not, and is inconclusive only when there was nothing to see: of every honest application,
\* for any number of polls and whatever happens between two of them.
THEOREM VerdictsAreRight == Spec => [](Honest(app) => VerdictIsRight)
<1>1. VerdictInv => (Honest(app) => VerdictIsRight)
  BY DEF VerdictInv, VerdictIsRight, Submitted
<1> QED BY <1>1, RequestInvInit, RequestInvStep, VerdictInvInit, VerdictInvStep, PTL DEF Spec

-----------------------------------------------------------------------------
(* Filling in: FormFill. *)

\* A document has a state for each field, and "nobody keeps the defaults in step with the values".
HasFields(d) ==
    /\ {"held", "default", "fired", "by"} \subseteq DOMAIN d
    /\ DOMAIN d.held = Fields /\ DOMAIN d.by = Fields /\ DOMAIN d.default = Fields
NoneSyncs == \A f \in Fields : form.fields[f].does # "syncs"

\* What the events of one field, f, may do to the document: of another field they change nothing without
\* leaving a trace.
Touches(e, d, f) ==
    /\ HasFields(e) /\ (NoneSyncs => e.default = d.default)
    /\ \A g \in Fields \ {f} : (e.held[g] = d.held[g] /\ e.by[g] = d.by[g]) \/ e.by[g] = "other"

LEMMA TouchesNothing == ASSUME NEW d, NEW f, HasFields(d) PROVE Touches(d, d, f)
BY DEF Touches

LEMMA TouchesTwice ==
  ASSUME NEW d, NEW e, NEW x, NEW f, Touches(e, d, f), Touches(x, e, f)
  PROVE  Touches(x, d, f)
<1>1. HasFields(x) /\ (NoneSyncs => x.default = d.default)
  BY DEF Touches
<1>2. ASSUME NEW g \in Fields \ {f} PROVE (x.held[g] = d.held[g] /\ x.by[g] = d.by[g]) \/ x.by[g] = "other"
  BY DEF Touches
<1> QED BY <1>1, <1>2 DEF Touches

LEMMA SetTouches ==
  ASSUME NEW d, NEW f \in Fields, NEW val, HasFields(d)
  PROVE  Touches(Set(d, f, val), d, f)
<1>1. PICK e : e = Set(d, f, val)
  OBVIOUS
<1>2. /\ DOMAIN e = DOMAIN d /\ e.held = [d.held EXCEPT ![f] = val] /\ e.by = [d.by EXCEPT ![f] = "alt"]
      /\ e.default = d.default
  BY <1>1 DEF Set, HasFields
<1> QED BY <1>1, <1>2 DEF Touches, HasFields

LEMMA FireTouches ==
  ASSUME form \in FillForms, NEW d, NEW f \in Fields, NEW event, HasFields(d)
  PROVE  Touches(Fire(d, f, event), d, f)
<1>1. PICK c, e : c = form.fields[f] /\ c.does \in Deeds /\ e = Fire(d, f, event)
  BY FormFillAssumption DEF Fields
<1>2. CASE c.on # event \/ c.does \in {"nothing", "cancels"}
  <2>1. e = d
    BY <1>1, <1>2 DEF Fire
  <2> QED BY <1>1, <2>1, TouchesNothing
<1>3. CASE c.on = event /\ c.does = "rewrites"
  <2>1. e = [d EXCEPT !.held[f] = "7", !.by[f] = "own"]
    BY <1>1, <1>3 DEF Fire
  <2>2. /\ DOMAIN e = DOMAIN d /\ e.held = [d.held EXCEPT ![f] = "7"] /\ e.by = [d.by EXCEPT ![f] = "own"]
        /\ e.default = d.default
    BY <2>1 DEF HasFields
  <2> QED BY <1>1, <2>2 DEF Touches, HasFields
<1>4. CASE c.on = event /\ c.does = "reverts"
  <2>1. PICK h : e = [d EXCEPT !.held[f] = h, !.by[f] = "own"]
    BY <1>1, <1>4 DEF Fire
  <2>2. /\ DOMAIN e = DOMAIN d /\ e.held = [d.held EXCEPT ![f] = h] /\ e.by = [d.by EXCEPT ![f] = "own"]
        /\ e.default = d.default
    BY <2>1 DEF HasFields
  <2> QED BY <1>1, <2>2 DEF Touches, HasFields
<1>5. CASE c.on = event /\ c.does = "fills"
  <2>1. PICK to : e = [d EXCEPT !.held[to] = "7", !.by[to] = "other"]
    BY <1>1, <1>5 DEF Fire
  <2>2. /\ DOMAIN e = DOMAIN d /\ e.held = [d.held EXCEPT ![to] = "7"] /\ e.by = [d.by EXCEPT ![to] = "other"]
        /\ e.default = d.default
    BY <2>1 DEF HasFields
  <2> QED BY <1>1, <2>2 DEF Touches, HasFields
<1>6. CASE c.on = event /\ c.does = "syncs"
  <2>1. PICK h : e = [d EXCEPT !.default[f] = h]
    BY <1>1, <1>6 DEF Fire
  <2>2. /\ DOMAIN e = DOMAIN d /\ e.held = d.held /\ e.by = d.by
        /\ e.default = [d.default EXCEPT ![f] = h]
    BY <2>1 DEF HasFields
  <2>3. ~NoneSyncs
    BY <1>1, <1>6 DEF NoneSyncs
  <2> QED BY <1>1, <2>2, <2>3 DEF Touches, HasFields
<1>7. CASE c.on = event /\ c.does = "asks"
  <2>1. PICK h : e = [d EXCEPT !.fired = h]
    BY <1>1, <1>7 DEF Fire
  <2>2. DOMAIN e = DOMAIN d /\ e.held = d.held /\ e.by = d.by /\ e.default = d.default
    BY <2>1 DEF HasFields
  <2> QED BY <1>1, <2>2 DEF Touches, HasFields
<1> QED BY <1>1, <1>2, <1>3, <1>4, <1>5, <1>6, <1>7 DEF Deeds

LEMMA ChangedTouches ==
  ASSUME form \in FillForms, NEW d, NEW f \in Fields, HasFields(d)
  PROVE  Touches(Changed(d, f), d, f)
<1>1. PICK e : e = Fire(d, f, "input") /\ Touches(e, d, f) /\ HasFields(e)
  BY FireTouches DEF Touches
<1>2. Touches(Fire(e, f, "change"), e, f)
  BY <1>1, FireTouches
<1> QED BY <1>1, <1>2, TouchesTwice DEF Changed

LEMMA SetAndChangedTouch ==
  ASSUME form \in FillForms, NEW d, NEW f \in Fields, NEW val, HasFields(d)
  PROVE  Touches(Changed(Set(d, f, val), f), d, f)
<1>1. PICK e : e = Set(d, f, val) /\ Touches(e, d, f) /\ HasFields(e)
  BY SetTouches DEF Touches
<1>2. Touches(Changed(e, f), e, f)
  BY <1>1, ChangedTouches
<1> QED BY <1>1, <1>2, TouchesTwice

LEMMA CheckTouches ==
  ASSUME form \in FillForms, NEW d, NEW f \in Fields, NEW val, HasFields(d)
  PROVE  Touches(Check(d, f, val), d, f)
<1>1. Touches(Click(d, f, val), d, f)
  <2>1. PICK e : e = Set(d, f, val) /\ Touches(e, d, f) /\ HasFields(e)
    BY SetTouches DEF Touches
  <2>2. PICK x : x = Fire(e, f, "click") /\ Touches(x, e, f) /\ HasFields(x)
    BY <2>1, FireTouches DEF Touches
  <2>3. Touches(Changed(x, f), x, f)
    BY <2>2, ChangedTouches
  <2>4. Touches(Changed(x, f), d, f)
    BY <2>1, <2>2, <2>3, TouchesTwice
  <2>5. Click(d, f, val) \in {d, Changed(x, f)}
    BY <2>1, <2>2 DEF Click
  <2> QED BY <2>4, <2>5, TouchesNothing
<1>2. PICK c : c = (IF d.held[f] = val THEN d ELSE Click(d, f, val)) /\ Touches(c, d, f) /\ HasFields(c)
  BY <1>1, TouchesNothing DEF Touches
<1>3. Touches(Changed(Set(c, f, val), f), d, f)
  BY <1>2, SetAndChangedTouch, TouchesTwice
<1>4. Check(d, f, val) \in {c, Changed(Set(c, f, val), f)}
  BY <1>2 DEF Check
<1> QED BY <1>2, <1>3, <1>4

\* Focus, what is done, and blur.
LEMMA FillsTouch ==
  ASSUME form \in FillForms, NEW d, NEW f \in Fields, NEW v, HasFields(d)
  PROVE  Touches(FillRadio(d, f, v), d, f) /\ Touches(FillCheckbox(d, f, v), d, f) /\ Touches(FillValue(d, f, v), d, f)
<1>1. PICK e : e = Fire(d, f, "focus") /\ Touches(e, d, f) /\ HasFields(e)
  BY FireTouches DEF Touches
<1>2. ASSUME NEW x, Touches(x, e, f) PROVE Touches(Fire(x, f, "blur"), d, f)
  <2>1. Touches(x, d, f) /\ HasFields(x)
    BY <1>1, <1>2, TouchesTwice DEF Touches
  <2>2. Touches(Fire(x, f, "blur"), x, f)
    BY <2>1, FireTouches
  <2> QED BY <2>1, <2>2, TouchesTwice
<1>3. \A val : Touches(Check(e, f, val), e, f) /\ Touches(Changed(Set(e, f, val), f), e, f)
  BY <1>1, CheckTouches, SetAndChangedTouch
<1>4. FillRadio(d, f, v) = d \/ \E val : FillRadio(d, f, v) = Fire(Check(e, f, val), f, "blur")
  BY <1>1 DEF FillRadio
<1>5. \E val : FillCheckbox(d, f, v) = Fire(Check(e, f, val), f, "blur")
  BY <1>1 DEF FillCheckbox
<1>6. \E val : FillValue(d, f, v) = Fire(Changed(Set(e, f, val), f), f, "blur")
  BY <1>1 DEF FillValue
<1> QED BY <1>2, <1>3, <1>4, <1>5, <1>6, TouchesNothing

\* What a field's own report says, when it has been left.
RadioByValue(f, v) == Kind(f) = "radio" /\ Option(f, v) # 0 => Options(f)[Option(f, v)].value = v

LEMMA FillOneTells ==
  ASSUME form \in FillForms, NEW d, NEW f \in Fields, NEW v, HasFields(d), NEW one, one = FillOne(d, f, v)
  PROVE  /\ Touches(one.doc, d, f) /\ one.report.field = f
         /\ RadioByValue(f, v) /\ one.report.ok => (one.report.sanitized <=> ~Meant(f, v, ReadValue(f, one.doc.held[f])))
         /\ one.report.sanitized \in BOOLEAN
<1> DEFINE Good == /\ Touches(one.doc, d, f) /\ one.report.field = f
                   /\ RadioByValue(f, v) /\ one.report.ok => (one.report.sanitized <=> ~Meant(f, v, ReadValue(f, one.doc.held[f])))
                   /\ one.report.sanitized \in BOOLEAN
<1>0. Kind(f) \in Kinds /\ form.fields[f].off \in BOOLEAN
  BY FormFillAssumption DEF Kind, Fields
<1>1. ASSUME NEW e, NEW applied, NEW sanitized \in BOOLEAN, one = Report(e, f, applied, sanitized, TRUE), Touches(e, d, f)
      PROVE  Good
  <2>1. one.doc = e /\ one.report.field = f /\ one.report.sanitized = sanitized
    BY <1>1 DEF Report
  <2>2. PICK r : r = one.report
    OBVIOUS
  <2>3. r = [field |-> f, applied |-> applied, sanitized |-> sanitized, ok |-> ~TRUE]
    BY <1>1, <2>2 DEF Report
  <2>4. ~r.ok
    BY ONLY <2>3
  <2> QED BY <1>1, <2>1, <2>2, <2>4
<1>2. ASSUME NEW e, NEW wanted, one = Report(e, f, ReadValue(f, e.held[f]), ReadValue(f, e.held[f]) # wanted, FALSE),
             Touches(e, d, f), RadioByValue(f, v) => (Meant(f, v, ReadValue(f, e.held[f])) <=> ReadValue(f, e.held[f]) = wanted)
      PROVE  Good
  <2>1. PICK got : got = ReadValue(f, e.held[f])
    OBVIOUS
  <2>2. one.doc = e /\ one.report.field = f /\ one.report.sanitized = (got # wanted)
    BY <1>2, <2>1 DEF Report
  <2> QED BY <1>2, <2>1, <2>2
<1>3. Touches(d, d, f)
  BY TouchesNothing
<1>4. CASE Kind(f) \in {"missing", "other"}
  <2>1. one = Report(d, f, "", FALSE, TRUE)
    BY <1>4 DEF FillOne
  <2> QED BY <1>1, <1>3, <2>1
<1>5. CASE Kind(f) = "radio"
  <2>1. CASE Option(f, v) = 0
    <3>1. one = Report(d, f, ReadValue(f, d.held[f]), TRUE, TRUE)
      BY <1>5, <2>1 DEF FillOne
    <3> QED BY <1>1, <1>3, <3>1
  <2>2. CASE Option(f, v) # 0
    <3>1. PICK e : e = FillRadio(d, f, v) /\ Touches(e, d, f)
      BY FillsTouch
    <3>2. one = Report(e, f, ReadValue(f, e.held[f]), ReadValue(f, e.held[f]) # v, FALSE)
      BY <1>5, <2>2, <3>1 DEF FillOne
    <3>3. RadioByValue(f, v) => (Meant(f, v, ReadValue(f, e.held[f])) <=> ReadValue(f, e.held[f]) = v)
      BY <1>5, <2>2 DEF Meant, RadioByValue, Chosen
    <3> QED BY <1>2, <3>1, <3>2, <3>3
  <2> QED BY <2>1, <2>2
<1>6. CASE Kind(f) \notin {"missing", "radio", "other"} /\ form.fields[f].off
  <2>1. one = Report(d, f, ReadValue(f, d.held[f]), TRUE, TRUE)
    BY <1>6 DEF FillOne
  <2> QED BY <1>1, <1>3, <2>1
<1>7. CASE Kind(f) = "file" /\ ~form.fields[f].off
  <2>1. one = Report(d, f, ReadValue(f, d.held[f]), TRUE, TRUE)
    BY <1>7 DEF FillOne
  <2> QED BY <1>1, <1>3, <2>1
<1>8. CASE Kind(f) = "checkbox" /\ ~form.fields[f].off
  <2>1. PICK e, wanted : e = FillCheckbox(d, f, v) /\ Touches(e, d, f) /\ wanted = (IF v = "true" THEN "true" ELSE "false")
    BY FillsTouch
  <2>2. one = Report(e, f, ReadValue(f, e.held[f]), ReadValue(f, e.held[f]) # wanted, FALSE)
    BY <1>8, <2>1 DEF FillOne
  <2>3. Meant(f, v, ReadValue(f, e.held[f])) <=> ReadValue(f, e.held[f]) = wanted
    BY <1>8, <2>1 DEF Meant, Chosen
  <2> QED BY <1>2, <2>1, <2>2, <2>3
<1>9. CASE Kind(f) = "select" /\ ~form.fields[f].off
  <2>1. PICK e : e = FillValue(d, f, v) /\ Touches(e, d, f)
    BY FillsTouch
  <2>2. CASE Option(f, v) = 0
    <3>1. one = Report(e, f, ReadValue(f, e.held[f]), TRUE, FALSE)
      BY <1>9, <2>1, <2>2 DEF FillOne
    <3>2. one.doc = e /\ one.report.field = f /\ one.report.sanitized = TRUE
      BY <3>1 DEF Report
    <3>3. ~Meant(f, v, ReadValue(f, e.held[f]))
      BY <1>9, <2>2 DEF Meant, Chosen
    <3> QED BY <2>1, <3>2, <3>3
  <2>3. CASE Option(f, v) # 0
    <3>1. PICK wanted : wanted = Options(f)[Option(f, v)].value
      OBVIOUS
    <3>2. one = Report(e, f, ReadValue(f, e.held[f]), ReadValue(f, e.held[f]) # wanted, FALSE)
      BY <1>9, <2>1, <2>3, <3>1 DEF FillOne
    <3>3. Meant(f, v, ReadValue(f, e.held[f])) <=> ReadValue(f, e.held[f]) = wanted
      BY <1>9, <2>3, <3>1 DEF Meant, Chosen
    <3> QED BY <1>2, <2>1, <3>2, <3>3
  <2> QED BY <2>2, <2>3
<1>10. CASE Kind(f) \in {"text", "number"} /\ ~form.fields[f].off
  <2>1. PICK e : e = FillValue(d, f, v) /\ Touches(e, d, f)
    BY FillsTouch
  <2>2. one = Report(e, f, ReadValue(f, e.held[f]), ReadValue(f, e.held[f]) # v, FALSE)
    BY <1>10, <2>1 DEF FillOne
  <2>3. Meant(f, v, ReadValue(f, e.held[f])) <=> ReadValue(f, e.held[f]) = v
    BY <1>10 DEF Meant, Chosen
  <2> QED BY <1>2, <2>1, <2>2, <2>3
<1> QED BY <1>0, <1>4, <1>5, <1>6, <1>7, <1>8, <1>9, <1>10 DEF Kinds

\* The form and the plan stay what they are, and so does what they mean.
LEMMA SameMeaning ==
  ASSUME form' = form, NEW f, NEW v, NEW got
  PROVE  Meant(f, v, got)' <=> Meant(f, v, got)
BY DEF Meant, Option, Options, Kind, Chosen, SelectInSeq

LEMMA SameReading ==
  ASSUME form' = form, NEW f, NEW val
  PROVE  ReadValue(f, val)' = ReadValue(f, val)
BY DEF ReadValue, Options, Kind, Chosen

FillTyped ==
    /\ form \in FillForms /\ DOMAIN plan \subseteq Fields /\ HasFields(doc) /\ todo \subseteq DOMAIN plan
    /\ step \in {"begin", "fill", "filling", "submit", "poll", "over"}

LEMMA FillTypedInit == FillInit => FillTyped
<1> SUFFICES ASSUME FillInit PROVE FillTyped
  OBVIOUS
<1>1. HasFields(doc)
  BY DEF FillInit, Blank, HasFields, Fields
<1> QED BY <1>1 DEF FillInit, FillTyped

LEMMA FillTypedStep == FillTyped /\ [FillNext]_fillVars => FillTyped' /\ form' = form /\ plan' = plan
<1> SUFFICES ASSUME FillTyped, [FillNext]_fillVars PROVE FillTyped' /\ form' = form /\ plan' = plan
  OBVIOUS
<1>1. form' = form /\ plan' = plan
  BY DEF FillNext, Begin, StartFill, FillField, Press, Tell, Flag, Resets, Vanish, Navigate, Passes, Acting, fillVars
<1>2. Fields' = Fields
  BY <1>1 DEF Fields
<1>3. HasFields(doc)'
  <2>0. ASSUME doc' = doc PROVE HasFields(doc)'
    BY <1>2, <2>0 DEF HasFields, FillTyped
  <2>1. ASSUME NEW fired, doc' = [doc EXCEPT !.fired = fired] PROVE HasFields(doc)'
    <3>1. DOMAIN doc' = DOMAIN doc /\ doc'.held = doc.held /\ doc'.by = doc.by /\ doc'.default = doc.default
      BY <2>1 DEF HasFields, FillTyped
    <3> QED BY <1>2, <3>1 DEF HasFields, FillTyped
  <2>2. CASE Begin
    BY <2>0, <2>1, <2>2 DEF Begin
  <2>3. CASE Press
    BY <2>0, <2>1, <2>3 DEF Press
  <2>4. CASE FillField
    <3>1. PICK f \in todo : doc' = FillOne(doc, f, plan[f]).doc
      BY <2>4 DEF FillField
    <3>2. f \in Fields
      BY <3>1 DEF FillTyped
    <3>3. HasFields(FillOne(doc, f, plan[f]).doc)
      BY <3>2, FillOneTells DEF FillTyped, Touches
    <3> QED BY <1>2, <3>1, <3>3 DEF HasFields
  <2>5. CASE Resets
    <3>1. /\ DOMAIN doc' = DOMAIN doc /\ DOMAIN doc'.held = Fields /\ DOMAIN doc'.by = Fields
          /\ doc'.default = doc.default
      BY <2>5 DEF Resets, HasFields, FillTyped
    <3> QED BY <1>2, <3>1 DEF HasFields, FillTyped
  <2>6. CASE Navigate
    BY <1>2, <2>6 DEF Navigate, Blank, HasFields, Fields
  <2>7. CASE StartFill \/ Tell \/ Flag \/ Vanish \/ Passes \/ UNCHANGED fillVars
    BY <2>0, <2>7 DEF StartFill, Tell, Flag, Vanish, Passes, fillVars
  <2> QED BY <2>2, <2>3, <2>4, <2>5, <2>6, <2>7 DEF FillNext
<1>4. todo' \subseteq DOMAIN plan
  BY DEF FillTyped, FillNext, Begin, StartFill, FillField, Press, Tell, Flag, Resets, Vanish, Navigate, Passes, Acting, fillVars
<1>5. step' \in {"begin", "fill", "filling", "submit", "poll", "over"}
  BY DEF FillTyped, FillNext, Begin, StartFill, FillField, Press, Tell, Flag, Resets, Vanish, Navigate, Passes, Acting, fillVars
<1> QED BY <1>1, <1>2, <1>3, <1>4, <1>5 DEF FillTyped

\* What is told of the fields that have been filled in, while the others still are.
ByValue == \A f \in DOMAIN plan : RadioByValue(f, plan[f])
TellsRight(d, told) ==
    told.ok /\ d.by[told.field] # "other" =>
        (told.sanitized <=> ~Meant(told.field, plan[told.field], ReadValue(told.field, d.held[told.field])))
FillTold ==
    /\ ByValue /\ \E S : reports \in Seq(S)
    /\ step \in {"begin", "fill"} => reports = <<>>
    /\ step = "filling" => \A i \in 1..Len(reports) :
           reports[i].field \in Fields \ todo /\ reports[i].sanitized \in BOOLEAN /\ TellsRight(doc, reports[i])

LEMMA FillFieldTells ==
  ASSUME FillTyped, FillTold, FillField
  PROVE  /\ \E S : reports' \in Seq(S)
         /\ \A i \in 1..Len(reports') :
              reports'[i].field \in Fields \ todo' /\ reports'[i].sanitized \in BOOLEAN /\ TellsRight(doc', reports'[i])
<1>1. PICK f, one : /\ f \in todo /\ one = FillOne(doc, f, plan[f]) /\ doc' = one.doc
                             /\ reports' = Append(reports, one.report) /\ todo' = todo \ {f}
  BY DEF FillField
<1>2. step = "filling" /\ f \in Fields /\ RadioByValue(f, plan[f]) /\ HasFields(doc) /\ form \in FillForms
  BY <1>1 DEF FillField, FillTyped, FillTold, ByValue
<1>3. /\ Touches(doc', doc, f) /\ one.report.field = f /\ one.report.sanitized \in BOOLEAN
      /\ one.report.ok => (one.report.sanitized <=> ~Meant(f, plan[f], ReadValue(f, doc'.held[f])))
  BY <1>1, <1>2, FillOneTells
<1>4. PICK S : reports \in Seq(S)
  BY DEF FillTold
<1>5. PICK U : U = S \cup {one.report}
  OBVIOUS
<1>6. reports \in Seq(U) /\ one.report \in U
  BY <1>4, <1>5
<1>7. /\ reports' \in Seq(U) /\ Len(reports') = Len(reports) + 1 /\ Len(reports) \in Nat
      /\ reports'[Len(reports) + 1] = one.report
      /\ \A i \in 1..Len(reports) : reports'[i] = reports[i]
  BY <1>1, <1>6, AppendProperties
<1>8. ASSUME NEW i \in 1..Len(reports)
      PROVE  /\ reports'[i].field \in Fields \ todo' /\ reports'[i].sanitized \in BOOLEAN
             /\ TellsRight(doc', reports'[i])
  <2>1. PICK told : told = reports[i] /\ told = reports'[i]
    BY <1>7
  <2>2. told.field \in Fields \ todo /\ told.sanitized \in BOOLEAN /\ TellsRight(doc, told)
    BY <1>2, <2>1 DEF FillTold
  <2>3. told.field \in Fields \ {f}
    BY <1>1, <2>2
  <2>4. \/ doc'.held[told.field] = doc.held[told.field] /\ doc'.by[told.field] = doc.by[told.field]
        \/ doc'.by[told.field] = "other"
    BY <1>3, <2>3 DEF Touches
  <2>5. TellsRight(doc', told)
    BY <2>2, <2>4 DEF TellsRight
  <2> QED BY <1>1, <2>1, <2>2, <2>3, <2>5
<1>9. one.report.field \in Fields \ todo' /\ one.report.sanitized \in BOOLEAN /\ TellsRight(doc', one.report)
  BY <1>1, <1>2, <1>3 DEF TellsRight
<1>10. ASSUME NEW i \in 1..Len(reports') PROVE i \in 1..Len(reports) \/ i = Len(reports) + 1
  BY <1>7
<1> QED BY <1>7, <1>8, <1>9, <1>10

LEMMA FillToldStep == FillTyped /\ FillTold /\ [FillNext]_fillVars => FillTold'
<1> SUFFICES ASSUME FillTyped, FillTold, [FillNext]_fillVars PROVE FillTold'
  OBVIOUS
<1>1. form' = form /\ plan' = plan
  BY FillTypedStep
<1>2. ByValue'
  <2>1. ASSUME NEW f, NEW v PROVE RadioByValue(f, v)' <=> RadioByValue(f, v)
    BY <1>1 DEF RadioByValue, Option, Options, Kind, SelectInSeq
  <2> QED BY <1>1, <2>1 DEF FillTold, ByValue
<1>3. ASSUME NEW d, NEW told PROVE TellsRight(d, told)' <=> TellsRight(d, told)
  BY <1>1, SameMeaning, SameReading DEF TellsRight
<1>4. CASE FillField
  <2>1. step = "filling" /\ step' \in {"filling", "submit"}
    BY <1>4 DEF FillField
  <2>2. Fields' = Fields
    BY <1>1 DEF Fields
  <2>3. ASSUME NEW i \in 1..Len(reports')
        PROVE (reports[i].field \in Fields \ todo /\ reports[i].sanitized \in BOOLEAN /\ TellsRight(doc, reports[i]))'
    BY <1>1, <1>4, <2>2, FillFieldTells, SameMeaning, SameReading DEF TellsRight
  <2> QED BY <1>2, <1>4, <2>1, <2>3, FillFieldTells DEF FillTold
<1>5. CASE ~FillField
  <2>1. reports' = reports
    BY <1>5 DEF FillNext, Begin, StartFill, Press, Tell, Flag, Resets, Vanish, Navigate, Passes, Acting, fillVars
  <2>2. step' \in {"begin", "fill"} => step \in {"begin", "fill"}
    BY <1>5 DEF FillNext, Begin, StartFill, Press, Tell, Flag, Resets, Vanish, Navigate, Passes, Acting, fillVars
  <2>3. step' = "filling" => reports = <<>> \/ (step = "filling" /\ UNCHANGED fillVars)
    BY <1>5 DEF FillNext, Begin, StartFill, Press, Tell, Flag, Resets, Vanish, Navigate, Passes, Acting, fillVars, FillTold
  <2>4. CASE UNCHANGED fillVars
    BY <1>1, <1>2, <2>4, SameMeaning, SameReading DEF FillTold, TellsRight, Fields, fillVars
  <2>5. CASE step' = "filling" => reports = <<>>
    BY <1>2, <2>1, <2>2, <2>5, EmptySeq DEF FillTold
  <2> QED BY <2>3, <2>4, <2>5
<1> QED BY <1>4, <1>5

\* After each field that fillForm() fills in, all its reports so far are true of what the fields hold then,
\* whatever the handlers of the application do; with the radio buttons asked for by their values.
THEOREM FillingIsToldRight == FillInit /\ ByValue /\ [][FillNext]_fillVars => FilledAsReported
<1>1. FillInit /\ ByValue => FillTyped /\ FillTold
  <2>1. ASSUME FillInit, ByValue PROVE FillTold
    <3>1. reports = <<>> /\ step = "begin"
      BY <2>1 DEF FillInit
    <3>2. \E S : reports \in Seq(S)
      BY <3>1, EmptySeq
    <3> QED BY <2>1, <3>1, <3>2 DEF FillTold
  <2> QED BY <2>1, FillTypedInit
<1>2. FillTyped /\ FillTold /\ [FillNext]_fillVars => (FillTyped /\ FillTold)'
  BY FillTypedStep, FillToldStep
<1>3. FillTyped /\ FillTold /\ [FillNext]_fillVars => [reports' # reports => AllToldRight']_fillVars
  <2> SUFFICES ASSUME FillTyped, FillTold, FillNext, reports' # reports PROVE AllToldRight'
    BY DEF fillVars
  <2>1. FillField
    BY DEF FillNext, Begin, StartFill, Press, Tell, Flag, Resets, Vanish, Navigate, Passes, Acting
  <2>2. PICK S : reports' \in Seq(S)
    BY <2>1, FillFieldTells
  <2>3. DOMAIN reports' = 1..Len(reports')
    BY <2>2
  <2>4. form' = form /\ plan' = plan
    BY FillTypedStep
  <2>5. ASSUME NEW i \in 1..Len(reports') PROVE ToldRight(reports[i])'
    <3>1. PICK told : told = reports'[i] /\ told.sanitized \in BOOLEAN /\ TellsRight(doc', told)
      BY <2>1, FillFieldTells
    <3>2. ToldRight(told)'
      BY <2>4, <3>1, SameMeaning, SameReading DEF ToldRight, TellsRight, Held
    <3> QED BY <3>1, <3>2 DEF ToldRight, Held
  <2> QED BY <2>3, <2>5 DEF AllToldRight
<1> QED BY <1>1, <1>2, <1>3, PTL DEF FilledAsReported

-----------------------------------------------------------------------------
(* The evidence of a poll: FormFill. *)

\* Every nonempty set of numbers has a least.
LEMMA LeastOf ==
  ASSUME NEW T, T \subseteq Nat, T # {}
  PROVE  \E x \in T : \A y \in T : x <= y
<1> DEFINE Below == {ss \in Nat \X Nat : ss[1] < ss[2]}
<1>0. IsWellFoundedOn(Below, Nat)
  BY NatLessThanWellFounded DEF OpToRel
<1>1. PICK x \in T : \A y \in T : ~(<<y, x>> \in Below)
  BY <1>0, WFMin
<1>2. ASSUME NEW y \in T PROVE x <= y
  <2>1. ~(y < x)
    BY <1>1
  <2>2. x \in Nat /\ y \in Nat
    OBVIOUS
  <2> QED BY <2>1, <2>2
<1> QED BY <1>2

\* After a reset a control reads as its default does.
LEMMA ResetReads ==
  ASSUME NEW f \in Fields, NEW d, HasFields(d)
  PROVE  ReadValue(f, AtReset(form.fields[f], d.default[f])) = DefaultValue(f, d)
<1>1. PICK c, default : c = form.fields[f] /\ default = d.default[f]
  OBVIOUS
<1>2. CASE c.kind = "select" /\ default = 0
  BY <1>1, <1>2 DEF ReadValue, AtReset, DefaultValue, Kind, Chosen, Options
<1>3. CASE ~(c.kind = "select" /\ default = 0)
  <2>1. AtReset(c, default) = default
    BY <1>3 DEF AtReset
  <2>2. DefaultValue(f, d) = ReadValue(f, default)
    BY <1>1, <1>3 DEF DefaultValue, Kind
  <2> QED BY <1>1, <2>1, <2>2
<1> QED BY <1>2, <1>3

\* ALT's own overlay does not stir the page, and what the application does, does.
LEMMA HighlightIsQuiet ==
  OnMutations({Record("page", {"alt"}), Record("alt", {})}) => UNCHANGED <<age, mutations>>
<1>1. ~Relevant(Record("page", {"alt"})) /\ ~Relevant(Record("alt", {}))
  BY DEF Relevant, Record
<1> QED BY <1>1 DEF OnMutations

LEMMA StirringStirs == Stirs => age' = 0
<1>1. Relevant(Record("page", {"page"}))
  BY DEF Relevant, Record
<1> QED BY <1>1 DEF Stirs, OnMutations

RegionTexts == [1..Regions -> Texts \cup {""}]

\* The page, its messages and its rest.
PageTyped ==
    /\ text \in RegionTexts
    /\ was \in [texts : SUBSET (Texts \cup {""}), stirred : Nat, reset : BOOLEAN]
    /\ obs.on => \A r \in 1..Regions : obs.baseline[r] \in was.texts \cup {""}
    /\ age = was.stirred

\* The memory of a fill: of every field the default, which a reset restores.
Remembered ==
    /\ NoneSyncs /\ \E S : memory \in Seq(S)
    /\ step \in {"begin", "fill"} => memory = <<>>
    /\ \A i \in 1..Len(memory) : memory[i].field \in Fields /\ memory[i].initial = DefaultValue(memory[i].field, doc)
    /\ was.reset => \A f \in Fields : doc.held[f] = AtReset(form.fields[f], doc.default[f])
    /\ step = "filling" => ~was.reset

LEMMA PageTypedStep == PageTyped /\ [FillNext]_fillVars => PageTyped'
<1> SUFFICES ASSUME PageTyped, [FillNext]_fillVars PROVE PageTyped'
  OBVIOUS
<1>0. Regions \in Nat
  BY FormFillAssumption
<1>1. CASE Begin
  <2>1. CASE UNCHANGED <<obs, doc, was>>
    BY <1>1, <2>1 DEF Begin, PageTyped
  <2>2. CASE obs' = Observation /\ was' = [was EXCEPT !.texts = {text[r] : r \in 1..Regions}]
    <3>1. {text[r] : r \in 1..Regions} \subseteq Texts \cup {""}
      <4>1. \A r \in 1..Regions : text[r] \in Texts \cup {""}
        BY DEF PageTyped, RegionTexts
      <4> QED BY <4>1
    <3>2. was' \in [texts : SUBSET (Texts \cup {""}), stirred : Nat, reset : BOOLEAN] /\ was'.stirred = was.stirred
          /\ was'.texts = {text[r] : r \in 1..Regions}
      BY <2>2, <3>1 DEF PageTyped
    <3>3. \A r \in 1..Regions : obs'.baseline[r] \in {text[q] : q \in 1..Regions} \cup {""}
      BY <2>2 DEF Observation
    <3> QED BY <1>1, <3>2, <3>3 DEF Begin, PageTyped
  <2> QED BY <1>1, <2>1, <2>2 DEF Begin
<1>2. CASE StartFill
  <2>1. age' = age /\ text' = text /\ obs' = obs
    BY <1>2, HighlightIsQuiet DEF StartFill
  <2>2. was' = was \/ was' = [was EXCEPT !.reset = FALSE]
    BY <1>2 DEF StartFill
  <2> QED BY <2>1, <2>2 DEF PageTyped
<1>3. CASE Press \/ UNCHANGED fillVars
  BY <1>3 DEF Press, fillVars, PageTyped
<1>8. CASE FillField
  <2>1. text' = text /\ obs' = obs
    BY <1>8 DEF FillField
  <2>2. CASE age' = age /\ was' = was
    BY <2>1, <2>2 DEF PageTyped
  <2>3. CASE Stirs /\ was' = [was EXCEPT !.stirred = 0]
    <3>1. age' = 0
      BY <2>3, StirringStirs
    <3> QED BY <2>1, <2>3, <3>1 DEF PageTyped
  <2> QED BY <1>8, <2>2, <2>3 DEF FillField
<1>4. CASE Tell \/ Flag \/ Vanish
  <2>1. age' = 0 /\ was' = [was EXCEPT !.stirred = 0] /\ obs' = obs
    BY <1>4, StirringStirs DEF Tell, Flag, Vanish
  <2>2. text' \in RegionTexts
    BY <1>4 DEF Tell, Flag, Vanish, PageTyped, RegionTexts
  <2> QED BY <2>1, <2>2 DEF PageTyped
<1>5. CASE Resets
  BY <1>5 DEF Resets, PageTyped
<1>6. CASE Navigate
  BY <1>0, <1>6 DEF Navigate, NoObservation, Undisturbed, PageTyped, RegionTexts
<1>7. CASE Passes
  <2>0. PICK n \in Nat : n = was.stirred
    BY DEF PageTyped
  <2>1. was' = [was EXCEPT !.stirred = was.stirred + 1] /\ was.stirred + 1 = n + 1 /\ n + 1 \in Nat
    BY <1>7, <2>0 DEF Passes
  <2>2. /\ was'.stirred = was.stirred + 1 /\ was'.texts = was.texts
        /\ was' \in [texts : SUBSET (Texts \cup {""}), stirred : Nat, reset : BOOLEAN]
    BY <2>1 DEF PageTyped
  <2>3. age' = age + 1 /\ text' = text /\ obs' = obs
    BY <1>7 DEF Passes
  <2> QED BY <2>2, <2>3 DEF PageTyped
<1> QED BY <1>1, <1>2, <1>3, <1>4, <1>5, <1>6, <1>7, <1>8 DEF FillNext

LEMMA SameDefault ==
  ASSUME form' = form, NEW f, NEW d
  PROVE  DefaultValue(f, d)' = DefaultValue(f, d)
BY SameReading DEF DefaultValue, Kind, Options

LEMMA RememberedStep == FillTyped /\ PageTyped /\ Remembered /\ [FillNext]_fillVars => Remembered'
<1> SUFFICES ASSUME FillTyped, PageTyped, Remembered, [FillNext]_fillVars PROVE Remembered'
  OBVIOUS
<1>1. form' = form /\ plan' = plan /\ Fields' = Fields /\ NoneSyncs' /\ NoneSyncs
  BY FillTypedStep DEF Fields, NoneSyncs, Remembered
<1>2. \A f, d : DefaultValue(f, d)' = DefaultValue(f, d)
  BY <1>1, SameDefault
<1>3. ASSUME memory' = memory, was'.reset = was.reset \/ ~was'.reset, doc'.default = doc.default, doc'.held = doc.held,
             step' \in {"begin", "fill"} => step \in {"begin", "fill"}, step' = "filling" => ~was'.reset
      PROVE  Remembered'
  <2>1. ASSUME NEW i \in 1..Len(memory) PROVE (memory[i].field \in Fields /\ memory[i].initial = DefaultValue(memory[i].field, doc))'
    <3>1. PICK entry : entry = memory[i] /\ entry = memory'[i]
      BY <1>3
    <3>2. entry.field \in Fields /\ entry.initial = DefaultValue(entry.field, doc)
      BY <3>1 DEF Remembered
    <3>3. DefaultValue(entry.field, doc)' = DefaultValue(entry.field, doc)
      BY <1>1, <1>3, SameReading DEF DefaultValue, Kind, Options
    <3> QED BY <1>1, <3>1, <3>2, <3>3
  <2> QED BY <1>1, <1>3, <2>1 DEF Remembered
<1>4. CASE Begin \/ StartFill \/ Press \/ Tell \/ Flag \/ Vanish \/ Passes \/ UNCHANGED fillVars
  <2>1. memory' = memory
    BY <1>4 DEF Begin, StartFill, Press, Tell, Flag, Vanish, Passes, fillVars
  <2>2. doc'.default = doc.default /\ doc'.held = doc.held
    BY <1>4 DEF Begin, StartFill, Press, Tell, Flag, Vanish, Passes, fillVars, FillTyped, HasFields
  <2>3. was'.reset = was.reset \/ ~was'.reset
    BY <1>4 DEF Begin, StartFill, Press, Tell, Flag, Vanish, Passes, fillVars, PageTyped
  <2>4. step' \in {"begin", "fill"} => step \in {"begin", "fill"}
    BY <1>4 DEF Begin, StartFill, Press, Tell, Flag, Vanish, Passes, Acting, fillVars
  <2>5. step' = "filling" => ~was'.reset
    BY <1>4 DEF Begin, StartFill, Press, Tell, Flag, Vanish, Passes, Acting, fillVars, PageTyped, Remembered
  <2> QED BY <1>3, <2>1, <2>2, <2>3, <2>4, <2>5
<1>5. CASE FillField
  <2>1. PICK f, one : /\ f \in todo /\ one = FillOne(doc, f, plan[f]) /\ doc' = one.doc
                               /\ \/ memory' = memory
                                  \/ memory' = Append(memory, [field |-> f, initial |-> DefaultValue(f, doc), applied |-> one.report.applied])
    BY <1>5 DEF FillField
  <2>2. f \in Fields /\ Touches(doc', doc, f) /\ step = "filling" /\ step' \notin {"begin", "fill"} /\ was'.reset = was.reset
    BY <1>5, <2>1, FillOneTells DEF FillField, FillTyped, PageTyped
  <2>3. doc'.default = doc.default
    BY <1>1, <2>2 DEF Touches
  <2>4. \A g : DefaultValue(g, doc)' = DefaultValue(g, doc)
    BY <1>1, <2>3, SameReading DEF DefaultValue, Kind, Options
  <2>5. PICK entry : entry = [field |-> f, initial |-> DefaultValue(f, doc), applied |-> one.report.applied]
    OBVIOUS
  <2>6. PICK S : memory \in Seq(S)
    BY DEF Remembered
  <2>7. PICK U : U = S \cup {entry}
    OBVIOUS
  <2>8. memory \in Seq(U) /\ entry \in U
    BY <2>6, <2>7
  <2>9. memory' \in Seq(U)
    BY <2>1, <2>5, <2>8, AppendProperties
  <2>10. ASSUME NEW i \in 1..Len(memory')
         PROVE (memory[i].field \in Fields /\ memory[i].initial = DefaultValue(memory[i].field, doc))'
    <3>1. PICK e : e = memory'[i]
      OBVIOUS
    <3>2. e = entry \/ (i \in 1..Len(memory) /\ e = memory[i])
      BY <2>1, <2>5, <2>8, <3>1, AppendProperties
    <3>3. e.field \in Fields /\ e.initial = DefaultValue(e.field, doc)
      BY <2>2, <2>5, <3>2 DEF Remembered
    <3> QED BY <1>1, <2>4, <3>1, <3>3
  <2>11. ~was'.reset
    BY <2>2 DEF Remembered
  <2> QED BY <1>1, <2>2, <2>9, <2>10, <2>11 DEF Remembered
<1>6. CASE Resets
  <2>1. /\ memory' = memory /\ step' = step /\ step # "filling"
        /\ doc'.held = [f \in Fields |-> AtReset(form.fields[f], doc.default[f])] /\ doc'.default = doc.default
    BY <1>6 DEF Resets, Acting, FillTyped, HasFields
  <2>2. \A g : DefaultValue(g, doc)' = DefaultValue(g, doc)
    BY <1>1, <2>1, SameReading DEF DefaultValue, Kind, Options
  <2>3. ASSUME NEW i \in 1..Len(memory) PROVE (memory[i].field \in Fields /\ memory[i].initial = DefaultValue(memory[i].field, doc))'
    <3>1. PICK entry : entry = memory[i] /\ entry = memory'[i]
      BY <2>1
    <3>2. entry.field \in Fields /\ entry.initial = DefaultValue(entry.field, doc)
      BY <3>1 DEF Remembered
    <3> QED BY <1>1, <2>2, <3>1, <3>2
  <2> QED BY <1>1, <2>1, <2>3 DEF Remembered
<1>7. CASE Navigate
  <2>1. memory' = <<>> /\ ~was'.reset
    BY <1>7 DEF Navigate, Undisturbed
  <2> QED BY <1>1, <2>1, EmptySeq DEF Remembered
<1> QED BY <1>4, <1>5, <1>6, <1>7 DEF FillNext

LEMMA ResetIsRightInv == FillTyped /\ PageTyped /\ Remembered => ResetIsRight
<1> SUFFICES ASSUME FillTyped, PageTyped, Remembered PROVE ResetIsRight
  OBVIOUS
<1> DEFINE kept == {i \in DOMAIN memory : memory[i].applied # memory[i].initial}
<1>1. Snapshot.formReset <=> IsResetNow
  <2>1. PICK s : s = Snapshot
    OBVIOUS
  <2> QED BY <2>1 DEF Snapshot
<1>2. \A i \in DOMAIN memory : memory[i].field \in Fields /\ memory[i].initial = DefaultValue(memory[i].field, doc)
  BY DEF Remembered
<1>3. ASSUME was.reset, present, kept # {} PROVE IsResetNow
  <2>1. ASSUME NEW i \in DOMAIN memory
        PROVE Held(memory[i].field) = DefaultValue(memory[i].field, doc)
    BY <1>2, <1>3, <2>1, ResetReads DEF Remembered, Held, FillTyped
  <2>2. memory # <<>>
    BY <1>3
  <2> QED BY <1>3, <2>1, <2>2 DEF IsResetNow
<1>4. ASSUME IsResetNow, NEW i \in kept PROVE Held(memory[i].field) # memory[i].applied
  BY <1>2, <1>4 DEF IsResetNow
<1> QED BY <1>1, <1>3, <1>4 DEF ResetIsRight

\* Of the regions that say the same, one is the first.
LEMMA FirstThatSays ==
  ASSUME NEW says, NEW r \in 1..Regions
  PROVE  \E q \in 1..Regions : says[q] = says[r] /\ \A p \in 1..(q - 1) : says[p] # says[q]
<1> DEFINE Same == {q \in 1..Regions : says[q] = says[r]}
<1>0. Regions \in Nat
  BY FormFillAssumption
<1>1. Same \subseteq Nat /\ Same # {}
  BY <1>0
<1>2. PICK q \in Same : \A p \in Same : q <= p
  BY ONLY <1>1, LeastOf
<1>3. ASSUME NEW p \in 1..(q - 1) PROVE says[p] # says[q]
  <2>1. q \in Nat /\ q <= Regions /\ says[q] = says[r]
    BY <1>0, <1>2
  <2>2. p \in 1..Regions /\ ~(q <= p)
    BY <1>0, <2>1
  <2>3. p \notin Same
    BY ONLY <1>2, <2>2
  <2> QED BY <2>1, <2>2, <2>3
<1> QED BY <1>2, <1>3

LEMMA NewIsToldInv == PageTyped => NewIsTold
<1> SUFFICES ASSUME PageTyped, obs.on, NEW r \in 1..Regions, text[r] \notin was.texts \cup {""}
             PROVE  text[r] \in Snapshot.messages
  BY DEF NewIsTold
<1>0. PICK says : says = text
  OBVIOUS
<1>1. PICK q \in 1..Regions : text[q] = text[r] /\ \A p \in 1..(q - 1) : text[p] # text[q]
  BY ONLY <1>0, FirstThatSays, r \in 1..Regions
<1>2. q \in VisibleMessages
  BY <1>1 DEF VisibleMessages
<1>3. q \in NewMessages
  BY <1>1, <1>2 DEF NewMessages, PageTyped
<1>4. Snapshot.messages = {text[p] : p \in NewMessages}
  BY DEF Snapshot
<1> QED BY <1>1, <1>3, <1>4

\* What snapshot() says at any time is true of the page: of the form's fields, of its messages and of its
\* rest; as long as no framework keeps the defaults of the controls in step with their values.
THEOREM EvidenceHolds == FillInit /\ NoneSyncs /\ [][FillNext]_fillVars => []EvidenceIsTrue
<1>1. FillInit /\ NoneSyncs => FillTyped /\ PageTyped /\ Remembered
  <2> SUFFICES ASSUME FillInit, NoneSyncs PROVE PageTyped /\ Remembered
    BY FillTypedInit
  <2>1. PageTyped
    BY FormFillAssumption DEF FillInit, PageTyped, RegionTexts, Undisturbed, NoObservation
  <2>2. memory = <<>> /\ step = "begin" /\ ~was.reset
    BY DEF FillInit, Undisturbed
  <2>3. \E S : memory \in Seq(S)
    BY <2>2, EmptySeq
  <2> QED BY <2>1, <2>2, <2>3, EmptySeq DEF Remembered
<1>2. FillTyped /\ PageTyped /\ Remembered /\ [FillNext]_fillVars => (FillTyped /\ PageTyped /\ Remembered)'
  BY FillTypedStep, PageTypedStep, RememberedStep
<1>3. FillTyped /\ PageTyped /\ Remembered => EvidenceIsTrue
  <2> SUFFICES ASSUME PageTyped PROVE QuietIsThePages
    BY ResetIsRightInv, NewIsToldInv DEF EvidenceIsTrue
  <2>1. Snapshot.quiet = (age >= QuietFor)
    BY Zenon DEF Snapshot
  <2>2. age = was.stirred
    BY DEF PageTyped
  <2> QED BY <2>1, <2>2, Zenon DEF QuietIsThePages
<1> QED BY <1>1, <1>2, <1>3, PTL
============================================================================
