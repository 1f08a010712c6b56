------------------------------ MODULE PageProofs -----------------------------
(***************************************************************************)
(* Proofs about what runs in web pages: a report of a submit tells the     *)
(* requests around it with their own answers; what the web app shows, and  *)
(* what it sends, is about the input on it, and "Try again" is offered     *)
(* where it can help, whatever fails, is taken back or is forgotten; the   *)
(* text of a stream is what the model said; and the files of an input stay *)
(* until they are removed.                                                 *)
(***************************************************************************)
EXTENDS AiWorkflow, Capture, TokenStream, InputForm, FiniteSetTheorems, SequenceTheorems, TLAPS

-----------------------------------------------------------------------------
(* Input, upload, analyze, result: AiService and AiWorkflow. *)


Faults == {"unsupported", "huge", "empty", "gone", "rejected", "blocked"}
Transient == {"unset", "limited", "upstream", "slow", "invalid", "internal", "unreachable"}
Causes == {"sent", "ok"} \cup Faults \cup Transient

Refused(cause) == AppErrorOf[cause].status < 500 /\ AppErrorOf[cause].status # 429

\* "Try again" is offered for what may pass by itself, and withheld for what will not.
LEMMA RetriesTransient == \A cause \in Transient : Retries(cause)
<1>1. Retries("unset")
  BY DEF Retries, Retryable, AppErrorOf, Answer, RetryableByCode
<1>2. Retries("limited")
  BY DEF Retries, Retryable, AppErrorOf, Answer, RetryableByCode
<1>3. Retries("upstream")
  BY DEF Retries, Retryable, AppErrorOf, Answer, RetryableByCode
<1>4. Retries("slow")
  BY DEF Retries, Retryable, AppErrorOf, Answer, RetryableByCode
<1>5. Retries("invalid")
  BY DEF Retries, Retryable, AppErrorOf, Answer, RetryableByCode
<1>6. Retries("internal")
  BY SMT DEF Retries, Retryable, AppErrorOf, Answer, RetryableByCode
<1>7. Retries("unreachable")
  BY DEF Retries
<1> QED BY <1>1, <1>2, <1>3, <1>4, <1>5, <1>6, <1>7 DEF Transient

LEMMA NoRetryOfFaults == \A cause \in Faults : ~Retries(cause)
<1>1. ~Retries("unsupported")
  BY DEF Retries, Retryable, AppErrorOf, Answer, RetryableByCode
<1>2. ~Retries("huge")
  BY DEF Retries, Retryable, AppErrorOf, Answer, RetryableByCode
<1>3. ~Retries("empty")
  BY SMT DEF Retries, Retryable, AppErrorOf, Answer, RetryableByCode
<1>4. ~Retries("gone")
  BY SMT DEF Retries, Retryable, AppErrorOf, Answer, RetryableByCode
<1>5. ~Retries("rejected")
  BY DEF Retries, Retryable, AppErrorOf, Answer, RetryableByCode
<1>6. ~Retries("blocked")
  BY DEF Retries, Retryable, AppErrorOf, Answer, RetryableByCode
<1> QED BY <1>1, <1>2, <1>3, <1>4, <1>5, <1>6 DEF Faults

\* What the model call ends with.
LEMMA Outcomes ==
  ASSUME NEW kinds, NEW first \in ModelFaults \cup ModelReplies
  PROVE  /\ JsonOutcome(kinds, first) \in {"ok", "rejected", "blocked"} \cup Transient
         /\ JsonOutcome(kinds, first) = "rejected" => "corrupt" \in kinds \/ JsonOutcome({}, first) = "rejected"
         /\ JsonOutcome(kinds, first) = "blocked" => "flagged" \in kinds \/ JsonOutcome({}, first) = "blocked"
         /\ JsonOutcome(kinds, first) \in Transient => JsonOutcome({}, first) = JsonOutcome(kinds, first)
         /\ JsonOutcome({}, first) = "ok" => JsonOutcome(kinds, first) \in {"ok", "rejected", "blocked"}
         /\ JsonOutcome({}, first) = "invalid" => JsonOutcome(kinds, first) \in {"invalid", "rejected", "blocked"}
<1>1. \A fault \in ModelFaults : Translated(fault) \in {"limited", "unset", "slow", "upstream", "rejected"}
  BY DEF Translated, ModelFaults
<1>2. Translated("400") = "rejected"
  BY DEF Translated
<1> QED BY <1>1, <1>2 DEF JsonOutcome, Transient

LEMMA StructuredOutcomes ==
  ASSUME NEW kinds, NEW first \in ModelFaults \cup ModelReplies, NEW second \in ModelFaults \cup ModelReplies
  PROVE  LET out == Structured(kinds, first, second)
         IN  /\ out \in {"ok", "rejected", "blocked"} \cup Transient
             /\ out \in {"rejected", "blocked"} =>
                  kinds \cap {"corrupt", "flagged"} # {} \/ Structured({}, first, second) \in {"rejected", "blocked"}
             /\ out \in Transient => Structured({}, first, second) = out
             /\ Structured({}, first, second) \in Causes
             /\ Structured({}, first, second) = "ok" => out \in {"ok", "rejected", "blocked"}
<1>1. \A reply \in ModelFaults \cup ModelReplies :
        /\ JsonOutcome(kinds, reply) \in {"ok", "rejected", "blocked"} \cup Transient
        /\ JsonOutcome(kinds, reply) \in {"rejected", "blocked"} =>
             kinds \cap {"corrupt", "flagged"} # {} \/ JsonOutcome({}, reply) \in {"rejected", "blocked"}
        /\ JsonOutcome(kinds, reply) \in Transient => JsonOutcome({}, reply) = JsonOutcome(kinds, reply)
        /\ JsonOutcome({}, reply) \in Causes
        /\ JsonOutcome({}, reply) = "ok" => JsonOutcome(kinds, reply) \in {"ok", "rejected", "blocked"}
        /\ JsonOutcome({}, reply) = "invalid" => JsonOutcome(kinds, reply) \in {"invalid", "rejected", "blocked"}
  BY Outcomes DEF Causes, Faults
<1>2. "invalid" \in Transient
  BY DEF Transient
<1> QED BY <1>1, <1>2 DEF Structured

-----------------------------------------------------------------------------
InputRecord == [text : TextKinds, files : SUBSET Files]
Submission ==
    [input : InputRecord, aborted : BOOLEAN, phase : {"upload", "analyze", "over"}, waits : SUBSET Files]
Request ==
    [sub : Nat, file : SUBSET Files, ids : SUBSET Nat, text : TextKinds, cause : Causes, id : Nat, bare : Causes]

\* The submission somebody still waits for.
Awaited == ctrl # 0 /\ ~subs[ctrl].aborted
Heard(r) == ~subs[r.sub].aborted

WorkTyped ==
    /\ subs \in Seq(Submission) /\ ctrl \in 0..Len(subs)
    /\ held \in [Files -> Nat] /\ stored \in Seq(Files \cup {""})
    /\ net \subseteq Request
    /\ \A r \in net : r.sub \in DOMAIN subs /\ (r.file # {} => \E f \in Files : r.file = {f})

\* Only the current submission is heard, it is the input's, and it waits for what is not held.
OneHeard ==
    /\ \A s \in DOMAIN subs : ~subs[s].aborted => s = ctrl
    /\ Awaited => /\ input = subs[ctrl].input
                  /\ subs[ctrl].waits = {f \in input.files : held[f] = 0}
                  /\ subs[ctrl].phase = "upload" => subs[ctrl].waits # {}
                  /\ subs[ctrl].phase = "analyze" => subs[ctrl].waits = {}

\* An id that is held, or on its way to the page, is that of the file, or of one that was forgotten.
IdsKept ==
    /\ \A f \in Files : held[f] # 0 => held[f] \in DOMAIN stored /\ stored[held[f]] \in {f, ""}
    /\ \A r \in net : r.file # {} /\ r.cause = "ok" =>
          \E f \in Files : r.file = {f} /\ r.id \in DOMAIN stored /\ stored[r.id] \in {f, ""}

\* What is asked for the current submission: each missing file once, and the model about all files.
Asked ==
    \A r \in net : Heard(r) =>
        IF r.file # {}
        THEN /\ \E f \in subs[ctrl].waits : r.file = {f}
             /\ \A q \in net : q.file = r.file /\ Heard(q) => q = r
        ELSE /\ subs[ctrl].phase # "upload" /\ subs[ctrl].waits = {}
             /\ r.text = input.text /\ r.ids = IdsOf(input.files)

\* What an error with one answer says of the input, when another would have had the other.
Judges(cause, bare, fault) ==
    /\ bare = "ok" => cause \in Faults
    /\ cause \notin Faults => bare = cause
    /\ cause \in Faults => fault \/ bare \in {"rejected", "blocked"}

\* An answer that withholds a retry is about an input at fault, or one like any other.
Judged == \A r \in net : Heard(r) /\ r.cause \notin {"sent", "ok"} => Judges(r.cause, r.bare, AtFault)

\* The page shows how far the current submission is.
Shown ==
    /\ ~Awaited => state = Idle
    /\ Awaited /\ subs[ctrl].phase # "over" =>
          state = Running(subs[ctrl].phase, Cardinality(input.files \ subs[ctrl].waits))
    /\ Awaited /\ subs[ctrl].phase = "over" =>
          \/ /\ state.status = "success" /\ state.text = input.text /\ state.ids = IdsOf(input.files)
             /\ subs[ctrl].waits = {}
          \/ /\ state.status = "error" /\ (state.bare = "ok" => ~state.retryable)
             /\ state.retryable => state.bare = state.cause
             /\ ~state.retryable => AtFault \/ state.bare \in {"rejected", "blocked"}

WorkInv == WorkTyped /\ OneHeard /\ IdsKept /\ Asked /\ Judged /\ Shown

-----------------------------------------------------------------------------
LEMMA Domains ==
  ASSUME WorkInv
  PROVE  /\ DOMAIN subs = 1..Len(subs) /\ Len(subs) \in Nat /\ ctrl \in 0..Len(subs)
         /\ \A s \in DOMAIN subs : subs[s] \in Submission
         /\ \A i \in DOMAIN stored : i \in Nat /\ i # 0
<1> DEFINE S == Files \cup {""}
<1>1. subs \in Seq(Submission) /\ ctrl \in 0..Len(subs) /\ stored \in Seq(S)
  BY DEF WorkInv, WorkTyped
<1> HIDE DEF S
<1>2. \A i \in DOMAIN stored : i \in Nat /\ i # 0
  BY <1>1
<1> QED BY <1>1, <1>2

\* Who is heard is the current submission's.
LEMMA HeardIsAwaited ==
  ASSUME WorkInv, NEW r \in net, Heard(r)
  PROVE  r.sub = ctrl /\ Awaited /\ ctrl \in DOMAIN subs
<1>1. r.sub \in DOMAIN subs /\ r.sub = ctrl
  BY DEF WorkInv, WorkTyped, OneHeard, Heard
<1>2. r.sub # 0
  BY <1>1, Domains
<1> QED BY <1>1, <1>2 DEF Awaited, Heard

\* The current submission is one of those that were made.
LEMMA AwaitedTyped ==
  ASSUME WorkInv, Awaited
  PROVE  /\ ctrl \in DOMAIN subs /\ subs[ctrl] \in Submission /\ input \in InputRecord
         /\ subs[ctrl].waits \subseteq input.files
<1>1. ctrl \in DOMAIN subs
  BY Domains DEF Awaited
<1>2. subs[ctrl] \in Submission
  BY <1>1, Domains
<1> QED BY <1>1, <1>2 DEF WorkInv, OneHeard, Submission, InputRecord

\* After an abort nobody is heard.
LEMMA AbortsAll ==
  ASSUME WorkInv
  PROVE  /\ Aborts(subs) \in Seq(Submission) /\ Len(Aborts(subs)) = Len(subs)
         /\ DOMAIN Aborts(subs) = DOMAIN subs
         /\ \A s \in DOMAIN subs : Aborts(subs)[s].aborted
<1> subs \in Seq(Submission) /\ ctrl \in 0..Len(subs)
  BY DEF WorkInv, WorkTyped
<1>1. CASE ctrl = 0
  BY <1>1 DEF Aborts, WorkInv, OneHeard
<1>2. CASE ctrl # 0
  <2>1. ctrl \in DOMAIN subs /\ subs[ctrl] \in Submission
    BY <1>2
  <2>2. [subs[ctrl] EXCEPT !.aborted = TRUE] \in Submission /\ [subs[ctrl] EXCEPT !.aborted = TRUE].aborted
    BY <2>1 DEF Submission
  <2>3. Aborts(subs) = [subs EXCEPT ![ctrl] = [subs[ctrl] EXCEPT !.aborted = TRUE]]
    BY <1>2 DEF Aborts
  <2> QED BY <2>1, <2>2, <2>3 DEF WorkInv, OneHeard
<1> QED BY <1>1, <1>2

\* Fewer requests.
LEMMA FewerKeeps ==
  ASSUME WorkInv, net' \subseteq net, UNCHANGED <<web, stored>>
  PROVE  WorkInv'
<1> UNCHANGED <<state, input, subs, ctrl, held>>
  BY DEF web
<1>1. WorkTyped' /\ OneHeard' /\ IdsKept'
  BY DEF WorkInv, WorkTyped, OneHeard, IdsKept, Awaited
<1>2. Asked' /\ Judged'
  BY DEF WorkInv, Asked, Judged, Heard, IdsOf, AtFault
<1>3. Shown'
  BY DEF WorkInv, Shown, Awaited, IdsOf, AtFault
<1> QED BY <1>1, <1>2, <1>3 DEF WorkInv

\* The API answers a request: what it stores stays, and what it refuses is at fault.
LEMMA AnswerKeeps ==
  ASSUME WorkInv, NEW r \in net, NEW cause \in Causes \ {"sent"}, NEW id \in Nat, NEW bare \in Causes,
         Answered(r, cause, id, bare), UNCHANGED web,
         stored' \in Seq(Files \cup {""}),
         \A i \in DOMAIN stored : i \in DOMAIN stored' /\ stored'[i] = stored[i],
         r.file # {} /\ cause = "ok" =>
            \E f \in Files : r.file = {f} /\ id \in DOMAIN stored' /\ stored'[id] \in {f, ""},
         Heard(r) /\ cause # "ok" => Judges(cause, bare, AtFault)
  PROVE  WorkInv'
<1>a. PICK a : a = [r EXCEPT !.cause = cause, !.id = id, !.bare = bare]
  OBVIOUS
<1> UNCHANGED <<state, input, subs, ctrl, held>>
  BY DEF web
<1>0. r \in Request /\ r.sub \in DOMAIN subs
  BY DEF WorkInv, WorkTyped
<1>1. /\ a \in Request /\ a.cause = cause /\ a.id = id /\ a.bare = bare
      /\ a.sub = r.sub /\ a.file = r.file /\ a.ids = r.ids /\ a.text = r.text
  <2>1. [r EXCEPT !.cause = cause] \in Request
    BY <1>0 DEF Request
  <2>2. \A q \in Request : [q EXCEPT !.id = id] \in Request
    BY DEF Request
  <2>3. \A q \in Request : [q EXCEPT !.bare = bare] \in Request
    BY DEF Request
  <2>4. [r EXCEPT !.cause = cause, !.id = id] \in Request
    BY <2>1, <2>2
  <2>5. a \in Request
    BY <1>a, <2>3, <2>4
  <2> QED BY <1>0, <1>a, <2>5 DEF Request
<1>2. net' = (net \ {r}) \cup {a}
  BY <1>a DEF Answered
<1>3. WorkTyped' /\ OneHeard'
  <2>1. r.file # {} => \E f \in Files : r.file = {f}
    BY DEF WorkInv, WorkTyped
  <2>2. \A q \in net' : q \in Request /\ q.sub \in DOMAIN subs /\ (q.file # {} => \E f \in Files : q.file = {f})
    BY <1>0, <1>1, <1>2, <2>1 DEF WorkInv, WorkTyped
  <2>3. WorkTyped'
    BY <2>2 DEF WorkInv, WorkTyped
  <2>4. OneHeard'
    BY DEF WorkInv, OneHeard, Awaited
  <2> QED BY <2>3, <2>4
<1>4. IdsKept'
  <2>1. \A f \in Files : held[f] # 0 => held[f] \in DOMAIN stored' /\ stored'[held[f]] \in {f, ""}
    BY DEF WorkInv, IdsKept
  <2>2. \A q \in net \ {r} : q.file # {} /\ q.cause = "ok" =>
          \E f \in Files : q.file = {f} /\ q.id \in DOMAIN stored' /\ stored'[q.id] \in {f, ""}
    BY DEF WorkInv, IdsKept
  <2> QED BY <1>1, <1>2, <2>1, <2>2 DEF IdsKept
<1>5. Awaited => (AtFault => AtFault')
  <2> SUFFICES ASSUME NEW f \in input.files, KindOf[f] # "fine" \/ (held[f] # 0 /\ stored[held[f]] = ""), Awaited
               PROVE  AtFault'
    BY DEF AtFault
  <2>1. f \in Files
    BY AwaitedTyped DEF InputRecord
  <2>2. held[f] # 0 => stored'[held[f]] = stored[held[f]]
    BY <2>1 DEF WorkInv, IdsKept
  <2> QED BY <2>2 DEF AtFault
<1>6. Asked'
  <2> SUFFICES ASSUME NEW q \in net', Heard(q)
               PROVE  IF q.file # {}
                      THEN /\ \E f \in subs[ctrl].waits : q.file = {f}
                           /\ \A p \in net' : p.file = q.file /\ Heard(p) => p = q
                      ELSE /\ subs[ctrl].phase # "upload" /\ subs[ctrl].waits = {}
                           /\ q.text = input.text /\ q.ids = IdsOf(input.files)
    BY DEF Asked, Heard, IdsOf
  <2>1. PICK q0 \in net : ((q = q0 /\ q0 # r) \/ (q = a /\ q0 = r)) /\ q0.sub = q.sub /\ q0.file = q.file /\ q0.ids = q.ids /\ q0.text = q.text
    BY <1>1, <1>2
  <2>2. Heard(q0)
    BY <2>1 DEF Heard
  <2>3. ASSUME q.file # {}, NEW p \in net', p.file = q.file, Heard(p) PROVE p = q
    <3>1. PICK p0 \in net : ((p = p0 /\ p0 # r) \/ (p = a /\ p0 = r)) /\ p0.sub = p.sub /\ p0.file = p.file
      BY <1>1, <1>2
    <3>2. p0 = q0
      BY <2>1, <2>2, <2>3, <3>1 DEF WorkInv, Asked, Heard
    <3> QED BY <2>1, <3>1, <3>2
  <2> QED BY <2>1, <2>2, <2>3 DEF WorkInv, Asked
<1>7. Judged'
  <2> SUFFICES ASSUME NEW q \in net', Heard(q), q.cause \notin {"sent", "ok"}
               PROVE  Judges(q.cause, q.bare, AtFault')
    BY DEF Judged, Heard, Judges
  <2>1. CASE q \in net
    BY <1>5, <2>1, HeardIsAwaited DEF WorkInv, Judged, Judges
  <2>2. CASE q = a
    <3>1. Heard(r)
      BY <1>1, <2>2 DEF Heard
    <3> QED BY <1>1, <1>5, <2>2, <3>1, HeardIsAwaited DEF Judges
  <2> QED BY <1>2, <2>1, <2>2
<1>8. Shown'
  BY <1>5 DEF WorkInv, Shown, Awaited, IdsOf
<1> QED BY <1>3, <1>4, <1>6, <1>7, <1>8 DEF WorkInv

LEMMA ServeKeeps ==
  ASSUME WorkInv, NEW r \in net, Serve(r)
  PROVE  WorkInv'
<1>0. r \in Request /\ stored \in Seq(Files \cup {""})
  BY DEF WorkInv, WorkTyped
<1>1. CASE ServeUpload(r)
  <2>1. r.cause = "sent" /\ r.file # {} /\ UNCHANGED web
    BY <1>1 DEF ServeUpload
  <2>2. PICK f \in r.file :
          IF UploadCheck(KindOf[f]) = "stored"
          THEN stored' = Append(stored, f) /\ Answered(r, "ok", Len(stored'), "ok")
          ELSE Answered(r, UploadCheck(KindOf[f]), 0, "ok") /\ UNCHANGED stored
    BY <1>1 DEF ServeUpload
  <2>3. f \in Files /\ KindOf[f] \in FileKinds
    BY <1>0, AiWorkflowAssumption DEF Request
  <2>4. CASE UploadCheck(KindOf[f]) = "stored"
    <3>1. stored' = Append(stored, f) /\ Answered(r, "ok", Len(stored'), "ok")
      BY <2>2, <2>4
    <3>2. /\ stored' \in Seq(Files \cup {""}) /\ Len(stored') \in DOMAIN stored' /\ Len(stored') \in Nat
          /\ stored'[Len(stored')] = f
          /\ \A i \in DOMAIN stored : i \in DOMAIN stored' /\ stored'[i] = stored[i]
      <4> DEFINE S == Files \cup {""}
      <4>1. stored \in Seq(S) /\ f \in S /\ stored' = Append(stored, f)
        BY <1>0, <2>3, <3>1
      <4> HIDE DEF S
      <4>2. Len(stored') = Len(stored) + 1 /\ DOMAIN stored' = 1..(Len(stored) + 1) /\ DOMAIN stored = 1..Len(stored)
            /\ Len(stored) \in Nat /\ stored' \in Seq(S)
        BY <4>1
      <4>3. stored'[Len(stored')] = f /\ \A i \in DOMAIN stored : i \in DOMAIN stored' /\ stored'[i] = stored[i]
        BY <4>1, <4>2
      <4>4. Len(stored') \in DOMAIN stored' /\ Len(stored') \in Nat
        BY <4>2
      <4> QED BY <4>2, <4>3, <4>4 DEF S
    <3>3. "ok" \in Causes \ {"sent"}
      BY DEF Causes
    <3> DEFINE id == Len(stored')
    <3>4. r.file = {f}
      BY <2>1 DEF WorkInv, WorkTyped
    <3> HIDE DEF id
    <3> QED BY <2>1, <2>3, <3>1, <3>2, <3>3, <3>4, AnswerKeeps DEF id
  <2>5. CASE UploadCheck(KindOf[f]) # "stored"
    <3>1. UploadCheck(KindOf[f]) \in Faults /\ UploadCheck(KindOf[f]) \notin {"ok", "sent"} /\ KindOf[f] # "fine"
      BY <2>3, <2>5 DEF UploadCheck, Faults, FileKinds
    <3>2. Answered(r, UploadCheck(KindOf[f]), 0, "ok") /\ stored' = stored
      BY <2>2, <2>5
    <3>3. Heard(r) => AtFault
      <4>1. Heard(r) => f \in input.files
        BY <2>1, HeardIsAwaited, AwaitedTyped DEF WorkInv, Asked
      <4> QED BY <3>1, <4>1 DEF AtFault
    <3>4. UploadCheck(KindOf[f]) \in Causes \ {"sent"} /\ 0 \in Nat /\ "ok" \in Causes
      BY <3>1 DEF Causes
    <3> DEFINE cause == UploadCheck(KindOf[f])
    <3> HIDE DEF cause
    <3> QED BY <1>0, <2>1, <3>1, <3>2, <3>3, <3>4, AnswerKeeps DEF cause, Judges
  <2> QED BY <2>4, <2>5
<1>2. CASE ServeAnalyze(r)
  <2>1. r.cause = "sent" /\ r.file = {} /\ UNCHANGED web /\ stored' = stored
    BY <1>2 DEF ServeAnalyze, Answered
  <2>2. Heard(r) => r.text = input.text /\ r.ids = {held[f] : f \in input.files} /\ (\A f \in input.files : f \in Files /\ held[f] # 0)
    <3> SUFFICES ASSUME Heard(r) PROVE r.text = input.text /\ r.ids = {held[f] : f \in input.files} /\ (\A f \in input.files : f \in Files /\ held[f] # 0)
      OBVIOUS
    <3>1. r.text = input.text /\ r.ids = IdsOf(input.files) /\ subs[ctrl].waits = {} /\ Awaited
      BY <2>1, HeardIsAwaited DEF WorkInv, Asked
    <3> QED BY <3>1, AwaitedTyped DEF IdsOf, InputRecord, WorkInv, OneHeard
  <2>3. CASE \E i \in r.ids : stored[i] = ""
    <3>1. Answered(r, "gone", 0, "ok")
      BY <1>2, <2>3 DEF ServeAnalyze
    <3>2. Heard(r) => AtFault
      <4> SUFFICES ASSUME Heard(r) PROVE AtFault
        OBVIOUS
      <4>1. PICK i \in r.ids : stored[i] = ""
        BY <2>3
      <4>2. PICK f \in input.files : i = held[f] /\ held[f] # 0
        BY <2>2
      <4> QED BY <4>1, <4>2 DEF AtFault
    <3>3. "gone" \in Causes \ {"sent"} /\ "gone" \in Faults /\ 0 \in Nat /\ "ok" \in Causes
      BY DEF Causes, Faults
    <3> QED BY <1>0, <2>1, <3>1, <3>2, <3>3, AnswerKeeps DEF Judges
  <2>4. CASE ~\E i \in r.ids : stored[i] = ""
    <3> DEFINE kinds == {r.text} \cup {KindOf[stored[i]] : i \in r.ids}
    <3>1. PICK first \in ModelFaults \cup ModelReplies, second \in ModelFaults \cup ModelReplies :
            Answered(r, Structured(kinds, first, second), 0, Structured({}, first, second))
      BY <1>2, <2>4 DEF ServeAnalyze
    <3> DEFINE cause == Structured(kinds, first, second)
               bare == Structured({}, first, second)
    <3>2. /\ cause \in {"ok", "rejected", "blocked"} \cup Transient
          /\ cause \in {"rejected", "blocked"} =>
               kinds \cap {"corrupt", "flagged"} # {} \/ bare \in {"rejected", "blocked"}
          /\ cause \in Transient => bare = cause
          /\ bare \in Causes
          /\ bare = "ok" => cause \in {"ok", "rejected", "blocked"}
      BY StructuredOutcomes
    <3>3. Heard(r) /\ kinds \cap {"corrupt", "flagged"} # {} => AtFault
      <4> SUFFICES ASSUME Heard(r), kinds \cap {"corrupt", "flagged"} # {}, r.text \notin {"corrupt", "flagged"}
                   PROVE  AtFault
        BY <1>0, <2>2 DEF AtFault, Request, TextKinds
      <4>1. PICK i \in r.ids : KindOf[stored[i]] \in {"corrupt", "flagged"}
        OBVIOUS
      <4>2. PICK f \in input.files : i = held[f] /\ held[f] # 0 /\ f \in Files
        BY <2>2
      <4>3. stored[i] \in {f, ""} /\ stored[i] # ""
        BY <2>4, <4>2 DEF WorkInv, IdsKept
      <4>4. KindOf[f] # "fine"
        BY <4>1, <4>3
      <4> QED BY <4>2, <4>4 DEF AtFault
    <3> HIDE DEF kinds
    <3>4. Answered(r, cause, 0, bare) /\ 0 \in Nat
      BY <3>1
    <3> HIDE DEF cause, bare
    <3>5. cause \in Causes \ {"sent"}
      BY <3>2 DEF Causes, Transient, Faults
    <3>6. cause \in Faults => cause \in {"rejected", "blocked"}
      BY <3>2 DEF Transient, Faults
    <3>7. {"rejected", "blocked"} \subseteq Faults
      BY DEF Faults
    <3>8. Heard(r) /\ cause # "ok" => Judges(cause, bare, AtFault)
      BY <3>2, <3>3, <3>6, <3>7 DEF Judges
    <3> QED BY <1>0, <2>1, <3>2, <3>4, <3>5, <3>8, AnswerKeeps
  <2> QED BY <2>3, <2>4
<1>3. CASE Fails(r)
  <2>1. PICK cause \in {"unreachable", "internal"} : Answered(r, cause, 0, cause)
    BY <1>3 DEF Fails
  <2>2. UNCHANGED web /\ stored' = stored
    BY <1>3 DEF Fails
  <2>3. cause \in Causes \ {"sent"} /\ cause \notin Faults /\ cause # "ok" /\ 0 \in Nat
    BY DEF Causes, Transient, Faults
  <2> QED BY <1>0, <2>1, <2>2, <2>3, AnswerKeeps DEF Judges
<1> QED BY <1>1, <1>2, <1>3 DEF Serve

\* A submission of an acceptable input, whatever was going on before.
LEMMA SubmittedKeeps ==
  ASSUME WorkInv, NEW next \in InputRecord, Submitted(next)
  PROVE  WorkInv'
<1> DEFINE s == Len(subs) + 1
           pending == Pending(next)
           phase == IF pending = {} THEN "analyze" ELSE "upload"
           new == [input |-> next, aborted |-> FALSE, phase |-> phase, waits |-> pending]
           asks == IF pending = {} THEN {AnalyzeOf(s, IdsOf(next.files), next.text)}
                   ELSE {UploadOf(s, f) : f \in pending}
<1>1. /\ subs' = Append(Aborts(subs), new) /\ ctrl' = s /\ input' = next /\ net' = net \cup asks
      /\ state' = Running(phase, Cardinality(next.files \ pending)) /\ UNCHANGED <<held, stored>>
  BY DEF Submitted
<1>2. pending \subseteq next.files /\ next.files \subseteq Files /\ new \in Submission
      /\ \A f \in Files : held[f] \in Nat
  BY DEF Pending, InputRecord, Submission, WorkInv, WorkTyped
<1>3. \A r \in asks : /\ r \in Request /\ r.sub = s /\ r.cause = "sent"
                      /\ IF pending = {} THEN r.file = {} /\ r.text = next.text /\ r.ids = IdsOf(next.files)
                         ELSE \E f \in pending : r = UploadOf(s, f) /\ r.file = {f}
  <2>1. s \in Nat
    BY Domains
  <2>2. CASE pending = {}
    <3>1. IdsOf(next.files) \subseteq Nat
      BY <1>2 DEF IdsOf
    <3>2. next.text \in TextKinds
      BY DEF InputRecord
    <3>3. asks = {AnalyzeOf(s, IdsOf(next.files), next.text)}
      BY <2>2
    <3> HIDE DEF s, asks
    <3>4. PICK ids, text, r : ids = IdsOf(next.files) /\ text = next.text /\ r = AnalyzeOf(s, ids, text)
      OBVIOUS
    <3>5. ids \in SUBSET Nat /\ text \in TextKinds
      BY <3>1, <3>2, <3>4
    <3>6. r \in Request /\ r.sub = s /\ r.cause = "sent" /\ r.file = {} /\ r.text = text /\ r.ids = ids
      BY <2>1, <3>4, <3>5 DEF AnalyzeOf, Request, Causes
    <3> QED BY <2>2, <3>3, <3>4, <3>6
  <2>3. CASE pending # {}
    <3> SUFFICES ASSUME NEW f \in pending
                 PROVE  LET r == UploadOf(s, f)
                        IN  r \in Request /\ r.sub = s /\ r.cause = "sent" /\ r.file = {f}
      BY <2>3
    <3> HIDE DEF s, pending
    <3> QED BY <1>2, <2>1 DEF UploadOf, Request, Causes, TextKinds
  <2> QED BY <2>2, <2>3
<1>4. /\ subs' \in Seq(Submission) /\ Len(subs') = s /\ DOMAIN subs' = DOMAIN subs \cup {s} /\ s \notin DOMAIN subs
      /\ subs'[s] = new /\ \A i \in DOMAIN subs : subs'[i].aborted
  <2> DEFINE old == Aborts(subs)
  <2>1. old \in Seq(Submission) /\ Len(old) = Len(subs) /\ DOMAIN old = DOMAIN subs /\ \A i \in DOMAIN subs : old[i].aborted
    BY AbortsAll
  <2>2. DOMAIN subs = 1..Len(subs) /\ Len(subs) \in Nat
    BY Domains
  <2>3. subs' = Append(old, new)
    BY <1>1
  <2> HIDE DEF old, new
  <2>4. subs' \in Seq(Submission) /\ Len(subs') = Len(subs) + 1 /\ DOMAIN subs' = 1..(Len(subs) + 1)
    BY <1>2, <2>1, <2>2, <2>3
  <2>5. subs'[s] = new /\ \A i \in DOMAIN subs : subs'[i] = old[i]
    BY <2>1, <2>2, <2>3
  <2> QED BY <2>1, <2>2, <2>4, <2>5
<1>5. /\ new.aborted = FALSE /\ new.input = next /\ new.phase = phase /\ new.waits = pending
      /\ s # 0 /\ s \in 0..Len(subs')
  BY <1>4, Domains
<1>6. Awaited' /\ subs'[ctrl'] = new /\ \A r \in net : ~Heard(r)'
  BY <1>1, <1>4, <1>5 DEF Awaited, Heard, WorkInv, WorkTyped
<1> HIDE DEF s, pending, new, asks
<1>7. WorkTyped'
  <2>1. \A r \in asks : r.sub \in DOMAIN subs' /\ (r.file # {} => \E f \in Files : r.file = {f})
    BY <1>2, <1>3, <1>4
  <2> QED BY <1>1, <1>3, <1>4, <1>5, <2>1 DEF WorkInv, WorkTyped
<1>8. OneHeard'
  <2>1. pending = {f \in next.files : held[f] = 0}
    BY DEF pending, Pending
  <2> QED BY <1>1, <1>4, <1>5, <1>6, <2>1 DEF OneHeard
<1>9. IdsKept'
  BY <1>1, <1>3 DEF WorkInv, IdsKept
<1>10. Asked'
  <2> SUFFICES ASSUME NEW r \in net', Heard(r)'
               PROVE  IF r.file # {}
                      THEN /\ \E f \in pending : r.file = {f}
                           /\ \A q \in net' : q.file = r.file /\ Heard(q)' => q = r
                      ELSE /\ phase # "upload" /\ pending = {}
                           /\ r.text = next.text /\ r.ids = IdsOf(next.files)
    BY <1>1, <1>5, <1>6 DEF Asked, IdsOf
  <2>1. r \in asks /\ \A q \in net' : Heard(q)' => q \in asks
    BY <1>1, <1>6
  <2> QED BY <1>3, <2>1
<1>11. Judged'
  BY <1>1, <1>3, <1>6 DEF Judged
<1>12. Shown'
  BY <1>1, <1>5, <1>6 DEF Shown
<1> QED BY <1>7, <1>8, <1>9, <1>10, <1>11, <1>12 DEF WorkInv

\* After Cancel and Reset nobody is heard.
LEMMA TakenBackKeeps ==
  ASSUME WorkInv, subs' = Aborts(subs), ctrl' \in {0, ctrl}, state' = Idle, UNCHANGED <<held, net, stored>>
  PROVE  WorkInv'
<1>1. /\ subs' \in Seq(Submission) /\ Len(subs') = Len(subs) /\ DOMAIN subs' = DOMAIN subs
      /\ \A s \in DOMAIN subs : subs'[s].aborted
  BY AbortsAll
<1>2. ctrl' \in 0..Len(subs') /\ (ctrl' # 0 => ctrl' \in DOMAIN subs)
  BY <1>1, Domains
<1>3. ~Awaited' /\ \A r \in net' : ~Heard(r)'
  BY <1>1, <1>2 DEF Awaited, Heard, WorkInv, WorkTyped
<1>4. WorkTyped'
  BY <1>1, <1>2 DEF WorkInv, WorkTyped
<1> QED BY <1>1, <1>3, <1>4 DEF WorkInv, OneHeard, IdsKept, Asked, Judged, Shown

LEMMA UserKeeps ==
  ASSUME WorkInv, (\E next \in Inputs : Submit(next)) \/ Retry \/ Cancel \/ Reset
  PROVE  WorkInv'
<1>1. ASSUME NEW next \in Inputs, Submit(next) PROVE WorkInv'
  BY <1>1, SubmittedKeeps, AiWorkflowAssumption DEF Submit, InputRecord
<1>2. CASE Retry
  <2>1. Awaited
    BY <1>2 DEF Retry, WorkInv, Shown, Idle
  <2> QED BY <1>2, <2>1, AwaitedTyped, SubmittedKeeps DEF Retry
<1>3. CASE Cancel
  BY <1>3, TakenBackKeeps DEF Cancel
<1>4. CASE Reset
  BY <1>4, TakenBackKeeps DEF Reset
<1> QED BY <1>1, <1>2, <1>3, <1>4

-----------------------------------------------------------------------------
LEMMA Forgets ==
  ASSUME NEW T, NEW all \in Seq(T), NEW none \in T, NEW gone, gone = [i \in DOMAIN all |-> none]
  PROVE  gone \in Seq(T) /\ DOMAIN gone = DOMAIN all /\ \A i \in DOMAIN all : gone[i] = none
<1>1. DOMAIN all = 1..Len(all) /\ Len(all) \in Nat
  OBVIOUS
<1> QED BY <1>1

\* A restart: what was stored is forgotten, and what was asked fails.
LEMMA RestartKeeps ==
  ASSUME WorkInv, Restart
  PROVE  WorkInv'
<1> DEFINE lost(r) == IF r.cause = "sent" THEN [r EXCEPT !.cause = "unreachable", !.bare = "unreachable"] ELSE r
<1>1. /\ stored' = [i \in DOMAIN stored |-> ""] /\ net' = {lost(r) : r \in net}
      /\ UNCHANGED <<state, input, subs, ctrl, held>>
  BY DEF Restart, web
<1>2. stored' \in Seq(Files \cup {""}) /\ DOMAIN stored' = DOMAIN stored /\ \A i \in DOMAIN stored : stored'[i] = ""
  <2>1. stored \in Seq(Files \cup {""}) /\ "" \in Files \cup {""}
    BY DEF WorkInv, WorkTyped
  <2> DEFINE S == Files \cup {""}
  <2> HIDE DEF S
  <2>2. stored \in Seq(S) /\ "" \in S
    BY <2>1 DEF S
  <2>3. stored' \in Seq(S) /\ DOMAIN stored' = DOMAIN stored /\ \A i \in DOMAIN stored : stored'[i] = ""
    BY <1>1, <2>2, Forgets
  <2> QED BY <2>3 DEF S
<1>3. ASSUME NEW r \in net
      PROVE  /\ lost(r) \in Request /\ lost(r).sub = r.sub /\ lost(r).file = r.file /\ lost(r).ids = r.ids
             /\ lost(r).text = r.text /\ lost(r).id = r.id
             /\ lost(r).cause = (IF r.cause = "sent" THEN "unreachable" ELSE r.cause)
             /\ lost(r).bare = (IF r.cause = "sent" THEN "unreachable" ELSE r.bare)
  <2>1. r \in Request
    BY DEF WorkInv, WorkTyped
  <2>2. CASE r.cause = "sent"
    <3>1. [r EXCEPT !.cause = "unreachable"] \in Request
      BY <2>1 DEF Request, Causes, Transient
    <3>2. \A q \in Request : [q EXCEPT !.bare = "unreachable"] \in Request
      BY DEF Request, Causes, Transient
    <3>3. lost(r) = [r EXCEPT !.cause = "unreachable", !.bare = "unreachable"]
      BY <2>2
    <3>4. lost(r) \in Request
      BY <3>1, <3>2, <3>3
    <3> HIDE DEF lost
    <3> QED BY <2>1, <2>2, <3>3, <3>4 DEF Request
  <2> QED BY <2>1, <2>2
<1> HIDE DEF lost
<1>4. \A q \in net' : \E r \in net : q = lost(r)
  BY <1>1
<1>5. WorkTyped' /\ OneHeard'
  <2>1. ASSUME NEW q \in net'
        PROVE  q \in Request /\ q.sub \in DOMAIN subs /\ (q.file # {} => \E f \in Files : q.file = {f})
    <3>1. PICK r \in net : q = lost(r)
      BY <1>4
    <3>2. r.sub \in DOMAIN subs /\ (r.file # {} => \E f \in Files : r.file = {f})
      BY DEF WorkInv, WorkTyped
    <3> QED BY <1>3, <3>1, <3>2
  <2>2. WorkTyped'
    BY <1>1, <1>2, <2>1 DEF WorkInv, WorkTyped
  <2>3. OneHeard'
    BY <1>1 DEF WorkInv, OneHeard, Awaited
  <2> QED BY <2>2, <2>3
<1>6. IdsKept'
  <2>1. \A f \in Files : held[f] # 0 => held[f] \in DOMAIN stored' /\ stored'[held[f]] \in {f, ""}
    BY <1>2 DEF WorkInv, IdsKept
  <2>2. ASSUME NEW q \in net', q.file # {}, q.cause = "ok"
        PROVE  \E f \in Files : q.file = {f} /\ q.id \in DOMAIN stored' /\ stored'[q.id] \in {f, ""}
    <3>1. PICK r \in net : q = lost(r)
      BY <1>4
    <3>2. r.file = q.file /\ r.cause = "ok" /\ r.id = q.id
      BY <1>3, <2>2, <3>1
    <3> QED BY <1>2, <2>2, <3>2 DEF WorkInv, IdsKept
  <2> QED BY <1>1, <2>1, <2>2 DEF IdsKept
<1>7. Asked'
  <2> SUFFICES ASSUME NEW q \in net', Heard(q)
               PROVE  IF q.file # {}
                      THEN /\ \E f \in subs[ctrl].waits : q.file = {f}
                           /\ \A p \in net' : p.file = q.file /\ Heard(p) => p = q
                      ELSE /\ subs[ctrl].phase # "upload" /\ subs[ctrl].waits = {}
                           /\ q.text = input.text /\ q.ids = IdsOf(input.files)
    BY <1>1 DEF Asked, Heard, IdsOf
  <2>1. PICK r \in net : q = lost(r)
    BY <1>4
  <2>2. Heard(r) /\ r.file = q.file /\ r.text = q.text /\ r.ids = q.ids
    BY <1>3, <2>1 DEF Heard
  <2>3. ASSUME q.file # {}, NEW p \in net', p.file = q.file, Heard(p) PROVE p = q
    <3>1. PICK p0 \in net : p = lost(p0)
      BY <1>4
    <3>2. Heard(p0) /\ p0.file = r.file
      BY <1>3, <2>2, <2>3, <3>1 DEF Heard
    <3>3. p0 = r
      BY <2>2, <2>3, <3>2 DEF WorkInv, Asked
    <3> QED BY <2>1, <3>1, <3>3
  <2> QED BY <2>2, <2>3 DEF WorkInv, Asked
<1>8. Awaited => (AtFault => AtFault')
  <2> SUFFICES ASSUME NEW f \in input.files, KindOf[f] # "fine" \/ held[f] # 0, Awaited
               PROVE  AtFault'
    BY <1>1 DEF AtFault
  <2>1. f \in Files
    BY AwaitedTyped DEF InputRecord
  <2>2. held[f] # 0 => stored'[held[f]] = ""
    BY <1>2, <2>1 DEF WorkInv, IdsKept
  <2> QED BY <1>1, <2>2 DEF AtFault
<1>9. Judged'
  <2> SUFFICES ASSUME NEW q \in net', Heard(q), q.cause \notin {"sent", "ok"}
               PROVE  Judges(q.cause, q.bare, AtFault')
    BY <1>1 DEF Judged, Heard, Judges
  <2>1. PICK r \in net : q = lost(r)
    BY <1>4
  <2>2. Heard(r) /\ Awaited
    BY <1>3, <2>1, HeardIsAwaited DEF Heard
  <2>3. CASE r.cause = "sent"
    BY <1>3, <2>1, <2>3 DEF Faults, Judges
  <2>4. CASE r.cause # "sent"
    BY <1>3, <1>8, <2>1, <2>2, <2>4 DEF WorkInv, Judged, Judges
  <2> QED BY <2>3, <2>4
<1>10. Shown'
  BY <1>1, <1>8 DEF WorkInv, Shown, Awaited, IdsOf
<1> QED BY <1>5, <1>6, <1>7, <1>9, <1>10 DEF WorkInv

\* The current submission changes its phase and what it waits for.
LEMMA PhaseSet ==
  ASSUME WorkInv, Awaited, NEW phase \in {"upload", "analyze", "over"}, NEW waits \in SUBSET Files,
         \/ subs' = [subs EXCEPT ![ctrl].phase = phase] /\ waits = subs[ctrl].waits
         \/ subs' = [subs EXCEPT ![ctrl].waits = waits, ![ctrl].phase = phase]
  PROVE  /\ subs' \in Seq(Submission) /\ Len(subs') = Len(subs) /\ DOMAIN subs' = DOMAIN subs
         /\ \A s \in DOMAIN subs : subs'[s].aborted = subs[s].aborted
         /\ subs'[ctrl].phase = phase /\ subs'[ctrl].waits = waits /\ subs'[ctrl].input = subs[ctrl].input
<1>1. ctrl \in DOMAIN subs /\ subs[ctrl] \in Submission /\ subs \in Seq(Submission)
  BY AwaitedTyped DEF WorkInv, WorkTyped
<1>2. [subs[ctrl] EXCEPT !.phase = phase] \in Submission /\ [subs[ctrl] EXCEPT !.waits = waits] \in Submission
  BY <1>1 DEF Submission
<1>3. \A s \in Submission : [s EXCEPT !.phase = phase] \in Submission
  BY DEF Submission
<1>4. PICK new : /\ new = [subs[ctrl] EXCEPT !.phase = phase] \/ new = [subs[ctrl] EXCEPT !.waits = waits, !.phase = phase]
                 /\ subs' = [subs EXCEPT ![ctrl] = new]
                 /\ new = [subs[ctrl] EXCEPT !.phase = phase] => waits = subs[ctrl].waits
  BY <1>1 DEF Submission
<1>5. new \in Submission
  BY <1>2, <1>3, <1>4
<1>6. new.phase = phase /\ new.waits = waits /\ new.input = subs[ctrl].input /\ new.aborted = subs[ctrl].aborted
  BY <1>1, <1>4 DEF Submission
<1> QED BY <1>1, <1>4, <1>5, <1>6
-----------------------------------------------------------------------------
\* An answer that is heard is current.
LEMMA ReadIsAwaited ==
  ASSUME WorkInv, NEW r \in net, Read(r)
  PROVE  /\ Heard(r) /\ r.sub = ctrl /\ Awaited /\ ctrl \in DOMAIN subs /\ r \in Request /\ r.cause # "sent"
         /\ subs[ctrl] \in Submission
BY HeardIsAwaited, AwaitedTyped DEF Read, Heard, WorkInv, WorkTyped

\* The first error of a submission ends it, and the later ones are not shown.
LEMMA FailedKeeps ==
  ASSUME WorkInv, NEW r \in net, Read(r), Failed(r)
  PROVE  WorkInv'
<1>0. /\ Heard(r) /\ r.sub = ctrl /\ Awaited /\ ctrl \in DOMAIN subs /\ r \in Request /\ r.cause # "sent" /\ r.cause # "ok"
      /\ net' = net \ {r} /\ UNCHANGED <<input, ctrl, held, stored>>
  BY ReadIsAwaited DEF Failed
<1>1. CASE Swallowed(r.sub)
  BY <1>0, <1>1, FewerKeeps DEF Failed, web
<1>2. CASE ~Swallowed(r.sub)
  <2>1. /\ subs' = [subs EXCEPT ![ctrl].phase = "over"]
        /\ state' = [status |-> "error", cause |-> r.cause, retryable |-> Retries(r.cause), bare |-> r.bare]
    BY <1>0, <1>2 DEF Failed
  <2>2. /\ subs' \in Seq(Submission) /\ Len(subs') = Len(subs) /\ DOMAIN subs' = DOMAIN subs
        /\ \A s \in DOMAIN subs : subs'[s].aborted = subs[s].aborted
        /\ subs'[ctrl].phase = "over" /\ subs'[ctrl].waits = subs[ctrl].waits /\ subs'[ctrl].input = subs[ctrl].input
    BY <1>0, <2>1, PhaseSet, AwaitedTyped DEF Submission
  <2>3. Awaited' /\ \A q \in net : Heard(q)' <=> Heard(q)
    BY <1>0, <2>2 DEF Awaited, Heard, WorkInv, WorkTyped
  <2>4. WorkTyped'
    BY <1>0, <2>2 DEF WorkInv, WorkTyped
  <2>5. OneHeard'
    BY <1>0, <2>2, <2>3 DEF WorkInv, OneHeard
  <2>6. IdsKept'
    BY <1>0 DEF WorkInv, IdsKept
  <2>7. Asked'
    <3> SUFFICES ASSUME NEW q \in net', Heard(q)'
                 PROVE  IF q.file # {}
                        THEN /\ \E f \in subs[ctrl].waits : q.file = {f}
                             /\ \A p \in net' : p.file = q.file /\ Heard(p)' => p = q
                        ELSE /\ "over" # "upload" /\ subs[ctrl].waits = {}
                             /\ q.text = input.text /\ q.ids = IdsOf(input.files)
      BY <1>0, <2>2 DEF Asked, IdsOf
    <3> QED BY <1>0, <2>3 DEF WorkInv, Asked
  <2>8. Judged'
    BY <1>0, <2>3 DEF WorkInv, Judged, AtFault
  <2>9. Shown'
    <3>1. state'.status = "error" /\ state'.retryable = Retries(r.cause) /\ state'.cause = r.cause /\ state'.bare = r.bare
      BY <2>1
    <3>2. Judges(r.cause, r.bare, AtFault)
      BY <1>0 DEF WorkInv, Judged
    <3>3. (r.cause \in Faults => ~Retries(r.cause)) /\ (r.cause \notin Faults => Retries(r.cause))
      BY <1>0, RetriesTransient, NoRetryOfFaults DEF Request, Causes
    <3>4. AtFault' <=> AtFault
      BY <1>0 DEF AtFault
    <3> QED BY <1>0, <2>2, <2>3, <3>1, <3>2, <3>3, <3>4 DEF Shown, Judges
  <2> QED BY <2>4, <2>5, <2>6, <2>7, <2>8, <2>9 DEF WorkInv
<1> QED BY <1>1, <1>2

\* The answer of the model ends the submission: it is about what was asked, which is the input.
LEMMA AnalyzedKeeps ==
  ASSUME WorkInv, NEW r \in net, Read(r), Analyzed(r)
  PROVE  WorkInv'
<1>0. /\ Heard(r) /\ r.sub = ctrl /\ Awaited /\ ctrl \in DOMAIN subs /\ r \in Request /\ r.file = {}
      /\ net' = net \ {r} /\ UNCHANGED <<input, ctrl, held, stored>>
      /\ subs' = [subs EXCEPT ![ctrl].phase = "over"]
      /\ state' = [status |-> "success", text |-> r.text, ids |-> r.ids]
  BY ReadIsAwaited DEF Analyzed
<1>1. subs[ctrl].waits = {} /\ r.text = input.text /\ r.ids = IdsOf(input.files)
  BY <1>0 DEF WorkInv, Asked
<1>2. /\ subs' \in Seq(Submission) /\ Len(subs') = Len(subs) /\ DOMAIN subs' = DOMAIN subs
      /\ \A s \in DOMAIN subs : subs'[s].aborted = subs[s].aborted
      /\ subs'[ctrl].phase = "over" /\ subs'[ctrl].waits = subs[ctrl].waits /\ subs'[ctrl].input = subs[ctrl].input
  BY <1>0, PhaseSet, AwaitedTyped DEF Submission
<1>3. Awaited' /\ \A q \in net : Heard(q)' <=> Heard(q)
  BY <1>0, <1>2 DEF Awaited, Heard, WorkInv, WorkTyped
<1>4. WorkTyped'
  BY <1>0, <1>2 DEF WorkInv, WorkTyped
<1>5. OneHeard'
  BY <1>0, <1>2, <1>3 DEF WorkInv, OneHeard
<1>6. IdsKept'
  BY <1>0 DEF WorkInv, IdsKept
<1>7. Asked'
  <2> SUFFICES ASSUME NEW q \in net', Heard(q)'
               PROVE  IF q.file # {}
                      THEN /\ \E f \in subs[ctrl].waits : q.file = {f}
                           /\ \A p \in net' : p.file = q.file /\ Heard(p)' => p = q
                      ELSE /\ "over" # "upload" /\ subs[ctrl].waits = {}
                           /\ q.text = input.text /\ q.ids = IdsOf(input.files)
    BY <1>0, <1>2 DEF Asked, IdsOf
  <2> QED BY <1>0, <1>3 DEF WorkInv, Asked
<1>8. Judged'
  BY <1>0, <1>3 DEF WorkInv, Judged, AtFault
<1>9. Shown'
  <2>1. state'.status = "success" /\ state'.text = input.text /\ state'.ids = IdsOf(input.files)
    BY <1>0, <1>1
  <2> QED BY <1>0, <1>1, <1>2, <1>3, <2>1 DEF Shown, IdsOf
<1> QED BY <1>4, <1>5, <1>6, <1>7, <1>8, <1>9 DEF WorkInv
\* An uploaded file is held; the last one asks the model, about the ids that are held then.
LEMMA UploadedKeeps ==
  ASSUME WorkInv, NEW r \in net, Read(r), Uploaded(r)
  PROVE  WorkInv'
<1>0. /\ Heard(r) /\ r.sub = ctrl /\ Awaited /\ ctrl \in DOMAIN subs /\ r \in Request /\ r.file # {} /\ r.cause = "ok"
      /\ UNCHANGED <<input, ctrl, stored>> /\ input = subs[ctrl].input
      /\ subs[ctrl] \in Submission /\ input \in InputRecord /\ subs[ctrl].waits \subseteq input.files
  BY ReadIsAwaited, AwaitedTyped DEF Uploaded, WorkInv, OneHeard
<1>1. PICK f \in subs[ctrl].waits : r.file = {f}
  BY <1>0 DEF WorkInv, Asked
<1>2. f \in Files /\ r.id \in DOMAIN stored /\ stored[r.id] \in {f, ""} /\ r.id # 0 /\ r.id \in Nat /\ held[f] = 0
  <2>1. f \in Files /\ held[f] = 0
    BY <1>0, <1>1 DEF WorkInv, OneHeard, InputRecord
  <2>2. r.id \in DOMAIN stored /\ stored[r.id] \in {f, ""}
    BY <1>0, <1>1 DEF WorkInv, IdsKept
  <2>3. r.id # 0 /\ r.id \in Nat
    BY <2>2, Domains
  <2> QED BY <2>1, <2>2, <2>3
<1>3. PICK waits, phase :
        /\ waits = subs[ctrl].waits \ {f}
        /\ phase = IF subs[ctrl].phase = "upload" /\ waits = {} THEN "analyze" ELSE subs[ctrl].phase
  OBVIOUS
<1>5. /\ phase \in {"upload", "analyze", "over"} /\ waits \in SUBSET Files /\ waits \subseteq input.files
      /\ subs[ctrl].phase \in {"upload", "over"} /\ (phase = "over" <=> subs[ctrl].phase = "over")
      /\ phase = "analyze" <=> (subs[ctrl].phase = "upload" /\ waits = {})
  BY <1>0, <1>1, <1>3 DEF Submission, WorkInv, OneHeard
<1>4. /\ held' = [g \in Files |-> IF g \in r.file THEN r.id ELSE held[g]]
      /\ subs' = [subs EXCEPT ![ctrl].waits = waits, ![ctrl].phase = phase]
      /\ net' = (net \ {r}) \cup
                IF phase = "analyze" THEN {AnalyzeOf(ctrl, {held'[g] : g \in input.files}, input.text)} ELSE {}
      /\ state' = IF state.status # "running" THEN state
                  ELSE Running(IF phase = "analyze" THEN "analyze" ELSE state.stage,
                               Cardinality(input.files \ waits))
  BY <1>0, <1>1, <1>3, <1>5 DEF Uploaded
<1>6. /\ subs' \in Seq(Submission) /\ Len(subs') = Len(subs) /\ DOMAIN subs' = DOMAIN subs
      /\ \A s \in DOMAIN subs : subs'[s].aborted = subs[s].aborted
      /\ subs'[ctrl].phase = phase /\ subs'[ctrl].waits = waits /\ subs'[ctrl].input = input
  BY <1>0, <1>4, <1>5, PhaseSet
<1>7. held' \in [Files -> Nat] /\ held'[f] = r.id /\ \A g \in Files \ {f} : held'[g] = held[g]
  BY <1>1, <1>2, <1>4 DEF WorkInv, WorkTyped
<1>8. Awaited' /\ \A q \in net : Heard(q)' <=> Heard(q)
  BY <1>0, <1>6 DEF Awaited, Heard, WorkInv, WorkTyped
<1>9. PICK ids, ask : ids = {held'[g] : g \in input.files} /\ ask = AnalyzeOf(ctrl, ids, input.text)
  OBVIOUS
<1>10. /\ ids = IdsOf(input.files)' /\ ask \in Request /\ ask.sub = ctrl /\ ask.cause = "sent" /\ ask.file = {}
       /\ ask.text = input.text /\ ask.ids = ids
  <2>1. ctrl \in Nat /\ input.text \in TextKinds
    BY <1>0, Domains DEF InputRecord
  <2>2. ids \in SUBSET Nat
    BY <1>0, <1>7, <1>9 DEF InputRecord
  <2>3. ids = IdsOf(input.files)'
    BY <1>0, <1>9 DEF IdsOf
  <2>4. ask = AnalyzeOf(ctrl, ids, input.text)
    BY <1>9
  <2>5. /\ ask \in Request /\ ask.sub = ctrl /\ ask.cause = "sent" /\ ask.file = {}
        /\ ask.text = input.text /\ ask.ids = ids
    BY <2>1, <2>2, <2>4 DEF AnalyzeOf, Request, Causes
  <2> QED BY <2>3, <2>5
<1>11. net' = (net \ {r}) \cup IF phase = "analyze" THEN {ask} ELSE {}
  BY <1>4, <1>9
<1>12. \A q \in net : Heard(q) => \E g \in subs[ctrl].waits : q.file = {g} /\ (q # r => g # f)
  <2> SUFFICES ASSUME NEW q \in net, Heard(q)
               PROVE  \E g \in subs[ctrl].waits : q.file = {g} /\ (q # r => g # f)
    OBVIOUS
  <2>1. subs[ctrl].waits # {}
    BY <1>1
  <2>2. \E g \in subs[ctrl].waits : q.file = {g}
    BY <2>1 DEF WorkInv, Asked
  <2>3. q.file = r.file => q = r
    BY <1>0 DEF WorkInv, Asked
  <2> QED BY <1>1, <2>2, <2>3
<1>13. WorkTyped'
  <2>1. net' \subseteq Request /\ \A q \in net' : q.sub \in DOMAIN subs /\ (q.file # {} => \E g \in Files : q.file = {g})
    BY <1>0, <1>10, <1>11 DEF WorkInv, WorkTyped
  <2> QED BY <1>0, <1>6, <1>7, <2>1 DEF WorkInv, WorkTyped
<1>14. OneHeard'
  <2>1. waits = {g \in input.files : held'[g] = 0}
    <3>1. subs[ctrl].waits = {g \in input.files : held[g] = 0}
      BY <1>0 DEF WorkInv, OneHeard
    <3> QED BY <1>0, <1>2, <1>3, <1>7, <3>1 DEF InputRecord
  <2>2. (phase = "upload" => waits # {}) /\ (phase = "analyze" => waits = {})
    BY <1>3, <1>5
  <2>3. \A s \in DOMAIN subs' : ~subs'[s].aborted => s = ctrl'
    BY <1>0, <1>6 DEF WorkInv, OneHeard
  <2> QED BY <1>0, <1>6, <2>1, <2>2, <2>3 DEF OneHeard
<1>15. IdsKept'
  <2>1. \A g \in Files : held'[g] # 0 => held'[g] \in DOMAIN stored /\ stored[held'[g]] \in {g, ""}
    BY <1>2, <1>7 DEF WorkInv, IdsKept
  <2>2. \A q \in net' : q.file # {} /\ q.cause = "ok" =>
          \E g \in Files : q.file = {g} /\ q.id \in DOMAIN stored /\ stored[q.id] \in {g, ""}
    BY <1>10, <1>11 DEF WorkInv, IdsKept
  <2> QED BY <1>0, <2>1, <2>2 DEF IdsKept
<1>16. Asked'
  <2> SUFFICES ASSUME NEW q \in net', Heard(q)'
               PROVE  IF q.file # {}
                      THEN /\ \E g \in waits : q.file = {g}
                           /\ \A p \in net' : p.file = q.file /\ Heard(p)' => p = q
                      ELSE /\ phase # "upload" /\ waits = {}
                           /\ q.text = input.text /\ q.ids = ids
    BY <1>0, <1>6, <1>10 DEF Asked
  <2>1. CASE q \in net
    <3>1. q # r /\ Heard(q)
      BY <1>8, <1>10, <1>11, <1>0, <2>1
    <3>2. PICK g \in subs[ctrl].waits : q.file = {g} /\ g # f
      BY <1>12, <2>1, <3>1
    <3>3. g \in waits /\ phase # "analyze"
      BY <1>3, <1>5, <3>2
    <3>4. \A p \in net' : p.file = q.file /\ Heard(p)' => p = q
      BY <1>8, <1>11, <2>1, <3>1, <3>2, <3>3 DEF WorkInv, Asked
    <3> QED BY <3>2, <3>3, <3>4
  <2>2. CASE q \notin net
    <3>1. q = ask /\ phase = "analyze" /\ waits = {}
      BY <1>5, <1>11, <2>2
    <3> QED BY <1>10, <3>1
  <2> QED BY <2>1, <2>2
<1>17. AtFault => AtFault'
  <2> SUFFICES ASSUME NEW g \in input.files, KindOf[g] # "fine" \/ (held[g] # 0 /\ stored[held[g]] = "")
               PROVE  AtFault'
    BY <1>0 DEF AtFault
  <2>1. held[g] # 0 => held'[g] = held[g]
    BY <1>0, <1>2, <1>7 DEF InputRecord
  <2> QED BY <1>0, <2>1 DEF AtFault
<1>18. Judged'
  <2> SUFFICES ASSUME NEW q \in net', Heard(q)', q.cause \notin {"sent", "ok"}
               PROVE  Judges(q.cause, q.bare, AtFault')
    BY DEF Judged, Judges
  <2>1. q \in net /\ Heard(q)
    BY <1>8, <1>10, <1>11
  <2> QED BY <1>17, <2>1 DEF WorkInv, Judged, Judges
<1>19. Shown'
  <2>1. CASE phase # "over"
    <3>1. state = Running("upload", Cardinality(input.files \ subs[ctrl].waits))
      BY <1>0, <1>5, <2>1 DEF WorkInv, Shown
    <3>2. state.status = "running" /\ state.stage = "upload"
      BY <3>1 DEF Running
    <3>3. state' = Running(phase, Cardinality(input.files \ waits))
      BY <1>3, <1>4, <1>5, <2>1, <3>2
    <3> QED BY <1>0, <1>6, <1>8, <2>1, <3>3 DEF Shown
  <2>2. CASE phase = "over"
    <3>1. /\ state.status = "error" /\ (state.bare = "ok" => ~state.retryable)
          /\ state.retryable => state.bare = state.cause
          /\ ~state.retryable => AtFault \/ state.bare \in {"rejected", "blocked"}
      BY <1>0, <1>1, <1>5, <2>2 DEF WorkInv, Shown
    <3>2. state' = state
      BY <1>4, <3>1
    <3> QED BY <1>0, <1>6, <1>8, <1>17, <2>2, <3>1, <3>2 DEF Shown
  <2> QED BY <2>1, <2>2
<1> QED BY <1>13, <1>14, <1>15, <1>16, <1>18, <1>19 DEF WorkInv

-----------------------------------------------------------------------------
LEMMA InitWorkInv == WorkflowInit => WorkInv
<1> SUFFICES ASSUME WorkflowInit PROVE WorkInv
  OBVIOUS
<1>1. /\ state = Idle /\ subs = <<>> /\ ctrl = 0 /\ held = [f \in Files |-> 0] /\ net = {} /\ stored = <<>>
  BY DEF WorkflowInit
<1>2. WorkTyped
  <2>1. subs \in Seq(Submission) /\ Len(subs) = 0 /\ stored \in Seq(Files \cup {""})
    BY <1>1
  <2> QED BY <1>1, <2>1 DEF WorkTyped
<1>3. OneHeard
  BY <1>1 DEF OneHeard, Awaited
<1> QED BY <1>1, <1>2, <1>3 DEF WorkInv, IdsKept, Asked, Judged, Shown, Awaited

LEMMA WorkInvKept == WorkInv /\ [WorkflowNext]_workflowVars => WorkInv'
<1> SUFFICES ASSUME WorkInv, [WorkflowNext]_workflowVars PROVE WorkInv'
  OBVIOUS
<1>1. CASE UNCHANGED workflowVars
  BY <1>1, FewerKeeps DEF workflowVars
<1>2. CASE (\E next \in Inputs : Submit(next)) \/ Retry \/ Cancel \/ Reset
  BY <1>2, UserKeeps
<1>3. CASE Restart
  BY <1>3, RestartKeeps
<1>4. ASSUME NEW r \in net, Serve(r) PROVE WorkInv'
  BY <1>4, ServeKeeps
<1>5. ASSUME NEW r \in net, Hear(r) PROVE WorkInv'
  <2>1. CASE Unread(r)
    BY <2>1, FewerKeeps DEF Unread
  <2>2. CASE Read(r) /\ Failed(r)
    BY <2>2, FailedKeeps
  <2>3. CASE Read(r) /\ Uploaded(r)
    BY <2>3, UploadedKeeps
  <2>4. CASE Read(r) /\ Analyzed(r)
    BY <2>4, AnalyzedKeeps
  <2> QED BY <1>5, <2>1, <2>2, <2>3, <2>4 DEF Hear
<1> QED BY <1>1, <1>2, <1>3, <1>4, <1>5 DEF WorkflowNext

\* The count of what is no longer waited for is that of what is held.
LEMMA HonestOfInv == WorkInv => HonestProgress
<1> SUFFICES ASSUME WorkInv, state.status = "running"
             PROVE  /\ state.uploaded = Cardinality({f \in input.files : held[f] # 0})
                    /\ state.stage = (IF state.uploaded = Cardinality(input.files) THEN "analyze" ELSE "upload")
  BY DEF HonestProgress
<1>1. Awaited /\ subs[ctrl].phase # "over"
  BY DEF WorkInv, Shown, Idle
<1>2. /\ ctrl \in DOMAIN subs /\ subs[ctrl] \in Submission /\ input \in InputRecord
      /\ subs[ctrl].waits \subseteq input.files
  BY <1>1, AwaitedTyped
<1>3. state = Running(subs[ctrl].phase, Cardinality(input.files \ subs[ctrl].waits))
  BY <1>1 DEF WorkInv, Shown
<1>4. subs[ctrl].waits = {f \in input.files : held[f] = 0}
  BY <1>1 DEF WorkInv, OneHeard
<1>5. input.files \ subs[ctrl].waits = {f \in input.files : held[f] # 0}
  BY <1>4
<1>6. state.uploaded = Cardinality(input.files \ subs[ctrl].waits) /\ state.stage = subs[ctrl].phase
  BY <1>3 DEF Running
<1>7. IsFiniteSet(input.files)
  BY <1>2, AiWorkflowAssumption, FS_Subset DEF InputRecord
<1>8. CASE subs[ctrl].phase = "upload"
  <2>1. subs[ctrl].waits # {} /\ subs[ctrl].waits \subseteq input.files
    BY <1>1, <1>2, <1>8 DEF WorkInv, OneHeard
  <2>2. /\ Cardinality(input.files \ subs[ctrl].waits) <= Cardinality(input.files)
        /\ Cardinality(input.files) = Cardinality(input.files \ subs[ctrl].waits) =>
              input.files \ subs[ctrl].waits = input.files
    BY <1>7, FS_Subset
  <2> QED BY <1>5, <1>6, <1>8, <2>1, <2>2
<1>9. CASE subs[ctrl].phase = "analyze"
  <2>1. subs[ctrl].waits = {}
    BY <1>1, <1>9 DEF WorkInv, OneHeard
  <2>2. input.files \ subs[ctrl].waits = input.files
    BY <2>1
  <2> QED BY <1>5, <1>6, <1>9, <2>2
<1> QED BY <1>1, <1>2, <1>8, <1>9 DEF Submission

LEMMA ResultOfInv == WorkInv => ResultOfInput
<1> SUFFICES ASSUME WorkInv, state.status = "success"
             PROVE  /\ state.text = input.text /\ state.ids = IdsOf(input.files)
                    /\ \A f \in input.files : held[f] # 0 /\ stored[held[f]] \in {f, ""}
  BY DEF ResultOfInput
<1>1. Awaited
  BY DEF WorkInv, Shown, Idle
<1>2. subs[ctrl].phase = "over"
  BY <1>1, AwaitedTyped DEF WorkInv, Shown, Running
<1>3. state.text = input.text /\ state.ids = IdsOf(input.files) /\ subs[ctrl].waits = {}
  BY <1>1, <1>2 DEF WorkInv, Shown
<1>4. \A f \in input.files : held[f] # 0 /\ f \in Files
  BY <1>1, <1>3, AwaitedTyped DEF WorkInv, OneHeard, InputRecord
<1> QED BY <1>3, <1>4 DEF WorkInv, IdsKept

LEMMA NoSecondOfInv == WorkInv => NoSecondUpload
<1> SUFFICES ASSUME WorkInv, NEW r \in net, r.file # {}, Heard(r)
             PROVE  /\ \A f \in r.file : held[f] = 0
                    /\ \A q \in net : q.file = r.file /\ Heard(q) => q = r
  BY DEF NoSecondUpload, Heard
<1>1. \E f \in subs[ctrl].waits : r.file = {f}
  BY DEF WorkInv, Asked
<1>2. \A f \in subs[ctrl].waits : held[f] = 0
  BY HeardIsAwaited DEF WorkInv, OneHeard
<1> QED BY <1>1, <1>2 DEF WorkInv, Asked

\* What the web page shows and sends is about the input on it, whatever was submitted, taken back and
\* submitted again before, and whichever late answers still arrive.
THEOREM PageShowsItsInput == WorkflowInit /\ [][WorkflowNext]_workflowVars => []ShowsItsInput
BY InitWorkInv, WorkInvKept, HonestOfInv, ResultOfInv, NoSecondOfInv, PTL DEF ShowsItsInput

LEMMA RetryOfInv == WorkInv => RetryWhereItHelps
<1> SUFFICES ASSUME WorkInv, state.status = "error"
             PROVE  /\ state.bare = "ok" => ~state.retryable
                    /\ state.retryable => state.bare = state.cause
                    /\ ~state.retryable => AtFault \/ state.bare \in {"rejected", "blocked"}
  BY DEF RetryWhereItHelps
<1>1. Awaited
  BY DEF WorkInv, Shown, Idle
<1>2. subs[ctrl].phase = "over"
  BY <1>1, AwaitedTyped DEF WorkInv, Shown, Running
<1> QED BY <1>1, <1>2 DEF WorkInv, Shown

\* "Try again" is offered where it can help: through the model call, the API's mapping of its errors and
\* the page's reading of them, whatever else failed, was taken back or was forgotten in the meantime.
THEOREM RetryIsOfferedWhereItHelps == WorkflowInit /\ [][WorkflowNext]_workflowVars => []RetryWhereItHelps
BY InitWorkInv, WorkInvKept, RetryOfInv, PTL

-----------------------------------------------------------------------------
(* The capture of submissions: Capture. *)
Call == [r : Requests, t : Nat, at : {"reading", "lost", "open"}, answered : BOOLEAN]
Post == [kind : {"start", "end"}, id : Nat, of : Nat]
Entry == [method : {"GET", "POST"}, t : Nat, end : Nat]
Timers == {NoTimer} \cup (Nat \X {"window", "finish"})
Gathering == [t0 : Nat, form : Forms, reqs : SUBSET Nat, last : Nat, timer : Timers]

\* Capture c reports when its timer fires.
Finishing(c) == c.timer # NoTimer /\ c.timer[2] = "finish"
IsAbout(p, made) == p.id \in made /\ (p.kind = "end" => p.of = p.id)
IsOf(entry, id) == entry.method = calls[id].r.method /\ entry.t = calls[id].t /\ entry.end \in {0, id}

CaptureTyped ==
    /\ now \in Nat /\ calls \in Seq(Call) /\ posts \in Seq(Post)
    /\ DOMAIN known \subseteq DOMAIN calls /\ \A id \in DOMAIN known : known[id] \in Entry
    /\ \A n \in DOMAIN active : active[n] \in Gathering /\ active[n].reqs \subseteq DOMAIN calls

\* An end carries the answer of its own call, and the pipeline knows each request as it was called.
EndsAreOwn ==
    /\ \A i \in DOMAIN posts : IsAbout(posts[i], DOMAIN calls)
    /\ \A id \in DOMAIN known : IsOf(known[id], id)

\* A capture holds every request known around its submit, and no other; whenever one of them starts or
\* ends it is scheduled anew, so that what it is about to report has ended.
GathersOwn ==
    \A n \in DOMAIN active :
        /\ \A id \in DOMAIN known : Belongs(active[n], known[id]) => id \in active[n].reqs
        /\ \A id \in active[n].reqs : Belongs(active[n], [method |-> calls[id].r.method, t |-> calls[id].t, end |-> 0])
EndedBeforeReport ==
    \A n \in DOMAIN active : Finishing(active[n]) =>
        \A id \in active[n].reqs \cap DOMAIN known : known[id].end # 0

CaptureInv == CaptureTyped /\ EndsAreOwn /\ GathersOwn /\ EndedBeforeReport

-----------------------------------------------------------------------------
\* Belongs looks at the time of the submit, and at the method and the time of the request.
LEMMA SameBelongs ==
  ASSUME NEW c, NEW d, NEW q, NEW r, c.t0 = d.t0, q.method = r.method, q.t = r.t, Belongs(c, q)
  PROVE  Belongs(d, r)
BY DEF Belongs

LEMMA SettlesTyped ==
  ASSUME now \in Nat, NEW time \in Nat, NEW does \in {"window", "finish"}
  PROVE  /\ TimerAt(time, does) \in Timers /\ TimerAt(time, does)[2] = does
<1>1. Max2(now, time) \in Nat
  BY DEF Max2
<1> QED BY <1>1 DEF TimerAt, Timers

LEMMA SchedulesRight ==
  ASSUME now \in Nat, NEW c \in Gathering, NEW table
  PROVE  /\ Scheduled(c, table) \in Gathering
         /\ Scheduled(c, table).t0 = c.t0 /\ Scheduled(c, table).reqs = c.reqs
         /\ Finishing(Scheduled(c, table)) =>
                \A id \in c.reqs \cap DOMAIN table : table[id].end # 0
<1> DEFINE reqs == c.reqs \cap DOMAIN table
           timer == IF reqs = {} THEN TimerAt(c.t0 + After, "window")
                    ELSE IF \E id \in reqs : table[id].end = 0 THEN NoTimer
                    ELSE TimerAt(c.last + Settle, "finish")
<1>1. c.t0 + After \in Nat /\ c.last + Settle \in Nat
  BY CaptureAssumption DEF Gathering
<1>2. timer \in Timers
  BY <1>1, SettlesTyped DEF Timers
<1>3. timer # NoTimer /\ timer[2] = "finish" => \A id \in reqs : table[id].end # 0
  BY <1>1, SettlesTyped
<1>4. Scheduled(c, table) = [c EXCEPT !.timer = timer]
  BY DEF Scheduled
<1> HIDE DEF timer
<1>5. /\ [c EXCEPT !.timer = timer] \in Gathering
      /\ [c EXCEPT !.timer = timer].t0 = c.t0 /\ [c EXCEPT !.timer = timer].reqs = c.reqs
      /\ [c EXCEPT !.timer = timer].timer = timer
  BY <1>2 DEF Gathering
<1> QED BY <1>3, <1>4, <1>5 DEF Finishing

LEMMA TouchesRight ==
  ASSUME now \in Nat, NEW c \in Gathering, NEW table
  PROVE  /\ Touched(c, table) \in Gathering
         /\ Touched(c, table).t0 = c.t0 /\ Touched(c, table).reqs = c.reqs
         /\ Finishing(Touched(c, table)) =>
                \A id \in c.reqs \cap DOMAIN table : table[id].end # 0
<1>1. Max2(c.last, now) \in Nat
  BY DEF Max2, Gathering
<1>2. PICK d : d = [c EXCEPT !.last = Max2(c.last, now)]
  OBVIOUS
<1>3. d \in Gathering /\ d.t0 = c.t0 /\ d.reqs = c.reqs
  BY <1>1, <1>2 DEF Gathering
<1>4. Touched(c, table) = Scheduled(d, table)
  BY <1>2 DEF Touched
<1> QED BY <1>3, <1>4, SchedulesRight

-----------------------------------------------------------------------------
(* The hook's steps. *)

LEMMA PostsJoin ==
  ASSUME NEW s \in Seq(Post), NEW u \in Seq(Post)
  PROVE  /\ s \o u \in Seq(Post)
         /\ \A i \in DOMAIN (s \o u) : (\E j \in DOMAIN s : (s \o u)[i] = s[j]) \/ (\E j \in DOMAIN u : (s \o u)[i] = u[j])
OBVIOUS

\* While calls are made and answered, what was known of them stays true.
LEMMA CallsKeep ==
  ASSUME CaptureInv, calls' \in Seq(Call), DOMAIN calls \subseteq DOMAIN calls',
         \A id \in DOMAIN calls : calls'[id].r = calls[id].r /\ calls'[id].t = calls[id].t,
         posts' \in Seq(Post), \A i \in DOMAIN posts' : IsAbout(posts'[i], DOMAIN calls'),
         now' = now, known' = known, active' = active
  PROVE  CaptureInv'
<1>1. CaptureTyped'
  BY DEF CaptureInv, CaptureTyped
<1>2. EndsAreOwn'
  BY DEF CaptureInv, CaptureTyped, EndsAreOwn, IsOf
<1>3. GathersOwn'
  <2>1. ASSUME NEW n \in DOMAIN active, NEW id \in active[n].reqs
        PROVE  Belongs(active[n], [method |-> calls'[id].r.method, t |-> calls'[id].t, end |-> 0])
    BY <2>1 DEF CaptureInv, CaptureTyped, GathersOwn
  <2> QED BY <2>1 DEF CaptureInv, GathersOwn, Belongs
<1>4. EndedBeforeReport'
  BY DEF CaptureInv, EndedBeforeReport, Finishing, NoTimer
<1> QED BY <1>1, <1>2, <1>3, <1>4 DEF CaptureInv

LEMMA SendKeeps == ASSUME CaptureInv, NEW r \in Requests, Send(r) PROVE CaptureInv'
<1>1. now' = now /\ known' = known /\ active' = active
  BY DEF Send
<1>2. CASE mode.hook
  <2>1. calls' = calls /\ posts' = posts
    BY <1>2 DEF Send
  <2> QED BY <1>1, <2>1, CallsKeep DEF CaptureInv, CaptureTyped, EndsAreOwn, IsAbout
<1>3. CASE ~mode.hook
  <2>1. PICK call : call = [r |-> r, t |-> now, at |-> Reached(r), answered |-> FALSE]
    OBVIOUS
  <2>2. call \in Call
    BY <2>1 DEF Call, CaptureInv, CaptureTyped, Reached
  <2>3. calls' = Append(calls, call)
    BY <1>3, <2>1 DEF Send
  <2>4. /\ calls' \in Seq(Call) /\ DOMAIN calls \subseteq DOMAIN calls' /\ Len(calls) + 1 \in DOMAIN calls'
        /\ \A id \in DOMAIN calls : calls'[id] = calls[id]
    BY <2>2, <2>3 DEF CaptureInv, CaptureTyped
  <2>5. PICK post : post = StartOf(Len(calls) + 1)
    OBVIOUS
  <2>6. post \in Post /\ post.kind = "start" /\ post.id = Len(calls) + 1
    BY <2>5 DEF StartOf, Post, CaptureInv, CaptureTyped
  <2>7. posts' = posts \/ posts' = Append(posts, post)
    BY <1>3, <2>5 DEF Send
  <2>8. posts' \in Seq(Post) /\ \A i \in DOMAIN posts' : posts'[i] = post \/ \E j \in DOMAIN posts : posts'[i] = posts[j]
    BY <2>6, <2>7 DEF CaptureInv, CaptureTyped
  <2>9. \A i \in DOMAIN posts' : IsAbout(posts'[i], DOMAIN calls')
    BY <2>4, <2>6, <2>8 DEF CaptureInv, EndsAreOwn, IsAbout
  <2> QED BY <1>1, <2>4, <2>8, <2>9, CallsKeep
<1> QED BY <1>2, <1>3

\* An end is posted by the call whose answer it carries: no XMLHttpRequest is used again.
LEMMA EndsRight ==
  ASSUME CaptureInv, ~Reused, NEW id \in DOMAIN calls
  PROVE  /\ id \in Nat /\ StartOf(id) \in Post /\ EndOf(id, id) \in Post
         /\ Ends(id) = <<>> \/ Ends(id) = <<EndOf(id, id)>>
         /\ IsAbout(StartOf(id), DOMAIN calls) /\ IsAbout(EndOf(id, id), DOMAIN calls)
<1>1. id \in Nat
  BY DEF CaptureInv, CaptureTyped
<1> QED BY <1>1 DEF StartOf, EndOf, Post, Ends, IsAbout

LEMMA PostedKeeps ==
  ASSUME CaptureInv, NEW id \in DOMAIN calls, NEW call \in Call,
         call.r = calls[id].r, call.t = calls[id].t, calls' = [calls EXCEPT ![id] = call],
         NEW new \in Seq(Post), \A i \in DOMAIN new : IsAbout(new[i], DOMAIN calls), posts' = posts \o new,
         now' = now, known' = known, active' = active
  PROVE  CaptureInv'
<1>1. /\ calls' \in Seq(Call) /\ DOMAIN calls = DOMAIN calls'
      /\ \A i \in DOMAIN calls : calls'[i].r = calls[i].r /\ calls'[i].t = calls[i].t
  BY DEF CaptureInv, CaptureTyped
<1>2. /\ posts' \in Seq(Post)
      /\ \A i \in DOMAIN posts' : (\E j \in DOMAIN posts : posts'[i] = posts[j]) \/ (\E j \in DOMAIN new : posts'[i] = new[j])
  BY PostsJoin DEF CaptureInv, CaptureTyped
<1>3. \A i \in DOMAIN posts' : IsAbout(posts'[i], DOMAIN calls')
  BY <1>1, <1>2 DEF CaptureInv, EndsAreOwn, IsAbout
<1> QED BY <1>1, <1>2, <1>3, CallsKeep

LEMMA BodyReadKeeps == ASSUME CaptureInv, ~Reused, NEW id \in DOMAIN calls, BodyRead(id) PROVE CaptureInv'
<1>1. PICK call : call = [calls[id] EXCEPT !.at = "open"]
  OBVIOUS
<1>2. calls[id] \in Call
  BY DEF CaptureInv, CaptureTyped
<1>3. call \in Call /\ call.r = calls[id].r /\ call.t = calls[id].t
  BY <1>1, <1>2 DEF Call
<1>4. calls' = [calls EXCEPT ![id] = call] /\ now' = now /\ known' = known /\ active' = active
  BY <1>1 DEF BodyRead
<1>5. PICK new : /\ posts' = posts \o new
                 /\ new = <<StartOf(id)>> \/ new = <<StartOf(id), EndOf(id, id)>>
  <2>1. posts \in Seq(Post) /\ StartOf(id) \in Post /\ EndOf(id, id) \in Post
    BY EndsRight DEF CaptureInv, CaptureTyped
  <2>2. posts' = posts \o <<StartOf(id)>> \o <<>> \/ posts' = posts \o <<StartOf(id)>> \o <<EndOf(id, id)>>
    BY DEF BodyRead
  <2>3. /\ posts \o <<StartOf(id)>> \o <<>> = posts \o <<StartOf(id)>>
        /\ posts \o <<StartOf(id)>> \o <<EndOf(id, id)>> = posts \o <<StartOf(id), EndOf(id, id)>>
    BY <2>1
  <2> QED BY <2>2, <2>3
<1>6. new \in Seq(Post) /\ \A i \in DOMAIN new : IsAbout(new[i], DOMAIN calls)
  <2>1. CASE new = <<StartOf(id)>>
    BY <2>1, EndsRight
  <2>2. CASE new = <<StartOf(id), EndOf(id, id)>>
    BY <2>2, EndsRight
  <2> QED BY <1>5, <2>1, <2>2
<1> QED BY <1>3, <1>4, <1>5, <1>6, PostedKeeps

LEMMA RespondsKeeps == ASSUME CaptureInv, ~Reused, NEW id \in DOMAIN calls, Responds(id) PROVE CaptureInv'
<1>1. PICK call : call = [calls[id] EXCEPT !.answered = TRUE]
  OBVIOUS
<1>2. calls[id] \in Call
  BY DEF CaptureInv, CaptureTyped
<1>3. call \in Call /\ call.r = calls[id].r /\ call.t = calls[id].t
  BY <1>1, <1>2 DEF Call
<1>4. calls' = [calls EXCEPT ![id] = call] /\ now' = now /\ known' = known /\ active' = active
  BY <1>1 DEF Responds
<1>5. PICK new : posts' = posts \o new /\ new = Ends(id)
  BY DEF Responds
<1>6. new \in Seq(Post) /\ \A i \in DOMAIN new : IsAbout(new[i], DOMAIN calls)
  <2>1. CASE new = <<>>
    BY <2>1
  <2>2. CASE new = <<EndOf(id, id)>>
    BY <2>2, EndsRight
  <2> QED BY <1>5, <2>1, <2>2, EndsRight
<1> QED BY <1>3, <1>4, <1>5, <1>6, PostedKeeps

-----------------------------------------------------------------------------
(* The pipeline's steps. *)

\* What a capture must be, by itself, for the requests that are known.
Sound(c, table) ==
    /\ c \in Gathering /\ c.reqs \subseteq DOMAIN calls
    /\ \A id \in DOMAIN table : Belongs(c, table[id]) => id \in c.reqs
    /\ \A id \in c.reqs : Belongs(c, [method |-> calls[id].r.method, t |-> calls[id].t, end |-> 0])
    /\ Finishing(c) => \A id \in c.reqs \cap DOMAIN table : table[id].end # 0

LEMMA SoundOfInv == ASSUME CaptureInv, NEW n \in DOMAIN active PROVE Sound(active[n], known)
BY DEF CaptureInv, CaptureTyped, GathersOwn, EndedBeforeReport, Sound

LEMMA InvOfSound ==
  ASSUME CaptureInv, now' = now, calls' = calls, posts' \in Seq(Post),
         \A i \in DOMAIN posts' : \E j \in DOMAIN posts : posts'[i] = posts[j],
         DOMAIN known' \subseteq DOMAIN calls, \A id \in DOMAIN known' : known'[id] \in Entry /\ IsOf(known'[id], id),
         \A n \in DOMAIN active' : Sound(active'[n], known')
  PROVE  CaptureInv'
<1>1. CaptureTyped'
  BY DEF CaptureInv, CaptureTyped, Sound
<1>2. EndsAreOwn'
  BY DEF CaptureInv, EndsAreOwn, IsOf, IsAbout
<1>3. GathersOwn'
  BY DEF GathersOwn, Sound, Belongs
<1>4. EndedBeforeReport'
  BY DEF EndedBeforeReport, Sound, Finishing, NoTimer
<1> QED BY <1>1, <1>2, <1>3, <1>4 DEF CaptureInv

\* A capture that is scheduled anew reports only what has ended.
LEMMA ScheduledSound ==
  ASSUME now \in Nat, NEW c \in Gathering, NEW table, NEW d, d = Scheduled(c, table) \/ d = Touched(c, table),
         c.reqs \subseteq DOMAIN calls,
         \A id \in DOMAIN table : Belongs(c, table[id]) => id \in c.reqs,
         \A id \in c.reqs : Belongs(c, [method |-> calls[id].r.method, t |-> calls[id].t, end |-> 0])
  PROVE  Sound(d, table)
<1>1. /\ d \in Gathering /\ d.t0 = c.t0 /\ d.reqs = c.reqs
      /\ Finishing(d) => \A id \in c.reqs \cap DOMAIN table : table[id].end # 0
  BY SchedulesRight, TouchesRight
<1>2. ASSUME NEW id \in DOMAIN table, Belongs(d, table[id]) PROVE id \in d.reqs
  BY <1>1, <1>2, SameBelongs
<1>3. ASSUME NEW id \in d.reqs
      PROVE  Belongs(d, [method |-> calls[id].r.method, t |-> calls[id].t, end |-> 0])
  BY <1>1, <1>3, SameBelongs
<1> QED BY <1>1, <1>2, <1>3 DEF Sound

LEMMA TriggerKeeps == ASSUME CaptureInv, NEW form \in Forms, Trigger(form) PROVE CaptureInv'
<1>1. now' = now /\ calls' = calls /\ posts' = posts /\ known' = known
  BY DEF Trigger
<1>2. PICK own : own = {id \in DOMAIN known : Belongs([t0 |-> now, form |-> form, reqs |-> {}, last |-> now, timer |-> NoTimer], known[id])}
  OBVIOUS
<1>3. PICK c : c = [t0 |-> now, form |-> form, reqs |-> own, last |-> now, timer |-> NoTimer]
  OBVIOUS
<1>4. \A n \in DOMAIN active' : active'[n] = Scheduled(c, known) \/ (n \in DOMAIN active /\ active'[n] = active[n])
  <2>1. [[t0 |-> now, form |-> form, reqs |-> {}, last |-> now, timer |-> NoTimer] EXCEPT !.reqs = own] = c
    BY <1>3
  <2>2. active' = [n \in DOMAIN active \cup {submits + 1} |-> IF n = submits + 1 THEN Scheduled(c, known) ELSE active[n]]
    BY <1>2, <2>1 DEF Trigger
  <2> QED BY <2>2
<1>5. own \subseteq DOMAIN calls /\ DOMAIN calls \subseteq Nat /\ now \in Nat
  BY <1>2 DEF CaptureInv, CaptureTyped
<1>6. c \in Gathering /\ c.reqs = own /\ c.t0 = now
  BY <1>3, <1>5 DEF Gathering, Timers
<1>7. \A id \in DOMAIN known : Belongs(c, known[id]) => id \in c.reqs
  BY <1>2, <1>6 DEF Belongs
<1>8. \A id \in c.reqs : Belongs(c, [method |-> calls[id].r.method, t |-> calls[id].t, end |-> 0])
  BY <1>2, <1>6 DEF Belongs, CaptureInv, EndsAreOwn, IsOf
<1>9. Sound(Scheduled(c, known), known)
  BY <1>5, <1>6, <1>7, <1>8, ScheduledSound
<1>10. \A n \in DOMAIN active' : Sound(active'[n], known')
  BY <1>1, <1>4, <1>9, SoundOfInv
<1> QED BY <1>1, <1>10, InvOfSound DEF CaptureInv, CaptureTyped, EndsAreOwn

LEMMA StartKeeps ==
  ASSUME CaptureInv, NEW id \in DOMAIN calls, OnReqStart(id), now' = now, calls' = calls,
         posts' \in Seq(Post), \A i \in DOMAIN posts' : \E j \in DOMAIN posts : posts'[i] = posts[j]
  PROVE  CaptureInv'
<1>1. CASE ~calls[id].r.app
  <2>1. known' = known /\ active' = active
    BY <1>1 DEF OnReqStart
  <2> QED BY <2>1, SoundOfInv, InvOfSound DEF CaptureInv, CaptureTyped, EndsAreOwn
<1>2. CASE calls[id].r.app
  <2>1. PICK request : request = [method |-> calls[id].r.method, t |-> calls[id].t, end |-> 0]
    OBVIOUS
  <2>2. calls[id] \in Call /\ id \in Nat /\ now \in Nat
    BY DEF CaptureInv, CaptureTyped
  <2>3. request \in Entry /\ IsOf(request, id) /\ request.end = 0
    BY <2>1, <2>2, CaptureAssumption DEF Entry, IsOf, Call
  <2>4. PICK table : table = [i \in DOMAIN known \cup {id} |-> IF i = id THEN request ELSE known[i]]
    OBVIOUS
  <2>5. /\ known' = Pruned(table)
        /\ active' = [n \in DOMAIN active |->
                         IF Belongs(active[n], request)
                         THEN Touched([active[n] EXCEPT !.reqs = @ \cup {id}], known') ELSE active[n]]
    BY <1>2, <2>1, <2>4 DEF OnReqStart
  <2>6. /\ DOMAIN known' \subseteq DOMAIN known \cup {id}
        /\ \A i \in DOMAIN known' : known'[i] = IF i = id THEN request ELSE known[i]
    BY <2>4, <2>5 DEF Pruned
  <2>7. /\ DOMAIN known' \subseteq DOMAIN calls
        /\ \A i \in DOMAIN known' : known'[i] \in Entry /\ IsOf(known'[i], i)
    BY <2>3, <2>6 DEF CaptureInv, CaptureTyped, EndsAreOwn
  <2>8. ASSUME NEW n \in DOMAIN active PROVE Sound(active'[n], known')
    <3>1. Sound(active[n], known)
      BY SoundOfInv
    <3>2. CASE Belongs(active[n], request)
      <4>1. PICK c : c = [active[n] EXCEPT !.reqs = active[n].reqs \cup {id}]
        OBVIOUS
      <4>2. c \in Gathering /\ c.reqs = active[n].reqs \cup {id} /\ c.t0 = active[n].t0
        BY <2>2, <3>1, <4>1 DEF Sound, Gathering
      <4>3. active'[n] = Touched(c, known')
        BY <2>5, <3>2, <4>1
      <4>4. ASSUME NEW i \in DOMAIN known', Belongs(c, known'[i]) PROVE i \in c.reqs
        <5>1. CASE i = id
          BY <4>2, <5>1
        <5>2. CASE i # id
          <6>1. i \in DOMAIN known /\ known'[i] = known[i]
            BY <2>6, <5>2
          <6>2. Belongs(active[n], known[i])
            BY <4>2, <4>4, <6>1, SameBelongs
          <6> QED BY <3>1, <4>2, <6>1, <6>2 DEF Sound
        <5> QED BY <5>1, <5>2
      <4>5. ASSUME NEW i \in c.reqs
            PROVE  Belongs(c, [method |-> calls[i].r.method, t |-> calls[i].t, end |-> 0])
        <5>1. Belongs(active[n], [method |-> calls[i].r.method, t |-> calls[i].t, end |-> 0])
          BY <2>1, <3>1, <3>2, <4>2 DEF Sound
        <5> QED BY <4>2, <5>1, SameBelongs
      <4>6. c.reqs \subseteq DOMAIN calls
        BY <3>1, <4>2 DEF Sound
      <4> QED BY <2>2, <4>2, <4>3, <4>4, <4>5, <4>6, ScheduledSound
    <3>3. CASE ~Belongs(active[n], request)
      <4>1. active'[n] = active[n]
        BY <2>5, <3>3
      <4>2. id \notin active[n].reqs
        BY <2>1, <3>1, <3>3 DEF Sound
      <4>3. \A i \in DOMAIN known' : Belongs(active[n], known'[i]) => i # id
        BY <2>6, <3>3
      <4>4. \A i \in DOMAIN known' : i # id => i \in DOMAIN known /\ known'[i] = known[i]
        BY <2>6
      <4> QED BY <3>1, <4>1, <4>2, <4>3, <4>4 DEF Sound
    <3> QED BY <3>2, <3>3
  <2>9. DOMAIN active' = DOMAIN active
    BY <2>5
  <2> QED BY <2>7, <2>8, <2>9, InvOfSound
<1> QED BY <1>1, <1>2

LEMMA EndKeeps ==
  ASSUME CaptureInv, NEW id \in DOMAIN calls, OnReqEnd(id, id), now' = now, calls' = calls,
         posts' \in Seq(Post), \A i \in DOMAIN posts' : \E j \in DOMAIN posts : posts'[i] = posts[j]
  PROVE  CaptureInv'
<1>1. CASE id \notin DOMAIN known
  <2>1. known' = known /\ active' = active
    BY <1>1 DEF OnReqEnd
  <2> QED BY <2>1, SoundOfInv, InvOfSound DEF CaptureInv, CaptureTyped, EndsAreOwn
<1>2. CASE id \in DOMAIN known
  <2>1. id \in Nat /\ id # 0 /\ now \in Nat /\ known[id] \in Entry
    BY <1>2 DEF CaptureInv, CaptureTyped
  <2>2. PICK entry : entry = [known[id] EXCEPT !.end = id]
    OBVIOUS
  <2>3. entry \in Entry /\ entry.end = id /\ entry.method = known[id].method /\ entry.t = known[id].t
    BY <2>1, <2>2 DEF Entry
  <2>4. /\ known' = [known EXCEPT ![id] = entry]
        /\ active' = [n \in DOMAIN active |-> IF id \in active[n].reqs THEN Touched(active[n], known') ELSE active[n]]
    BY <1>2, <2>2 DEF OnReqEnd
  <2>5. /\ DOMAIN known' = DOMAIN known
        /\ \A i \in DOMAIN known : known'[i] = IF i = id THEN entry ELSE known[i]
    BY <2>4
  <2>6. /\ DOMAIN known' \subseteq DOMAIN calls
        /\ \A i \in DOMAIN known' : known'[i] \in Entry /\ IsOf(known'[i], i)
    BY <2>3, <2>5 DEF CaptureInv, CaptureTyped, EndsAreOwn, IsOf
  <2>7. ASSUME NEW n \in DOMAIN active PROVE Sound(active'[n], known')
    <3>1. Sound(active[n], known)
      BY SoundOfInv
    <3>2. \A i \in DOMAIN known' : Belongs(active[n], known'[i]) => i \in active[n].reqs
      <4>1. \A i \in DOMAIN known : Belongs(active[n], known'[i]) => Belongs(active[n], known[i])
        BY <2>3, <2>5, SameBelongs
      <4> QED BY <2>5, <3>1, <4>1 DEF Sound
    <3>3. CASE id \in active[n].reqs
      <4>1. active'[n] = Touched(active[n], known')
        BY <2>4, <3>3
      <4> QED BY <2>1, <3>1, <3>2, <4>1, ScheduledSound DEF Sound
    <3>4. CASE id \notin active[n].reqs
      <4>1. active'[n] = active[n]
        BY <2>4, <3>4
      <4> QED BY <2>5, <3>1, <3>2, <3>4, <4>1 DEF Sound
    <3> QED BY <3>3, <3>4
  <2>8. DOMAIN active' = DOMAIN active
    BY <2>4
  <2> QED BY <2>6, <2>7, <2>8, InvOfSound
<1> QED BY <1>1, <1>2

LEMMA DeliverKeeps == ASSUME CaptureInv, Deliver PROVE CaptureInv'
<1>1. now' = now /\ calls' = calls /\ posts # <<>> /\ posts' = Tail(posts)
  BY DEF Deliver
<1>2. posts \in Seq(Post) /\ 1 \in DOMAIN posts
  BY <1>1 DEF CaptureInv, CaptureTyped
<1>3. posts' \in Seq(Post) /\ \A i \in DOMAIN posts' : \E j \in DOMAIN posts : posts'[i] = posts[j]
  <2>1. posts' \in Seq(Post)
    BY <1>1, <1>2
  <2>2. \A i \in DOMAIN posts' : i + 1 \in DOMAIN posts /\ posts'[i] = posts[i + 1]
    BY <1>1, <1>2
  <2> QED BY <2>1, <2>2
<1>4. PICK m : m = posts[1]
  OBVIOUS
<1>5. m \in Post /\ IsAbout(m, DOMAIN calls)
  BY <1>2, <1>4 DEF CaptureInv, EndsAreOwn
<1>6. IF m.kind = "start" THEN OnReqStart(m.id) ELSE OnReqEnd(m.id, m.of)
  BY <1>2, <1>4 DEF Deliver
<1>7. CASE m.kind = "start"
  BY <1>1, <1>3, <1>5, <1>6, <1>7, StartKeeps DEF IsAbout
<1>8. CASE m.kind = "end"
  BY <1>1, <1>3, <1>5, <1>6, <1>8, EndKeeps DEF IsAbout
<1> QED BY <1>5, <1>7, <1>8 DEF Post

LEMMA TimersKeep == ASSUME CaptureInv, NEW n \in DOMAIN active, WindowEnds(n) \/ Finish(n) PROVE CaptureInv'
<1>1. now' = now /\ calls' = calls /\ posts' = posts /\ known' = known
  BY DEF WindowEnds, Finish
<1>2. active' = [active EXCEPT ![n] = Scheduled(active[n], known)] \/ active' = Without(n)
  BY DEF WindowEnds, Finish
<1>3. \A k \in DOMAIN active' : k \in DOMAIN active /\ (active'[k] = active[k] \/ active'[k] = Scheduled(active[k], known))
  BY <1>2 DEF Without
<1>4. ASSUME NEW k \in DOMAIN active' PROVE Sound(active'[k], known')
  <2>1. k \in DOMAIN active /\ Sound(active[k], known)
    BY <1>3, SoundOfInv
  <2>2. Sound(Scheduled(active[k], known), known)
    BY <2>1, ScheduledSound DEF Sound, CaptureInv, CaptureTyped
  <2> QED BY <1>1, <1>3, <2>1, <2>2
<1> QED BY <1>1, <1>4, InvOfSound DEF CaptureInv, CaptureTyped, EndsAreOwn

LEMMA InitCaptureInv == CaptureInit => CaptureInv
BY DEF CaptureInit, CaptureInv, CaptureTyped, EndsAreOwn, GathersOwn, EndedBeforeReport

LEMMA CaptureInvKept == ASSUME CaptureInv, ~Reused, [CaptureNext]_captureVars PROVE CaptureInv'
<1>1. CASE \E r \in Requests : Send(r)
  BY <1>1, SendKeeps
<1>2. CASE \E id \in DOMAIN calls : BodyRead(id) \/ Responds(id)
  BY <1>2, BodyReadKeeps, RespondsKeeps
<1>3. CASE \E form \in Forms : Trigger(form)
  BY <1>3, TriggerKeeps
<1>4. CASE Deliver
  BY <1>4, DeliverKeeps
<1>5. CASE \E n \in DOMAIN active : WindowEnds(n) \/ Finish(n)
  BY <1>5, TimersKeep
<1>6. CASE SetMode \/ HearMode \/ Tick \/ UNCHANGED captureVars
  <2>1. now' \in Nat /\ calls' = calls /\ posts' = posts /\ known' = known /\ active' = active
    BY <1>6 DEF SetMode, HearMode, Tick, captureVars, CaptureInv, CaptureTyped
  <2> QED BY <2>1 DEF CaptureInv, CaptureTyped, EndsAreOwn, GathersOwn, EndedBeforeReport, IsOf, IsAbout, Belongs, Finishing, NoTimer
<1> QED BY <1>1, <1>2, <1>3, <1>4, <1>5, <1>6 DEF CaptureNext

LEMMA ReportOfInv ==
  ASSUME CaptureInv, [CaptureNext]_captureVars, report' # report
  PROVE  /\ \A id \in DOMAIN report'.reqs : report'.reqs[id] = id
         /\ \A id \in DOMAIN known : calls[id].r.method = "POST" /\ calls[id].t \in report'.of.t0 - Before..report'.of.t0 + After
               => id \in DOMAIN report'.reqs
<1>1. PICK n \in DOMAIN active : Finish(n)
  BY DEF CaptureNext, captureVars, Send, BodyRead, Responds, SetMode, HearMode, Trigger, Deliver, WindowEnds, Tick
<1>2. /\ active[n].timer # NoTimer /\ active[n].timer[2] = "finish"
      /\ report' = [of |-> active[n], reqs |-> [id \in active[n].reqs \cap DOMAIN known |-> known[id].end]]
  BY <1>1 DEF Finish, Due
<1>3. Sound(active[n], known) /\ Finishing(active[n])
  BY <1>2, SoundOfInv DEF Finishing
<1>4. \A id \in active[n].reqs \cap DOMAIN known : known[id].end = id
  BY <1>3 DEF Sound, CaptureInv, EndsAreOwn, IsOf
<1>5. ASSUME NEW id \in DOMAIN known, calls[id].r.method = "POST",
             calls[id].t \in active[n].t0 - Before..active[n].t0 + After
      PROVE  id \in active[n].reqs
  <2>1. known[id].method = "POST" /\ known[id].t = calls[id].t
    BY <1>5 DEF CaptureInv, EndsAreOwn, IsOf
  <2>2. active[n].t0 \in Nat /\ calls[id].t \in Nat
    <3>1. active[n] \in Gathering /\ calls[id] \in Call
      BY DEF CaptureInv, CaptureTyped
    <3> QED BY <3>1 DEF Gathering, Call
  <2>3. Belongs(active[n], known[id])
    BY <1>5, <2>1, <2>2, CaptureAssumption DEF Belongs
  <2> QED BY <1>3, <2>3 DEF Sound
<1> QED BY <1>2, <1>4, <1>5

\* As long as the page makes a new XMLHttpRequest for each request, a report holds every request around
\* its submit that was known by then, each ended and with its own answer, for every number of requests
\* and submits, every width of the windows and however starts, ends and pauses fall.
THEOREM ReportsAreOwn ==
  ASSUME ~Reused PROVE CaptureInit /\ [][CaptureNext]_captureVars => ReportsAreTrue
<1>1. CaptureInit => CaptureInv
  BY InitCaptureInv
<1>2. CaptureInv /\ [CaptureNext]_captureVars => CaptureInv'
  BY CaptureInvKept
<1>3. CaptureInv /\ [CaptureNext]_captureVars =>
        [report' # report =>
          /\ \A id \in DOMAIN report'.reqs : report'.reqs[id] = id
          /\ \A id \in DOMAIN known : calls[id].r.method = "POST" /\ calls[id].t \in report'.of.t0 - Before..report'.of.t0 + After
                => id \in DOMAIN report'.reqs]_captureVars
  BY ReportOfInv
<1> QED BY <1>1, <1>2, <1>3, PTL DEF ReportsAreTrue

-----------------------------------------------------------------------------
(* The generator's stream: TokenStream. *)

\* InOrder gives the one ascending enumeration of a finite set of numbers.
LEMMA InOrderIs ==
  ASSUME NEW S, S \subseteq Nat, NEW n \in Nat, NEW g \in [1..n -> S],
         \A i, j \in 1..n : i < j => g[i] < g[j], \A x \in S : \E i \in 1..n : g[i] = x
  PROVE  InOrder(S) = g
<1> DEFINE Rises(f) == \A i, j \in DOMAIN f : i < j => f[i] < f[j]
           upTo(k) == {x \in S : x <= k}
<1>1. ASSUME NEW f \in [1..n -> S], Rises(f), NEW k \in 1..n, \A x \in S : \E i \in 1..n : f[i] = x
      PROVE  IsFiniteSet(upTo(f[k])) /\ Cardinality(upTo(f[k])) = k
  <2>0. k \in Nat /\ (\A i \in 1..k : i \in 1..n) /\ \A i \in 1..n : i \in Nat /\ f[i] \in S /\ f[i] \in Nat
    <3>1. k \in Nat /\ \A i \in 1..k : i \in 1..n
      OBVIOUS
    <3>2. \A i \in 1..n : i \in Nat /\ f[i] \in S
      BY <1>1
    <3> QED BY <3>1, <3>2
  <2>1. IsFiniteSet(1..k) /\ Cardinality(1..k) = k
    BY <2>0, FS_Interval
  <2>2. PICK h : h = [i \in 1..k |-> f[i]]
    OBVIOUS
  <2>3. h \in [1..k -> upTo(f[k])]
    <3>1. ASSUME NEW i \in 1..k PROVE f[i] \in S /\ f[i] <= f[k]
      <4>1. i \in 1..n /\ (i = k \/ i < k) /\ f[i] \in Nat /\ f[k] \in Nat /\ f[i] \in S
        BY <2>0
      <4>2. i < k => f[i] < f[k]
        BY <1>1, <4>1
      <4> QED BY <4>1, <4>2
    <3> QED BY <2>2, <3>1
  <2>4. \A i, j \in 1..k : h[i] = h[j] => i = j
    <3> SUFFICES ASSUME NEW i \in 1..k, NEW j \in 1..k, h[i] = h[j] PROVE i = j
      OBVIOUS
    <3>1. i \in 1..n /\ j \in 1..n /\ f[i] = f[j] /\ f[i] \in Nat /\ f[j] \in Nat
      BY <2>0, <2>2
    <3>2. (i < j => f[i] < f[j]) /\ (j < i => f[j] < f[i])
      BY <1>1, <3>1
    <3> QED BY <3>1, <3>2
  <2>5. \A x \in upTo(f[k]) : \E i \in 1..k : h[i] = x
    <3> SUFFICES ASSUME NEW x \in S, x <= f[k] PROVE \E i \in 1..k : h[i] = x
      OBVIOUS
    <3>1. PICK i \in 1..n : f[i] = x
      BY <1>1
    <3>2. k < i => f[k] < f[i]
      BY <1>1
    <3>3. i \in 1..k
      BY <2>0, <3>1, <3>2
    <3> QED BY <2>2, <3>1, <3>3
  <2>6. h \in Bijection(1..k, upTo(f[k]))
    BY <2>3, <2>4, <2>5 DEF Bijection, Injection, Surjection, IsInjective
  <2>7. ExistsBijection(1..k, upTo(f[k]))
    BY <2>6 DEF ExistsBijection
  <2> HIDE DEF upTo
  <2> QED BY <2>1, <2>7, FS_Bijection
<1>2. IsFiniteSet(S) /\ Cardinality(S) = n
  <2>1. \A i, j \in 1..n : g[i] = g[j] => i = j
    <3> SUFFICES ASSUME NEW i \in 1..n, NEW j \in 1..n, g[i] = g[j] PROVE i = j
      OBVIOUS
    <3>1. g[i] \in Nat /\ g[j] \in Nat /\ (i < j => g[i] < g[j]) /\ (j < i => g[j] < g[i])
      OBVIOUS
    <3> QED BY <3>1
  <2>2. g \in Bijection(1..n, S)
    BY <2>1 DEF Bijection, Injection, Surjection, IsInjective
  <2>3. ExistsBijection(1..n, S)
    BY <2>2 DEF ExistsBijection
  <2>4. IsFiniteSet(1..n) /\ Cardinality(1..n) = n
    BY FS_Interval
  <2> QED BY <2>3, <2>4, FS_Bijection
<1>3. Rises(g)
  OBVIOUS
<1>4. PICK f : f = InOrder(S) /\ f \in [1..n -> S] /\ Rises(f)
  BY <1>2, <1>3 DEF InOrder
<1>5. \A x \in S : \E i \in 1..n : f[i] = x
  <2>1. \A i, j \in 1..n : f[i] = f[j] => i = j
    <3> SUFFICES ASSUME NEW i \in 1..n, NEW j \in 1..n, f[i] = f[j] PROVE i = j
      OBVIOUS
    <3>1. f[i] \in Nat /\ f[j] \in Nat /\ (i < j => f[i] < f[j]) /\ (j < i => f[j] < f[i])
      BY <1>4
    <3> QED BY <3>1
  <2>2. f \in Injection(1..n, S)
    BY <1>4, <2>1 DEF Injection, IsInjective
  <2>3. IsFiniteSet(1..n) /\ Cardinality(1..n) = n
    BY FS_Interval
  <2>4. f \in Surjection(1..n, S)
    BY <1>2, <2>2, <2>3, FS_Injection
  <2> QED BY <2>4 DEF Surjection
<1>6. ASSUME NEW k \in 1..n PROVE f[k] = g[k]
  <2>1. PICK m \in 1..n : g[m] = f[k]
    BY <1>4
  <2>2. Cardinality(upTo(f[k])) = k
    BY <1>1, <1>4, <1>5
  <2>3. Cardinality(upTo(g[m])) = m
    BY <1>1, <1>3
  <2> QED BY <2>1, <2>2, <2>3
<1> HIDE DEF Rises, upTo
<1> QED BY <1>4, <1>6

\* The numbers from 1 on, and the even ones.
LEMMA CountedInOrder ==
  ASSUME NEW n \in Nat
  PROVE  /\ InOrder(1..n) = [k \in 1..n |-> k]
         /\ InOrder({2 * k : k \in 1..n}) = [k \in 1..n |-> 2 * k]
<1>1. PICK S, g : S = 1..n /\ g = [k \in 1..n |-> k]
  OBVIOUS
<1>2. InOrder(S) = g
  <2>1. S \subseteq Nat /\ g \in [1..n -> S] /\ \A i, j \in 1..n : i < j => g[i] < g[j]
    BY <1>1
  <2>2. \A x \in S : \E i \in 1..n : g[i] = x
    BY <1>1
  <2> QED BY <2>1, <2>2, InOrderIs
<1>3. PICK E, h : E = {2 * k : k \in 1..n} /\ h = [k \in 1..n |-> 2 * k]
  OBVIOUS
<1>4. InOrder(E) = h
  <2>1. E \subseteq Nat /\ h \in [1..n -> E]
    BY <1>3
  <2>2. \A i, j \in 1..n : i < j => h[i] < h[j]
    BY <1>3
  <2>3. \A x \in E : \E i \in 1..n : h[i] = x
    BY <1>3
  <2> QED BY <2>1, <2>2, <2>3, InOrderIs
<1> QED BY <1>1, <1>2, <1>3, <1>4

-----------------------------------------------------------------------------
Payloads == {0, "ai_unavailable"} \cup (Nat \X Nat)
Half == [kind : {"token", "done", "error"}, n : Payloads, last : BOOLEAN]
View == [status : {"idle", "waiting", "streaming", "done", "error"}, text : Seq(Payloads), stopped : BOOLEAN]

StreamTyped ==
    /\ current \in Nat /\ server \in {"asked", "streaming", "closed"} /\ said \in Seq(Payloads)
    /\ wire \in Seq(Half) /\ buffer \in Seq(Half) /\ view \in View

\* What has not been handled yet, the remainder of the last chunk first.
OnWire == buffer \o wire

\* What is pending is halves of q whole events: the tokens that the page does not show yet, in order, and
\* then what ended the answer, unless that has been handled.
HasEvents(q) ==
    LET todo == Len(said) - Len(view.text)
    IN  /\ Len(OnWire) = 2 * q
        /\ server # "closed" => q = todo
        /\ server = "closed" => q = todo + 1 \/ (q = 0 /\ todo = 0)
        /\ \A k \in 1..q :
             /\ ~OnWire[2 * k - 1].last /\ OnWire[2 * k].last
             /\ k <= todo => OnWire[2 * k].kind = "token" /\ OnWire[2 * k].n = said[Len(view.text) + k]
             /\ k > todo => OnWire[2 * k].kind \in {"done", "error"}

ShowsPrefix == Len(view.text) <= Len(said) /\ \A k \in 1..Len(view.text) : view.text[k] = said[k]

TokenInv ==
    /\ StreamTyped /\ ShowsPrefix
    /\ Busy => (buffer = <<>> \/ (Len(buffer) = 1 /\ ~buffer[1].last)) /\ \E q \in Nat : HasEvents(q)
    /\ ~Busy => server = "closed"
    /\ view.status = "done" /\ ~view.stopped => Len(view.text) = Len(said)

LEMMA InitTokenInv == StreamInit => TokenInv
<1> SUFFICES ASSUME StreamInit PROVE TokenInv
  OBVIOUS
<1>1. StreamTyped
  BY DEF StreamInit, StreamTyped, View
<1>2. ~Busy /\ view.text = <<>> /\ view.status = "idle"
  BY DEF StreamInit, Busy
<1> QED BY <1>1, <1>2 DEF TokenInv, StreamInit, ShowsPrefix

LEMMA StartStreamKeeps == ASSUME TokenInv, StartStream PROVE TokenInv'
<1>1. StreamTyped' /\ Busy'
  BY DEF TokenInv, StreamTyped, StartStream, View, Busy
<1>2. said' = <<>> /\ buffer' = <<>> /\ wire' = <<>> /\ view'.text = <<>> /\ view'.status = "waiting" /\ server' = "asked"
  BY DEF StartStream
<1>3. HasEvents(0)'
  BY <1>2 DEF HasEvents, OnWire
<1> QED BY <1>1, <1>2, <1>3 DEF TokenInv, ShowsPrefix

LEMMA StopsKeep == ASSUME TokenInv, StopStream \/ BrokenStream PROVE TokenInv'
<1>1. /\ view' \in View /\ view'.text = view.text /\ view'.status \in {"idle", "done", "error"}
      /\ view'.status = "done" => view'.stopped
  BY DEF TokenInv, StreamTyped, StopStream, BrokenStream, View, Busy
<1>2. server' = "closed" /\ current' = current /\ said' = said /\ buffer' = <<>> /\ wire' = <<>>
  BY DEF StopStream, BrokenStream
<1>3. StreamTyped'
  BY <1>1, <1>2 DEF TokenInv, StreamTyped
<1> QED BY <1>1, <1>2, <1>3 DEF TokenInv, ShowsPrefix, Busy

\* The last half of the last event is there once the stream is over: the text is whole.
LEMMA EndKeepsText == ASSUME TokenInv, EndOfStream PROVE TokenInv'
<1>1. PICK q \in Nat : HasEvents(q)
  BY DEF TokenInv, EndOfStream
<1>2. wire = <<>> /\ server = "closed" /\ Len(buffer) \in {0, 1} /\ buffer \in Seq(Half)
  BY DEF TokenInv, EndOfStream, StreamTyped
<1>3. Len(OnWire) = Len(buffer)
  BY <1>2 DEF OnWire
<1>4. q = 0
  <2>1. Len(OnWire) = 2 * q
    BY <1>1 DEF HasEvents
  <2> QED BY <1>2, <1>3, <2>1
<1>5. Len(said) \in Nat /\ Len(view.text) \in Nat
  BY DEF TokenInv, StreamTyped, View
<1>6. Len(view.text) = Len(said)
  BY <1>1, <1>2, <1>4, <1>5 DEF HasEvents, TokenInv, ShowsPrefix
<1>7. view' \in View /\ view'.text = view.text /\ view'.status = "done"
  BY DEF TokenInv, StreamTyped, EndOfStream, View
<1>8. UNCHANGED <<current, server, said, wire, buffer>>
  BY DEF EndOfStream
<1> QED BY <1>2, <1>6, <1>7, <1>8 DEF TokenInv, StreamTyped, ShowsPrefix, Busy

LEMMA EventTyped ==
  ASSUME NEW kind \in {"token", "done", "error"}, NEW n \in Payloads
  PROVE  /\ Event(kind, n) \in Seq(Half) /\ Len(Event(kind, n)) = 2
         /\ ~Event(kind, n)[1].last /\ Event(kind, n)[2].last
         /\ Event(kind, n)[2].kind = kind /\ Event(kind, n)[2].n = n
BY DEF Event, Half

LEMMA Appended ==
  ASSUME NEW T, NEW s \in Seq(T), NEW x \in T
  PROVE  /\ Append(s, x) \in Seq(T) /\ Len(Append(s, x)) = Len(s) + 1 /\ Append(s, x)[Len(s) + 1] = x
         /\ \A k \in 1..Len(s) : Append(s, x)[k] = s[k]
OBVIOUS

LEMMA TwoMore ==
  ASSUME NEW T, NEW s \in Seq(T), NEW e \in Seq(T), Len(e) = 2
  PROVE  /\ s \o e \in Seq(T) /\ Len(s \o e) = Len(s) + 2 /\ (s \o e)[Len(s) + 1] = e[1] /\ (s \o e)[Len(s) + 2] = e[2]
         /\ \A k \in 1..Len(s) : (s \o e)[k] = s[k]
<1>1. s \o e \in Seq(T) /\ Len(s \o e) = Len(s) + 2 /\ Len(s) \in Nat
  <2>1. s \o e \in Seq(T) /\ Len(s \o e) = Len(s) + Len(e)
    BY ONLY s \in Seq(T), e \in Seq(T), ConcatProperties, Zenon
  <2> QED BY <2>1
<1>2. PICK m : m = Len(s)
  OBVIOUS
<1>3. m + 1 \in 1..m + 2 /\ m + 2 \in 1..m + 2 /\ m + 1 > m /\ m + 2 > m /\ m + 1 - m = 1 /\ m + 2 - m = 2
  BY <1>1, <1>2
<1>4. \A i \in 1..m + 2 : (s \o e)[i] = IF i <= m THEN s[i] ELSE e[i - m]
  BY <1>1, <1>2, ConcatProperties
<1>5. (s \o e)[m + 1] = e[1] /\ (s \o e)[m + 2] = e[2]
  BY <1>1, <1>2, <1>3, <1>4
<1>6. \A k \in 1..m : (s \o e)[k] = s[k]
  BY <1>1, <1>2, <1>4
<1> QED BY <1>1, <1>2, <1>5, <1>6

\* With more on the wire there is more pending.
LEMMA Arrives ==
  ASSUME NEW T, NEW b \in Seq(T), NEW w \in Seq(T), NEW e \in Seq(T), NEW p, NEW v, p = b \o w, v = w \o e
  PROVE  p \in Seq(T) /\ v \in Seq(T) /\ b \o v = p \o e
<1>1. p \in Seq(T) /\ v \in Seq(T)
  OBVIOUS
<1>2. b \o v = p \o e
  OBVIOUS
<1> QED BY <1>1, <1>2

LEMMA ServerKeeps == ASSUME TokenInv, ServerStep PROVE TokenInv'
<1>1. /\ server \in {"asked", "streaming"} /\ current' = current /\ buffer' = buffer /\ view' = view
      /\ Busy /\ Busy'
  BY DEF ServerStep, TokenInv, Busy
<1>2. PICK q \in Nat : HasEvents(q)
  BY <1>1 DEF TokenInv
<1>3. said \in Seq(Payloads) /\ wire \in Seq(Half) /\ buffer \in Seq(Half) /\ view \in View /\ current \in Nat
  BY DEF TokenInv, StreamTyped
<1>4. PICK kind, n :
        /\ kind \in {"token", "done", "error"} /\ n \in Payloads /\ wire' = wire \o Event(kind, n)
        /\ \/ kind = "token" /\ said' = Append(said, n) /\ server' = "streaming"
           \/ kind # "token" /\ said' = said /\ server' = "closed"
  <2>1. CASE Len(said) < Tokens /\ said' = Append(said, <<current, Len(said) + 1>>)
             /\ Says(Event("token", Last(said'))) /\ server' = "streaming"
    <3>1. PICK more : more = <<current, Len(said) + 1>>
      OBVIOUS
    <3>2. more \in Payloads
      BY <1>3, <3>1 DEF Payloads
    <3>3. Last(said') = more
      BY <1>3, <2>1, <3>1, <3>2, Appended DEF Last
    <3> QED BY <2>1, <3>1, <3>2, <3>3 DEF Says
  <2>2. CASE Says(Event("done", 0)) /\ server' = "closed" /\ UNCHANGED said
    BY <2>2 DEF Says, Payloads
  <2>3. CASE Says(Cause("ai_unavailable")) /\ server' = "closed" /\ UNCHANGED said
    BY <2>3 DEF Says, Cause, Payloads
  <2> QED BY <2>1, <2>2, <2>3 DEF ServerStep
<1>5. PICK e : e = Event(kind, n)
  OBVIOUS
<1>6. e \in Seq(Half) /\ Len(e) = 2 /\ ~e[1].last /\ e[2].last /\ e[2].kind = kind /\ e[2].n = n
  BY <1>4, <1>5, EventTyped
<1>7. PICK d, t : d = Len(view.text) /\ t = Len(said) /\ d \in Nat /\ t \in Nat /\ d <= t
  BY <1>3 DEF TokenInv, View, ShowsPrefix
<1>8. PICK u : /\ said' \in Seq(Payloads) /\ u = Len(said') /\ u = (IF kind = "token" THEN t + 1 ELSE t)
               /\ \A k \in 1..t : said'[k] = said[k]
               /\ kind = "token" => said'[t + 1] = n
  <2>1. CASE kind = "token"
    <3>1. said' = Append(said, n)
      BY <1>4, <2>1
    <3> QED BY <1>3, <1>4, <1>7, <2>1, <3>1, Appended
  <2>2. CASE kind # "token"
    BY <1>3, <1>4, <1>7, <2>2
  <2> QED BY <2>1, <2>2
<1>9. wire' \in Seq(Half) /\ OnWire \in Seq(Half) /\ OnWire' = OnWire \o e
  <2>1. wire' \in Seq(Half)
    BY <1>3, <1>4, <1>5, <1>6, TwoMore
  <2>2. PICK p, v : p = buffer \o wire /\ v = wire \o e
    OBVIOUS
  <2>3. p = OnWire /\ v = wire' /\ OnWire' = buffer \o v
    BY <1>1, <1>4, <1>5, <2>2 DEF OnWire
  <2>4. p \in Seq(Half) /\ buffer \o v = p \o e
    BY <1>3, <1>6, <2>2, Arrives
  <2> QED BY <2>1, <2>3, <2>4
<1>10. Len(OnWire) = 2 * q /\ q = t - d
  BY <1>1, <1>2, <1>7 DEF HasEvents
<1>11. /\ Len(OnWire') = 2 * q + 2 /\ OnWire'[2 * q + 1] = e[1] /\ OnWire'[2 * q + 2] = e[2]
       /\ \A i \in 1..2 * q : OnWire'[i] = OnWire[i]
  <2>1. PICK s : s = OnWire
    OBVIOUS
  <2>2. s \in Seq(Half) /\ Len(s) = 2 * q /\ OnWire' = s \o e
    BY <1>9, <1>10, <2>1
  <2>3. PICK p : p = s \o e
    OBVIOUS
  <2>4. /\ Len(p) = Len(s) + 2 /\ p[Len(s) + 1] = e[1] /\ p[Len(s) + 2] = e[2]
        /\ \A k \in 1..Len(s) : p[k] = s[k]
    BY <1>6, <2>2, <2>3, TwoMore
  <2>5. p = OnWire'
    BY <2>2, <2>3
  <2> QED BY <2>1, <2>2, <2>4, <2>5
<1>12. HasEvents(q + 1)'
  <2>1. ASSUME NEW k \in 1..(q + 1)
        PROVE  /\ ~OnWire'[2 * k - 1].last /\ OnWire'[2 * k].last
               /\ k <= u - d => OnWire'[2 * k].kind = "token" /\ OnWire'[2 * k].n = said'[d + k]
               /\ k > u - d => OnWire'[2 * k].kind \in {"done", "error"}
    <3>1. CASE k <= q
      <4>1. k \in 1..q /\ 2 * k \in 1..2 * q /\ 2 * k - 1 \in 1..2 * q /\ k <= t - d /\ d + k \in 1..t
        BY <1>7, <1>10, <3>1
      <4>2. /\ ~OnWire[2 * k - 1].last /\ OnWire[2 * k].last
            /\ OnWire[2 * k].kind = "token" /\ OnWire[2 * k].n = said[d + k]
        BY <1>2, <1>7, <4>1 DEF HasEvents
      <4>3. said'[d + k] = said[d + k]
        BY <1>8, <4>1
      <4>4. OnWire'[2 * k] = OnWire[2 * k] /\ OnWire'[2 * k - 1] = OnWire[2 * k - 1]
        BY <1>11, <4>1
      <4>5. k <= u - d /\ ~(k > u - d)
        <5>1. u \in Nat /\ t <= u
          BY <1>7, <1>8
        <5> QED BY <1>7, <4>1, <5>1
      <4> QED BY <4>2, <4>3, <4>4, <4>5
    <3>2. CASE k = q + 1
      <4>1. 2 * k = 2 * q + 2 /\ 2 * k - 1 = 2 * q + 1 /\ d + k = t + 1
        <5>1. 2 * k = 2 * q + 2 /\ 2 * k - 1 = 2 * q + 1
          BY ONLY q \in Nat, <3>2
        <5>2. d \in Nat /\ t \in Nat /\ d + q = t
          BY <1>7, <1>10
        <5>3. d + k = t + 1
          BY ONLY q \in Nat, <3>2, <5>2
        <5> QED BY <5>1, <5>3
      <4>2. /\ ~OnWire'[2 * k - 1].last /\ OnWire'[2 * k].last
            /\ OnWire'[2 * k].kind = kind /\ OnWire'[2 * k].n = n
        BY <1>6, <1>11, <4>1
      <4>3. CASE kind = "token"
        <5>1. u = t + 1 /\ said'[d + k] = n
          BY <1>8, <4>1, <4>3
        <5>2. ~(k > u - d)
          <6>1. u - d = k
            BY <1>7, <1>10, <3>2, <5>1
          <6> QED BY <6>1
        <5> QED BY <4>2, <4>3, <5>1, <5>2
      <4>4. CASE kind # "token"
        <5>1. ~(k <= u - d)
          BY <1>7, <1>8, <1>10, <3>2, <4>4
        <5> QED BY <1>4, <4>2, <4>4, <5>1
      <4> QED BY <4>3, <4>4
    <3>3. k <= q \/ k = q + 1
      OBVIOUS
    <3> QED BY <3>1, <3>2, <3>3
  <2>2. server' # "closed" => q + 1 = u - d
    BY <1>4, <1>7, <1>8, <1>10
  <2>3. server' = "closed" => q + 1 = u - d + 1
    BY <1>4, <1>7, <1>8, <1>10
  <2>4. Len(OnWire') = 2 * (q + 1)
    BY <1>11
  <2> QED BY <1>1, <1>7, <1>8, <2>1, <2>2, <2>3, <2>4 DEF HasEvents
<1>13. StreamTyped'
  BY <1>3, <1>1, <1>4, <1>8, <1>9 DEF StreamTyped
<1>14. ShowsPrefix'
  <2>1. \A k \in 1..d : k \in 1..t
    BY <1>7
  <2> QED BY <1>1, <1>7, <1>8, <2>1 DEF TokenInv, ShowsPrefix
<1>15. view'.status # "done" /\ q + 1 \in Nat
  BY <1>1 DEF Busy
<1> QED BY <1>1, <1>12, <1>13, <1>14, <1>15 DEF TokenInv

-----------------------------------------------------------------------------
\* A chunk ends anywhere: h is what was read so far, v what is still on the wire, p both.
IsCut(b, w, n, m, h, v, p) ==
    m = Len(b) + n /\ h = b \o SubSeq(w, 1, n) /\ v = SubSeq(w, n + 1, Len(w)) /\ p = b \o w
IsSplit(T, m, h, v, p) ==
    /\ m \in Nat \ {0} /\ h \in Seq(T) /\ Len(h) = m /\ \A i \in 1..m : h[i] = p[i]
    /\ v \in Seq(T) /\ p \in Seq(T) /\ Len(p) = m + Len(v) /\ \A j \in 1..Len(v) : v[j] = p[m + j]

LEMMA Cut ==
  ASSUME NEW T, NEW b \in Seq(T), NEW w \in Seq(T), NEW n \in 1..Len(w), NEW m, NEW h, NEW v, NEW p,
         IsCut(b, w, n, m, h, v, p)
  PROVE  IsSplit(T, m, h, v, p)
<1>1. m = Len(b) + n /\ h = b \o SubSeq(w, 1, n) /\ v = SubSeq(w, n + 1, Len(w)) /\ p = b \o w
  BY DEF IsCut
<1>2. PICK lb, lw : lb = Len(b) /\ lw = Len(w) /\ lb \in Nat /\ lw \in Nat /\ n \in 1..lw /\ m = lb + n
  <2>1. Len(b) \in Nat /\ Len(w) \in Nat
    OBVIOUS
  <2> QED BY <1>1, <2>1
<1>3. PICK s : s = SubSeq(w, 1, n)
  OBVIOUS
<1>4. s \in Seq(T) /\ Len(s) = n /\ \A i \in 1..n : s[i] = w[i]
  BY <1>2, <1>3
<1>5. p \in Seq(T) /\ Len(p) = lb + lw
  BY <1>1, <1>2, ConcatProperties
<1>6. \A i \in 1..lb + lw : p[i] = IF i <= lb THEN b[i] ELSE w[i - lb]
  BY <1>1, <1>2, ConcatProperties
<1>7. h \in Seq(T) /\ Len(h) = lb + n
  BY <1>1, <1>2, <1>3, <1>4, ConcatProperties
<1>8. \A i \in 1..lb + n : h[i] = IF i <= lb THEN b[i] ELSE s[i - lb]
  BY <1>1, <1>2, <1>3, <1>4, ConcatProperties
<1>9. \A i \in 1..m : h[i] = p[i]
  <2> SUFFICES ASSUME NEW i \in 1..m PROVE h[i] = p[i]
    OBVIOUS
  <2>1. i \in 1..lb + n /\ i \in 1..lb + lw
    BY <1>2
  <2>2. CASE i <= lb
    BY <1>6, <1>8, <2>1, <2>2
  <2>3. CASE ~(i <= lb)
    <3>1. i - lb \in 1..n
      BY <1>2, <2>1, <2>3
    <3> QED BY <1>4, <1>6, <1>8, <2>1, <2>3, <3>1
  <2> QED BY <2>2, <2>3
<1>10. v \in Seq(T) /\ Len(v) = lw - n /\ \A j \in 1..lw - n : v[j] = w[n + j]
  <2>1. v \in Seq(T)
    BY <1>1, <1>2
  <2>2. Len(v) = lw - n
    BY <1>1, <1>2
  <2>3. \A j \in 1..lw - n : v[j] = w[n + 1 + j - 1]
    BY <1>1, <1>2
  <2> QED BY <1>2, <2>1, <2>2, <2>3
<1>11. \A j \in 1..lw - n : v[j] = p[m + j]
  <2> SUFFICES ASSUME NEW j \in 1..lw - n PROVE v[j] = p[m + j]
    OBVIOUS
  <2>1. PICK i : i = m + j
    OBVIOUS
  <2>2. i \in 1..lb + lw /\ ~(i <= lb) /\ i - lb = n + j
    BY <1>2, <2>1
  <2>3. p[i] = w[n + j]
    BY <1>6, <2>2
  <2> QED BY <1>10, <2>1, <2>3
<1>12. m + (lw - n) = lb + lw /\ m \in Nat \ {0}
  BY <1>2
<1> QED BY <1>2, <1>5, <1>7, <1>9, <1>10, <1>11, <1>12 DEF IsSplit

\* With the remainder of the chunk before it, the wire still holds the events from the next one on.
Leaves(m, r, b, p) == (m = 2 * r /\ b = <<>>) \/ (m = 2 * r + 1 /\ b = <<p[m]>>)
IsJoin(u, b, v) == u = b \o v

LEMMA Remains ==
  ASSUME NEW T, NEW m, NEW h, NEW v, NEW p, IsSplit(T, m, h, v, p), NEW r \in Nat, NEW b, Leaves(m, r, b, p),
         NEW u, IsJoin(u, b, v)
  PROVE  /\ b \in Seq(T) /\ Len(u) = Len(p) - 2 * r
         /\ \A j \in 1..Len(p) - 2 * r : u[j] = p[2 * r + j]
<1>1. /\ m \in Nat \ {0} /\ p \in Seq(T) /\ v \in Seq(T) /\ Len(p) = m + Len(v)
      /\ \A j \in 1..Len(v) : v[j] = p[m + j]
      /\ (m = 2 * r /\ b = <<>>) \/ (m = 2 * r + 1 /\ b = <<p[m]>>)
      /\ u = b \o v
  BY DEF IsSplit, Leaves, IsJoin
<1>2. PICK l : l = Len(v) /\ l \in Nat /\ Len(p) = m + l
  <2>1. Len(v) \in Nat
    BY <1>1, <1>1
  <2> QED BY <1>1, <1>1, <2>1
<1>3. CASE m = 2 * r /\ b = <<>>
  <2>1. b \o v = v /\ b \in Seq(T)
    BY <1>1, <1>3
  <2>2. Len(p) - 2 * r = l
    BY <1>1, <1>2, <1>3
  <2> QED BY <1>1, <1>2, <1>3, <2>1, <2>2
<1>4. CASE m = 2 * r + 1 /\ b = <<p[m]>>
  <2>1. m \in 1..Len(p)
    BY <1>1, <1>2
  <2>2. b \in Seq(T) /\ Len(b) = 1 /\ b[1] = p[m]
    BY <1>1, <1>4, <2>1
  <2>3. Len(b \o v) = 1 + l /\ \A j \in 1..1 + l : (b \o v)[j] = IF j <= 1 THEN b[j] ELSE v[j - 1]
    <3>1. /\ Len(b \o v) = Len(b) + Len(v)
          /\ \A j \in 1..Len(b) + Len(v) : (b \o v)[j] = IF j <= Len(b) THEN b[j] ELSE v[j - Len(b)]
      BY <1>1, <2>2, ConcatProperties, Zenon
    <3> QED BY <1>1, <1>2, <2>2, <3>1
  <2>4. Len(p) - 2 * r = 1 + l
    BY <1>1, <1>2, <1>4
  <2>5. ASSUME NEW j \in 1..1 + l PROVE (b \o v)[j] = p[2 * r + j]
    <3>1. CASE j = 1
      <4>1. 2 * r + j = m /\ 1 \in 1..1 + l
        BY <1>1, <1>2, <1>4, <3>1
      <4>2. (b \o v)[1] = b[1]
        BY <1>1, <2>3, <4>1
      <4> QED BY <1>1, <2>2, <3>1, <4>1, <4>2
    <3>2. CASE j # 1
      <4>1. j - 1 \in 1..l /\ m + (j - 1) = 2 * r + j /\ ~(j <= 1)
        BY <1>1, <1>2, <1>4, <3>2
      <4> QED BY <1>1, <1>2, <2>3, <4>1
    <3> QED BY <3>1, <3>2
  <2> QED BY <1>1, <2>2, <2>3, <2>4, <2>5
<1> QED BY <1>1, <1>3, <1>4

LEMMA HalvesOf == ASSUME NEW m \in Nat PROVE \E r \in Nat : m = 2 * r \/ m = 2 * r + 1
<1>1. m \div 2 \in Nat /\ (m = 2 * (m \div 2) \/ m = 2 * (m \div 2) + 1)
  OBVIOUS
<1> QED BY <1>1

\* What a chunk completes: the first r of the pending events.
LEMMA WholeIs ==
  ASSUME NEW h \in Seq(Half), NEW r \in Nat, Len(h) = 2 * r \/ Len(h) = 2 * r + 1,
         \A k \in 1..r : ~h[2 * k - 1].last /\ h[2 * k].last,
         Len(h) = 2 * r + 1 => ~h[2 * r + 1].last
  PROVE  Whole(h) = [k \in 1..r |-> h[2 * k]]
<1> DEFINE ends == {i \in DOMAIN h : h[i].last /\ i > 1}
<1>1. ends = {2 * k : k \in 1..r}
  <2>1. ASSUME NEW i \in ends PROVE i \in {2 * k : k \in 1..r}
    <3>1. i \in 1..Len(h) /\ i \in Nat /\ h[i].last
      OBVIOUS
    <3>2. PICK k \in Nat : i = 2 * k \/ i = 2 * k + 1
      BY <3>1, HalvesOf
    <3>3. CASE i = 2 * k
      <4>1. k \in 1..r
        BY <3>1, <3>3
      <4> QED BY <3>3, <4>1
    <3>4. CASE i = 2 * k + 1
      <4>1. k = r \/ k + 1 \in 1..r
        BY <3>1, <3>4
      <4>2. 2 * (k + 1) - 1 = i
        BY <3>4
      <4>3. CASE k = r
        <5>1. Len(h) = 2 * r + 1
          BY <3>1, <3>4, <4>3
        <5> QED BY <3>1, <3>4, <4>3, <5>1
      <4>4. CASE k + 1 \in 1..r
        <5>1. ~h[2 * (k + 1) - 1].last
          BY <4>4
        <5> QED BY <3>1, <4>2, <5>1
      <4> QED BY <4>1, <4>3, <4>4
    <3> QED BY <3>2, <3>3, <3>4
  <2>2. ASSUME NEW k \in 1..r PROVE 2 * k \in ends
    <3>1. 2 * k \in 1..Len(h) /\ 2 * k > 1
      OBVIOUS
    <3> QED BY <3>1
  <2> QED BY <2>1, <2>2
<1>2. InOrder(ends) = [k \in 1..r |-> 2 * k]
  BY <1>1, CountedInOrder
<1>3. PICK o : o = InOrder(ends)
  OBVIOUS
<1>4. Whole(h) = [k \in DOMAIN o |-> h[o[k]]]
  BY <1>3 DEF Whole
<1> HIDE DEF ends
<1> QED BY <1>2, <1>3, <1>4

\* The tokens among the events that a chunk completes come before all else in it.
LEMMA TokensIn ==
  ASSUME NEW events, NEW r \in Nat, DOMAIN events = 1..r, NEW t \in 0..r,
         \A k \in 1..r : IF k <= t THEN events[k].kind = "token" ELSE events[k].kind \in {"done", "error"}
  PROVE  InOrder({i \in DOMAIN events : events[i].kind = "token"}) = [k \in 1..t |-> k]
<1>1. {i \in DOMAIN events : events[i].kind = "token"} = 1..t
  OBVIOUS
<1>2. t \in Nat
  OBVIOUS
<1>3. InOrder(1..t) = [k \in 1..t |-> k]
  BY <1>2, CountedInOrder
<1> QED BY ONLY <1>1, <1>3, Zenon

\* The text with the tokens of a chunk.
IsLonger(u, s, x) == u = s \o [i \in 1..Len(x) |-> x[i]]
GoesOn(T, u, s, x) ==
    /\ u \in Seq(T) /\ Len(u) = Len(s) + Len(x) /\ \A k \in 1..Len(s) : u[k] = s[k]
    /\ \A k \in 1..Len(x) : u[Len(s) + k] = x[k]

LEMMA Longer ==
  ASSUME NEW T, NEW s \in Seq(T), NEW x \in Seq(T), NEW u, IsLonger(u, s, x)
  PROVE  GoesOn(T, u, s, x)
<1>1. u = s \o x
  <2>1. [i \in 1..Len(x) |-> x[i]] = x
    OBVIOUS
  <2> QED BY <2>1 DEF IsLonger
<1>2. PICK ls, lx : ls = Len(s) /\ lx = Len(x) /\ ls \in Nat /\ lx \in Nat
  <2>1. Len(s) \in Nat /\ Len(x) \in Nat
    OBVIOUS
  <2> QED BY <2>1
<1>3. u \in Seq(T) /\ Len(u) = ls + lx
  BY <1>1, <1>2, ConcatProperties
<1>4. \A i \in 1..ls + lx : u[i] = IF i <= ls THEN s[i] ELSE x[i - ls]
  BY <1>1, <1>2, ConcatProperties
<1>5. \A k \in 1..ls : u[k] = s[k]
  BY <1>2, <1>4
<1>6. ASSUME NEW k \in 1..lx PROVE u[ls + k] = x[k]
  <2>1. PICK i : i = ls + k
    OBVIOUS
  <2>2. i \in 1..ls + lx /\ ~(i <= ls) /\ i - ls = k
    BY <1>2, <2>1
  <2> QED BY <1>4, <2>1, <2>2
<1> QED BY <1>2, <1>3, <1>5, <1>6 DEF GoesOn

LEMMA ReadKeepsInv == ASSUME TokenInv, ReadChunk PROVE TokenInv'
<1>1. said \in Seq(Payloads) /\ wire \in Seq(Half) /\ buffer \in Seq(Half) /\ view \in View /\ current \in Nat
  BY DEF TokenInv, StreamTyped
<1>2. Busy /\ wire # <<>> /\ current' = current /\ server' = server /\ said' = said
  BY DEF ReadChunk
<1>3. PICK q \in Nat : HasEvents(q)
  BY <1>2 DEF TokenInv
<1>4. PICK d, t, todo : d = Len(view.text) /\ t = Len(said) /\ d \in Nat /\ t \in Nat /\ d <= t /\ todo = t - d /\ todo \in Nat
  <2>1. Len(view.text) \in Nat /\ Len(said) \in Nat /\ Len(view.text) <= Len(said)
    BY <1>1 DEF TokenInv, View, ShowsPrefix
  <2>2. Len(said) - Len(view.text) \in Nat
    BY <2>1
  <2> QED BY <2>1, <2>2
<1>5. d \in Nat /\ t \in Nat /\ todo \in Nat /\ d + todo = t
  BY <1>4
<1>6. PICK p : p = OnWire
  OBVIOUS
<1>7. /\ Len(p) = 2 * q /\ (server # "closed" => q = todo) /\ (server = "closed" => q = todo + 1 \/ (q = 0 /\ todo = 0))
      /\ \A k \in 1..q : /\ ~p[2 * k - 1].last /\ p[2 * k].last
                         /\ k <= todo => p[2 * k].kind = "token" /\ p[2 * k].n = said[d + k]
                         /\ k > todo => p[2 * k].kind \in {"done", "error"}
  BY <1>3, <1>4, <1>6 DEF HasEvents
<1>8. PICK n \in 1..Len(wire) :
        LET halves == buffer \o SubSeq(wire, 1, n)
            events == Whole(halves)
            tokens == InOrder({i \in DOMAIN events : events[i].kind = "token"})
            failed == \E i \in DOMAIN events : events[i].kind = "error"
        IN  /\ buffer' = Rest(halves) /\ wire' = SubSeq(wire, n + 1, Len(wire))
            /\ view' = [view EXCEPT !.text = @ \o [i \in DOMAIN tokens |-> events[tokens[i]].n],
                          !.status = IF failed THEN "error" ELSE IF tokens = <<>> THEN @ ELSE "streaming"]
  BY DEF ReadChunk
<1>9. PICK h, m, v : h = buffer \o SubSeq(wire, 1, n) /\ m = Len(buffer) + n /\ v = SubSeq(wire, n + 1, Len(wire))
  OBVIOUS
<1>10. PICK events : events = Whole(h)
  OBVIOUS
<1>11. PICK tokens : tokens = InOrder({i \in DOMAIN events : events[i].kind = "token"})
  OBVIOUS
<1>12. PICK status, text :
         /\ status = IF \E i \in DOMAIN events : events[i].kind = "error" THEN "error"
                     ELSE IF tokens = <<>> THEN view.status ELSE "streaming"
         /\ text = view.text \o [i \in DOMAIN tokens |-> events[tokens[i]].n]
  OBVIOUS
<1>13. buffer' = Rest(h) /\ wire' = v /\ view' = [view EXCEPT !.text = text, !.status = status]
  BY <1>8, <1>9, <1>10, <1>11, <1>12
<1>14. IsSplit(Half, m, h, v, p)
  <2>1. IsCut(buffer, wire, n, m, h, v, p)
    BY <1>6, <1>9 DEF OnWire, IsCut
  <2> QED BY <1>1, <2>1, Cut
<1>15. /\ m \in Nat \ {0} /\ h \in Seq(Half) /\ Len(h) = m /\ \A i \in 1..m : h[i] = p[i]
      /\ v \in Seq(Half) /\ p \in Seq(Half) /\ Len(p) = m + Len(v) /\ \A j \in 1..Len(v) : v[j] = p[m + j]
  BY <1>14 DEF IsSplit
<1>16. PICK r \in Nat : m = 2 * r \/ m = 2 * r + 1
  BY <1>15, HalvesOf
<1>17. /\ r \in 0..q /\ (m = 2 * r + 1 => r + 1 \in 1..q)
       /\ \A k \in 1..r : k \in 1..q /\ 2 * k \in 1..m /\ 2 * k - 1 \in 1..m
  <2>0. Len(v) \in Nat
    BY <1>15
  <2>1. PICK lv : lv = Len(v) /\ lv \in Nat
    BY <2>0
  <2>2. 2 * q = m + lv
    BY <1>7, <1>15, <2>1
  <2> QED BY <1>15, <1>16, <2>1, <2>2
<1>18. Whole(h) = [k \in 1..r |-> h[2 * k]]
  <2>1. \A k \in 1..r : ~h[2 * k - 1].last /\ h[2 * k].last
    BY <1>7, <1>15, <1>17
  <2>2. m = 2 * r + 1 => ~h[2 * r + 1].last
    <3>1. m = 2 * r + 1 => 2 * (r + 1) - 1 = m /\ m \in 1..m
      BY <1>15
    <3>2. m = 2 * r + 1 => ~p[2 * (r + 1) - 1].last
      BY <1>7, <1>17
    <3> QED BY <1>15, <3>1, <3>2
  <2> QED BY <1>15, <1>16, <2>1, <2>2, WholeIs
<1>19. DOMAIN events = 1..r /\ \A k \in 1..r : events[k] = p[2 * k]
  BY <1>15, <1>17, <1>18, <1>10
<1>20. PICK c \in Nat : c <= r /\ c <= todo /\ (r <= todo => c = r) /\ (r > todo => c = todo)
  <2>1. CASE r <= todo
    BY <1>5, <2>1
  <2>2. CASE ~(r <= todo)
    BY <1>5, <2>2
  <2> QED BY <2>1, <2>2
<1>21. /\ \A k \in 1..r : IF k <= c THEN events[k].kind = "token" /\ events[k].n = said[d + k]
                          ELSE events[k].kind \in {"done", "error"}
       /\ \A k \in 1..c : k \in 1..r
  <2>1. \A k \in 1..r : k \in 1..q /\ (k <= c => k <= todo) /\ (~(k <= c) => k > todo)
    <3> SUFFICES ASSUME NEW k \in 1..r PROVE k \in 1..q /\ (k <= c => k <= todo) /\ (~(k <= c) => k > todo)
      OBVIOUS
    <3>1. CASE r <= todo
      <4>1. c = r
        BY <1>20, <3>1
      <4> QED BY <1>17, <1>5, <3>1, <4>1
    <3>2. CASE r > todo
      <4>1. c = todo
        BY <1>20, <3>2
      <4> QED BY <1>17, <1>5, <4>1
    <3> QED BY <1>5, <3>1, <3>2
  <2>2. \A k \in 1..c : k \in 1..r
    BY <1>20
  <2> QED BY <1>7, <1>19, <2>1, <2>2
<1>22. tokens = [k \in 1..c |-> k]
  <2>1. \A k \in 1..r : IF k <= c THEN events[k].kind = "token" ELSE events[k].kind \in {"done", "error"}
    BY <1>21
  <2>2. c \in 0..r
    BY <1>20
  <2> QED BY <1>19, <1>11, <2>1, <2>2, TokensIn
<1>23. PICK more : more = [k \in 1..c |-> said[d + k]]
  OBVIOUS
<1>24. more \in Seq(Payloads) /\ Len(more) = c /\ \A k \in 1..c : more[k] = said[d + k]
  <2>1. \A k \in 1..c : d + k \in 1..t
    BY <1>20, <1>5
  <2>2. \A k \in 1..c : said[d + k] \in Payloads
    <3>1. \A i \in 1..t : said[i] \in Payloads
      BY <1>1, <1>4
    <3> QED BY <2>1, <3>1
  <2>3. more \in [1..c -> Payloads]
    BY <1>23, <2>2
  <2> QED BY <1>23, <2>3
<1>25. [i \in DOMAIN tokens |-> events[tokens[i]].n] = [i \in 1..Len(more) |-> more[i]]
  <2>1. \A i \in 1..c : i \in 1..r /\ events[i].n = said[d + i] /\ more[i] = said[d + i]
    BY <1>21, <1>24
  <2>2. DOMAIN tokens = 1..c /\ \A i \in 1..c : tokens[i] = i
    BY <1>22
  <2>3. Len(more) = c
    BY <1>24
  <2> QED BY <2>1, <2>2, <2>3
<1>26. /\ view.status \in {"waiting", "streaming"} /\ status \in {"waiting", "streaming", "error"}
       /\ status = "error" <=> \E i \in 1..r : events[i].kind = "error"
  BY <1>2, <1>12, <1>19 DEF Busy
<1>27. /\ text \in Seq(Payloads) /\ Len(text) = d + c /\ \A k \in 1..d : text[k] = view.text[k]
       /\ \A k \in 1..c : text[d + k] = said[d + k]
  <2>1. IsLonger(text, view.text, more)
    BY <1>25, <1>12 DEF IsLonger
  <2>2. view.text \in Seq(Payloads)
    BY <1>1 DEF View
  <2>3. GoesOn(Payloads, text, view.text, more)
    <3>1. more \in Seq(Payloads)
      BY <1>24
    <3> QED BY <2>1, <2>2, <3>1, Longer
  <2>4. Len(view.text) = d /\ Len(more) = c
    BY <1>4, <1>24
  <2> QED BY <1>24, <2>3, <2>4 DEF GoesOn
<1>28. view' \in View /\ view'.text = text /\ view'.status = status
  <2>1. \A x \in View : [x EXCEPT !.text = text, !.status = status] \in View
    <3>1. status \in {"idle", "waiting", "streaming", "done", "error"}
      BY <1>26
    <3> QED BY <1>27, <3>1 DEF View
  <2>2. \A x \in View : /\ [x EXCEPT !.text = text, !.status = status].text = text
                        /\ [x EXCEPT !.text = text, !.status = status].status = status
    BY DEF View
  <2> QED BY <1>1, <1>13, <2>1, <2>2
<1>29. d + c <= t /\ ShowsPrefix'
  <2>1. d + c <= t
    BY <1>20, <1>5
  <2>2. ASSUME NEW k \in 1..d + c PROVE text[k] = said[k]
    <3>1. CASE k <= d
      <4>1. k \in 1..d /\ k \in 1..Len(view.text)
        BY <1>4, <3>1
      <4> QED BY <1>27, <4>1 DEF TokenInv, ShowsPrefix
    <3>2. CASE ~(k <= d)
      <4>1. PICK j : j = k - d
        OBVIOUS
      <4>2. j \in 1..c /\ d + j = k
        BY <1>5, <3>2, <4>1
      <4> QED BY <1>27, <4>2
    <3> QED BY <3>1, <3>2
  <2> QED BY <1>2, <1>4, <1>27, <1>28, <2>1, <2>2 DEF ShowsPrefix
<1>30. (m = 2 * r /\ buffer' = <<>>) \/ (m = 2 * r + 1 /\ buffer' = <<p[m]>> /\ ~p[m].last)
  <2>0. m \in 1..m /\ Len(h) = m /\ h[m] = p[m]
    BY <1>15
  <2>1. Last(h) = p[m]
    BY <2>0 DEF Last
  <2>2. buffer' = IF p[m].last THEN <<>> ELSE <<p[m]>>
    BY <1>13, <2>1 DEF Rest
  <2>3. CASE m = 2 * r
    <3>1. r \in 1..q
      BY <1>15, <1>17, <2>3
    <3>2. p[2 * r].last
      BY <1>7, <3>1
    <3> QED BY <2>2, <2>3, <3>2
  <2>4. CASE m = 2 * r + 1
    <3>1. 2 * (r + 1) - 1 = m /\ r + 1 \in 1..q
      BY <1>17, <2>4
    <3>2. ~p[2 * (r + 1) - 1].last
      BY <1>7, <3>1
    <3> QED BY <2>2, <2>4, <3>1, <3>2
  <2> QED BY <1>16, <2>3, <2>4
<1>31. PICK b, u : b = buffer' /\ u = b \o v
  OBVIOUS
<1>32. b \in Seq(Half) /\ Len(u) = 2 * q - 2 * r /\ \A j \in 1..2 * q - 2 * r : u[j] = p[2 * r + j]
  <2>1. Leaves(m, r, b, p) /\ IsJoin(u, b, v)
    BY <1>30, <1>31 DEF Leaves, IsJoin
  <2>2. /\ b \in Seq(Half) /\ Len(u) = Len(p) - 2 * r /\ \A j \in 1..Len(p) - 2 * r : u[j] = p[2 * r + j]
    BY <1>14, <2>1, Remains
  <2> QED BY <1>7, <2>2
<1>33. u = OnWire' /\ buffer' \in Seq(Half) /\ (buffer' = <<>> \/ (Len(buffer') = 1 /\ ~buffer'[1].last))
  BY <1>13, <1>30, <1>31, <1>32 DEF OnWire
<1>34. StreamTyped'
  BY <1>1, <1>2, <1>15, <1>13, <1>28, <1>33 DEF TokenInv, StreamTyped
<1>35. status = "error" => server = "closed"
  <2>1. ASSUME NEW i \in 1..r, events[i].kind = "error" PROVE server = "closed"
    <3>1. ~(i <= c)
      BY <1>21, <2>1
    <3>2. r > todo
      BY <1>20, <1>5, <3>1
    <3>3. q # todo
      BY <1>17, <1>5, <3>2
    <3> QED BY <1>7, <3>3
  <2> QED BY <1>26, <2>1
<1>36. PICK left \in Nat, q1 \in Nat : d + c + left = t /\ c + left = todo /\ q1 + r = q
  <2>1. todo - c \in Nat /\ q - r \in Nat
    BY <1>17, <1>20, <1>5
  <2>2. d + c + (todo - c) = t /\ c + (todo - c) = todo /\ q - r + r = q
    BY <1>20, <1>5
  <2> QED BY <2>1, <2>2
<1>37. /\ (server # "closed" => q1 = left) /\ (server = "closed" => q1 = left + 1 \/ (q1 = 0 /\ left = 0))
       /\ q1 > 0 => c = r
  <2>1. q = todo \/ q = todo + 1 \/ (q = 0 /\ todo = 0)
    BY <1>7
  <2>2. CASE r <= todo
    <3>1. c = r
      BY <1>20, <2>2
    <3>2. q = todo => q1 = left
      BY <1>36, <1>5, <3>1
    <3>3. q = todo + 1 => q1 = left + 1
      BY <1>36, <1>5, <3>1
    <3>4. q = 0 /\ todo = 0 => q1 = 0 /\ left = 0
      BY <1>36, <1>5, <3>1
    <3> QED BY <1>7, <3>1, <3>2, <3>3, <3>4
  <2>3. CASE r > todo
    <3>1. q = todo + 1 /\ r = q
      BY <1>17, <1>5, <2>1, <2>3
    <3>2. q1 = 0 /\ left = 0
      BY <1>20, <1>36, <1>5, <2>3, <3>1
    <3>3. server = "closed"
      BY <1>7, <1>5, <3>1
    <3> QED BY <3>2, <3>3
  <2> QED BY <1>5, <2>2, <2>3
<1>38. ASSUME NEW k \in 1..q1
       PROVE  /\ ~u[2 * k - 1].last /\ u[2 * k].last
              /\ k <= left => u[2 * k].kind = "token" /\ u[2 * k].n = said[d + c + k]
              /\ k > left => u[2 * k].kind \in {"done", "error"}
  <2>1. PICK j : j = r + k
    OBVIOUS
  <2>2. /\ j \in 1..q /\ 2 * k \in 1..2 * q - 2 * r /\ 2 * k - 1 \in 1..2 * q - 2 * r
        /\ 2 * r + 2 * k = 2 * j /\ 2 * r + (2 * k - 1) = 2 * j - 1
    BY <1>36, <2>1
  <2>3. u[2 * k] = p[2 * j] /\ u[2 * k - 1] = p[2 * j - 1]
    BY <1>32, <2>2
  <2>4. c = r
    BY <1>37
  <2>5. (k <= left => j <= todo) /\ (k > left => j > todo) /\ d + j = d + c + k
    <3>1. r + left = todo
      BY <1>36, <2>4
    <3> QED BY <1>5, <2>1, <2>4, <3>1
  <2> QED BY <1>7, <2>2, <2>3, <2>5
<1>39. HasEvents(q1)'
  <2>1. Len(said') - Len(view'.text) = left
    <3>1. Len(said') = t /\ Len(view'.text) = d + c
      BY <1>2, <1>4, <1>27, <1>28
    <3>2. t - (d + c) = left
      BY <1>36, <1>5
    <3> QED BY <3>1, <3>2
  <2>2. Len(OnWire') = 2 * q1
    <3>1. 2 * q - 2 * r = 2 * q1
      BY <1>36
    <3> QED BY <1>32, <1>33, <3>1
  <2>3. Len(view'.text) = d + c
    BY <1>27, <1>28
  <2> QED BY <1>2, <1>33, <1>37, <1>38, <2>1, <2>2, <2>3 DEF HasEvents
<1>40. (Busy' \/ status = "error") /\ status # "done"
  BY <1>26, <1>28 DEF Busy
<1> QED BY <1>2, <1>26, <1>28, <1>29, <1>33, <1>34, <1>35, <1>36, <1>39, <1>40 DEF TokenInv, Busy

LEMMA TokenInvKept == TokenInv /\ [StreamNext]_streamVars => TokenInv'
<1> SUFFICES ASSUME TokenInv, [StreamNext]_streamVars PROVE TokenInv'
  OBVIOUS
<1>1. CASE UNCHANGED streamVars
  BY <1>1 DEF streamVars, TokenInv, StreamTyped, ShowsPrefix, HasEvents, OnWire, Busy
<1>2. CASE StreamNext
  BY <1>2, StartStreamKeeps, StopsKeep, EndKeepsText, ServerKeeps, ReadKeepsInv DEF StreamNext
<1> QED BY <1>1, <1>2

LEMMA FaithfulOfInv == TokenInv => StreamFaithful
<1> SUFFICES ASSUME TokenInv PROVE StreamFaithful
  OBVIOUS
<1>1. PICK d, t : d = Len(view.text) /\ t = Len(said) /\ d \in Nat /\ t \in Nat /\ d <= t
  <2>1. Len(view.text) \in Nat /\ Len(said) \in Nat /\ Len(view.text) <= Len(said)
    BY DEF TokenInv, StreamTyped, View, ShowsPrefix
  <2> QED BY <2>1
<1>2. view.text \in Seq(Payloads) /\ said \in Seq(Payloads) /\ \A k \in 1..d : view.text[k] = said[k]
  BY <1>1 DEF TokenInv, StreamTyped, View, ShowsPrefix
<1>3. SubSeq(view.text, 1, d) = SubSeq(said, 1, d)
  BY <1>1, <1>2
<1>4. IsPrefix(view.text, said)
  BY <1>1, <1>3 DEF IsPrefix
<1>5. ASSUME view.status = "done", ~view.stopped PROVE view.text = said /\ server = "closed"
  <2>1. d = t
    BY <1>1, <1>5 DEF TokenInv
  <2>2. view.text = said
    <3>1. PICK x, y : x = view.text /\ y = said
      OBVIOUS
    <3>2. x \in Seq(Payloads) /\ y \in Seq(Payloads) /\ Len(x) = Len(y) /\ \A k \in 1..Len(x) : x[k] = y[k]
      BY <1>1, <1>2, <2>1, <3>1
    <3>3. x = y
      BY ONLY <3>2, SeqEqual
    <3> QED BY <3>1, <3>3
  <2> QED BY <1>5, <2>2 DEF TokenInv, Busy
<1> QED BY <1>4, <1>5 DEF StreamFaithful

\* For any number of requests and tokens, wherever the chunks are cut and whenever the user stops or the
\* connection breaks: the page shows the tokens of the current request in order and without a gap, all of
\* them once it is done.
THEOREM StreamIsFaithful == StreamInit /\ [][StreamNext]_streamVars => []StreamFaithful
BY InitTokenInv, TokenInvKept, FaithfulOfInv, PTL

-----------------------------------------------------------------------------
(* The input form: InputForm. *)

FormFile == [id : Nat \X FileTypes \X Nat, fits : BOOLEAN]
FormFiles == [FileTypes -> Seq(FormFile)]
FormTyped == attached \in FormFiles /\ handed \in [files : FormFiles, text : BOOLEAN]
             /\ wrote \in BOOLEAN /\ picks \in Nat

\* A kind's files that are still there.
Carries(new, old) == \A kind \in FileTypes : ToSet(old[kind]) \subseteq ToSet(new[kind])

\* The members of a sequence.
LEMMA MembersOf ==
  ASSUME NEW S, NEW s \in Seq(S)
  PROVE  \A x : x \in ToSet(s) <=> \E i \in 1..Len(s) : s[i] = x
BY DEF ToSet

\* What is put behind a sequence, cut or not where there is room left, takes nothing out of it.
LEMMA BehindIsKept ==
  ASSUME NEW S, NEW s \in Seq(S), NEW t \in Seq(S), NEW n \in Nat
  PROVE  /\ s \o t \in Seq(S) /\ ToSet(s) \subseteq ToSet(s \o t)
         /\ Slice(t, n) \in Seq(S)
         /\ Len(s) <= n => ToSet(s) \subseteq ToSet(Slice(s \o t, n))
<1> DEFINE all == s \o t
<1>1. all \in Seq(S) /\ Len(all) = Len(s) + Len(t) /\ Len(s) \in Nat /\ Len(t) \in Nat
      /\ \A i \in 1..Len(s) : all[i] = s[i]
  BY ConcatProperties
<1> HIDE DEF all
<1>2. ToSet(s) \subseteq ToSet(all)
  <2> SUFFICES ASSUME NEW i \in 1..Len(s) PROVE \E j \in 1..Len(all) : all[j] = s[i]
    BY <1>1, MembersOf
  <2>1. i \in 1..Len(all) /\ all[i] = s[i]
    BY <1>1
  <2> QED BY <2>1
<1>3. ASSUME NEW u \in Seq(S)
      PROVE  /\ Slice(u, n) \in Seq(S) /\ Len(Slice(u, n)) = (IF Len(u) < n THEN Len(u) ELSE n)
             /\ \A i \in 1..Len(Slice(u, n)) : Slice(u, n)[i] = u[i]
  <2>1. PICK k : k = (IF Len(u) < n THEN Len(u) ELSE n)
    OBVIOUS
  <2>2. k \in Nat /\ k <= Len(u) /\ Len(u) \in Nat
    BY <2>1
  <2>3. \A i \in 1..k : u[i] \in S
    BY <2>2
  <2>4. SubSeq(u, 1, k) \in Seq(S) /\ Len(SubSeq(u, 1, k)) = k /\ \A i \in 1..k : SubSeq(u, 1, k)[i] = u[i]
    BY <2>2, <2>3
  <2> QED BY <2>1, <2>4 DEF Slice
<1>4. ASSUME Len(s) <= n PROVE ToSet(s) \subseteq ToSet(Slice(all, n))
  <2>1. Len(s) <= Len(Slice(all, n))
    BY <1>1, <1>3, <1>4
  <2>2. Slice(all, n) \in Seq(S) /\ \A i \in 1..Len(Slice(all, n)) : Slice(all, n)[i] = all[i]
    BY <1>1, <1>3
  <2> SUFFICES ASSUME NEW i \in 1..Len(s) PROVE \E j \in 1..Len(Slice(all, n)) : Slice(all, n)[j] = s[i]
    BY <2>2, MembersOf
  <2>3. i \in 1..Len(Slice(all, n))
    BY <1>1, <2>1, <2>2
  <2> QED BY <1>1, <2>2, <2>3
<1>5. Slice(t, n) \in Seq(S)
  BY <1>3
<1> QED BY <1>1, <1>2, <1>4, <1>5 DEF all

\* RemoveAt takes out one member at most.
LEMMA OneIsRemoved ==
  ASSUME NEW S, NEW s \in Seq(S), NEW i \in 1..Len(s)
  PROVE  RemoveAt(s, i) \in Seq(S) /\ ToSet(s) \ {s[i]} \subseteq ToSet(RemoveAt(s, i))
<1>1. PICK n, a, b : n = Len(s) /\ a = SubSeq(s, 1, i - 1) /\ b = SubSeq(s, i + 1, n)
  OBVIOUS
<1>2. n \in Nat /\ i \in Nat /\ i >= 1 /\ i <= n
  BY <1>1
<1>3. a \in Seq(S) /\ Len(a) = i - 1 /\ \A j \in 1..(i - 1) : a[j] = s[j]
  BY <1>1, <1>2
<1>4. b \in Seq(S) /\ Len(b) = n - i /\ \A j \in 1..(n - i) : b[j] = s[i + j]
  BY <1>1, <1>2
<1>5. PICK r : r = RemoveAt(s, i) /\ r = a \o b
  BY <1>1 DEF RemoveAt
<1>6. /\ r \in Seq(S) /\ Len(r) = n - 1 /\ (\A j \in 1..(i - 1) : r[j] = s[j])
      /\ \A j \in (i + 1)..n : j - 1 \in 1..(n - 1) /\ r[j - 1] = s[j]
  <2>1. /\ a \o b \in Seq(S) /\ Len(a \o b) = Len(a) + Len(b)
        /\ \A j \in 1..(Len(a) + Len(b)) : (a \o b)[j] = IF j <= Len(a) THEN a[j] ELSE b[j - Len(a)]
    BY <1>3, <1>4, ConcatProperties
  <2>2. PICK l, m : l = i - 1 /\ m = n - i /\ l \in Nat /\ m \in Nat /\ l + m = n - 1 /\ l + 1 = i
    BY <1>2
  <2>3. /\ r \in Seq(S) /\ Len(r) = n - 1
        /\ \A j \in 1..(n - 1) : r[j] = IF j <= l THEN a[j] ELSE b[j - l]
    BY <2>1, <2>2, <1>3, <1>4, <1>5
  <2>4. ASSUME NEW j \in 1..(i - 1) PROVE r[j] = s[j]
    <3>1. j \in 1..(n - 1) /\ j <= l
      BY <1>2, <2>2
    <3> QED BY <2>3, <3>1, <1>3
  <2>5. ASSUME NEW j \in (i + 1)..n PROVE j - 1 \in 1..(n - 1) /\ r[j - 1] = s[j]
    <3>1. PICK k : k = j - 1 /\ k \in 1..(n - 1) /\ ~(k <= l) /\ k - l \in 1..(n - i) /\ i + (k - l) = j
      BY <1>2, <2>2
    <3>2. r[k] = b[k - l]
      BY <2>3, <3>1
    <3>3. b[k - l] = s[i + (k - l)]
      BY <1>4, <3>1
    <3> QED BY <3>1, <3>2, <3>3
  <2> QED BY <2>3, <2>4, <2>5
<1>7. ASSUME NEW x \in ToSet(s), x # s[i] PROVE x \in ToSet(r)
  <2>1. PICK j \in 1..n : s[j] = x
    BY <1>1, <1>7, MembersOf
  <2>2. CASE j < i
    <3>1. j \in 1..(i - 1) /\ j \in 1..Len(r)
      BY <2>1, <2>2, <1>2, <1>6
    <3>2. r[j] = x
      BY <2>1, <3>1, <1>6
    <3> QED BY <3>1, <3>2, <1>6, MembersOf
  <2>3. CASE j > i
    <3>1. j \in (i + 1)..n /\ j - 1 \in 1..Len(r)
      BY <2>1, <2>3, <1>2, <1>6
    <3>2. r[j - 1] = x
      BY <2>1, <3>1, <1>6
    <3> QED BY <3>1, <3>2, <1>6, MembersOf
  <2> QED BY <2>1, <2>2, <2>3, <1>2, <1>7
<1> QED BY <1>5, <1>6, <1>7

LEMMA ModesAreTabs == Modes[1] # "" /\ \A i \in DOMAIN Modes : Modes[i] # ""
<1>1. PICK m : m = Modes /\ m \in Seq({"text", "file", "image", "audio"}) /\ m # <<>>
  BY InputFormAssumption
<1>2. 1 \in DOMAIN m /\ \A i \in DOMAIN m : m[i] \in {"text", "file", "image", "audio"}
  BY <1>1
<1>3. \A i \in DOMAIN m : m[i] # ""
  BY <1>2
<1> QED BY <1>1, <1>2, <1>3

LEMMA MatchingTyped ==
  ASSUME NEW chosen \in [FileTypes -> Seq(BOOLEAN)], NEW kinds, picks \in Nat
  PROVE  Matching(chosen, kinds) \in FormFiles
<1> SUFFICES ASSUME NEW kind \in FileTypes
             PROVE  [i \in DOMAIN chosen[kind] |-> [id |-> <<picks, kind, i>>, fits |-> chosen[kind][i]]] \in Seq(FormFile)
  BY DEF Matching, FormFiles
<1>1. PICK s : s = chosen[kind] /\ s \in Seq(BOOLEAN)
  OBVIOUS
<1>2. ASSUME NEW i \in 1..Len(s) PROVE [id |-> <<picks, kind, i>>, fits |-> s[i]] \in FormFile
  <2>1. i \in Nat /\ s[i] \in BOOLEAN
    BY <1>1
  <2> QED BY <2>1 DEF FormFile
<1>3. [i \in 1..Len(s) |-> [id |-> <<picks, kind, i>>, fits |-> s[i]]] \in Seq(FormFile)
  BY <1>1, <1>2
<1> QED BY <1>1, <1>3

LEMMA AddFilesKeep ==
  ASSUME FormTyped, NEW files \in FormFiles, AddFiles(files), UNCHANGED <<open, handed, wrote>>, picks' \in Nat
  PROVE  FormTyped' /\ KeepsFiles
<1>1. ASSUME NEW kind \in FileTypes
      PROVE  attached'[kind] \in Seq(FormFile) /\ ToSet(attached[kind]) \subseteq ToSet(attached'[kind])
  <2>1. attached[kind] \in Seq(FormFile) /\ files[kind] \in Seq(FormFile)
    BY DEF FormTyped, FormFiles
  <2>2. attached'[kind] = attached[kind] \o files[kind]
    BY DEF AddFiles
  <2> QED BY <2>1, <2>2, BehindIsKept
<1>2. attached' \in FormFiles
  BY <1>1 DEF AddFiles, FormFiles
<1>3. AllFiles \subseteq AllFiles'
  BY <1>1 DEF AllFiles
<1> QED BY <1>2, <1>3 DEF FormTyped, KeepsFiles

LEMMA PickImagesKeeps ==
  ASSUME FormTyped, NEW chosen \in Selections, NEW multiple \in BOOLEAN, PickImages(chosen, multiple)
  PROVE  FormTyped' /\ KeepsFiles
<1>1. PICK images, more : /\ images = Matching(chosen, {"image"})["image"]
                          /\ more = (IF multiple THEN images ELSE Slice(images, 1))
  OBVIOUS
<1>2. more \in Seq(FormFile)
  <2>1. Matching(chosen, {"image"}) \in FormFiles
    BY InputFormAssumption, MatchingTyped DEF FormTyped
  <2>2. images \in Seq(FormFile)
    BY <1>1, <2>1 DEF FormFiles, FileTypes
  <2>3. Slice(images, 1) \in Seq(FormFile)
    BY <2>2, BehindIsKept
  <2> QED BY <1>1, <2>2, <2>3
<1>3. PICK s : s = attached["image"] /\ s \in Seq(FormFile) /\ Len(s) \in Nat /\ Len(s) <= MaxAttached
  BY InputFormAssumption DEF FormTyped, FormFiles, FileTypes, PickImages, Full
<1>4. attached' = [attached EXCEPT !["image"] = Slice(s \o more, MaxAttached)]
  BY <1>1, <1>3 DEF PickImages
<1>5. Slice(s \o more, MaxAttached) \in Seq(FormFile) /\ ToSet(s) \subseteq ToSet(Slice(s \o more, MaxAttached))
  <2>1. s \o more \in Seq(FormFile)
    BY <1>2, <1>3, BehindIsKept
  <2> QED BY <1>2, <1>3, <2>1, InputFormAssumption, BehindIsKept
<1>6. attached' \in FormFiles /\ \A kind \in FileTypes : ToSet(attached[kind]) \subseteq ToSet(attached'[kind])
  BY <1>3, <1>4, <1>5 DEF FormTyped, FormFiles
<1>7. AllFiles \subseteq AllFiles'
  BY <1>6 DEF AllFiles, PickImages, Picking
<1> QED BY <1>6, <1>7 DEF FormTyped, KeepsFiles, PickImages, Picking

LEMMA DetachKeeps ==
  ASSUME FormTyped, NEW kind \in FileTypes, NEW i \in DOMAIN attached[kind], Detach(kind, i)
  PROVE  FormTyped' /\ KeepsFiles
<1>1. PICK s : s = attached[kind] /\ s \in Seq(FormFile) /\ i \in 1..Len(s)
  BY DEF FormTyped, FormFiles
<1>2. RemoveAt(s, i) \in Seq(FormFile) /\ ToSet(s) \ {s[i]} \subseteq ToSet(RemoveAt(s, i)) /\ s[i] \in ToSet(s)
  BY <1>1, OneIsRemoved, MembersOf
<1>3. attached' = [attached EXCEPT ![kind] = RemoveAt(s, i)] /\ UNCHANGED <<open, wrote, handed, picks>> /\ open # ""
  BY <1>1 DEF Detach
<1>4. attached' \in FormFiles
  BY <1>2, <1>3 DEF FormTyped, FormFiles
<1>5. \A k \in FileTypes : ToSet(attached[k]) \ {s[i]} \subseteq ToSet(attached'[k])
  BY <1>1, <1>2, <1>3 DEF FormTyped, FormFiles
<1>6. s[i] \in AllFiles /\ AllFiles \ {s[i]} \subseteq AllFiles'
  BY <1>1, <1>2, <1>3, <1>5 DEF AllFiles
<1> QED BY <1>3, <1>4, <1>6 DEF FormTyped, KeepsFiles

LEMMA FormStepKeeps == FormTyped /\ [FormNext]_formVars => FormTyped' /\ (KeepsFiles \/ UNCHANGED formVars)
<1> SUFFICES ASSUME FormTyped, [FormNext]_formVars PROVE FormTyped' /\ (KeepsFiles \/ UNCHANGED formVars)
  OBVIOUS
<1>1. CASE UNCHANGED formVars
  BY <1>1 DEF formVars, FormTyped
<1>2. CASE (\E i \in DOMAIN Modes : OpenTab(Modes[i])) \/ Write
  <2>1. UNCHANGED <<attached, handed, picks>> /\ open # ""
    BY <1>2 DEF OpenTab, Write
  <2>2. open' # ""
    BY <1>2, <2>1, ModesAreTabs DEF OpenTab, Write
  <2>3. AllFiles' = AllFiles
    BY <2>1, <2>2 DEF AllFiles
  <2>4. wrote' \in BOOLEAN
    BY <1>2 DEF OpenTab, Write, FormTyped
  <2> QED BY <2>1, <2>3, <2>4 DEF FormTyped, KeepsFiles
<1>3. ASSUME NEW fits \in BOOLEAN, KeepRecording(fits) PROVE FormTyped' /\ KeepsFiles
  <2>1. [NoFiles EXCEPT !["audio"] = <<fits>>] \in [FileTypes -> Seq(BOOLEAN)]
    <3>1. <<fits>> \in Seq(BOOLEAN) /\ NoFiles \in [FileTypes -> Seq(BOOLEAN)]
      BY DEF NoFiles
    <3> QED BY <3>1
  <2>2. Matching([NoFiles EXCEPT !["audio"] = <<fits>>], {"audio"}) \in FormFiles
    BY <2>1, MatchingTyped DEF FormTyped
  <2>3. AddFiles(Matching([NoFiles EXCEPT !["audio"] = <<fits>>], {"audio"}))
        /\ UNCHANGED <<open, handed, wrote>> /\ picks' \in Nat
    BY <1>3 DEF KeepRecording, Picking, FormTyped
  <2> QED BY <2>2, <2>3, AddFilesKeep
<1>4. ASSUME NEW chosen \in Selections, PickFiles(chosen) \/ PickAudio(chosen) PROVE FormTyped' /\ KeepsFiles
  <2>1. PICK kinds : AddFiles(Matching(chosen, kinds)) /\ UNCHANGED <<open, handed, wrote>> /\ picks' = picks + 1
    BY <1>4 DEF PickFiles, PickAudio, Picking
  <2>2. Matching(chosen, kinds) \in FormFiles
    BY InputFormAssumption, MatchingTyped DEF FormTyped
  <2> QED BY <2>1, <2>2, AddFilesKeep DEF FormTyped
<1>5. CASE SubmitForm
  <2>1. NoFiles \in FormFiles
    BY DEF NoFiles, FormFiles
  <2>2. AllFiles' = AllFiles
    BY <1>5 DEF SubmitForm, AllFiles
  <2> QED BY <1>5, <2>1, <2>2 DEF SubmitForm, FormTyped, KeepsFiles
<1>6. CASE Edit
  <2>1. Modes[1] # ""
    BY ModesAreTabs
  <2>2. AllFiles' = AllFiles
    BY <1>6, <2>1 DEF Edit, Begins, AllFiles
  <2> QED BY <1>6, <2>2 DEF Edit, Begins, FormTyped, KeepsFiles
<1>7. CASE Anew
  <2>1. NoFiles \in FormFiles
    BY DEF NoFiles, FormFiles
  <2> QED BY <1>7, <2>1 DEF Anew, Begins, NoInput, FormTyped, KeepsFiles
<1> QED BY <1>1, <1>2, <1>3, <1>4, <1>5, <1>6, <1>7, PickImagesKeeps, DetachKeeps DEF FormNext

\* For any tabs, accept lists, limits and choices: the files a user attached stay until the user removes them
\* or begins a new input.
THEOREM AttachedFilesStay == FormSpec => FilesStay
<1>1. FormInit => FormTyped
  <2>1. NoFiles \in FormFiles /\ 0 \in Nat
    BY DEF NoFiles, FormFiles
  <2>2. NoInput \in [files : FormFiles, text : BOOLEAN]
    BY <2>1 DEF NoInput
  <2> QED BY <2>1, <2>2 DEF FormInit, FormTyped
<1> QED BY <1>1, FormStepKeeps, PTL DEF FormSpec, FilesStay
==============================================================================
