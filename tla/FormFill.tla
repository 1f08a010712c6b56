------------------------------ MODULE FormFill ------------------------------
(***************************************************************************)
(* What the content script does for one test case: it begins to observe    *)
(* (content/observe.ts), fills the form field by field while the           *)
(* application handles the events of each (content/fill.ts), submits, and  *)
(* says at each poll what it sees.  The application may act between the    *)
(* executor's calls, which are synchronous.                                *)
(*                                                                         *)
(* A field is a radio group or a single control; several options chosen at *)
(* once, the wording of messages and their tone are left out.              *)
(***************************************************************************)
EXTENDS Naturals, Sequences, SequencesExt

CONSTANTS
    FillForms,  \* forms: [fields, validates, marks]
    Values,     \* what a case may ask of a field: index -> value
    Regions,    \* alerts and live regions of the page, in document order
    Texts,      \* what they may say
    QuietFor,   \* QUIET_MS in ticks
    Acts        \* bound: what the application does by itself

(* A field: the first control's kind, its options [value, label, off] and default, whether the form needs it *)
(* and whether it is disabled; and what the application's handler of its event on does.                      *)
Kinds == {"text", "number", "checkbox", "radio", "select", "file", "other", "missing"}
Deeds == {"nothing", "rewrites", "reverts", "cancels", "fills", "asks", "syncs"}

ASSUME FormFillAssumption ==
    /\ \A f \in FillForms : \A i \in DOMAIN f.fields :
         LET c == f.fields[i] IN
         /\ c.kind \in Kinds /\ c.does \in Deeds /\ c.on \in {"focus", "click", "input", "change", "blur"}
         /\ c.off \in BOOLEAN /\ c.required \in BOOLEAN
    /\ Regions \in Nat /\ "" \notin Texts /\ QuietFor \in Nat \ {0} /\ Acts \in Nat

VARIABLES
    form, plan,
    step,       \* the executor's next call: "begin", "fill", "submit" or "poll"; "filling" during the fill
    todo,       \* the fields still to be filled in
    doc,        \* the form's state: [held, default, fired, by]; by: who wrote a field last
    flagged,    \* fields marked invalid or with an error beside them: [aria, text]
    present,    \* the form is there and visible
    text,       \* what each region says, "" for nothing
    obs,        \* the observation: [on, baseline, mutations]
    memory,     \* entries of the last fill
    reports,
    age, mutations, \* lastMutationAt, in ticks up to QuietFor, and how many
    acts, was   \* observed only: was: [texts, stirred, reset]

fillVars == <<form, plan, step, todo, doc, flagged, present, text, obs, memory, reports, age, mutations, acts, was>>

Fields == DOMAIN form.fields
Kind(f) == form.fields[f].kind
Options(f) == form.fields[f].options
Chosen == {"radio", "select"}

-----------------------------------------------------------------------------
(* Values of controls: text, the index of an option (0: none), or 0 and 1 of a checkbox. *)

\* readValue() and, of the state that a reset restores, defaultValue().
ReadValue(f, held) ==
    CASE Kind(f) = "missing" -> ""
      [] Kind(f) = "checkbox" -> IF held = 1 THEN "true" ELSE "false"
      [] Kind(f) \in Chosen -> IF held = 0 THEN "" ELSE Options(f)[held].value
      [] OTHER -> held

DefaultValue(f, d) ==
    IF Kind(f) = "select" /\ d.default[f] = 0 THEN Options(f)[1].value ELSE ReadValue(f, d.default[f])

Held(f) == ReadValue(f, doc.held[f])

\* The browser: what a control holds after a reset; of a list without a default the first option.
AtReset(f, default) == IF f.kind = "select" /\ default = 0 THEN 1 ELSE default

\* The option that is meant: by its value, or else by its label.
Option(f, v) ==
    LET By(part) == SelectInSeq(Options(f), LAMBDA o : o[part] = v)
    IN  IF By("value") # 0 THEN By("value") ELSE By("label")

\* The browser: what a control holds after its value is set.
Sanitised(f, v) ==
    CASE Kind(f) = "select" -> SelectInSeq(Options(f), LAMBDA o : o.value = v)
      [] Kind(f) = "number" -> IF v \in {"5", "7"} THEN v ELSE ""
      [] OTHER -> v

-----------------------------------------------------------------------------
(* Events, and what the application makes of them. *)

\* Constraint validation; an "invalid" event is fired at each field that fails it.
Invalid(d) == {f \in Fields : form.fields[f].required /\ ReadValue(f, d.held[f]) = ""}

\* fire(), fireInput(), focusEl() and blurEl(): whether or not the window has the focus, handlers run.
Fire(d, f, event) ==
    LET c == form.fields[f] IN
    CASE c.on # event \/ c.does \in {"nothing", "cancels"} -> d
      [] c.on = event /\ c.does = "rewrites" -> [d EXCEPT !.held[f] = "7", !.by[f] = "own"]
      [] c.on = event /\ c.does = "reverts" -> [d EXCEPT !.held[f] = AtReset(c, d.default[f]), !.by[f] = "own"]
      [] c.on = event /\ c.does = "fills" -> [d EXCEPT !.held[c.to] = "7", !.by[c.to] = "other"]
      [] c.on = event /\ c.does = "syncs" -> [d EXCEPT !.default[f] = d.held[f]]
      [] c.on = event /\ c.does = "asks" -> [d EXCEPT !.fired = IF obs.on THEN @ \cup Invalid(d) ELSE @]

Changed(d, f) == Fire(Fire(d, f, "input"), f, "change")
Set(d, f, held) == [d EXCEPT !.held[f] = held, !.by[f] = "alt"]

\* el.click() on a radio or a checkbox; a cancelled click leaves it as it was.
Click(d, f, held) ==
    IF form.fields[f].on = "click" /\ form.fields[f].does = "cancels" THEN d
    ELSE Changed(Fire(Set(d, f, held), f, "click"), f)

\* "A handler cancelled the click; set it directly so the case still runs as planned."
Check(d, f, held) ==
    LET clicked == IF d.held[f] = held THEN d ELSE Click(d, f, held)
    IN  IF clicked.held[f] = held THEN clicked ELSE Changed(Set(clicked, f, held), f)

FillRadio(d, f, v) ==
    LET target == Option(f, v) IN
    IF target = 0 \/ (target # 0 /\ Options(f)[target].off) THEN d
    ELSE Fire(Check(Fire(d, f, "focus"), f, target), f, "blur")

FillCheckbox(d, f, v) == Fire(Check(Fire(d, f, "focus"), f, IF v = "true" THEN 1 ELSE 0), f, "blur")

FillValue(d, f, v) ==
    LET next == IF Kind(f) = "select" /\ Option(f, v) # 0 THEN Options(f)[Option(f, v)].value ELSE v
    IN  Fire(Changed(Set(Fire(d, f, "focus"), f, Sanitised(f, next)), f), f, "blur")

Report(d, f, applied, sanitized, error) ==
    [doc |-> d, report |-> [field |-> f, applied |-> applied, sanitized |-> sanitized, ok |-> ~error]]

\* Mutant of FillOne: the value is read before the field is left.
FillOneEarly(d, f, v) ==
    LET filled == Changed(Set(Fire(d, f, "focus"), f, Sanitised(f, v)), f)
    IN  IF Kind(f) \in {"text", "number"}
        THEN Report(Fire(filled, f, "blur"), f, filled.held[f], filled.held[f] # v, FALSE)
        ELSE Report(d, f, "", FALSE, TRUE)

\* fillOne(): what it changes and what it reports.
FillOne(d, f, v) ==
    LET Told(e, wanted, error) == LET got == ReadValue(f, e.held[f]) IN Report(e, f, got, got # wanted, error)
    IN  CASE Kind(f) = "missing" -> Report(d, f, "", FALSE, TRUE)
          [] Kind(f) = "radio" ->
               IF Option(f, v) = 0 THEN Report(d, f, ReadValue(f, d.held[f]), TRUE, TRUE)
               ELSE Told(FillRadio(d, f, v), v, FALSE)
          [] Kind(f) = "other" -> Report(d, f, "", FALSE, TRUE)
          [] Kind(f) \notin {"missing", "radio", "other"} /\ form.fields[f].off ->
               Report(d, f, ReadValue(f, d.held[f]), TRUE, TRUE)
          [] Kind(f) = "file" /\ ~form.fields[f].off -> Report(d, f, ReadValue(f, d.held[f]), TRUE, TRUE)
          [] Kind(f) = "checkbox" /\ ~form.fields[f].off ->
               Told(FillCheckbox(d, f, v), IF v = "true" THEN "true" ELSE "false", FALSE)
          [] Kind(f) = "select" /\ ~form.fields[f].off ->
               IF Option(f, v) = 0 THEN LET e == FillValue(d, f, v) IN Report(e, f, ReadValue(f, e.held[f]), TRUE, FALSE)
               ELSE Told(FillValue(d, f, v), Options(f)[Option(f, v)].value, FALSE)
          [] Kind(f) \in {"text", "number"} /\ ~form.fields[f].off -> Told(FillValue(d, f, v), v, FALSE)

-----------------------------------------------------------------------------
(* What is observed. *)

\* visibleMessages(): of two regions with the same text the first; nested ones have the same.
VisibleMessages == {r \in 1..Regions : text[r] # "" /\ \A q \in 1..(r - 1) : text[q] # text[r]}

\* onMutations(): a change of ALT's overlay is none, nor is one that only adds or removes its parts.
Record(target, nodes) == [target |-> target, nodes |-> nodes]
Relevant(r) == r.target # "alt" /\ ~(r.nodes # {} /\ r.nodes \subseteq {"alt"})

OnMutations(records) ==
    IF \E r \in records : Relevant(r)
    THEN age' = 0 /\ mutations' = mutations + 1 ELSE UNCHANGED <<age, mutations>>

\* Nodes of the page change.
Stirs == OnMutations({Record("page", {"page"})})

NoObservation == [on |-> FALSE, baseline |-> [r \in 1..Regions |-> ""], from |-> 0]

\* beginObservation(): the baseline is what the visible messages say.
Observation ==
    [on |-> TRUE, baseline |-> [r \in 1..Regions |-> IF r \in VisibleMessages THEN text[r] ELSE ""], from |-> mutations]

\* Mutant of NewMessages: a region that said something before says nothing new.
NewRegions == {r \in VisibleMessages : ~(obs.on /\ obs.baseline[r] # "")}

\* snapshot(): messages that the baseline does not have.
NewMessages == {r \in VisibleMessages : ~(obs.on /\ obs.baseline[r] = text[r])}

\* trackedFields(): those of the observation, or every control of the page.
Tracked == {f \in Fields : Kind(f) # "missing" /\ (obs.on \/ Kind(f) # "other")}

\* validationMessages(): native ones, then marks, then texts beside fields without a mark.
ValidationMessages ==
    [native |-> (IF obs.on THEN doc.fired ELSE {}) \cup (IF form.validates /\ present THEN Invalid(doc) ELSE {}),
     aria |-> flagged.aria, text |-> (flagged.text \ flagged.aria) \cap Tracked]

\* isResetNow(): every field that was filled in is at its default, and some was not.
IsResetNow ==
    /\ memory # <<>> /\ present
    /\ \A i \in DOMAIN memory :
         Held(memory[i].field) \in {DefaultValue(memory[i].field, doc), memory[i].initial}
    /\ \E i \in DOMAIN memory : memory[i].applied # memory[i].initial

Snapshot ==
    [formPresent |-> present /\ (obs.on \/ memory # <<>>), clientInvalid |-> obs.on /\ doc.fired # {},
     validation |-> ValidationMessages, messages |-> {text[r] : r \in NewMessages},
     formReset |-> IsResetNow, quiet |-> age >= QuietFor, mutations |-> mutations - obs.from,
     values |-> [f \in Tracked |-> Held(f)]]

-----------------------------------------------------------------------------
(* The executor's calls. *)

Undisturbed == [texts |-> {}, stirred |-> QuietFor, reset |-> FALSE]
Blank(f) ==
    LET defaults == [i \in DOMAIN f.fields |-> f.fields[i].default]
    IN  [held |-> [i \in DOMAIN defaults |-> AtReset(f.fields[i], defaults[i])], default |-> defaults, fired |-> {}, by |-> [i \in DOMAIN f.fields |-> "none"]]

FillInit ==
    /\ form \in FillForms /\ plan \in Values /\ DOMAIN plan \subseteq Fields
    /\ step = "begin" /\ todo = {} /\ doc = Blank(form) /\ flagged = [aria |-> {}, text |-> {}] /\ present = TRUE
    /\ text \in [1..Regions -> Texts \cup {""}] /\ obs = NoObservation /\ memory = <<>> /\ reports = <<>>
    /\ age = QuietFor /\ mutations = 0 /\ acts = 0 /\ was = Undisturbed

\* alt:observe.begin; the executor goes on when it fails.
Begin ==
    /\ step = "begin" /\ step' = "fill" /\ UNCHANGED todo
    /\ \/ obs' = Observation /\ doc' = [doc EXCEPT !.fired = {}]
          /\ was' = [was EXCEPT !.texts = {text[r] : r \in 1..Regions}]
       \/ UNCHANGED <<obs, doc, was>>
    /\ UNCHANGED <<form, plan, flagged, present, text, memory, reports, age, mutations, acts>>

\* alt:fill; each field is highlighted, which changes ALT's overlay alone.
StartFill ==
    /\ step = "fill"
    /\ IF present
       THEN /\ todo' = DOMAIN plan /\ step' = (IF todo' = {} THEN "submit" ELSE "filling")
            /\ OnMutations({Record("page", {"alt"}), Record("alt", {})})
            /\ was' = [was EXCEPT !.reset = FALSE]
       ELSE step' = "over" /\ UNCHANGED <<todo, age, mutations, was>>
    /\ UNCHANGED <<form, plan, doc, flagged, present, text, obs, memory, reports, acts>>

\* A handler of the field's events runs, and may change the page.
Handled(f) == Kind(f) \in {"text", "number", "checkbox", "radio", "select"} /\ ~form.fields[f].off /\ form.fields[f].does # "nothing"

\* fillForm(): one field after the other, with nothing between but the handlers of their events.  Its
\* catch is not reached: queryAll() takes a bad selector for none found, and what a handler throws
\* does not come back from dispatchEvent() and click().
FillField ==
    /\ step = "filling"
    /\ \E f \in todo :
         /\ \A g \in todo : f <= g
         /\ \E one \in {FillOne(doc, f, plan[f])} :
              /\ doc' = one.doc /\ reports' = Append(reports, one.report)
              /\ memory' = IF Kind(f) = "missing" THEN memory
                           ELSE Append(memory, [field |-> f, initial |-> DefaultValue(f, doc), applied |-> one.report.applied])
         /\ \/ Handled(f) /\ Stirs /\ was' = [was EXCEPT !.stirred = 0]
            \/ UNCHANGED <<age, mutations, was>>
         /\ todo' = todo \ {f} /\ step' = IF todo' = {} THEN "submit" ELSE step
    /\ UNCHANGED <<form, plan, flagged, present, text, obs, acts>>

\* alt:submit: the browser validates; what the application does of a valid submission it does by itself.
Press ==
    /\ step = "submit" /\ step' = "poll" /\ UNCHANGED todo
    /\ doc' = IF present /\ form.validates /\ obs.on THEN [doc EXCEPT !.fired = @ \cup Invalid(doc)] ELSE doc
    /\ UNCHANGED <<form, plan, flagged, present, text, obs, memory, reports, age, mutations, acts, was>>

-----------------------------------------------------------------------------
(* The application. *)

Acting == step # "filling" /\ acts < Acts /\ acts' = acts + 1 /\ UNCHANGED <<form, plan, step, todo, reports>>

\* A region says something else, or nothing.
Tell ==
    /\ Acting /\ \E r \in 1..Regions, t \in Texts \cup {""} : text[r] # t /\ text' = [text EXCEPT ![r] = t]
    /\ Stirs /\ was' = [was EXCEPT !.stirred = 0] /\ UNCHANGED <<doc, flagged, present, obs, memory>>

\* Fields are marked, or get an error beside them.
Flag ==
    /\ Acting /\ form.marks # {}
    /\ flagged' \in {[aria |-> form.marks, text |-> {}], [aria |-> {}, text |-> form.marks],
                     [aria |-> form.marks, text |-> form.marks]} \ {flagged}
    /\ Stirs /\ was' = [was EXCEPT !.stirred = 0] /\ UNCHANGED <<doc, present, text, obs, memory>>

\* form.reset(), which changes no node.
Resets ==
    /\ Acting /\ doc' = [doc EXCEPT !.held = [f \in Fields |-> AtReset(form.fields[f], doc.default[f])], !.by = [f \in Fields |-> "app"]]
    /\ was' = [was EXCEPT !.reset = TRUE] /\ UNCHANGED <<flagged, present, text, obs, memory, age, mutations>>

\* The form goes, or comes back.
Vanish ==
    /\ Acting /\ present' = ~present
    /\ Stirs /\ was' = [was EXCEPT !.stirred = 0] /\ UNCHANGED <<doc, flagged, text, obs, memory>>

\* Another document: the content script starts anew.
Navigate ==
    /\ Acting /\ step # "fill" /\ doc' = Blank(form) /\ flagged' = [aria |-> {}, text |-> {}] /\ present' = TRUE
    /\ text' = [r \in 1..Regions |-> ""] /\ obs' = NoObservation /\ memory' = <<>>
    /\ age' = 0 /\ mutations' = 0 /\ was' = [Undisturbed EXCEPT !.stirred = 0]

Passes ==
    /\ step # "filling" /\ (age < QuietFor \/ was.stirred < QuietFor)
    /\ age' = age + 1 /\ was' = [was EXCEPT !.stirred = @ + 1]
    /\ UNCHANGED <<form, plan, step, todo, doc, flagged, present, text, obs, memory, reports, mutations, acts>>

FillNext == Begin \/ StartFill \/ FillField \/ Press \/ Tell \/ Flag \/ Resets \/ Vanish \/ Navigate \/ Passes

FillSpec == FillInit /\ [][FillNext]_fillVars

-----------------------------------------------------------------------------
(* Properties. *)

\* "The browser sanitised the test value, so the app never sees it" (executor.ts:189): of what was
\* filled in, sanitized says that the field, left again, does not hold the option or the text that
\* was asked for, whatever the application's handlers did; unless the handler of another field
\* changed it later, which nobody reads.
Meant(f, v, got) ==
    CASE Kind(f) \in Chosen -> Option(f, v) # 0 /\ got = Options(f)[Option(f, v)].value
      [] Kind(f) = "checkbox" -> got = (IF v = "true" THEN "true" ELSE "false")
      [] OTHER -> got = v
ToldRight(report) ==
    report.ok /\ doc.by[report.field] # "other" =>
        report.sanitized = ~Meant(report.field, plan[report.field], Held(report.field))
AllToldRight == \A i \in DOMAIN reports : ToldRight(reports[i])
FilledAsReported == [][reports' # reports => AllToldRight']_fillVars

\* The form counts as reset when its fields were reset since they were filled in, and not while a
\* field holds what ALT put into it.  An application whose framework keeps the default in step with
\* the value ("syncs") breaks it: see the README.
ResetIsRight ==
    LET kept == {i \in DOMAIN memory : memory[i].applied # memory[i].initial}
    IN  /\ was.reset /\ present /\ kept # {} => Snapshot.formReset
        /\ Snapshot.formReset => \A i \in kept : Held(memory[i].field) # memory[i].applied

\* What the page says now and said nowhere when the observation began is told.
NewIsTold == obs.on => {text[r] : r \in 1..Regions} \ (was.texts \cup {""}) \subseteq Snapshot.messages

\* "quietMs" is about the page: ALT's own overlay, which changes at every step, does not disturb it.
QuietIsThePages == Snapshot.quiet = (was.stirred >= QuietFor)

\* The evidence of a poll is true of the page: of the fields, of its messages and of its rest.
EvidenceIsTrue == ResetIsRight /\ NewIsTold /\ QuietIsThePages

\* What is told as new said something else when the observation began: violated, of several regions
\* that say the same only the first is in the baseline (observe.ts:113).
OldIsNotTold == obs.on => Snapshot.messages \cap was.texts = {}
=============================================================================
