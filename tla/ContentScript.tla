---------------------------- MODULE ContentScript ----------------------------
(***************************************************************************)
(* The content script in one tab (content/index.ts, content/overlay.ts):   *)
(* it is injected by registration and by hand, outlives a reload of the    *)
(* extension as an orphan, answers the service worker and, on the          *)
(* developer's tabs, reports structural changes after 800 ms of rest.  An  *)
(* element opens and closes by an attribute the script watches (hidden,    *)
(* open, aria-hidden), by a class or a style, which it does not, or is put *)
(* into the document and taken out of it ("nodes").                        *)
(***************************************************************************)
EXTENDS PageScan

CONSTANTS
    Pages,   \* the pages: [elements, toggles : [elements that open and close -> how]]
    Limit,   \* the maxActions of a scan
    Loads, Reloads, Changes \* bounds: loads of the page, reloads of the extension, changes of the page

ASSUME ContentAssumption ==
    /\ \A p \in Pages : WellFormed(p.elements) /\ DOMAIN p.toggles \subseteq DOMAIN p.elements
                        /\ \A t \in DOMAIN p.toggles : p.toggles[t] \in {"attribute", "style", "nodes"}
    /\ Limit \in Nat /\ Loads \in Nat /\ Reloads \in Nat /\ Changes \in Nat

VARIABLES
    page,    \* the page, and whether the tab is ALT's own
    closed,  \* the elements that are closed at the moment
    load,    \* counts the loads
    world,   \* counts the instances of the extension: each has an isolated world of its own
    copies,  \* the content scripts that started in this load, in order
    changes, \* counts the changes of the page
    due,     \* a change that a live script could see has not been reported yet
    scan     \* the last answer to alt:discover, or None

contentVars == <<page, closed, load, world, copies, changes, due, scan>>

None == <<>>

ContentInit ==
    /\ page \in {[elements |-> p.elements, toggles |-> p.toggles, own |-> own] : p \in Pages, own \in BOOLEAN}
    /\ closed = DOMAIN page.toggles /\ load = 1 /\ world = 1 /\ copies = <<>>
    /\ changes = 0 /\ due = FALSE /\ scan = None

\* runtimeAlive.
Alive(c) == c.world = world
Live == {i \in DOMAIN copies : Alive(copies[i]) /\ copies[i].listening}

-----------------------------------------------------------------------------
(* Starting and stopping. *)

\* teardown: listeners, observer, timer and overlay go.
TornDown(c) == [c EXCEPT !.listening = FALSE, !.timer = FALSE, !.reason = "dom", !.overlay = "hidden"]

\* Mutant of AlreadyInjected: nothing marks a world in which the script runs.
AlreadyInjectedNever == FALSE

\* window.__altContent of the current world.
AlreadyInjected == \E i \in DOMAIN copies : Alive(copies[i])

\* The takeover event: every copy hears it, and those whose extension is gone stop.
TakesOver(all) == [i \in DOMAIN all |-> IF Alive(all[i]) THEN all[i] ELSE TornDown(all[i])]

\* content.js runs, from the registration at document_idle or from injectTab; it says alt:ready.
Inject ==
    /\ ~AlreadyInjected
    /\ copies' = Append(TakesOver(copies), [world |-> world, listening |-> TRUE, timer |-> FALSE,
                                            reason |-> "dom", overlay |-> "hidden"])
    /\ due' = FALSE /\ UNCHANGED <<page, closed, load, world, changes, scan>>

\* A navigation to the same page or a reload: a new document.
NewLoad ==
    /\ load < Loads /\ load' = load + 1 /\ closed' = DOMAIN page.toggles /\ copies' = <<>> /\ due' = FALSE
    /\ UNCHANGED <<page, world, changes, scan>>

\* The extension is reloaded or updated: its scripts in open pages are orphans.
ReloadExtension ==
    /\ world <= Reloads /\ world' = world + 1 /\ due' = FALSE
    /\ UNCHANGED <<page, closed, load, copies, changes, scan>>

-----------------------------------------------------------------------------
(* The page changes. *)

\* The document while some elements are closed.
Present(which, shut) == Document(which.elements, {t \in shut : which.toggles[t] = "nodes"})

\* RELEVANT, and touches: an element with something to test in its tree, itself or inside.
RelevantNode(elements, e) == elements[e].tag \in {"form", "input", "select", "textarea"} \/ (elements[e].tag = "a" /\ elements[e].href[1] # "")
Touches(elements, t) == \E e \in {t} \cup Descendants(elements, t) : RelevantNode(elements, e)

\* Mutant of Observed: only attributes.
ObservedAttributes(t) == page.toggles[t] = "attribute" /\ page.elements[t].host = 0 /\ Touches(Present(page, closed \ {t}), t)

\* The observer: of the document, whose shadow trees it does not enter, it hears of the nodes put in and
\* taken out and of three attributes, and heeds what touches.
Observed(t) ==
    /\ page.toggles[t] \in {"attribute", "nodes"} /\ page.elements[t].host = 0
    /\ Touches(Present(page, closed \ {t}), t)

\* schedule: the timer starts again.  Orphans have one too.
Schedule(reason) ==
    copies' = [i \in DOMAIN copies |->
        IF ~copies[i].listening \/ page.own THEN copies[i]
        ELSE [copies[i] EXCEPT !.timer = TRUE, !.reason = IF reason = "popstate" THEN reason ELSE @]]

FormIds(shut) == LET forms == DiscoverForms(Present(page, shut), shut, load) IN [i \in DOMAIN forms |-> forms[i].id]

\* The fields one sees in some of the trees.
Watched(shut, hosts) ==
    LET elements == Present(page, shut)
    IN  {e \in DOMAIN elements : elements[e].host \in hosts /\ IsField(elements, e) /\ FieldVisible(elements, shut, e)}

\* A dialog or a panel opens or closes.
Toggle(t) ==
    /\ changes < Changes /\ changes' = changes + 1
    /\ closed' = IF t \in closed THEN closed \ {t} ELSE closed \cup {t}
    /\ IF Observed(t) THEN Schedule("dom") ELSE UNCHANGED copies
    /\ due' = (due \/ (/\ page.toggles[t] # "style" /\ Live # {} /\ ~page.own
                       /\ Watched(closed', {0}) # Watched(closed, {0})))
    /\ UNCHANGED <<page, load, world, scan>>

PopState ==
    /\ changes < Changes /\ changes' = changes + 1 /\ Schedule("popstate")
    /\ due' = (due \/ (Live # {} /\ ~page.own)) /\ UNCHANGED <<page, closed, load, world, scan>>

\* flush: an orphan's message goes nowhere.
Flush ==
    \E i \in DOMAIN copies :
        /\ copies[i].timer /\ copies' = [copies EXCEPT ![i].timer = FALSE, ![i].reason = "dom"]
        /\ due' = (due /\ ~Alive(copies[i])) /\ UNCHANGED <<page, closed, load, world, changes, scan>>

-----------------------------------------------------------------------------
(* The service worker asks. *)

\* alt:discover.
Discover ==
    /\ Live # {}
    /\ scan' = [load |-> load, closed |-> closed, found |-> DiscoverPage(Present(page, closed), closed, load, Limit)]
    /\ UNCHANGED <<page, closed, load, world, copies, changes, due>>

\* alt:overlay.set: "watching" on the developer's tabs, "worker" on ALT's own, or hidden.
OverlaySet ==
    /\ \E i \in Live, mode \in {"hidden", IF page.own THEN "worker" ELSE "watching"} :
         mode # copies[i].overlay /\ copies' = [copies EXCEPT ![i].overlay = mode]
    /\ UNCHANGED <<page, closed, load, world, changes, due, scan>>

ContentNext ==
    \/ Inject \/ NewLoad \/ ReloadExtension \/ PopState \/ Flush \/ Discover \/ OverlaySet
    \/ \E t \in DOMAIN page.toggles : Toggle(t)

\* Timers fire.  That a page comes to rest is the bound on its changes: each change starts the 800 ms
\* again, and a page that never rests would never be reported.
ContentFairness == WF_contentVars(Flush)

-----------------------------------------------------------------------------
(* What is claimed. *)

\* One voice in a page, however often and from wherever the script is injected: at most one live copy,
\* and once there is one, no orphan watches, has a timer or shows an overlay.
OneVoice ==
    /\ Cardinality(Live) <= 1
    /\ Live # {} => \A i \in DOMAIN copies \ Live :
                        ~copies[i].listening /\ ~copies[i].timer /\ copies[i].overlay = "hidden"

\* Elements that can be named: an id that a framework makes is one the patterns know, an element at the
\* top of a shadow tree has an id or a tag that no other there has, radios of one name are in the document,
\* and a field whose id is made anew has a name or a label.
Nameable(elements) ==
    \A e \in DOMAIN elements :
        LET own == elements[e]
            others == Tree(elements, own.host) \ {e}
        IN  /\ own.id \in Made => own.id \in Patterned
            /\ own.host # 0 /\ own.up = 0 =>
                 \/ AuthorId(elements, e) /\ \A o \in others : elements[o].id # own.id
                 \/ \A o \in others : elements[o].tag # own.tag
            /\ InGroup(elements, e) => own.host = 0
            /\ IsField(elements, e) /\ own.id \in Made => own.name # <<>> \/ LabelOf(elements, e) # ""

AllNameable == \A p \in Pages : \A shut \in SUBSET DOMAIN p.toggles : Nameable(Present(p, shut))

\* What a scan names is found by its name in this load and in every later one, exactly it, as long as
\* the document has the same elements; and the same page, scanned again in a later load, has the same
\* forms under the same ids, the fields of each under different keys: plans, cases and the list of what
\* was tested hang on these ids.
ScanOutlivesLoad ==
    scan # None =>
        LET forms == scan.found.forms
            elements == Present(page, closed)
        IN  /\ elements = Present(page, scan.closed) =>
                 /\ \A i \in DOMAIN forms :
                      /\ QueryAll(elements, load, forms[i].selector) = {forms[i].root}
                      /\ \A k \in DOMAIN forms[i].units :
                           LET got == QueryAll(elements, load, forms[i].selectors[k])
                           IN  forms[i].units[k] \in got /\ \A o \in got : o = forms[i].units[k] \/ elements[o].type = "radio"
                 /\ \A i \in DOMAIN scan.found.actions :
                      QueryAll(elements, load, scan.found.targets[i]) = {scan.found.actions[i]}
            /\ \A i \in DOMAIN forms : \A k, l \in DOMAIN forms[i].keys : k # l => forms[i].keys[k] # forms[i].keys[l]
            /\ closed = scan.closed => FormIds(closed) = [i \in DOMAIN forms |-> forms[i].id]

\* "Framework-generated ids change between loads, so they make bad selectors and keys"
\* (selectors.ts:70): violated, a counter is not among the patterns, and a selector leans on it.
NoSelectorLeansOnMadeIds ==
    scan # None =>
        LET made == {IdOf(page.elements, scan.load, e) : e \in {e \in DOMAIN page.elements : page.elements[e].id \in Made}}
            Leans(selector) == \E k \in DOMAIN selector : selector[k].val \in made \/ selector[k].within \in made
        IN  \A i \in DOMAIN scan.found.forms :
              /\ ~Leans(scan.found.forms[i].selector) /\ ~Leans(scan.found.forms[i].submit)
              /\ \A k \in DOMAIN scan.found.forms[i].selectors : ~Leans(scan.found.forms[i].selectors[k])

\* Fields of the document that come or go, by an attribute or with their elements, and the developer's
\* going back are reported once the page rests, unless the page or the extension goes first.
ChangesReported == due ~> ~due

\* "reports `alt:page-changed` when forms/fields/links change" (index.ts:4): violated where the change
\* is in a shadow tree, which the observer of the document does not enter.
NothingComesUnnoticed ==
    [][\A t \in DOMAIN page.toggles :
         (/\ t \in closed /\ t \notin closed' /\ page.toggles[t] # "style" /\ Live # {} /\ ~page.own
          /\ Watched(closed', 0..Len(page.elements)) # Watched(closed, 0..Len(page.elements)))
         => \E i \in Live : copies'[i].timer]_contentVars

\* "Orphan-group submit buttons are the form's submit, not a separate action" (discover.ts:490):
\* violated in a shadow tree, where querySelector cannot resolve the submit's selector.
SubmitIsNoAction ==
    scan # None => \A i \in DOMAIN scan.found.forms, k \in DOMAIN scan.found.targets :
        scan.found.targets[k] # scan.found.forms[i].submit

\* "The button that reads like a primary action" (discover.ts:191) is a dialog's submit: violated where
\* the buttons have no type and Cancel comes first.
SubmitIsNoCancel ==
    scan # None => \A i \in DOMAIN scan.found.forms :
        \A e \in QueryAll(Present(page, scan.closed), load, scan.found.forms[i].submit) : NameOf(page.elements, e) # "Cancel"
==============================================================================
