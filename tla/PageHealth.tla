------------------------------ MODULE PageHealth -----------------------------
(***************************************************************************)
(* The health checks of content/health.ts: what is reported of a page, and *)
(* the Tab order of a form's controls against their order on the screen.   *)
(* Colours, texts and sizes are kept as what the checks ask about them; an *)
(* element of the page is a record:                                        *)
(*   kind, up, group   what it is, its parent (0: none), a radio's group   *)
(*   shown, off        visible; disabled                                   *)
(*   source            an image's: none, pending, broken or fine           *)
(*   left, width, needs, inner, content   pixels: the box, the min-width,  *)
(*                     clientWidth and scrollWidth                         *)
(*   clip, own         text-overflow and overflow; whether it has text     *)
(*   hit               what is on top at its centre (0: off the screen)    *)
(*   layer             page, pinned (fixed or sticky), modal (a dialog) or *)
(*                     aria (one by aria-modal only)                       *)
(*   label, tells      the element that is its label; its labelSource      *)
(*   said, id          whether its name or alt says something; its id      *)
(* page.scroll is the width that the browser lets the page be scrolled to. *)
(***************************************************************************)
EXTENDS Ordering, Functions

CONSTANTS Screens,                \* a form, a sequence of controls in document order, and its page
          MaxPerKind, MaxOverlapSamples, MaxCutoffSamples
ASSUME LimitsAssumption == {MaxPerKind, MaxOverlapSamples, MaxCutoffSamples} \subseteq Nat \ {0}

ControlType ==
    [top : Int, left : Int, height : Nat, tabindex : Int, shown : BOOLEAN, off : BOOLEAN, required : BOOLEAN]
ElementType ==
    [kind : STRING, up : Nat, group : STRING, shown : BOOLEAN, off : BOOLEAN, source : STRING, left : Int, width : Nat,
     needs : Nat, inner : Nat, content : Nat, clip : STRING, own : BOOLEAN, hit : Nat, layer : STRING, label : Nat,
     tells : STRING, said : BOOLEAN, id : STRING]
ASSUME HealthAssumption ==
    \A s \in Screens :
      /\ s.form \in Seq(ControlType)
      /\ s.page.elements \in Seq(ElementType) /\ {s.page.width, s.page.scroll, s.page.load, s.page.slow} \subseteq Nat
      /\ s.page.lang \in BOOLEAN /\ s.page.title \in BOOLEAN
      /\ \A e \in DOMAIN s.page.elements : s.page.elements[e].up < e      \* in document order

VARIABLES screen, walk, health \* the answer to the one or the other question, or NoWalk

healthVars == <<screen, walk, health>>
layout == screen.form
NoWalk == <<>>
HealthInit == screen \in Screens /\ walk = NoWalk /\ health = NoWalk

\* Mutant of RowSlack: a control a pixel lower is in the next row.
RowSlackNone(height) == 0

MaxIndex == 2147483647      \* for Number.MAX_SAFE_INTEGER: above every tabindex

\* Half a row's height, four pixels at least.
RowSlack(height) == IF height \div 2 > 4 THEN height \div 2 ELSE 4

\* visualOrder: rows from the top, a control beginning a row when it is too low for the one that began
\* the row before; in a row from the left.
VisualOrder(form, items) ==
    LET Higher(i, k) == \/ form[items[i]].top < form[items[k]].top
                        \/ form[items[i]].top = form[items[k]].top /\ form[items[i]].left < form[items[k]].left
                        \/ form[items[i]].top = form[items[k]].top /\ form[items[i]].left = form[items[k]].left /\ i < k
        byTop == InOrder([k \in DOMAIN items |-> {i \in DOMAIN items : Higher(i, k)}])
        At(n) == form[items[byTop[n]]]
        first[n \in 0..Len(items)] ==      \* the one that begins the row of the n-th
            IF n = 0 THEN 0
            ELSE IF first[n - 1] # 0 /\ At(n).top <= At(first[n - 1]).top + RowSlack(At(first[n - 1]).height)
                 THEN first[n - 1] ELSE n
        Earlier(m, n) == \/ first[m] < first[n]
                         \/ first[m] = first[n] /\ (At(m).left < At(n).left \/ (At(m).left = At(n).left /\ m < n))
        read == InOrder([n \in DOMAIN items |-> {m \in DOMAIN items : Earlier(m, n)}])
    IN  [n \in DOMAIN items |-> items[byTop[read[n]]]]

\* sequentialOrder: positive tabindexes first, by size; then document order, that of the items.
SequentialOrder(form, items) ==
    Sorted(items, [n \in DOMAIN items |-> IF form[items[n]].tabindex > 0 THEN form[items[n]].tabindex ELSE MaxIndex])

\* Whether focus() lands on a control.
Tabbable(form, c) == form[c].shown /\ ~form[c].off /\ form[c].tabindex >= 0

\* keyboardWalk: the fields Tab reaches, in its order, then the others; and what is wrong with them.
KeyboardWalk(form) ==
    LET all == DOMAIN form
        reached == {c \in all : Tabbable(form, c)}
        tab == SequentialOrder(form, Ascending(reached))
    IN  [order |-> tab \o Ascending(all \ reached),
         issues |-> {<<"positive", c>> : c \in {c \in all : form[c].tabindex > 0}}
              \cup {<<"unreachable", c>> : c \in {c \in all \ reached : form[c].required \/ (form[c].shown /\ ~form[c].off)}}
              \cup (IF VisualOrder(form, tab) # tab THEN {<<"order", 0>>} ELSE {})]

\* The order of a form with two controls to reach, without moving the focus.
OrderFinding(form) ==
    LET controls == Ascending({c \in DOMAIN form : Tabbable(form, c)})
    IN  VisualOrder(form, controls) # SequentialOrder(form, controls)

\* alt:keyboard.walk: the focus goes from field to field and comes back to where it was (the focus is left out).
Walk ==
    /\ walk = NoWalk /\ health = NoWalk /\ walk' = KeyboardWalk(layout) /\ UNCHANGED <<screen, health>>

-----------------------------------------------------------------------------
(* The report: one check after another, each going through the elements in document order. *)

Finding(kind, severity, at) == [kind |-> kind, severity |-> severity, at |-> at]
Found(kind, severity, set) ==
    LET at == Ascending(set) IN [i \in DOMAIN at |-> Finding(kind, severity, at[i])]
OfKind(page, kinds) == {e \in DOMAIN page.elements : page.elements[e].kind \in kinds}

\* An element and what it is in.
Around(page, e) ==
    LET up[n \in 0..Len(page.elements)] == IF n = 0 THEN {} ELSE {n} \cup up[page.elements[n].up] IN up[e]

\* The first n of a set, in document order.
Sampled(set, n) == {e \in set : Cardinality({f \in set : f < e}) < n}

\* Mutant of Kept: the list is full when it has MaxPerKind findings of all kinds together.
KeptInAll(found) == SubSeq(found, 1, IF Len(found) < MaxPerKind THEN Len(found) ELSE MaxPerKind)

\* Findings.add: a kind that is full takes no more.
Kept(found) ==
    Filtered(found, {i \in DOMAIN found : Cardinality({k \in 1..(i - 1) : found[k].kind = found[i].kind}) < MaxPerKind})

BrokenImages(page) ==
    Found("broken_image", "medium", {e \in OfKind(page, {"img"}) : page.elements[e].source = "broken"})

\* What sticks out to the right, and why: a min-width of its own, a width of its own, or being wider
\* than its parent (the body's parts: than the window).  The parts of a table stand for nothing.
Offenders(page) ==
    {e \in DOMAIN page.elements : page.elements[e].width > 0 /\ page.elements[e].left + page.elements[e].width > page.width + 1}
Fits(page, e) ==
    LET up == page.elements[e].up
    IN  page.elements[e].width <= (IF up = 0 THEN page.width ELSE page.elements[up].inner) + 1
Cause(page, e) ==
    LET it == page.elements[e]
    IN  CASE it.kind = "cell" -> 0
          [] it.kind # "cell" /\ it.needs > page.width -> 3
          [] it.needs <= page.width /\ it.kind \in {"table", "img", "pre"} -> 2
          [] OTHER -> IF Fits(page, e) THEN 0 ELSE 1

\* Mutant of Likelier: the widest, and of two the outer one.
LikelierByWidth(page, a, b) ==
    LET Rank(e) == <<page.elements[e].width, -Cardinality(Around(page, e))>>
    IN  Rank(a)[1] > Rank(b)[1] \/ (Rank(a)[1] = Rank(b)[1] /\ Rank(a)[2] > Rank(b)[2])

\* Of two offenders with the same cause the deeper, then the wider.
Likelier(page, a, b) ==
    LET Rank(e) == <<Cause(page, e), Cardinality(Around(page, e)), page.elements[e].width, -e>>
    IN  \E i \in 1..4 : Rank(a)[i] > Rank(b)[i] /\ \A k \in 1..(i - 1) : Rank(a)[k] = Rank(b)[k]

Culprit(page) ==
    LET set == Offenders(page) \ OfKind(page, {"cell"})
    IN  IF set = {} THEN 0 ELSE CHOOSE e \in set : \A f \in set \ {e} : Likelier(page, e, f)

\* Mutant of HorizontalOverflow: whatever sticks out, though the page cannot be scrolled to it.
HorizontalOverflowAlways(page) ==
    IF Offenders(page) = {} THEN <<>> ELSE <<Finding("horizontal_overflow", "medium", Culprit(page))>>

HorizontalOverflow(page) ==
    IF page.scroll <= page.width + 1 THEN <<>> ELSE <<Finding("horizontal_overflow", "medium", Culprit(page))>>

\* isRelated: one is in the other, or what is hit is the control's label.
Related(page, e, hit) ==
    \/ e \in Around(page, hit) \/ hit \in Around(page, e)
    \/ page.elements[e].label # 0 /\ page.elements[e].label \in Around(page, hit)

\* A dialog over the page and what is fixed on the screen may cover a control; of what the element hit
\* is in, only the nearest are asked whether they are fixed (inFixedLayer).
Covered(page, e) ==
    LET hit == page.elements[e].hit
        In(layers, x) == \E a \in Around(page, x) : page.elements[a].layer \in layers
        Near == {a \in Around(page, hit) : Cardinality(Around(page, hit)) - Cardinality(Around(page, a)) < 6}
    IN  /\ ~Related(page, e, hit)
        /\ In({"modal", "aria"}, hit) => In({"modal"}, e)
        /\ \A a \in Near : page.elements[a].layer # "pinned"
Pressable(page) ==
    {e \in OfKind(page, {"button", "field"}) :
        page.elements[e].shown /\ ~page.elements[e].off /\ page.elements[e].width >= 4 /\ page.elements[e].hit # 0}
Overlaps(page) ==
    Found("overlapping_elements", "medium",
          {e \in Sampled(Pressable(page), MaxOverlapSamples) : Covered(page, e)})

\* Text that its box cuts; one with an ellipsis is a sample too.
Cut(page) ==
    {e \in DOMAIN page.elements : LET it == page.elements[e]
        IN  it.inner > 0 /\ it.content > it.inner + 1 /\ it.own /\ it.clip # "visible"}
CutOffText(page) ==
    LET set == Ascending({e \in Sampled(Cut(page), MaxCutoffSamples) :
                            page.elements[e].clip # "ellipsis" /\ page.elements[e].shown})
    IN  [i \in DOMAIN set |-> Finding("cut_off_text", IF page.elements[set[i]].kind = "button" THEN "medium" ELSE "low", set[i])]

\* checkLabels: the fields, one radio for its group; the buttons; the images.
Unlabelled(page) ==
    LET fields == {e \in OfKind(page, {"field", "check", "radio"}) : page.elements[e].shown /\ ~page.elements[e].off}
        Group(e) == {f \in fields : page.elements[e].kind = "radio" /\ page.elements[f].kind = "radio"
                                       /\ page.elements[f].group = page.elements[e].group}
    IN  {e \in fields : page.elements[e].tells \in {"none", "placeholder", "name"} /\ \A f \in Group(e) : e <= f}
Labels(page) ==
    LET Mute(kind) == {e \in OfKind(page, {kind}) : ~page.elements[e].said}
    IN  Found("missing_label", "medium", Unlabelled(page))
          \o Found("unclear_button", "medium", {e \in Mute("button") : page.elements[e].shown})
          \o Found("missing_alt", "low", Mute("img"))

\* checkDocument: ids that two elements have, at the first of them.
Twins(page, e) == {f \in DOMAIN page.elements : page.elements[e].id # "" /\ page.elements[f].id = page.elements[e].id}
Markup(page) ==
    (IF page.lang THEN <<>> ELSE <<Finding("missing_lang", "low", 0)>>)
      \o (IF page.title THEN <<>> ELSE <<Finding("missing_title", "low", 0)>>)
      \o Found("duplicate_id", "low",
                {e \in DOMAIN page.elements : Cardinality(Twins(page, e)) > 1 /\ \A f \in Twins(page, e) : e <= f})

\* checkKeyboardOrder: every positive tabindex, and then the form.
KeyboardOrder(form) ==
    Found("keyboard_order", "low", {c \in DOMAIN form : form[c].tabindex > 0 /\ form[c].shown})
      \o (IF OrderFinding(form) THEN <<Finding("keyboard_order", "medium", 0)>> ELSE <<>>)

Checks(s) ==
    <<BrokenImages(s.page), HorizontalOverflow(s.page), Overlaps(s.page), CutOffText(s.page), Labels(s.page),
      Markup(s.page), KeyboardOrder(s.form)>>

\* The load time, when the browser knows it.
SlowPage(page) ==
    IF page.load <= page.slow THEN <<>>
    ELSE <<Finding("slow_page", IF page.load > 2 * page.slow THEN "high" ELSE "medium", 0)>>

\* runHealthChecks: a check that throws leaves what it had found, and the others are run.
RunHealthChecks(s, broken, after) ==
    LET checks == Checks(s)
        Of(i) == IF i = broken /\ after < Len(checks[i]) THEN SubSeq(checks[i], 1, after) ELSE checks[i]
        all == Of(1) \o Of(2) \o Of(3) \o Of(4) \o Of(5) \o Of(6) \o Of(7) \o SlowPage(s.page)
    IN  [found |-> Kept(all), broken |-> broken]

\* alt:health.
CheckHealth ==
    /\ walk = NoWalk /\ health = NoWalk
    /\ \E broken \in 0..7, after \in 0..MaxPerKind : health' = RunHealthChecks(screen, broken, after)
    /\ UNCHANGED <<screen, walk>>

HealthNext == Walk \/ CheckHealth

HealthSpec == HealthInit /\ [][HealthNext]_healthVars

-----------------------------------------------------------------------------
(* What is claimed, and of which screens. *)

\* A form laid out on a grid of rows of 40 pixels: its controls fit in, are at most four pixels off the
\* line, and no two of a row begin at the same place.
Row(control) == control.top \div 40
OnGrid(form) ==
    /\ \A a \in DOMAIN form : form[a].top % 40 <= 4 /\ form[a].height <= 40
    /\ \A a, b \in DOMAIN form : a # b /\ Row(form[a]) = Row(form[b]) => form[a].left # form[b].left

\* How a page comes to scroll sideways.  What is wide by itself (page.wide) is wide whatever it is in (a
\* min-width, a table, an image, a preformatted text) or sticks out of its parent.  What sticks out without
\* it is lifted by something inside it that is wide whatever it is in; or it fills what it is in, and that
\* is wide by itself or lifted.  Not so: a flexible item that a child of a fixed width lifts, and what is
\* wide in a box that scrolls.
Stretches(page) ==
    LET loose == Offenders(page) \ OfKind(page, {"cell"})
        Firm(e) == page.elements[e].needs > page.width \/ page.elements[e].kind \in {"table", "img", "pre"}
        Lifted(e) == \E f \in loose \cap page.wide : f # e /\ e \in Around(page, f) /\ Firm(f)
        Fills(e) == Fits(page, e) /\ ~Firm(e) /\ \E f \in loose \ {e} : f \in Around(page, e) /\ (f \in page.wide \/ Lifted(f))
    IN  page.scroll > page.width + 1 =>
          /\ loose # {}
          /\ \A e \in loose \cap page.wide : Firm(e) \/ ~Fits(page, e)
          /\ \A e \in loose \ page.wide : page.elements[e].needs <= page.width /\ (Lifted(e) \/ Fills(e))

LaidOut == \A s \in Screens : OnGrid(s.form) /\ Stretches(s.page)

\* How a form on a grid is read: by rows, and in a row from the left, whatever few pixels its controls
\* are off the line.
ReadsBefore(a, b) ==
    \/ Row(layout[a]) < Row(layout[b])
    \/ Row(layout[a]) = Row(layout[b]) /\ layout[a].left < layout[b].left

\* The walk names every field once, and says that Tab jumps about exactly when there are two fields
\* that Tab reaches in the wrong order, on any form laid out on a grid.
WalkIsRight ==
    walk # NoWalk =>
        /\ Range(walk.order) = DOMAIN layout /\ Len(walk.order) = Len(layout)
        /\ (<<"order", 0>> \in walk.issues) <=>
             \E i, j \in DOMAIN walk.order :
                /\ i < j /\ Tabbable(layout, walk.order[i]) /\ Tabbable(layout, walk.order[j])
                /\ ReadsBefore(walk.order[j], walk.order[i])

\* The kinds, and the check that finds each.
KindsOf == <<{"broken_image"}, {"horizontal_overflow"}, {"overlapping_elements"}, {"cut_off_text"},
             {"missing_label", "unclear_button", "missing_alt"}, {"missing_lang", "missing_title", "duplicate_id"},
             {"keyboard_order"}>>

\* Where a press on a control's centre goes, and what it then presses: what it hits and what that is in.
Presses(e) == Around(screen.page, screen.page.elements[e].hit)

\* The report neither drowns nor invents: of a kind at most MaxPerKind are reported, and a kind of which
\* there is a fault is missing only when its own check threw, however many faults of other kinds there
\* are; a control that is said to be covered cannot be pressed at its centre; and a group of radios is
\* reported once.
ReportIsRight ==
    health # NoWalk =>
        LET page == screen.page
            Of(kind) == {i \in DOMAIN health.found : health.found[i].kind = kind}
        IN  /\ \A i \in DOMAIN health.found : Cardinality(Of(health.found[i].kind)) <= MaxPerKind
            /\ \A c \in DOMAIN KindsOf \ {health.broken} : \A kind \in KindsOf[c] :
                 Of(kind) = {} => \A i \in DOMAIN Checks(screen)[c] : Checks(screen)[c][i].kind # kind
            /\ \A i \in Of("overlapping_elements") : health.found[i].at \notin Presses(health.found[i].at)
            /\ \A i, j \in Of("missing_label") :
                 LET a == page.elements[health.found[i].at]  b == page.elements[health.found[j].at]
                 IN  i # j => a.kind # "radio" \/ b.kind # "radio" \/ a.group # b.group

\* "Blocks stretched by a wide child are as wide as the child, so width alone can't find the cause"
\* (health.ts): the element blamed for a page that scrolls sideways is one that is wide by itself
\* (page.wide), never one that its content stretches.
BlameIsRight ==
    health # NoWalk =>
        \A i \in DOMAIN health.found :
            health.found[i].kind = "horizontal_overflow" => health.found[i].at \in screen.page.wide

\* What the two checks say of a page is right: the walk with Tab, and the report.
HealthIsRight == WalkIsRight /\ ReportIsRight /\ BlameIsRight
==============================================================================
