------------------------------ MODULE MCContent ------------------------------
(***************************************************************************)
(* Constants for TLC: an invoice page whose dialog opens by an attribute,  *)
(* and an application in a shadow tree whose dialog opens by a style; and  *)
(* forms on a grid for the keyboard checks; submits among requests that    *)
(* overlap; and two forms to be filled in, whose handlers rewrite, revert, *)
(* cancel, validate and fill other fields. A behaviour visits one of the   *)
(* pages, checks one of the grids, captures submits or fills one form.     *)
(***************************************************************************)
EXTENDS ContentScript, PageHealth, Capture, FormFill

Says(source, words) == source :> words
El(tag, up, says) == [tag |-> tag, type |-> "", id |-> "", name |-> <<>>, href |-> <<"", "">>, up |-> up, host |-> 0,
                      says |-> says, shown |-> TRUE, off |-> FALSE, danger |-> FALSE, opens |-> FALSE]
Named(tag, up, name, words) == [El(tag, up, Says("label-wrap", words)) EXCEPT !.name = name]
Button(up, words) == [El("button", up, Says("text", words)) EXCEPT !.type = "button"]

Invoice == <<
    [El("a", 0, Says("text", "Customers")) EXCEPT !.href = <<"page", "/customers">>],
    [El("form", 0, <<>>) EXCEPT !.id = "invoice-form"],
    [El("input", 2, Says("label-for", "Customer")) EXCEPT !.id = ":r1:"],
    Named("input", 2, <<"qty", "2">>, "Second quantity"),
    Named("input", 2, <<"qty">>, "Quantity"),
    Named("input", 2, <<"qty">>, "Quantity"),
    [Named("input", 2, <<"pay">>, "Cash") EXCEPT !.type = "radio"],
    [Named("input", 2, <<"pay">>, "Card") EXCEPT !.type = "radio"],
    [El("input", 2, Says("label-for", "Urgent")) EXCEPT !.type = "checkbox", !.shown = FALSE],
    [Button(2, "Save") EXCEPT !.type = "submit"],
    [Button(0, "New customer") EXCEPT !.opens = TRUE],
    [Button(0, "Delete invoice") EXCEPT !.danger = TRUE],
    [El("a", 0, Says("text", "Items")) EXCEPT !.href = <<"route", "#/items">>],
    El("dialog", 0, <<>>),
    [El("input", 14, Says("placeholder", "Name")) EXCEPT !.id = ":r1:"],
    [El("input", 14, <<>>) EXCEPT !.id = "invoice-2024"],
    Button(14, "Cancel"),
    Button(14, "Save")>>

InTree(element) == [element EXCEPT !.host = 1]
Shadowed == <<
    El("x-app", 0, <<>>),
    InTree(El("dialog", 0, <<>>)),
    InTree(Named("select", 2, <<"unit">>, "Unit")),
    InTree([El("input", 2, Says("aria-label", "Price")) EXCEPT !.id = ":r1:"]),
    InTree([Button(2, "Cancel") EXCEPT !.type = ""]),
    InTree([Button(2, "Save") EXCEPT !.type = ""]),
    [El("a", 0, Says("text", "Help")) EXCEPT !.href = <<"elsewhere", "https://help">>]>>

Opening(elements, t, how) == [elements |-> elements, toggles |-> t :> how]
MCPages == {Opening(Invoice, 14, "attribute"), Opening(Invoice, 14, "nodes"),
            Opening(Shadowed, 2, "attribute"), Opening(Shadowed, 2, "style")}

\* A page whose framework counts its fields.
MCCounted == {Opening([Invoice EXCEPT ![3].id = "input-17"], 14, "attribute")}

\* Three controls in the cells of a grid of 40 pixels, one of them three pixels off its line.
Control(cell, off, tabindex, shown) ==
    [top |-> 40 * (cell \div 2) + off, left |-> 100 * (cell % 2), height |-> 20, tabindex |-> tabindex,
     shown |-> shown, off |-> FALSE, required |-> TRUE]
Cells == {c \in [1..3 -> 0..3] : Cardinality({c[1], c[2], c[3]}) = 3}
MCGrids == {<<Control(c[1], 0, t[1], TRUE), Control(c[2], off, t[2], TRUE), Control(c[3], 0, 0, shown)>> :
                c \in Cells, t \in [1..2 -> {-1, 0, 1}], off \in {3}, shown \in BOOLEAN}

\* A page with images, a field, two radios, a button, a line of text and a layer, and what may be wrong
\* with it.
Plain(kind) == [kind |-> kind, up |-> 1, group |-> "", shown |-> TRUE, off |-> FALSE, source |-> "none", left |-> 0, width |-> 100,
                needs |-> 0, inner |-> 100, content |-> 100, clip |-> "visible", own |-> FALSE, hit |-> 0, layer |-> "page",
                label |-> 0, tells |-> "label", said |-> TRUE, id |-> ""]
Whole320(elements) == [elements |-> elements, width |-> 320, scroll |-> 320, lang |-> TRUE, title |-> TRUE, load |-> 5, slow |-> 5, wide |-> {}]
Usual == <<[Plain("box") EXCEPT !.up = 0, !.width = 320, !.inner = 320], Plain("img"), Plain("img"), Plain("img"),
           [Plain("field") EXCEPT !.hit = 5], [Plain("radio") EXCEPT !.group = "pay"], [Plain("radio") EXCEPT !.group = "pay"],
           [Plain("button") EXCEPT !.hit = 8], [Plain("box") EXCEPT !.own = TRUE], Plain("box")>>
MCFaults == {"images", "radios", "covered", "modal", "labelled", "cut", "ids", "document"}
MCFaulty == {f \in SUBSET MCFaults : Cardinality(f) <= 2} \cup {MCFaults}
Faulty(faults) ==
    LET Is(fault) == fault \in faults
        Image == [Plain("img") EXCEPT !.source = IF Is("images") THEN "broken" ELSE "fine", !.said = ~Is("images")]
        Radio == [Plain("radio") EXCEPT !.group = "pay", !.tells = IF Is("radios") THEN "name" ELSE "label",
                                        !.id = IF Is("ids") THEN "twin" ELSE ""]
        Field == [Usual[5] EXCEPT !.label = IF Is("labelled") THEN 9 ELSE 0, !.hit = IF Is("covered") THEN 9 ELSE 5]
        Pressed == [Usual[8] EXCEPT !.said = ~Is("document"), !.hit = IF Is("covered") THEN 10 ELSE 8]
        Line == [Usual[9] EXCEPT !.clip = IF Is("cut") THEN "hidden" ELSE "ellipsis", !.content = 150]
        Layer == [Usual[10] EXCEPT !.layer = IF Is("modal") THEN "modal" ELSE "page", !.own = TRUE, !.content = 150, !.clip = "hidden"]
    IN  [Whole320(<<Usual[1], Image, Image, Image, Field, Radio, Radio, Pressed, Line, Layer>>)
            EXCEPT !.lang = ~Is("document"), !.title = ~Is("document"), !.load = IF Is("document") THEN 11 ELSE 6]

\* A bar on the screen with boxes in boxes in it, a layer that says it is modal, and buttons under each.
Barred == Whole320(<<Usual[1], [Plain("box") EXCEPT !.layer = "pinned"]>>
            \o [n \in 1..6 |-> [Plain("box") EXCEPT !.up = n + 1]]
            \o <<[Plain("button") EXCEPT !.hit = 5], [Plain("button") EXCEPT !.hit = 8],
                 [Plain("box") EXCEPT !.layer = "aria"], [Plain("button") EXCEPT !.hit = 11]>>)

\* Pages that scroll sideways: around what is wide, boxes that are stretched.
Wide(kind, up, inner) == [Plain(kind) EXCEPT !.up = up, !.width = 500, !.inner = inner]
Stretched == Wide("box", 0, 500)
Scrolling(elements) == [Whole320(elements) EXCEPT !.scroll = 500]
Sideways == {
    [Scrolling(<<Stretched, Wide("box", 1, 500), Wide("pre", 2, 500)>>) EXCEPT !.wide = {3}],
    [Scrolling(<<Stretched, Wide("table", 1, 500), Wide("cell", 2, 500)>>) EXCEPT !.wide = {2}],
    [Scrolling(<<Usual[1], Wide("box", 1, 500), Wide("box", 2, 500)>>) EXCEPT !.wide = {2}],
    [Scrolling(<<Stretched, [Wide("box", 1, 500) EXCEPT !.needs = 500], Wide("button", 2, 500)>>) EXCEPT !.wide = {2}],
    [Scrolling(<<Stretched, Wide("table", 1, 500), Wide("cell", 2, 500), Wide("img", 3, 500)>>) EXCEPT !.wide = {4}]}

\* A page that cuts what sticks out; and one whose flexible item is lifted by a child of a fixed width.
Cutting == Whole320(<<Stretched, Wide("pre", 1, 500)>>)
MCFlexible == [form : {<<>>}, page : {[Scrolling(<<Usual[1], Wide("box", 1, 500), Wide("box", 2, 500)>>) EXCEPT !.wide = {3}]}]

MCScreens ==
    [form : MCGrids, page : {Whole320(<<>>)}] \cup [form : {<<>>}, page : {Faulty(f) : f \in MCFaulty} \cup Sideways \cup {Barred, Cutting}]

\* What HealthIsRight and ScanOutlivesLoad are claimed of.
ASSUME MCAssumption == (Screens = MCScreens => LaidOut) /\ (Pages = MCPages => AllNameable)

AtRest == /\ page = [elements |-> <<>>, toggles |-> <<>>, own |-> TRUE]
          /\ closed = {} /\ load = 1 /\ world = 1 /\ copies = <<>> /\ changes = 0 /\ due = FALSE /\ scan = None
NoForm == screen = [form |-> <<>>, page |-> Whole320(<<>>)] /\ walk = NoWalk /\ health = NoWalk

Sent(method, how) == [method |-> method, app |-> TRUE, how |-> how]
MCRequests == {Sent("POST", "request"), Sent("GET", "fetch"), Sent("POST", "xhr")}
MCConsumed == {Sent("POST", "body"), Sent("POST", "fetch")}
NoCapture == /\ now = ActsUntil /\ mode = [hook |-> FALSE, pipeline |-> FALSE, told |-> <<>>, turns |-> 0]
             /\ calls = <<>> /\ posts = <<>> /\ known = [id \in {} |-> 0]
             /\ active = [c \in {} |-> 0] /\ last = <<>> /\ submits = 0 /\ report = <<>>

\* What a field's handler does, and on which event.
Box(kind, default, on, does) ==
    [kind |-> kind, options |-> <<>>, default |-> default, required |-> FALSE, off |-> FALSE, on |-> on, does |-> does, to |-> 1]
Choice(value, label, off) == [value |-> value, label |-> label, off |-> off]
Measures == <<Choice("pcs", "Pieces", FALSE), Choice("kg", "Kilograms", TRUE), Choice("l", "Litres", FALSE)>>
Invoicing == [validates |-> TRUE, marks |-> {1}, fields |-> <<
    [Box("text", "", "blur", "rewrites") EXCEPT !.required = TRUE],
    Box("number", "", "change", "asks"),
    [Box("radio", 0, "change", "nothing") EXCEPT !.options = Measures],
    [Box("select", 0, "change", "fills") EXCEPT !.options = Measures, !.to = 2]>>]
Settings == [validates |-> FALSE, marks |-> {}, fields |-> <<
    Box("checkbox", 0, "click", "cancels"),
    Box("text", "5", "input", "reverts"),
    [Box("text", "", "focus", "nothing") EXCEPT !.off = TRUE],
    Box("other", "", "focus", "nothing"), Box("missing", "", "focus", "nothing"),
    [Box("text", "", "focus", "asks") EXCEPT !.required = TRUE]>>]
MCFillForms == {Invoicing, Settings}
MCValues == {1 :> "7", 1 :> "5" @@ 2 :> "abc" @@ 3 :> "pcs", 1 :> "7" @@ 2 :> "7" @@ 3 :> "kg" @@ 4 :> "Litres",
    2 :> "5" @@ 3 :> "x" @@ 4 :> "x", 1 :> "true" @@ 2 :> "7" @@ 3 :> "7" @@ 4 :> "7" @@ 5 :> "7" @@ 6 :> "7"}

NoFill == /\ form = [validates |-> FALSE, marks |-> {}, fields |-> <<>>] /\ plan = <<>> /\ step = "over" /\ todo = {}
          /\ doc = Blank(form) /\ flagged = [aria |-> {}, text |-> {}] /\ present = FALSE
          /\ text = [r \in 1..Regions |-> ""] /\ obs = NoObservation /\ memory = <<>> /\ reports = <<>>
          /\ age = QuietFor /\ mutations = 0 /\ acts = Acts /\ was = Undisturbed

VARIABLE part
MCInit == \/ part = "page" /\ ContentInit /\ NoForm /\ NoCapture /\ NoFill
          \/ part = "keyboard" /\ AtRest /\ HealthInit /\ NoCapture /\ NoFill
          \/ part = "capture" /\ AtRest /\ NoForm /\ CaptureInit /\ NoFill
          \/ part = "fill" /\ AtRest /\ NoForm /\ NoCapture /\ FillInit
MCNext == \/ part = "page" /\ ContentNext /\ UNCHANGED <<part, healthVars, captureVars, fillVars>>
          \/ part = "keyboard" /\ HealthNext /\ UNCHANGED <<part, contentVars, captureVars, fillVars>>
          \/ part = "capture" /\ CaptureNext /\ UNCHANGED <<part, contentVars, healthVars, fillVars>>
          \/ part = "fill" /\ FillNext /\ UNCHANGED <<part, contentVars, healthVars, captureVars>>
MCSpec == MCInit /\ [][MCNext]_<<part, contentVars, healthVars, captureVars, fillVars>> /\ ContentFairness /\ CaptureFairness
==============================================================================
