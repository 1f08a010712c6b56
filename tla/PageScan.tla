------------------------------- MODULE PageScan ------------------------------
(***************************************************************************)
(* What ALT sees on a page (content/discover.ts) and how it names what it  *)
(* saw, so that a later load of the page understands the name              *)
(* (content/selectors.ts, content/labels.ts).                              *)
(*                                                                         *)
(* A page is a sequence of elements in document order; the elements of an  *)
(* open shadow root follow their host.  An element is a record:            *)
(*   tag, type, id   attributes; "" is no attribute                        *)
(*   name            the attribute as the parts between its underscores    *)
(*                   ("qty_2" has two), so that names are put together     *)
(*                   as strings are; <<>> is no attribute                  *)
(*   href            where an anchor leads: a kind and an address          *)
(*   up, host        its parent, and the host of its shadow tree; 0: none  *)
(*   says            [label sources -> texts]                              *)
(*   shown, off      rendered by itself; disabled                          *)
(*   danger, opens   what classifyDestructive and isModalTrigger find      *)
(* Three ids stand for many: ":r1:" is one that a framework makes anew in  *)
(* every load and that the code's patterns know; "input-17", a counter,    *)
(* one that they miss; "invoice-2024" an author's that they take for a     *)
(* framework's.  Some elements are shut for a time, whatever `shown` says, *)
(* and some are taken out of the document.  Test attributes (data-testid   *)
(* and the like), one more way an author names an element, are left out.   *)
(***************************************************************************)
EXTENDS Ordering, FiniteSetsExt, Functions, TLC

\* Elements in document order, each in one tree with its parent.
WellFormed(page) ==
    /\ DOMAIN page = 1..Len(page) /\ Len(page) \in Nat
    /\ \A e \in DOMAIN page :
         /\ page[e].up \in 0..(e - 1) /\ page[e].host \in 0..(e - 1) /\ page[e].name \in Seq(Range(page[e].name))
         /\ page[e].up # 0 => page[page[e].up].host = page[e].host

In(page, tags) == {e \in DOMAIN page : page[e].tag \in tags}

\* Document order, the document before its shadow trees: queryAllDeep.
Precedes(page, a, b) == page[a].host < page[b].host \/ (page[a].host = page[b].host /\ a < b)
Deep(page, elements) == InOrder([e \in elements |-> {o \in elements : Precedes(page, o, e)}])

\* Element.closest: the element itself or the nearest ancestor in its own tree (0: none).
Closest(page, e, tags) ==
    LET up[n \in 0..Len(page)] == IF n = 0 THEN 0 ELSE IF page[n].tag \in tags THEN n ELSE up[page[n].up]
    IN  up[e]

\* The parent of the parent of e, k times, in its tree; 0 where there is none any more.
Above(page, e) ==
    LET above[k \in 0..Len(page)] ==
          IF k = 0 THEN e ELSE LET n == above[k - 1] IN IF n = 0 THEN 0 ELSE page[n].up
    IN  above

Descendants(page, root) == {e \in DOMAIN page \ {root} : \E k \in 1..Len(page) : Above(page, e)[k] = root}

\* isVisible: rendered, and everything around it is.
Visible(page, shut, e) ==
    LET up[n \in 0..Len(page)] == n = 0 \/ (page[n].shown /\ n \notin shut /\ up[page[n].up] /\ up[page[n].host]) IN up[e]

\* The document without some elements and all that is in them: what is gone has a tag nothing looks for.
Nothing(page, e) ==
    [tag |-> ToString(e), type |-> "", id |-> "", name |-> <<>>, href |-> <<"", "">>, up |-> page[e].up, host |-> page[e].host,
     says |-> <<>>, shown |-> FALSE, off |-> FALSE, danger |-> FALSE, opens |-> FALSE]
Document(page, without) ==
    LET gone[n \in 0..Len(page)] == n # 0 /\ (n \in without \/ gone[page[n].up] \/ gone[page[n].host])
    IN  [e \in DOMAIN page |-> IF gone[e] THEN Nothing(page, e) ELSE page[e]]

\* The id an element has in a load: those a framework makes differ from load to load and from each other.
Made == {":r1:", "input-17"}
IdOf(page, load, e) == IF page[e].id \in Made THEN <<page[e].id, e, load>> ELSE <<page[e].id, 0, 0>>
IdText(page, load, e) == IF page[e].id \in Made THEN ToString(IdOf(page, load, e)) ELSE page[e].id

\* Mutant of LooksGenerated: every id is taken for its author's.
LooksGeneratedNever(page, e) == FALSE

\* looksGenerated: what its patterns match (a colon first, four digits in a row, ...), whoever chose it.
Patterned == {":r1:", "invoice-2024"}
LooksGenerated(page, e) == page[e].id \in Patterned

AuthorId(page, e) == page[e].id # "" /\ ~LooksGenerated(page, e)

-----------------------------------------------------------------------------
(* Selectors.  One is a sequence of parts, one for each shadow tree on the way in; a part says by    *)
(* what an element is found, among the elements of its tree.                                         *)

Tree(page, host) == {e \in DOMAIN page : page[e].host = host}
Owner(page, e) == Closest(page, e, {"form"})
Said(page, e, source) == IF source \in DOMAIN page[e].says THEN page[e].says[source] ELSE ""

\* attrSel, and the like; within: inside an element with that id.
AttrSel(by, tag, val, within) == [by |-> by, tag |-> tag, val |-> val, within |-> within, path |-> <<>>]

\* nth-of-type among the siblings.
Nth(page, e) ==
    Cardinality({s \in 1..e : page[s].up = page[e].up /\ page[s].host = page[e].host /\ page[s].tag = page[e].tag})

\* Whether the path leads up from e to where it is anchored: at an id, at the body, or in a shadow tree
\* nowhere.  A step without a number, at the top of a shadow tree, matches any element with its tag.
Climbs(page, load, e, part) ==
    LET above == Above(page, e)
        top == above[Len(part.path)]
    IN  /\ \A k \in DOMAIN part.path :
             /\ above[k - 1] # 0 /\ page[above[k - 1]].tag = part.path[k].tag
             /\ part.path[k].nth \in {0, Nth(page, above[k - 1])}
        /\ IF part.val # <<>> THEN top # 0 /\ IdOf(page, load, top) = part.val ELSE page[e].host = 0 => top = 0

Fulfils(page, load, e, part) ==
    /\ part.within # <<>> => \E k \in 1..Len(page) :
                                LET o == Above(page, e)[k] IN o # 0 /\ IdOf(page, load, o) = part.within
    /\ CASE part.by = "id"     -> IdOf(page, load, e) = part.val
         [] part.by = "name"   -> page[e].tag = part.tag /\ page[e].name = part.val
         [] part.by = "label"  -> page[e].tag = part.tag /\ <<Said(page, e, "aria-label")>> = part.val
         [] part.by = "submit" -> page[e].tag = part.tag /\ page[e].type = "submit"
         [] part.by = "href"   -> page[e].tag = "a" /\ page[e].href = part.val
         [] part.by = "radios" -> page[e].type = "radio" /\ page[e].name = part.val
         [] part.by = "path"   -> Climbs(page, load, e, part)

\* pathSelector, its steps from e upwards: to an ancestor whose own id is unique in the tree, else to the
\* body or the top of the shadow tree, whose elements get no number.
PathTo(page, load, e) ==
    LET above == Above(page, e)
        Anchors(n) == n # e /\ AuthorId(page, n) /\ \A o \in Tree(page, page[n].host) \ {n} : IdOf(page, load, o) # IdOf(page, load, n)
        end == Min({k \in 1..Len(page) : above[k] = 0 \/ Anchors(above[k])})
        Step(n) == [tag |-> page[n].tag,
                    nth |-> IF page[n].up = 0 /\ page[n].host # 0 THEN 0 ELSE Nth(page, n)]
    IN  [by |-> "path", tag |-> "", val |-> IF above[end] = 0 THEN <<>> ELSE IdOf(page, load, above[end]),
         within |-> <<>>, path |-> [k \in 1..end |-> Step(above[k - 1])]]

\* What selectorInRoot tries, in order, each when there is what it goes by.
Tries(page, load, e) ==
    LET own == page[e]
        owned == /\ own.tag \in {"input", "select", "textarea", "button"}
                 /\ Owner(page, e) # 0 /\ AuthorId(page, Owner(page, e))
        form == IF owned THEN IdOf(page, load, Owner(page, e)) ELSE <<>>
        label == Said(page, e, "aria-label")
    IN  <<[when |-> AuthorId(page, e), part |-> AttrSel("id", "", IdOf(page, load, e), <<>>)],
          [when |-> own.name # <<>>, part |-> AttrSel("name", own.tag, own.name, <<>>)],
          [when |-> own.name # <<>> /\ owned, part |-> AttrSel("name", own.tag, own.name, form)],
          [when |-> label # "", part |-> AttrSel("label", own.tag, <<label>>, <<>>)],
          [when |-> owned /\ own.type = "submit", part |-> AttrSel("submit", own.tag, <<>>, form)],
          [when |-> own.tag = "a" /\ own.href[1] \notin {"", "inpage"}, part |-> AttrSel("href", "a", own.href, <<>>)]>>

\* uniqueIn.
Unique(page, load, e, part) == {o \in Tree(page, page[e].host) : Fulfils(page, load, o, part)} = {e}

\* The first that matches e alone, else the path, of which nobody asks.
SelectorInRoot(page, load, e) ==
    LET tries == Tries(page, load, e)
        good == {i \in DOMAIN tries : tries[i].when /\ Unique(page, load, e, tries[i].part)}
    IN  IF good = {} THEN PathTo(page, load, e) ELSE tries[Min(good)].part

\* cssSelectorFor: "host >>> inner".
SelectorFor(page, load, e) ==
    LET in[n \in 0..Len(page)] ==
          IF n = 0 THEN <<>> ELSE Append(in[page[n].host], SelectorInRoot(page, load, n))
    IN  in[e]

\* queryAll, part by part into the shadow trees.
QueryAll(page, load, selector) ==
    LET found[n \in 0..Len(selector)] ==
          IF n = 0 THEN {0}
          ELSE {e \in DOMAIN page : page[e].host \in found[n - 1] /\ Fulfils(page, load, e, selector[n])}
    IN  found[Len(selector)]

-----------------------------------------------------------------------------
(* Fields. *)

Sources == <<"label-for", "label-wrap", "aria-labelledby", "aria-label", "placeholder", "title", "text", "name">>

FirstSaid(page, e, sources) ==
    LET given == {i \in DOMAIN sources : Said(page, e, sources[i]) # ""}
    IN  IF given = {} THEN "" ELSE Said(page, e, sources[Min(given)])

\* accessibleLabel, of a field: the first source that says something.
LabelOf(page, e) == FirstSaid(page, e, Sources)

\* accessibleName, of a button.
NameOf(page, e) == FirstSaid(page, e, <<"aria-labelledby", "aria-label", "text", "title">>)

IsField(page, e) == page[e].tag \in {"input", "select", "textarea"} /\ page[e].type \notin {"hidden", "submit", "button", "reset", "image"}

\* isFieldVisible: a styled checkbox or radio is seen by the label beside it.
FieldVisible(page, shut, e) ==
    Visible(page, shut, e) \/ (page[e].type \in {"checkbox", "radio"} /\ "label-for" \in DOMAIN page[e].says
                                   /\ \A up \in {page[e].up} \ {0} : Visible(page, shut, up))

\* fieldUnits: the radios of one name are one field, the first of them.
InGroup(page, e) == page[e].type = "radio" /\ page[e].name # <<>>
Units(page, shut, controls) ==
    LET seen == {e \in controls : IsField(page, e) /\ ~page[e].off /\ FieldVisible(page, shut, e)}
    IN  Ascending({e \in seen : ~\E r \in seen :
                       r < e /\ InGroup(page, e) /\ InGroup(page, r) /\ page[r].name = page[e].name})

\* fieldKey: name, an id that looks like its author's, label, any other id, position.
FieldKey(page, load, e, position) ==
    IF page[e].name # <<>> THEN page[e].name
    ELSE IF AuthorId(page, e) THEN <<IdText(page, load, e)>>
    ELSE IF LabelOf(page, e) # "" THEN <<LabelOf(page, e)>>
    ELSE IF page[e].id # "" THEN <<IdText(page, load, e)>>
    ELSE <<"field", ToString(position)>>

\* Mutant of DedupeKeys: the second of two fields with one key keeps it.
DedupeKeysNot(keys) == keys

\* dedupeKeys: the nth with a key gets "_n", and as many "_" as it takes.
Padded(key, n, k) == key \o <<ToString(n)>> \o [j \in 1..k |-> ""]
DedupeKeys(keys) ==
    LET new[m \in 0..Len(keys)] ==
          IF m = 0 THEN <<>>
          ELSE LET done == new[m - 1]
                   seen == Cardinality({i \in 1..(m - 1) : keys[i] = keys[m]})
                           + Cardinality({i \in 1..(m - 1) : done[i] = keys[m] /\ keys[i] # keys[m]})
                   Free(k) == \A i \in 1..(m - 1) : Padded(keys[m], seen + 1, k) \notin {done[i], keys[i]}
               IN  Append(done, IF seen = 0 THEN keys[m]
                                ELSE Padded(keys[m], seen + 1, Min({k \in 0..(2 * m) : Free(k)})))
    IN  new[Len(keys)]

\* The selector of a field: a radio group's matches all of them.
FieldSelector(page, load, e) ==
    IF InGroup(page, e) THEN <<AttrSel("radios", "input", page[e].name, <<>>)>>
    ELSE SelectorFor(page, load, e)

-----------------------------------------------------------------------------
(* Forms and actions. *)

Dialogs(page) == In(page, {"dialog"})

\* buttonsIn: of a form, or of a dialog outside its forms.
ButtonsIn(page, shut, root) ==
    {b \in Descendants(page, root) :
        /\ page[b].tag = "button" \/ (page[b].tag = "input" /\ page[b].type \in {"submit", "image", "button"})
        /\ Visible(page, shut, b) /\ (page[root].tag = "form" \/ Owner(page, b) = 0)}

\* findSubmit: the first submit button, which a button without a type is; else, of a form the last button, of a dialog the first that
\* reads like one, or the last that is no Cancel.  0: none.
FindSubmit(page, shut, root) ==
    LET all == ButtonsIn(page, shut, root)
        Final(set) == IF set = {} THEN 0 ELSE Max(set)
        Reads(b, words) == NameOf(page, b) \in words
        typed == {b \in all : page[b].type \in {"submit", "image"} \/ (page[b].tag = "button" /\ page[b].type = "")}
        primary == {b \in all : Reads(b, {"Save"})}
    IN  IF typed # {} THEN Min(typed)
        ELSE IF page[root].tag = "form" THEN Final(all)
        ELSE IF primary # {} THEN Min(primary)
        ELSE Final({b \in all : ~Reads(b, {"Cancel"})})

\* buildForm, without what it says of wording: the id is that of the route, the keys and the label.
BuildForm(page, shut, load, root) ==
    LET controls == {e \in Descendants(page, root) : Owner(page, e) = (IF page[root].tag = "form" THEN root ELSE 0)}
        units == Units(page, shut, controls)
        submit == FindSubmit(page, shut, root)
        label == IF submit = 0 THEN "" ELSE NameOf(page, submit)
        keys == DedupeKeys([i \in DOMAIN units |-> FieldKey(page, load, units[i], i - 1)])
    IN  [root |-> root, id |-> <<Range(keys), label>>, keys |-> keys, units |-> units,
         selectors |-> [i \in DOMAIN units |-> FieldSelector(page, load, units[i])],
         selector |-> SelectorFor(page, load, root),
         submit |-> IF submit = 0 THEN <<>> ELSE SelectorFor(page, load, submit),
         destructive |-> page[root].danger \/ (submit # 0 /\ page[submit].danger)]

\* Those that have fields, the first of each id.
Pushed(forms) ==
    LET some == {i \in DOMAIN forms : forms[i].units # <<>>}
    IN  Filtered(forms, {i \in some : \A j \in some : j < i => forms[j].id # forms[i].id})

\* discoverForms: the forms that have a visible field, then the field groups of open dialogs that
\* have a button.
DiscoverForms(page, shut, load) ==
    LET roots == Deep(page, In(page, {"form"}))
                 \o Deep(page, {d \in Dialogs(page) : Visible(page, shut, d) /\ ButtonsIn(page, shut, d) # {}})
    IN  Pushed([i \in DOMAIN roots |-> BuildForm(page, shut, load, roots[i])])

\* The submit buttons of the forms, looked up with the document's own querySelector, which enters no
\* shadow tree.
Excluded(page, load, forms) ==
    UNION {QueryAll(page, load, forms[i].submit) : i \in {i \in DOMAIN forms : Len(forms[i].submit) = 1}}

\* The kind of an action, "" for an anchor that is a link, leads elsewhere or does nothing.
ActionKind(page, e) ==
    IF page[e].tag = "a" /\ page[e].href[1] \in {"", "page", "elsewhere"} THEN ""
    ELSE IF page[e].tag = "a" /\ page[e].href[1] = "route" THEN "navigate"
    ELSE IF page[e].opens THEN "open_modal"
    ELSE IF page[e].tag = "input" /\ page[e].type = "submit" THEN "submit" ELSE "button"

\* Revealing actions first, destructive last.
Rank(page, e) == (IF page[e].danger THEN 10 ELSE 0)
                 + (CASE ActionKind(page, e) = "open_modal" -> 0 [] ActionKind(page, e) = "button" -> 1
                      [] ActionKind(page, e) = "navigate" -> 2 [] OTHER -> 3)

\* discoverActions: outside forms, one of each selector, so many at most.
ByRank(page, list) == Sorted(list, [i \in DOMAIN list |-> Rank(page, list[i])])
Slice(list, limit) == SubSeq(list, 1, IF Len(list) < limit THEN Len(list) ELSE limit)
DiscoverActions(page, shut, load, limit, excluded) ==
    LET all == {e \in In(page, {"button", "a"}) \cup {e \in In(page, {"input"}) : page[e].type \in {"button", "submit"}} :
                  /\ e \notin excluded /\ Owner(page, e) = 0 /\ Visible(page, shut, e) /\ ~page[e].off
                  /\ ActionKind(page, e) # ""}
        Same(a, b) == SelectorFor(page, load, a) = SelectorFor(page, load, b)
        once == {e \in all : ~\E o \in all : Precedes(page, o, e) /\ Same(o, e)}
    IN  Slice(ByRank(page, Deep(page, once)), limit)

\* discoverLinks: the links ALT may follow, shown or not.
DiscoverLinks(page) == {e \in In(page, {"a"}) : page[e].href[1] = "page"}

\* discoverPage.
Answer(page, load, forms, actions) ==
    [forms |-> forms, links |-> DiscoverLinks(page), actions |-> actions,
     targets |-> [i \in DOMAIN actions |-> SelectorFor(page, load, actions[i])]]
DiscoverPage(page, shut, load, limit) ==
    LET forms == DiscoverForms(page, shut, load)
    IN  Answer(page, load, forms, DiscoverActions(page, shut, load, limit, Excluded(page, load, forms)))
==============================================================================
