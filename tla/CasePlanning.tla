---------------------------- MODULE CasePlanning ----------------------------
(***************************************************************************)
(* The test cases of a form: how they are planned from what was discovered *)
(* (shared/datagen.ts), and how Gemini's plan, which may come after some   *)
(* have run, changes them (shared/merge-plan.ts).                          *)
(*                                                                         *)
(* Numbers are in tenths.  A limit that a field may lack is a set with at  *)
(* most one element.  A value is a sort and a number: what the checks of a *)
(* browser, and of this code, tell apart.  Patterns, minimum lengths and   *)
(* the options' labels are left out; digests are taken to be injective.    *)
(***************************************************************************)
EXTENDS Ordering, FiniteSetsExt, Functions

CONSTANTS
    Forms,      \* what discovery may find
    Plans,      \* what the service may answer
    MaxCases,   \* settings.maxCasesPerForm
    NoField     \* of cases about the whole form

ASSUME CasePlanningAssumption == MaxCases \in Nat \ {0} /\ NoField \in STRING

\* A value of a field: nothing, spaces, a choice, a word, so many letters, a number, so many days from
\* today, a date there is not, what no format takes, and the texts with a trap.
Value ==
    [sort : {"empty", "blank", "option", "word", "chars", "number", "date", "impossible", "garbage",
             "unicode", "emoji", "rtl", "html_injection", "sql_injection"}, n : Int]

\* A field; `end` says that its words name an end date.
FieldType ==
    [key : STRING, type : STRING, semantic : STRING, required : BOOLEAN, readOnly : BOOLEAN, unique : BOOLEAN,
     end : BOOLEAN, min : SUBSET Int, max : SUBSET Int, step : SUBSET Int, maxLength : SUBSET Int]

\* What discovery finds: a limit is there once or not at all, and no two fields have the same key.
FormType ==
    {d \in [fields : Seq(FieldType), soft : BOOLEAN, login : BOOLEAN, destructive : BOOLEAN] :
      /\ \A i, k \in DOMAIN d.fields : d.fields[i].key = d.fields[k].key => i = k
      /\ \A i \in DOMAIN d.fields :
           /\ d.fields[i].key # NoField
           /\ \A limit \in {d.fields[i].min, d.fields[i].max, d.fields[i].step, d.fields[i].maxLength} :
                \A m, n \in limit : m = n}

ASSUME FormsAssumption == Forms \subseteq FormType

\* What is read of a plan: happy values that are not empty, what is unique, and cases of its own.
ASSUME PlansAssumption ==
    \A p \in Plans :
      /\ p.destructive \in BOOLEAN
      /\ DOMAIN p.values \subseteq STRING /\ \A k \in DOMAIN p.values : p.values[k] \in Value \ {[sort |-> "empty", n |-> 0]}
      /\ Len(p.contexts) \in Nat /\ DOMAIN p.contexts = 1..Len(p.contexts)
      /\ \A i \in DOMAIN p.contexts : LET x == p.contexts[i] IN
           /\ x.title \in STRING /\ x.key \in STRING /\ x.expect \in {"accept", "reject"}
           /\ DOMAIN x.over \subseteq STRING /\ \A k \in DOMAIN x.over : x.over[k] \in Value

VARIABLES
    form,       \* the discovered form: fields (a sequence), soft, login, destructive
    allow,      \* settings.allowDestructive
    cases,      \* its cases, in the order they are to run
    executed,   \* the ids of those that have run
    merged      \* whether the plan has arrived

vars == <<form, allow, cases, executed, merged>>

-----------------------------------------------------------------------------
(* Values and fields. *)

Val(sort, n) == [sort |-> sort, n |-> n]
Empty == Val("empty", 0)
Blank == Val("blank", 0)
Garbage == Val("garbage", 0)
Today == 0                    \* dates are days from today

NumericSemantics == {"quantity", "integer", "currency_amount", "percentage", "number"}
FreeText == {"person_name", "company", "description", "text"}
Formatted == {"email", "phone", "gstin"}

IsText(f) == f.type \in {"text", "email", "textarea"}
IsNumeric(f) == f.type = "number" \/ f.semantic \in NumericSemantics
IsFree(f) == f.semantic \in FreeText /\ f.type # "select"
IsInteger(f) ==
    IF f.step # {} THEN \A s \in f.step : s % 10 = 0
    ELSE \/ f.semantic \in {"quantity", "integer"}
         \/ f.type = "number" /\ f.semantic \notin {"currency_amount", "percentage"}

\* The preferred number, moved into the field's range and onto its grid.
Number(f, preferred) ==
    LET low == IF \E m \in f.min : preferred < m THEN CHOOSE m \in f.min : TRUE ELSE preferred
        v == IF \E m \in f.max : low > m THEN CHOOSE m \in f.max : TRUE ELSE low
    IN IF IsInteger(f) THEN 10 * ((v + 5) \div 10) ELSE v

Preferred(semantic) ==
    CASE semantic = "quantity" -> 50
      [] semantic \in {"integer", "percentage"} -> 100
      [] semantic = "currency_amount" -> 12500
      [] semantic = "number" -> 420
      [] OTHER -> 50

\* The fields whose happy value depends on seq.
PerCase(f) == f.semantic \in {"identifier", "username"} \/ (f.semantic = "email" /\ f.unique)

\* A realistic valid value.
HappyValue(f, seq) ==
    IF f.type = "select" THEN Val("option", 0)
    ELSE IF IsNumeric(f) THEN Val("number", Number(f, Preferred(f.semantic)))
    ELSE CASE f.semantic = "date" -> Val("date", IF f.end THEN Today + 30 ELSE Today)
           [] f.semantic = "birth_date" -> Val("date", Today - 13000)
           [] OTHER -> Val("word", IF PerCase(f) THEN seq ELSE 0)

\* "Would the browser/app consider this a structurally valid value for the field?"
SatisfiesConstraints(f, v) ==
    /\ f.type = "select" => v.sort = "option"
    /\ v.sort = "chars" => \A m \in f.maxLength : v.n <= m
    /\ f.type = "number" =>
         v.sort = "number" /\ (\A m \in f.min : v.n >= m) /\ (\A m \in f.max : v.n <= m)
    /\ f.type = "date" => v.sort \in {"date", "impossible"}
    /\ f.type = "email" => v.sort = "word"

-----------------------------------------------------------------------------
(* Planning. *)

Priority ==
    [happy |-> 0, negative |-> 10, invalid_format |-> 20, required_empty |-> 30, below_min |-> 40,
     above_max |-> 40, over_max_length |-> 40, zero |-> 50, decimal_for_integer |-> 50,
     invalid_date |-> 55, context |-> 55, duplicate |-> 60, double_submit |-> 70,
     back_after_submit |-> 72, reload_after_fill |-> 74, keyboard_navigation |-> 76,
     wrong_type |-> 80, whitespace |-> 80, very_long |-> 82, at_min |-> 85, at_max |-> 85,
     max_length |-> 86, unicode |-> 90, emoji |-> 91, rtl |-> 92, html_injection |-> 93,
     sql_injection |-> 94]

NonSubmitting == {"reload_after_fill", "keyboard_navigation"}

Specials == {"unicode", "emoji", "rtl", "html_injection", "sql_injection"}

\* The order in which planCases() thinks of a field's tests.
FieldKinds ==
    <<"required_empty", "whitespace", "max_length", "over_max_length", "very_long", "negative", "zero",
      "below_min", "at_min", "at_max", "above_max", "decimal_for_integer", "wrong_type",
      "invalid_format", "invalid_date", "duplicate", "unicode", "emoji", "rtl", "html_injection",
      "sql_injection">>

Test(kind, v, expect) == [kind |-> kind, value |-> v, expect |-> expect]
When(condition, tests) == IF condition THEN tests ELSE {}

\* What may be left out, and how long it may be; a limit of 10000 letters or more is none.
TextTests(f) ==
    LET lengths == IsText(f) /\ f.semantic \notin {"email", "date", "gstin"}
        limits == {m \in f.maxLength : 0 < m /\ m < 10000}
    IN   When(f.required, {Test("required_empty", Empty, "reject")})
    \cup When(f.required /\ IsText(f), {Test("whitespace", Blank, "reject")})
    \cup When(lengths, {Test("max_length", Val("chars", m), "accept") : m \in limits})
    \cup When(lengths, {Test("over_max_length", Val("chars", m + 1), "reject") : m \in limits})
    \cup When(lengths /\ limits = {} /\ f.semantic \in FreeText \cup {"identifier"},
              {Test("very_long", Val("chars", 5000), "observe")})

\* The range of a number.
NumberTests(f) ==
    LET step == IF f.step = {} THEN 10 ELSE CHOOSE s \in f.step : TRUE
        positive == f.semantic \in {"quantity", "currency_amount", "percentage", "integer"}
        atLeastZero == \A m \in f.min : m >= 0
        ofZero == IF f.min = {} THEN (IF f.semantic = "quantity" THEN "reject" ELSE "observe")
                  ELSE IF 0 \in f.min THEN "accept" ELSE "reject"
    IN   When(atLeastZero /\ (f.min # {} \/ positive),
              {Test("negative", Val("number", IF f.semantic = "currency_amount" THEN -1000 ELSE -50), "reject")})
    \cup When(atLeastZero /\ ~(0 \in f.min /\ f.max = {} /\ f.semantic # "quantity"),
              {Test("zero", Val("number", 0), ofZero)})
    \cup {Test("below_min", Val("number", m - step), "reject") : m \in f.min}
    \cup {Test("at_min", Val("number", m), "accept") : m \in f.min}
    \cup {Test("at_max", Val("number", m), "accept") : m \in f.max}
    \cup {Test("above_max", Val("number", m + step), "reject") : m \in f.max}
    \cup When(f.max = {} /\ f.semantic = "percentage", {Test("above_max", Val("number", 1500), "reject")})
    \cup When(IsInteger(f), {Test("decimal_for_integer", Val("number", 25), "reject")})
    \cup When(f.type # "number", {Test("wrong_type", Garbage, "reject")})

\* Formats, and what a text may contain.
FormatTests(f, special) ==
         When(f.semantic \in Formatted /\ f.type # "select", {Test("invalid_format", Garbage, "reject")})
    \cup When(f.semantic \in {"date", "birth_date"} /\ f.type # "date" /\ IsText(f),
              {Test("invalid_date", Val("impossible", 0), "reject")})
    \cup When(f.semantic = "birth_date" /\ f.type = "date",
              {Test("invalid_date", Val("date", Today + 365), "reject")})
    \cup When(special, {Test(k, Val(k, 0), IF k \in {"html_injection", "sql_injection"} THEN "observe"
                                           ELSE "accept") : k \in Specials})

\* A test as planCases() adds it: `over` replaces values of the happy ones, or of fresh ones.
Candidate(kind, key, over, expect, index, repeats) ==
    [kind |-> kind, key |-> key, over |-> over, expect |-> expect, index |-> index, repeats |-> repeats]

\* The tests of the i-th field.
FieldCandidates(fields, i) ==
    LET f == fields[i]
        special == IsFree(f) /\ Cardinality({k \in 1..(i - 1) : IsFree(fields[k])}) < 2
        tests == TextTests(f) \cup When(IsNumeric(f) /\ f.type # "select", NumberTests(f))
                   \cup FormatTests(f, special)
        Thought(k) == (\E t \in tests : t.kind = k) \/ (k = "duplicate" /\ f.unique)
        kinds == Filtered(FieldKinds, {n \in DOMAIN FieldKinds : Thought(FieldKinds[n])})
        Of(k) == IF k = "duplicate"
                 THEN Candidate(k, f.key, <<>>, "reject", i - 1, TRUE)
                 ELSE LET t == CHOOSE t \in tests : t.kind = k
                      IN Candidate(k, f.key, [key \in {f.key} |-> t.value], t.expect, i - 1, FALSE)
    IN [n \in DOMAIN kinds |-> Of(kinds[n])]

\* An end date before the start date.
DateCandidates(fields) ==
    LET dates == {i \in DOMAIN fields : fields[i].semantic = "date"}
        ends == {i \in dates : fields[i].end}
        end == fields[Min(ends)].key
        starts == dates \ {Min(ends)}
        start == fields[Min(starts)].key
    IN IF ends = {} \/ starts = {} THEN <<>>
       ELSE <<Candidate("invalid_date", end,
                        [k \in {start, end} |-> Val("date", IF k = start THEN Today ELSE Today - 5)], "reject", 0, FALSE)>>

FormCandidates(d) ==
    LET Whole(kind) == Candidate(kind, NoField, <<>>, "observe", 0, FALSE)
        resting == <<Whole("reload_after_fill"), Whole("keyboard_navigation")>>
    IN IF d.soft \/ d.login THEN resting ELSE <<Whole("double_submit"), Whole("back_after_submit")>> \o resting

KeysOf(fields) == {f.key : f \in fields}

\* The values of a form; seq tells those of its unique fields apart.
Values(fields, seq) ==
    [k \in KeysOf(Range(fields)) |->
        LET f == CHOOSE g \in Range(fields) : g.key = k IN HappyValue(f, IF f.unique THEN seq ELSE 0)]

CaseOf(d, fields, c, seq) ==
    [id |-> <<c.kind, c.key>>, kind |-> c.kind, key |-> c.key,
     values |-> Over(c.over, Values(fields, IF c.repeats THEN 0 ELSE seq)),
     expect |-> IF (d.soft \/ d.login) /\ c.expect = "reject" THEN "observe" ELSE c.expect,
     priority |-> 100 * Priority[c.kind] + c.index]

\* Mutant of SameValue: another field's test counts.
SameValueAnywhere(out, c) ==
    \E o \in Range(out) : c.key \in DOMAIN c.over /\ o.values[c.key] = c.over[c.key]

SameValue(out, c) ==
    \E o \in Range(out) : c.key \in DOMAIN c.over /\ o.key = c.key /\ o.values[c.key] = c.over[c.key]

\* Adds a candidate unless its id, or the same value for its field, is there already.
Add(d, fields, out, c) ==
    IF SameValue(out, c) \/ \E o \in Range(out) : o.id = <<c.kind, c.key>>
    THEN out
    ELSE Append(out, CaseOf(d, fields, c, Len(out)))

ByPriority(s) == Sorted(s, [i \in DOMAIN s |-> s[i].priority])

First(s, n) == SubSeq(s, 1, IF n < Len(s) THEN n ELSE Len(s))

OnlySafe(d, allowed, s) ==
    IF d.destructive /\ ~allowed THEN Filtered(s, {i \in DOMAIN s : s[i].kind \in NonSubmitting}) ELSE s

\* The fields a test can fill in.
Fillable(d) == Filtered(d.fields, {i \in DOMAIN d.fields : ~d.fields[i].readOnly})

\* Everything planCases() thinks of, in that order.
Candidates(d) ==
    LET fields == Fillable(d)
        happy == Candidate("happy", NoField, <<>>, IF d.login THEN "observe" ELSE "accept", 0, TRUE)
        upTo[i \in 0..Len(fields)] == IF i = 0 THEN <<happy>> ELSE upTo[i - 1] \o FieldCandidates(fields, i)
    IN upTo[Len(fields)] \o DateCandidates(fields) \o FormCandidates(d)

PlanCases(d, allowed) ==
    LET candidates == Candidates(d)
        out[n \in 0..Len(candidates)] == IF n = 0 THEN <<>> ELSE Add(d, Fillable(d), out[n - 1], candidates[n])
    IN First(ByPriority(OnlySafe(d, allowed, out[Len(candidates)])), MaxCases)

-----------------------------------------------------------------------------
(* Gemini's plan: p.values (key -> happy value), p.unique (keys), p.destructive, p.contexts (a    *)
(* sequence of [title, key, over, expect]).                                                       *)

\* The fields as the plan sees them: it may add to what is unique.
Enriched(d, p) ==
    LET unique(f) == f.unique \/ f.key \in p.unique
    IN  [d EXCEPT !.fields = [i \in DOMAIN @ |-> [@[i] EXCEPT !.unique = unique(d.fields[i])]],
                  !.destructive = @ \/ p.destructive]

\* The fields whose value is taken over, as a set.
Accepted(d, p) ==
    {f \in Range(d.fields) : f.key \in DOMAIN p.values /\ SatisfiesConstraints(f, p.values[f.key])}

\* Mutant of BetterValues: the field under test gets the plan's value too.
BetterValuesEverywhere(d, p, c) ==
    LET keys == KeysOf({f \in Accepted(d, p) : ~f.unique /\ c.kind # "context"})
    IN [c EXCEPT !.values = Over([k \in keys |-> p.values[k]], @)]

\* Mutant of BetterValues: unique fields get it as well, so that happy and duplicate part.
BetterValuesUniqueToo(d, p, c) ==
    LET keys == KeysOf({f \in Accepted(d, p) : c.kind # "context"}) \ {c.key}
    IN [c EXCEPT !.values = Over([k \in keys |-> p.values[k]], @)]

\* Accepted values flow into a case that has not run, but for the field under test and unique ones.
BetterValues(d, p, c) ==
    LET keys == KeysOf({f \in Accepted(d, p) : ~f.unique /\ c.kind # "context"}) \ {c.key}
    IN [c EXCEPT !.values = Over([k \in keys |-> p.values[k]], @)]

\* The values of the happy case, when it is among the cases.
HappyValues(s) ==
    LET at == {i \in DOMAIN s : s[i].kind = "happy"} IN IF at = {} THEN <<>> ELSE s[Min(at)].values

\* A case the plan adds: the happy values with its own over them.
AddContext(d, happy, out, x) ==
    LET keys == KeysOf(Range(d.fields))
        over == [k \in DOMAIN x.over \cap keys |-> x.over[k]]
    IN IF DOMAIN over = {} \/ \E c \in Range(out) : c.id = <<"context", x.title>> THEN out
       ELSE Append(out,
              [id |-> <<"context", x.title>>, kind |-> "context",
               key |-> IF x.key \in keys THEN x.key ELSE NoField,
               values |-> Over(over, happy),
               expect |-> x.expect, priority |-> 100 * Priority["context"]])

\* Mutant of Capped: what has run counts like what waits.
CappedTogether(s, ran) == First(ByPriority(s), MaxCases)

\* "Keep every already-executed case; cap the rest."
Capped(s, ran) ==
    LET sorted == ByPriority(s)
        done == Filtered(sorted, {i \in DOMAIN sorted : sorted[i].id \in ran})
        pending == Filtered(sorted, {i \in DOMAIN sorted : sorted[i].id \notin ran})
        room == IF Len(done) < MaxCases THEN MaxCases - Len(done) ELSE 0
    IN ByPriority(done \o First(pending, room))

MergedCases(d, p, s, ran, allowed) ==
    LET better == [i \in DOMAIN s |-> IF s[i].id \in ran THEN s[i] ELSE BetterValues(d, p, s[i])]
        out[n \in 0..Len(p.contexts)] ==
            IF n = 0 THEN better ELSE AddContext(d, HappyValues(better), out[n - 1], p.contexts[n])
    IN Capped(OnlySafe(d, allowed, out[Len(p.contexts)]), ran)

-----------------------------------------------------------------------------
(* The life of a form. *)

\* registerForm(): the form is discovered and its cases are planned.
Init ==
    /\ form \in Forms /\ allow \in BOOLEAN
    /\ cases = PlanCases(form, allow)
    /\ executed = {} /\ merged = FALSE

\* The next case runs (or is blocked, which is recorded as well).
RunNext ==
    /\ \E i \in DOMAIN cases :
         /\ cases[i].id \notin executed /\ \A k \in 1..(i - 1) : cases[k].id \in executed
         /\ executed' = executed \cup {cases[i].id}
    /\ UNCHANGED <<form, allow, cases, merged>>

\* enrich(): the plan has come.
PlanArrives ==
    /\ ~merged /\ merged' = TRUE
    /\ \E p \in Plans :
         /\ form' = Enriched(form, p)
         /\ cases' = MergedCases(form', p, cases, executed, allow)
    /\ UNCHANGED <<allow, executed>>

\* The developer changes allowDestructive before the plan comes.
SettingChanges ==
    /\ ~merged /\ allow' = ~allow
    /\ UNCHANGED <<form, cases, executed, merged>>

Next == RunNext \/ PlanArrives \/ SettingChanges

Spec == Init /\ [][Next]_vars

-----------------------------------------------------------------------------
(* Properties. *)

\* The field with a key.
FieldOf(d, k) == CHOOSE f \in Range(d.fields) : f.key = k
KeysIn(d) == KeysOf(Range(d.fields))

\* Every variable keeps the shape the source gives it: cases have distinct ids, are sorted, and
\* no more of them wait than the settings allow.
TypeOK ==
    /\ allow \in BOOLEAN /\ merged \in BOOLEAN
    /\ \A i, k \in DOMAIN cases :
         i < k => cases[i].id # cases[k].id /\ cases[i].priority <= cases[k].priority
    /\ \A c \in Range(cases) : DOMAIN c.values \subseteq KeysIn(form) /\ c.key \in KeysIn(form) \cup {NoField}
    /\ Len(cases) <= MaxCases

\* A number the field's step leads to, from its smallest one; without a step that is every whole one.
OnStep(f, n) ==
    LET base == IF f.min = {} THEN 0 ELSE CHOOSE m \in f.min : TRUE
        step == IF f.step = {} THEN 10 ELSE CHOOSE s \in f.step : TRUE
    IN (n - base) % step = 0

\* What the field lets a user hand in, by the rules of HTML: a choice of its own, a number of its range
\* and step, a day there is, an address, a text that is not too long; and not nothing, nor spaces
\* only, where it asks for something.
Fine(f, v) ==
    /\ f.required => v \notin {Empty, Blank}
    /\ CASE f.type = "select" -> v.sort = "option"
         [] f.type = "number" -> /\ v.sort = "number" /\ OnStep(f, v.n)
                                 /\ (\A m \in f.min : v.n >= m) /\ (\A m \in f.max : v.n <= m)
         [] f.type = "date" -> v.sort = "date"
         [] f.type = "email" -> v.sort = "word"
         [] OTHER -> v.sort = "chars" => \A m \in f.maxLength : v.n <= m

\* What satisfiesConstraints() does not ask of a plan's value: PlanValuesFit is about it.
Slips(f, v) ==
    \/ f.required /\ v = Blank
    \/ f.type = "number" /\ v.sort = "number" /\ ~OnStep(f, v.n)
    \/ f.type = "date" /\ v.sort = "impossible"

\* What a case of a kind is meant to be wrong about.
Wrong(kind, f, v) ==
    CASE kind = "required_empty" -> v = Empty
      [] kind = "whitespace" -> v = Blank
      [] kind = "over_max_length" -> v.sort = "chars" /\ \A m \in f.maxLength : v.n > m
      [] kind = "very_long" -> v.sort = "chars" /\ v.n >= 5000
      [] kind = "negative" -> v.sort = "number" /\ v.n < 0
      [] kind = "below_min" -> v.sort = "number" /\ \A m \in f.min : v.n < m
      [] kind = "above_max" -> v.sort = "number" /\ v.n > IF f.max = {} THEN 1000 ELSE CHOOSE m \in f.max : TRUE
      [] kind = "zero" -> v = Val("number", 0)
      [] kind = "decimal_for_integer" -> v.sort = "number" /\ v.n % 10 # 0
      [] kind \in {"wrong_type", "invalid_format"} -> v = Garbage
      [] kind = "invalid_date" -> v.sort = "impossible" \/ (f.semantic = "birth_date" /\ v.sort = "date" /\ v.n > Today)
      [] kind \in {"html_injection", "sql_injection"} -> v.sort = kind
      [] OTHER -> Fine(f, v)

\* The other dates a case fills in.
OtherDates(d, k, values) == {g \in DOMAIN values \ {k} : FieldOf(d, g).semantic = "date"}

\* The date of a field is past, and before another one of the form.
Reversed(d, k, values) ==
    /\ values[k].sort = "date" /\ values[k].n < Today
    /\ \E g \in OtherDates(d, k, values) : values[g].sort = "date" /\ values[k].n < values[g].n

\* A plan has moved another date, which planCases() leaves at today: EndBeforeStart is about it.
Moved(d, k, values) == \E g \in OtherDates(d, k, values) : values[g] # Val("date", Today)

\* The field under test holds what the case is about, and every other one what it takes.
OneFault(d, planned, kind, key, values) ==
    \A k \in DOMAIN values :
        IF k = key
        THEN \/ Wrong(kind, FieldOf(d, k), values[k])
             \/ kind = "invalid_date" /\ (Reversed(d, k, values) \/ (planned /\ Moved(d, k, values)))
        ELSE Fine(FieldOf(d, k), values[k]) \/ (planned /\ Slips(FieldOf(d, k), values[k]))

\* A field whose type tells what it is for (as classifyField() has it, unless an autocomplete
\* attribute says otherwise), whose range has a value in it, and whose step leads to the largest one
\* and to the number planCases() prefers, which looks at no step.
Clear(f) ==
    /\ f.type = "number" =>
         /\ f.semantic \in NumericSemantics /\ OnStep(f, Number(f, Preferred(f.semantic)))
         /\ \A m \in f.max : OnStep(f, m)
    /\ f.type = "date" => f.semantic \in {"date", "birth_date"}
    /\ f.type = "email" => f.semantic = "email"
    /\ f.type = "select" => f.semantic # "date"
    /\ \A m \in f.min, n \in f.max : m <= n
    /\ \A s \in f.step : s > 0
    /\ IsInteger(f) => \A m \in f.min \cup f.max : m % 10 = 0

ClearFields == \A d \in Forms : \A f \in Range(d.fields) : Clear(f)

\* "Deterministic verdicts" need cases that test one thing: in every case, also after the plan has
\* come, the field under test holds what the case is about and every other field a value the form
\* would take, so that a rejection is about that field and an acceptance about all of them.  What a
\* plan can spoil is named: a start date of its own, and a value that the field does not take though
\* satisfiesConstraints() lets it through.
OneFaultEach ==
    \A c \in Range(cases) : c.kind # "context" => OneFault(form, merged, c.kind, c.key, c.values)

\* "Would the browser/app consider this a structurally valid value for the field?" (merge-plan.ts): the
\* happy path, after a plan as before, is made of values that the fields take.
PlanValuesFit ==
    \A c \in Range(cases) : c.kind = "happy" => \A k \in DOMAIN c.values : Fine(FieldOf(form, k), c.values[k])

\* "Re-submits the happy path's value" (datagen.ts), whatever the plan changed in between and
\* whichever of the two has run.
DuplicateRepeatsHappy ==
    \A c, h \in Range(cases) :
        c.kind = "duplicate" /\ h.kind = "happy" => c.values[c.key] = h.values[c.key]

\* A plan removes no case that has run (unless it finds the form destructive), changes none, and
\* cuts nothing that is more urgent than what stays.
MergeKeepsBest ==
    [][merged' # merged =>
         \/ form'.destructive /\ ~allow
         \/ LET kept == {c.id : c \in Range(cases')} IN
            /\ \A c \in Range(cases) : c.id \in executed => c \in Range(cases')
            /\ \A c \in Range(cases), k \in Range(cases') :
                 c.id \notin kept /\ k.id \notin executed => k.priority <= c.priority]_vars

\* "Each submitting case gets its own invoice number, except the deliberate duplicate"
\* (datagen.test.ts; merge-plan.ts: "so cases don't collide as duplicates").
OwnUniqueValues ==
    \A c, d \in Range(cases) : \A f \in Range(Fillable(form)) : LET k == f.key IN
        /\ c.id # d.id /\ f.unique /\ PerCase(f) /\ k \notin {c.key, d.key}
        /\ {c.kind, d.kind} \cap (NonSubmitting \cup {"duplicate"}) = {}
        => c.values[k] # d.values[k]

\* "Cross-field date relation: an end/due date before the start/invoice date" (datagen.ts): the
\* case that expects such dates to be rejected has them.
EndBeforeStart ==
    \A c \in Range(cases) :
        c.kind = "invalid_date" /\ c.values[c.key] = Val("date", Today - 5) => Reversed(form, c.key, c.values)

\* The values at the limits of a field and one step beyond them.
AtLimits(f) ==
    LET step == IF f.step = {} THEN 10 ELSE CHOOSE s \in f.step : TRUE
        numbers == {m - step : m \in f.min} \cup f.min \cup f.max \cup {m + step : m \in f.max}
    IN IF IsNumeric(f) THEN {Val("number", n) : n \in numbers}
       ELSE IF IsFree(f) \/ f.semantic = "identifier"
            THEN {Val("chars", m) : m \in f.maxLength} \cup {Val("chars", m + 1) : m \in f.maxLength}
       ELSE {}

\* "The same single-field value twice (e.g. "0" as both below_min and zero) is one test" (datagen.ts):
\* before a plan changes the values, no value at a limit of a field is tested twice, and, when
\* neither the cap nor a setting has cut anything, each of them is tested.
EachLimitOnce ==
    ~merged => \A f \in Range(Fillable(form)) : \A v \in AtLimits(f) :
        LET tests == {c \in Range(cases) : c.key = f.key /\ c.kind \notin {"context", "duplicate"} /\ c.values[f.key] = v}
        IN /\ Cardinality(tests) <= 1
           /\ Len(cases) < MaxCases /\ ~form.destructive => tests # {}

\* A case means one thing: the duplicate one repeats the happy one for as long as both are there, and
\* limits that coincide make one test, which no other test's value stands for.
OneTestEach == DuplicateRepeatsHappy /\ EachLimitOnce
=============================================================================
