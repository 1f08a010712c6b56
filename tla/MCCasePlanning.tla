--------------------------- MODULE MCCasePlanning ---------------------------
(* Forms and plans for TLC: two fields of every class that is planned differently. *)
EXTENDS CasePlanning, TLC

F(key, type, semantic) ==
    [key |-> key, type |-> type, semantic |-> semantic, required |-> FALSE, readOnly |-> FALSE, unique |-> FALSE,
     end |-> FALSE, min |-> {}, max |-> {}, step |-> {}, maxLength |-> {}]

FieldsOf(k) == {
    [F(k, "text", "identifier") EXCEPT !.unique = TRUE, !.required = TRUE, !.maxLength = {20}],
    [F(k, "number", "quantity") EXCEPT !.required = TRUE, !.min = {10}, !.max = {10000}, !.step = {10}],
    [F(k, "number", "currency_amount") EXCEPT !.min = {0}, !.step = {1}],
    [F(k, "text", "percentage") EXCEPT !.required = TRUE],
    [F(k, "number", "number") EXCEPT !.min = {-50}, !.max = {0}],
    [F(k, "date", "date") EXCEPT !.required = TRUE],
    [F(k, "date", "date") EXCEPT !.end = TRUE],
    [F(k, "text", "date") EXCEPT !.end = TRUE],
    F(k, "date", "birth_date"),
    [F(k, "text", "text") EXCEPT !.readOnly = TRUE],
    [F(k, "email", "email") EXCEPT !.unique = TRUE],
    [F(k, "text", "company") EXCEPT !.maxLength = {5}],
    [F(k, "select", "select_entity") EXCEPT !.required = TRUE]}

Form(a, b, soft, login, destructive) ==
    [fields |-> <<a, b>>, soft |-> soft, login |-> login, destructive |-> destructive]

MCForms ==
    {Form(a, b, FALSE, FALSE, FALSE) :
        a \in FieldsOf("a"), b \in {f \in FieldsOf("b") : f.required \/ f.end \/ f.semantic \in {"company", "email"}}}
    \cup {Form(a, b, s = "search", s = "login", s = "destructive") :
            a \in {x \in FieldsOf("a") : x.semantic = "identifier"},
            b \in {x \in FieldsOf("b") : x.semantic \in {"quantity", "company"}},
            s \in {"search", "login", "destructive"}}

Offers == {Blank, Val("word", 99), Val("chars", 9), Val("number", 40), Val("number", 45), Val("number", -70),
           Val("date", Today - 30), Val("impossible", 0)}

Context(title, key, v) == [title |-> title, key |-> key, over |-> key :> v, expect |-> "reject"]

MCPlans ==
    {[values |-> v, unique |-> u, destructive |-> FALSE,
      contexts |-> <<Context("t", "b", Garbage), Context("t", "b", Blank), Context("u", "a", Garbage), Context("v", "z", Blank)>>] :
        v \in {"a" :> x @@ "b" :> y : x, y \in Offers}, u \in {{"b"}}}
    \cup {[values |-> <<>>, unique |-> {}, destructive |-> TRUE, contexts |-> <<>>]}

\* What the theorem about faults supposes holds of these.
ASSUME MCAssumption == ClearFields
=============================================================================
