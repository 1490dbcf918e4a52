------------------------------ MODULE Templates ------------------------------
(***************************************************************************)
(* The text of an alert (internal/notification/template.go, and the        *)
(* request the evaluator builds).  A text is a sequence of pieces: words,  *)
(* and placeholders {{key}}.  Two values that only together look like a    *)
(* placeholder are left out.  substitute ranges over a Go map, in an order *)
(* that is another one each time: rendering has a set of outcomes.         *)
(***************************************************************************)
EXTENDS SequencesExt

Words(name) == [key |-> FALSE, name |-> name]
Key(name) == [key |-> TRUE, name |-> name]

\* The default texts of the rule types.
registry ==
    [t \in {"OPEN_ISSUES", "DELIVERY_SUCCESS", "UNRESOLVED_TIME"} |->
       [subject |-> <<Words(t), Key("resource_name")>>,
        body    |-> <<Words(t), Key("current_value"), Key("limit")>>]]

ErrMissingVar == <<>>

\* strings.ReplaceAll; it does not look at the value it puts in.
Spliced(s, key, val) ==
    FlattenSeq([i \in DOMAIN s |-> IF s[i] = Key(key) THEN val ELSE <<s[i]>>])

Replaced(s, vars, order) ==
    FoldLeft(LAMBDA text, key : Spliced(text, key, vars[key]), s, order)

substitute(s, vars) ==
    {IF \E i \in DOMAIN text : text[i].key THEN ErrMissingVar ELSE text :
       text \in {Replaced(s, vars, order) : order \in SetToSeqs(DOMAIN vars)}}

alertVars(rule) ==
    [resource_name |-> rule.name, limit |-> <<Words("threshold")>>,
     current_value |-> <<Words("value")>>]

\* mutant: a missing half of a custom template is that of open issues
OpenIssuesTemplate(rule, half) ==
    IF rule[half] = <<>> THEN registry["OPEN_ISSUES"][half] ELSE rule[half]

\* A half that the rule does not set is the default of its type.
Template(rule, half) ==
    IF rule[half] = <<>> THEN registry[rule.type][half] ELSE rule[half]

\* Both halves, or an error.
RenderRequest(rule) ==
    {IF ErrMissingVar \in {s, b} THEN ErrMissingVar ELSE s \o b :
       s \in substitute(Template(rule, "subject"), alertVars(rule)),
       b \in substitute(Template(rule, "body"), alertVars(rule))}

=============================================================================
