---------------------------- MODULE UriTemplates ----------------------------
(***************************************************************************)
(* Expansion and matching of URI templates, of which the code has two:     *)
(* "shared" is UriTemplate (shared/uri_template.go), "registry" the        *)
(* functions beside ResourceTemplateRegistry (server/resource_template.go).*)
(*                                                                         *)
(* A template is parsed: a sequence of literals and expressions.  A text   *)
(* is a sequence of symbols; an escape and the name of a variable are one  *)
(* symbol each.  Matching is a regular expression anchored at both ends,   *)
(* whose groups are greedy from the left.                                  *)
(*                                                                         *)
(* A behaviour is one job: values are expanded and the result is matched,  *)
(* or a URI is matched and what was found is expanded.                     *)
(***************************************************************************)
EXTENDS Naturals, Sequences, FiniteSets, SequencesExt

VARIABLES
    job,        \* the engine, the template, the direction and the input
    step,       \* what comes next: "expand", "match" or "done"
    texts,      \* the URI, as a set of one; none after an error or a mismatch
    values      \* the values of the variables, likewise

uriVars == <<job, step, texts, values>>

(***************************************************************************)
(* Templates                                                               *)
(***************************************************************************)
Literal(s) == [op |-> "literal", names |-> <<s>>, exploded |-> FALSE]
IsLiteral(p) == p.op = "literal"
IsQuery(p) == p.op \in {"?", "&"}

NamesOf(t) == UNION {ToSet(t[i].names) : i \in {j \in DOMAIN t : ~IsLiteral(t[j])}}

(***************************************************************************)
(* Expansion                                                               *)
(***************************************************************************)
Escape == [s \in {"/", "#", "?", "&", ",", ";", "="} |->
              CASE s = "/" -> "%2F" [] s = "#" -> "%23" [] s = "?" -> "%3F"
                [] s = "&" -> "%26" [] s = "," -> "%2C" [] s = ";" -> "%3B"
                [] s = "=" -> "%3D"]

\* Mutated form: values are taken as they are.
NotEncoded(v) == v

\* url.QueryEscape, for every operator.
Encoded(v) == [i \in DOMAIN v |-> IF v[i] \in DOMAIN Escape THEN Escape[v[i]] ELSE v[i]]

Join(parts, separator) ==
    FlattenSeq([i \in DOMAIN parts |-> IF i = 1 THEN parts[i] ELSE <<separator>> \o parts[i]])

EncodedList(list, separator) == Join([i \in DOMAIN list |-> Encoded(list[i])], separator)

Prefix(op) == IF op \in {"", "+"} THEN <<>> ELSE <<op>>
Separator(op) == IF op \in {".", "/"} THEN op ELSE ","

\* UriTemplate.expandPart.  Variables without a value are left out; several in
\* one expression are not escaped and give only the first of a list.
ExpandPart(p, v) ==
    LET given == SelectSeq(p.names, LAMBDA n : n \in DOMAIN v)
        pair(n) == <<n, "=">> \o EncodedList(v[n], ",")
    IN IF IsLiteral(p) THEN p.names
       ELSE IF given = <<>> THEN <<>>
       ELSE IF IsQuery(p)
            THEN <<p.op>> \o Join([i \in DOMAIN given |-> pair(given[i])], "&")
       ELSE Prefix(p.op) \o
            IF Len(p.names) > 1
            THEN Join([i \in DOMAIN given |-> v[given[i]][1]], Separator(p.op))
            ELSE EncodedList(v[p.names[1]], Separator(p.op))

\* UriTemplate.Expand: a second question mark becomes an ampersand.
ExpandShared(t, v) ==
    LET part(i) == ExpandPart(t[i], v)
        queryBefore(i) == \E j \in 1 .. (i - 1) : IsQuery(t[j]) /\ part(j) # <<>>
    IN FlattenSeq([i \in DOMAIN t |->
           IF IsQuery(t[i]) /\ part(i) # <<>> /\ queryBefore(i)
           THEN <<"&">> \o Tail(part(i)) ELSE part(i)])

\* ExpandURITemplate: every variable must have a value, which is not escaped.
ExpandRegistry(t, v) ==
    LET part(p) == IF IsLiteral(p) THEN p.names
                   ELSE (IF p.op \in {";", "?", "&"}
                         THEN <<p.op, p.names[1], "=">> ELSE Prefix(p.op))
                        \o v[p.names[1]][1]
    IN FlattenSeq([i \in DOMAIN t |-> part(t[i])])

Expand(t, v) ==
    IF job.engine = "shared" THEN {ExpandShared(t, v)}
    ELSE IF NamesOf(t) \subseteq DOMAIN v THEN {ExpandRegistry(t, v)} ELSE {}

(***************************************************************************)
(* Matching                                                                *)
(***************************************************************************)
\* An item of the regular expression: one symbol of a set, or a group of at
\* least so many symbols, none of them one of those excluded.
Symbol(set) == [name |-> "", least |-> 1, symbols |-> set, part |-> 0]
Group(name, least, excluded, i) ==
    [name |-> name, least |-> least, symbols |-> excluded, part |-> i]

Admits(item, s) ==
    IF item.name = "" THEN Len(s) = 1 /\ s[1] \in item.symbols
    ELSE Len(s) >= item.least /\ ToSet(s) \cap item.symbols = {}

\* UriTemplate.partToRegExp.  Only the names of a query are all looked for.
ItemsShared(p, i) ==
    CASE IsLiteral(p) -> <<Symbol(ToSet(p.names))>>
      [] IsQuery(p) ->
            FlattenSeq([k \in DOMAIN p.names |->
                <<Symbol({IF k = 1 THEN p.op ELSE "&"}), Symbol({p.names[k]}),
                  Symbol({"="}), Group(p.names[k], 1, {"&"}, i)>>])
      [] p.op \in {"+", "#"} -> <<Group(p.names[1], 1, {}, i)>>
      [] p.op = "." -> <<Symbol({"."}), Group(p.names[1], 1, {"/", ","}, i)>>
      [] p.op \in {"", "/"} ->
            (IF p.op = "/" THEN <<Symbol({"/"})>> ELSE <<>>)
            \o <<Group(p.names[1], 1, IF p.exploded THEN {"/"} ELSE {"/", ","}, i)>>

\* The switch of matchesTemplate.
ItemsRegistry(p, i) ==
    LET n == p.names[1] IN
    CASE IsLiteral(p) -> <<Symbol({n})>>
      [] p.op = "" -> <<Group(n, 1, {"/"}, i)>>
      [] p.op = "+" -> <<Group(n, 1, {}, i)>>
      [] p.op = "#" -> <<Symbol({"#"}), Group(n, 0, {"?"}, i)>>
      [] p.op = "." -> <<Symbol({"."}), Group(n, 1, {".", "/"}, i)>>
      [] p.op = "/" -> <<Symbol({"/"}), Group(n, 1, {"/"}, i)>>
      [] p.op = ";" -> <<Symbol({";"}), Group(n, 1, {";", "?", "&", "#"}, i)>>
      [] IsQuery(p) -> <<Symbol({"?", "&"}), Group(n, 1, {"&", "#"}, i)>>

Items(t) ==
    FlattenSeq([i \in DOMAIN t |-> IF job.engine = "shared" THEN ItemsShared(t[i], i)
                                                            ELSE ItemsRegistry(t[i], i)])

\* The captures of u by the items, as a set of one, or none: each item takes as
\* much as leaves a match for the others.
Captures(items, u) ==
    LET from[i \in 1 .. (Len(items) + 1), k \in 1 .. (Len(u) + 1)] ==
            IF i > Len(items) THEN IF k > Len(u) THEN {<<>>} ELSE {}
            ELSE LET ends == {m \in (k - 1) .. Len(u) :
                                 /\ Admits(items[i], SubSeq(u, k, m))
                                 /\ from[i + 1, m + 1] # {}}
                     last == CHOOSE m \in ends : \A o \in ends : o <= m
                 IN IF ends = {} THEN {}
                    ELSE {<<SubSeq(u, k, last)>> \o rest : rest \in from[i + 1, last + 1]}
    IN from[1, 1]

\* strings.Split at commas.
Split(s) ==
    LET cuts == {0, Len(s) + 1} \cup {i \in DOMAIN s : s[i] = ","}
        at == SetToSortSeq(cuts, <)
    IN [i \in 1 .. (Len(at) - 1) |-> SubSeq(s, at[i] + 1, at[i + 1] - 1)]

\* The value of a group: UriTemplate splits lists, matchesTemplate takes off the
\* prefix of the operator.
ValueOf(p, s) ==
    IF job.engine = "shared" THEN IF p.exploded /\ "," \in ToSet(s) THEN Split(s) ELSE <<s>>
    ELSE IF p.op \in {"/", ".", "#"} /\ s # <<>> /\ s[1] = p.op THEN <<Tail(s)>>
    ELSE <<s>>

\* UriTemplate.Match and matchesTemplate: of several groups with one name the
\* last one counts.
Match(t, u) ==
    LET items == Items(t)
        groups(n) == {i \in DOMAIN items : items[i].name = n}
        last(n) == CHOOSE i \in groups(n) : \A j \in groups(n) : j <= i
    IN {[n \in {items[i].name : i \in DOMAIN items} \ {""} |->
            ValueOf(t[items[last(n)].part], c[last(n)])] : c \in Captures(items, u)}

(***************************************************************************)
(* Jobs                                                                    *)
(***************************************************************************)
Expression(op, names, exploded) == [op |-> op, names |-> names, exploded |-> exploded]

\* Bounds: a literal and one expression, or two with or without a slash in
\* between; texts of one or two symbols, lists of two.
SharedOps == {"", "+", "#", ".", "/", "?", "&"}
SharedFirst == {Expression(o, <<"x">>, b) : o \in SharedOps, b \in BOOLEAN}
                   \cup {Expression(o, <<"x", "y">>, FALSE) : o \in SharedOps}
RegistryOps == SharedOps \cup {";"}

Between == {<<>>, <<Literal("/")>>}

Templates(engine) ==
    LET ops == IF engine = "shared" THEN SharedOps ELSE RegistryOps
        first == IF engine = "shared" THEN SharedFirst
                 ELSE {Expression(o, <<"x">>, FALSE) : o \in RegistryOps}
    IN {<<Literal("a"), e>> : e \in first}
       \cup {<<e>> \o b \o <<Expression(o, <<"z">>, FALSE)>> :
                e \in first, b \in Between, o \in ops}

Lists(n) == IF n = "x" THEN {<<<<"a">>>>, <<<<".">>>>, <<<<"/", "b">>>>, <<<<"a">>, <<"b">>>>}
            ELSE {<<<<"b">>>>, <<<<"b", ",">>>>}

\* Every choice of values, where some variables may be left without one; the
\* registry has no lists.
Inputs(engine, t) ==
    {v \in UNION {[g -> UNION {Lists(n) : n \in g}] : g \in SUBSET NamesOf(t)} :
        \A n \in DOMAIN v : /\ v[n] \in Lists(n)
                            /\ Len(v[n]) = 1 \/ engine = "shared"}

\* URIs that may match a template of one expression.
Uris(p) ==
    {<<"a">> \o head \o rest :
        head \in {<<>>, Prefix(p.op), <<p.op, p.names[1], "=">>},
        rest \in BoundedSeq({"a", "/", ".", "#", ","}, 2)}

Job(engine, t, from, input) ==
    [engine |-> engine, template |-> t, from |-> from, input |-> input]

NoJob == Job("none", <<>>, "none", <<>>)

Idle == job = NoJob /\ step = "done" /\ texts = {} /\ values = {}

\* A job begins with the input.
Begin(engine) ==
    \E t \in Templates(engine) :
        \/ \E v \in Inputs(engine, t) :
              /\ job = Job(engine, t, "values", v)
              /\ step = "expand" /\ values = {v} /\ texts = {}
        \/ /\ Len(t) = 2 /\ IsLiteral(t[1])
           /\ \E u \in Uris(t[2]) :
                 /\ job = Job(engine, t, "uri", u)
                 /\ step = "match" /\ texts = {u} /\ values = {}

Init == Begin("shared") \/ Begin("registry")

Expands ==
    /\ step = "expand"
    /\ texts' = UNION {Expand(job.template, v) : v \in values}
    /\ step' = IF job.from = "values" THEN "match" ELSE "done"
    /\ UNCHANGED <<job, values>>

Matches ==
    /\ step = "match"
    /\ values' = UNION {Match(job.template, u) : u \in texts}
    /\ step' = IF job.from = "values" THEN "done" ELSE "expand"
    /\ UNCHANGED <<job, texts>>

Next == Expands \/ Matches

(***************************************************************************)
(* Properties                                                              *)
(***************************************************************************)
\* No two expressions touch: each begins with a symbol that values do not have.
Apart(t) ==
    \A i \in 2 .. Len(t) :
        IsLiteral(t[i - 1]) \/ IsLiteral(t[i]) \/ t[i].op \in {"/", "?", "&"}

Expressions(t) == {p \in ToSet(t) : ~IsLiteral(p)}

OneQueryMark(t) ==
    \A i, j \in DOMAIN t : i < j /\ IsQuery(t[i]) /\ IsQuery(t[j]) => t[j].op = "&"

\* The templates and values a UriTemplate takes apart again.  The others: a
\* fragment, whose # becomes part of the value; several variables outside a
\* query, which are matched as one; a list without explode or after a dot or a
\* slash; a question mark that Expand has turned into an ampersand; variables
\* without a value.
ReversibleShared(t, v) ==
    /\ NamesOf(t) \subseteq DOMAIN v
    /\ Apart(t)
    /\ OneQueryMark(t)
    /\ \A p \in Expressions(t) :
          /\ p.op # "#"
          /\ IsQuery(p) \/ Len(p.names) = 1
          /\ \A n \in ToSet(p.names) :
                Len(v[n]) = 1 \/ (p.exploded /\ p.op \in {"", "+", "?", "&"})

\* Those the functions of the registry do: parameters and queries keep their name
\* in the value, and without escapes a slash ends a value in most places.
ReversibleRegistry(t, v) ==
    /\ NamesOf(t) \subseteq DOMAIN v
    /\ Apart(t)
    /\ \A p \in Expressions(t) :
          /\ p.op \in {"", "+", "#", ".", "/"}
          /\ ToSet(v[p.names[1]][1]) \cap {"/", "."} = {}

\* What a template was expanded from is found again, escaped as it was expanded:
\* Match after Expand gives the values.
ValuesFoundAgain ==
    step = "done" /\ job.from = "values" =>
        IF job.engine = "shared"
        THEN ReversibleShared(job.template, job.input) =>
                values = {[n \in DOMAIN job.input |->
                              [i \in DOMAIN job.input[n] |-> Encoded(job.input[n][i])]]}
        ELSE ReversibleRegistry(job.template, job.input) =>
                values = {job.input}

\* A URI that a template matches is the URI of the values found in it, unless it
\* has what Expand would escape, a fragment (whose # is taken once too often or
\* not at all), a list after a slash, or a query of the registry.
UriFoundAgain ==
    step = "done" /\ job.from = "uri" /\ values # {} =>
        LET p == job.template[2]
            plain == \A v \in values : \A n \in DOMAIN v : \A i \in DOMAIN v[n] :
                        Encoded(v[n][i]) = v[n][i]
        IN \/ texts = {job.input}
           \/ IF job.engine = "shared" THEN ~plain \/ p.op = "#" \/ (p.op = "/" /\ p.exploded)
              ELSE IsQuery(p) \/ p.op = ";" \/ (p.op = "#" /\ job.input[3] = "#")

\* Templates can be read both ways, as one invariant.
TemplatesReversible == ValuesFoundAgain /\ UriFoundAgain

\* Whatever the template and the values: the variables are found again.
EveryTemplateReversible ==
    step = "done" /\ job.from = "values" => values = {job.input}

=============================================================================
