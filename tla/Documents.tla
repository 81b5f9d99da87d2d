----------------------------- MODULE Documents -----------------------------
(***************************************************************************)
(* Instances written as JSON and as property lists and read back.  An      *)
(* instance is a pair of its class and its value; a dictionary's value is  *)
(* a function from its keys, an array's a sequence.  Reals are left out.   *)
(***************************************************************************)
EXTENDS Numbers, Base64

Instance(class, value) == <<class, value>>
ClassOf(instance) == instance[1]
ValueOf(instance) == instance[2]
NullInstance == Instance("null", Null)

\* The text of an integer, "%lld"; those here have one digit.
number_string(value) ==
    LET digit(d) == CHOOSE c \in DOMAIN DigitValue : DigitValue[c] = d
    IN  IF value < 0 THEN <<"-", digit(-value)>> ELSE <<digit(value)>>

SortedKeys(pairs) == SetToSortSeq(DOMAIN pairs, LAMBDA k, l : string_compare(k, l) < 0)

(***************************************************************************)
(* Writing JSON.                                                           *)
(***************************************************************************)
\* A bug to find: the quotation marks are escaped before the backslashes.
QuotesFirst(s) ==
    LET quotes == replace_string_with_string(s, <<"\"">>, <<"\\", "\"">>, {})
    IN  <<"\"">> \o replace_string_with_string(quotes, <<"\\">>, <<"\\", "\\">>, {}) \o <<"\"">>

json_string_for_string(s) ==
    LET slashes == replace_string_with_string(s, <<"\\">>, <<"\\", "\\">>, {})
    IN  <<"\"">> \o replace_string_with_string(slashes, <<"\"">>, <<"\\", "\"">>, {}) \o <<"\"">>

Literal == [true |-> <<"t", "r", "u", "e">>, false |-> <<"f", "a", "l", "s", "e">>, null |-> <<"n", "u", "l", "l">>]

RECURSIVE json_string_for_value(_)
json_string_for_value(instance) ==
    LET v == ValueOf(instance)
        pair(key) == <<"\"">> \o key \o <<"\"", ":">> \o json_string_for_value(v[key])
        joined(strings) == components_joined_by_string(strings, <<",", " ">>)
        keys == SortedKeys(v)
    IN  CASE ClassOf(instance) = "dictionary" -> <<"{">> \o joined([i \in DOMAIN keys |-> pair(keys[i])]) \o <<"}">>
          [] ClassOf(instance) = "array" -> <<"[">> \o joined([i \in DOMAIN v |-> json_string_for_value(v[i])]) \o <<"]">>
          [] ClassOf(instance) = "string" -> json_string_for_string(v)
          [] ClassOf(instance) = "bool" -> IF v THEN Literal["true"] ELSE Literal["false"]
          [] ClassOf(instance) = "integer" -> number_string(v)
          [] ClassOf(instance) = "null" -> Literal["null"]
          [] OTHER -> Printed("%@", Null)

\* Only collections are documents.
json_string_for_instance(instance) ==
    IF ClassOf(instance) \in {"dictionary", "array"} THEN json_string_for_value(instance) ELSE <<>>

(***************************************************************************)
(* Reading JSON: the collections made so far, in the order of their        *)
(* brackets, and which of them values go to.  0 is no collection.  A value *)
(* that is a collection is a reference to it.                              *)
(***************************************************************************)
NoReader == [made |-> <<>>, current |-> 0, underlying |-> 0, key |-> Null, failed |-> FALSE]

\* A value goes to the current collection; without one its class is read at NULL.
PutValue(reader, value) ==
    LET to == reader.current
    IN  CASE to = 0 \/ (ClassOf(reader.made[to]) = "dictionary" /\ reader.key = Null) ->
                 [reader EXCEPT !.failed = TRUE]
          [] to # 0 /\ ClassOf(reader.made[to]) = "array" ->
                 [reader EXCEPT !.made[to][2] = Append(@, value)]
          [] OTHER -> [reader EXCEPT !.made[to][2] = (reader.key :> value) @@ @, !.key = Null]

\* The key of an array in a dictionary stays.
OpenBracket(reader, ch) ==
    LET at == Len(reader.made) + 1
        inside == IF reader.current = 0 THEN reader ELSE PutValue(reader, Instance("reference", at))
    IN  IF inside.failed THEN inside
        ELSE [inside EXCEPT !.made = Append(@, Instance(IF ch = "{" THEN "dictionary" ELSE "array", <<>>)),
                            !.key = IF ch = "{" THEN @ ELSE reader.key,
                            !.underlying = reader.current,
                            !.current = at]

\* What was current when the last bracket opened becomes current, whichever bracket closes.
CloseBracket(reader) == [reader EXCEPT !.current = reader.underlying, !.key = Null]

TakeString(reader, text) ==
    IF reader.key = Null THEN [reader EXCEPT !.key = text] ELSE PutValue(reader, Instance("string", text))

\* The text behind a quotation mark up to the next one.  `characters' counts what is skipped for it:
\* an escape of an unknown kind fails, and \u is dropped but counted once.
quoted_string(text) ==
    LET take(acc, i) ==
            LET ch == text[i]
                add(n) == [acc EXCEPT !.text = Append(@, ch), !.characters = @ + n, !.escaped = FALSE]
            IN  CASE acc.done -> acc
                  [] ~acc.done /\ acc.escaped ->
                         (CASE ch \in {"\"", "\\", "/", "b", "f", "r", "n", "t"} -> add(2)
                            [] ch = "u" -> [acc EXCEPT !.characters = @ + 1, !.escaped = FALSE]
                            [] OTHER -> [acc EXCEPT !.done = TRUE, !.failed = TRUE])
                  [] ~acc.done /\ ~acc.escaped /\ ch = "\"" -> [acc EXCEPT !.done = TRUE]
                  [] ~acc.done /\ ~acc.escaped /\ ch = "\\" /\ i < Len(text) -> [acc EXCEPT !.escaped = TRUE]
                  [] OTHER -> add(1)
    IN  FoldLeftDomain(take, [text |-> <<>>, characters |-> 0, escaped |-> FALSE, done |-> FALSE, failed |-> FALSE],
                       text)

\* Digits, points and minus signs at the start.  A text that ends with them leaves the length unset.
number_text(text) ==
    LET part == DOMAIN DigitValue \cup {".", "-"}
        length == Max({n \in 0 .. Len(text) : \A i \in 1 .. n : text[i] \in part})
    IN  substring_to_index(text, length)

boolean_or_null_texts(text) == {l \in {"true", "false", "null"} : has_prefix(text, Literal[l])}

LiteralInstance(l) == IF l = "null" THEN NullInstance ELSE Instance("bool", l = "true")

\* One turn of the loop: the reader behind ch and how far it got.  Numbers and literals take the
\* character behind them too, and a minus sign in front of a number is not seen.
Turn(reader, text) ==
    LET ch == text[1]
        quoted == quoted_string(Tail(text))
        number == number_text(text)
        literals == boolean_or_null_texts(text)
    IN  CASE ch \in {"{", "["} -> [reader |-> OpenBracket(reader, ch), by |-> 1]
          [] ch \in {"}", "]"} -> [reader |-> CloseBracket(reader), by |-> 1]
          [] ch = "\"" -> [reader |-> IF quoted.failed THEN [reader EXCEPT !.failed = TRUE]
                                      ELSE TakeString(reader, quoted.text),
                           by |-> quoted.characters + 2]
          [] ch \in DOMAIN DigitValue ->
                 [reader |-> PutValue(reader, Instance("integer", string_uint(number, "int64"))), by |-> Len(number) + 1]
          [] ch \in {"t", "f", "n"} /\ literals # {} ->
                 LET l == CHOOSE l \in literals : TRUE
                 IN  [reader |-> PutValue(reader, LiteralInstance(l)), by |-> Len(Literal[l]) + 1]
          [] ch \in {"t", "f", "n"} /\ literals = {} -> [reader |-> [reader EXCEPT !.failed = TRUE], by |-> 1]
          [] OTHER -> [reader |-> reader, by |-> 1]

RECURSIVE ReadFrom(_, _)
ReadFrom(reader, text) ==
    IF reader.failed \/ text = <<>> THEN reader
    ELSE LET turn == Turn(reader, text)
         IN  ReadFrom(turn.reader, SubSeq(text, turn.by + 1, Len(text)))

RECURSIVE Resolved(_, _)
Resolved(made, instance) ==
    LET v == ValueOf(made[ValueOf(instance)])
    IN  IF ClassOf(instance) # "reference" THEN instance
        ELSE Instance(ClassOf(made[ValueOf(instance)]), [k \in DOMAIN v |-> Resolved(made, v[k])])

json_instance_for_string(text) ==
    LET reader == ReadFrom(NoReader, text)
    IN  IF reader.failed \/ reader.made = <<>> THEN Null ELSE Resolved(reader.made, Instance("reference", 1))

(***************************************************************************)
(* Property lists: nodes with an element, a text and children.  What       *)
(* libxml2 makes of a text is the text with its entities replaced.         *)
(***************************************************************************)
plist_string_for_string(s) ==
    LET amp == replace_string_with_string(s, <<"&">>, <<"&", "a", "m", "p", ";">>, {})
        lt == replace_string_with_string(amp, <<"<">>, <<"&", "l", "t", ";">>, {})
    IN  replace_string_with_string(lt, <<">">>, <<"&", "g", "t", ";">>, {})

xml_text(text) ==
    LET lt == replace_string_with_string(text, <<"&", "l", "t", ";">>, <<"<">>, {})
        gt == replace_string_with_string(lt, <<"&", "g", "t", ";">>, <<">">>, {})
    IN  replace_string_with_string(gt, <<"&", "a", "m", "p", ";">>, <<"&">>, {})

Element(element, text, children) == [element |-> element, text |-> text, children |-> children]

\* Nothing is written for an instance of another class, wi_null among them.
RECURSIVE plist_nodes_for_instance(_)
plist_nodes_for_instance(instance) ==
    LET v == ValueOf(instance)
        keys == SortedKeys(v)
        pair(key) == <<Element("key", plist_string_for_string(key), <<>>)>> \o plist_nodes_for_instance(v[key])
    IN  CASE ClassOf(instance) = "dictionary" ->
                 <<Element("dict", <<>>, FlattenSeq([i \in DOMAIN keys |-> pair(keys[i])]))>>
          [] ClassOf(instance) = "array" ->
                 <<Element("array", <<>>, FlattenSeq([i \in DOMAIN v |-> plist_nodes_for_instance(v[i])]))>>
          [] ClassOf(instance) = "string" -> <<Element("string", plist_string_for_string(v), <<>>)>>
          [] ClassOf(instance) = "bool" -> <<Element(IF v THEN "true" ELSE "false", <<>>, <<>>)>>
          [] ClassOf(instance) = "integer" -> <<Element("integer", number_string(v), <<>>)>>
          [] ClassOf(instance) = "date" -> <<Element("date", [local |-> v, zone |-> <<"Z">>], <<>>)>>
          [] ClassOf(instance) = "data" -> <<Element("data", base64_string_from_data(v), <<>>)>>
          [] OTHER -> <<>>

\* A text that is blank is no text.
NullIfBlank(text) == IF delete_surrounding_whitespace(text) = <<>> THEN Null ELSE text

parse_node_text(text) == NullIfBlank(xml_text(text))

TextInstance(text) == IF text = Null THEN Null ELSE Instance("string", text)

\* A key or a value that is NULL ends a dictionary, and is added to an array.
RECURSIVE plist_instance_for_node(_)
plist_instance_for_node(node) ==
    LET nodes == node.children
        items == [i \in DOMAIN nodes |-> plist_instance_for_node(nodes[i])]
        Pairs == {i \in DOMAIN nodes : i % 2 = 1}
        bad == \/ Len(nodes) % 2 # 0
               \/ \E i \in Pairs : nodes[i].element # "key" \/ nodes[i + 1].element = "key"
                                   \/ items[i] = Null \/ ValueOf(items[i]) = <<>> \/ items[i + 1] = Null
        keys == {ValueOf(items[i]) : i \in Pairs}
    IN  CASE node.element = "dict" ->
                 IF bad THEN Null
                 ELSE Instance("dictionary",
                               [k \in keys |-> items[Max({i \in Pairs : ValueOf(items[i]) = k}) + 1]])
          [] node.element = "array" -> Instance("array", items)
          [] node.element \in {"key", "string"} -> TextInstance(parse_node_text(node.text))
          [] node.element = "integer" -> Instance("integer", string_int(parse_node_text(node.text), "int64"))
          [] node.element \in {"true", "false"} -> Instance("bool", node.element = "true")
          [] node.element = "date" -> Instance("date", date_init_with_rfc3339_string(node.text))
          [] node.element = "data" -> Instance("data", data_from_base64_string(node.text))

plist_string_for_instance(instance) == Element("plist", <<>>, plist_nodes_for_instance(instance))

plist_instance_for_string(root) ==
    IF root.element # "plist" \/ Len(root.children) # 1 THEN Null ELSE plist_instance_for_node(root.children[1])

=============================================================================
