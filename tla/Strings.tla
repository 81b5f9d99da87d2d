------------------------------ MODULE Strings ------------------------------
(***************************************************************************)
(* wi_string: texts as sequences of characters, and what the calls on them *)
(* do.  Indexes are those of the code, from 0; a call that asserts its     *)
(* range is only modelled within it.  Storage is not modelled.             *)
(***************************************************************************)
EXTENDS Integers, SequencesExt, FiniteSetsExt

CONSTANTS Homes,       \* from the names of users to their directories: getpwnam
          ErrorText,   \* what wi_error_string would say: %m
          Null         \* no instance, or a C string that is NULL

NotFound == -1

Lower == [A |-> "a", B |-> "b"]
Upper == [a |-> "A", b |-> "B"]
Blank == {" ", "\t", "\n"}

isupper(c) == c \in DOMAIN Lower
tolower(c) == IF isupper(c) THEN Lower[c] ELSE c
toupper(c) == IF c \in DOMAIN Upper THEN Upper[c] ELSE c

\* Options of a search: "insensitive", "smart" and "backwards".
Folded(s, insensitive) == IF insensitive THEN [i \in DOMAIN s |-> tolower(s[i])] ELSE s

\* strcmp, for the characters that keys of documents and orders of texts need here.
Codes == <<"\t", "\n", " ", "\"", "&", "-", ".", "/", "0", "1", "2", ":", ";", "<", ">", "A", "B", "\\",
           "a", "b", "k", "x">>

string_compare(s, t) ==
    LET code(u, i) == IF i > Len(u) THEN 0 ELSE CHOOSE c \in DOMAIN Codes : Codes[c] = u[i]
        differ == {i \in 1 .. Max({Len(s), Len(t)}) : code(s, i) # code(t, i)}
    IN  IF differ = {} THEN 0 ELSE code(s, Min(differ)) - code(t, Min(differ))

(***************************************************************************)
(* Searching.  A search backwards compares beyond the end of its range: a  *)
(* match only has to begin in it.                                          *)
(***************************************************************************)
Matches(s, find, i, insensitive) ==
    /\ i + Len(find) <= Len(s)
    /\ Folded(SubSeq(s, i + 1, i + Len(find)), insensitive) = Folded(find, insensitive)

\* A bug to find: the last place in the range is not looked at.
StopsEarly(s, find, from, n, insensitive) ==
    LET found == {i \in from .. from + n - Len(find) - 1 : Matches(s, find, i, insensitive)}
    IN  IF found = {} THEN NotFound ELSE Min(found)

strnstr(s, find, from, n, insensitive) ==
    LET found == {i \in from .. from + n - Len(find) : Matches(s, find, i, insensitive)}
    IN  IF found = {} THEN NotFound ELSE Min(found)

strrnstr(s, find, from, n, insensitive) ==
    LET found == {i \in from .. from + n - 1 : Matches(s, find, i, insensitive)}
    IN  IF found = {} THEN NotFound ELSE Max(found)

index_of_string_in_range(s, find, options, from, n) ==
    LET insensitive ==
            \/ "insensitive" \in options
            \/ "smart" \in options /\ \A i \in DOMAIN find : ~isupper(find[i])
        p == IF "backwards" \in options THEN strrnstr(s, find, from, n, insensitive)
                                        ELSE strnstr(s, find, from, n, insensitive)
    IN  IF n = 0 \/ p > from + n THEN NotFound ELSE p

index_of_string(s, find, options) == index_of_string_in_range(s, find, options, 0, Len(s))

contains_string(s, find, options) == index_of_string(s, find, options) # NotFound

index_of_char(s, ch, options) ==
    LET insensitive == "insensitive" \in options \/ ("smart" \in options /\ ~isupper(ch))
        found == {i \in DOMAIN s : Folded(<<s[i]>>, insensitive) = Folded(<<ch>>, insensitive)}
    IN  CASE found = {} -> NotFound
          [] found # {} /\ "backwards" \in options -> Max(found) - 1
          [] OTHER -> Min(found) - 1

has_prefix(s, prefix) == IsPrefix(prefix, s)
has_suffix(s, suffix) == IsSuffix(suffix, s)

lowercase_string(s) == [i \in DOMAIN s |-> tolower(s[i])]
uppercase_string(s) == [i \in DOMAIN s |-> toupper(s[i])]

(***************************************************************************)
(* Parts and edits.                                                        *)
(***************************************************************************)
substring_with_range(s, from, n) == SubSeq(s, from + 1, from + n)
substring_from_index(s, from) == substring_with_range(s, from, Len(s) - from)
substring_to_index(s, to) == substring_with_range(s, 0, to)

insert_string_at_index(s, other, i) == substring_to_index(s, i) \o other \o substring_from_index(s, i)

delete_characters_in_range(s, from, n) ==
    IF from + n < Len(s) THEN substring_to_index(s, from) \o substring_from_index(s, from + n)
                         ELSE substring_to_index(s, Len(s) - n)

delete_characters_from_index(s, from) == delete_characters_in_range(s, from, Len(s) - from)
delete_characters_to_index(s, to) == delete_characters_in_range(s, 0, to)

replace_characters_in_range(s, from, n, replacement) ==
    insert_string_at_index(delete_characters_in_range(s, from, n), replacement, from)

\* The search goes on behind the replacement: what a replacement makes is not replaced again.
RECURSIVE ReplaceFrom(_, _, _, _, _)
ReplaceFrom(s, target, replacement, options, from) ==
    LET at == index_of_string_in_range(s, target, options, from, Len(s) - from)
    IN  IF at = NotFound
        THEN s
        ELSE ReplaceFrom(replace_characters_in_range(s, at, Len(target), replacement),
                         target, replacement, options, at + Len(replacement))

replace_string_with_string(s, target, replacement, options) ==
    ReplaceFrom(s, target, replacement, options, 0)

RECURSIVE delete_surrounding_whitespace(_)
delete_surrounding_whitespace(s) ==
    CASE s # <<>> /\ s[1] \in Blank -> delete_surrounding_whitespace(delete_characters_in_range(s, 0, 1))
      [] s # <<>> /\ s[1] \notin Blank /\ Last(s) \in Blank ->
             delete_surrounding_whitespace(delete_characters_in_range(s, Len(s) - 1, 1))
      [] OTHER -> s

\* Each character of the separator separates: strsep takes a set of characters.
components_separated_by_string(s, separators) ==
    FoldLeft(LAMBDA parts, c : IF Contains(separators, c)
                               THEN Append(parts, <<>>)
                               ELSE [parts EXCEPT ![Len(parts)] = Append(@, c)],
             << <<>> >>, s)

components_joined_by_string(parts, separator) ==
    FoldLeftDomain(LAMBDA s, i : s \o parts[i] \o (IF i = Len(parts) THEN <<>> ELSE separator),
                   <<>>, parts)

\* Bounded copies of C strings: the text that is left in `size' characters and the length returned.
strlcpy(s, size) ==
    [text |-> IF size = 0 THEN Null ELSE SubSeq(s, 1, Min({size - 1, Len(s)})), length |-> Len(s)]

strlcat(d, s, size) ==
    LET room == size - Min({size, Len(d)}) - 1
    IN  IF size <= Len(d)
        THEN [text |-> d, length |-> size + Len(s)]
        ELSE [text |-> d \o SubSeq(s, 1, Min({room, Len(s)})), length |-> Len(d) + Len(s)]

(***************************************************************************)
(* Formats: directives among characters.  Only what directives print is    *)
(* counted for %n.                                                         *)
(***************************************************************************)
Directives == {"%@", "%#@", "%s", "%#s", "%d", "%m", "%n", "%%"}

\* The text of one directive: an instance or a C string that is NULL prints nothing with #.
Printed(directive, argument) ==
    CASE directive = "%m" -> ErrorText
      [] directive = "%%" -> <<"%">>
      [] directive = "%n" -> <<>>
      [] OTHER -> IF argument # Null THEN argument
                  ELSE IF directive \in {"%#@", "%#s"} THEN <<>> ELSE <<"(", "n", "u", "l", "l", ")">>

append_arguments(s, format, arguments) ==
    FoldLeft(LAMBDA acc, c :
                 IF c \notin Directives
                 THEN [acc EXCEPT !.text = Append(@, c)]
                 ELSE LET takes == c \notin {"%m", "%%"}
                          printed == Printed(c, IF takes THEN Head(acc.rest) ELSE Null)
                      IN  [text |-> acc.text \o printed,
                           rest |-> IF takes THEN Tail(acc.rest) ELSE acc.rest,
                           total |-> acc.total + Len(printed),
                           stored |-> IF c = "%n" THEN Append(acc.stored, acc.total) ELSE acc.stored],
             [text |-> s, rest |-> arguments, total |-> 0, stored |-> <<>>], format)

Formatted(format, arguments) == append_arguments(<<>>, format, arguments).text

(***************************************************************************)
(* Paths.                                                                  *)
(***************************************************************************)
Root == <<"/">>

\* A first part that is empty is the root.
FromRoot(parts) ==
    <<IF parts[1] = <<>> THEN Root ELSE parts[1]>> \o SelectSeq(Tail(parts), LAMBDA part : part # <<>>)

path_components(path) == FromRoot(components_separated_by_string(path, Root))

InHome(path, component, user) ==
    IF ~has_prefix(path, <<"~">>) \/ user \notin DOMAIN Homes
    THEN path
    ELSE insert_string_at_index(delete_characters_to_index(path, Len(component)), Homes[user], 0)

expand_tilde_in_path(path) ==
    LET component == path_components(path)[1]
    IN  InHome(path, component, delete_characters_to_index(component, 1))

\* What is left of the array before the component that is looked at are the components kept so far.
KeepComponent(absolute, kept, component) ==
    CASE component \in {<<>>, Root, <<".">>} -> kept
      [] component = <<".", ".">> /\ absolute /\ kept # <<>> -> Front(kept)
      [] OTHER -> Append(kept, component)

Normalized(expanded) ==
    LET absolute == has_prefix(expanded, Root)
        kept == FoldLeft(LAMBDA k, c : KeepComponent(absolute, k, c), <<>>, path_components(expanded))
    IN  (IF absolute THEN Root ELSE <<>>) \o components_joined_by_string(kept, Root)

normalize_path(path) ==
    IF path \in {<<>>, Root} THEN path ELSE Normalized(expand_tilde_in_path(path))

append_path_component(path, component) ==
    CASE path = <<>> -> component
      [] path # <<>> /\ has_suffix(path, Root) ->
             (IF has_prefix(component, Root) THEN Front(path) ELSE path) \o component
      [] OTHER -> IF component = Root THEN path ELSE path \o Root \o component

append_path_components(path, components) ==
    FoldLeft(append_path_component, path, components)

\* Slashes at the end are taken off the range that is searched, but only the last one is recognised.
RECURSIVE LastComponent(_, _)
LastComponent(path, n) ==
    LET i == index_of_string_in_range(path, Root, {"backwards"}, 0, n)
    IN  CASE i = NotFound -> path
          [] i = Len(path) - 1 /\ n = 1 -> Root
          [] i = Len(path) - 1 /\ n > 1 -> LastComponent(path, n - 1)
          [] OTHER -> substring_with_range(path, i + 1, n - i - 1)

last_path_component(path) == IF path = Root THEN path ELSE LastComponent(path, Len(path))

delete_last_path_component(path) ==
    IF path = Root
    THEN path
    ELSE normalize_path(components_joined_by_string(Front(path_components(path)), Root))

path_extension(path) ==
    LET i == index_of_char(path, ".", {"backwards"})
    IN  IF i # NotFound /\ i + 1 < Len(path) THEN delete_characters_to_index(path, i + 1) ELSE <<>>

append_path_extension(path, extension) == path \o Formatted(<<".", "%@">>, <<extension>>)

delete_path_extension(path) ==
    LET i == index_of_char(path, ".", {"backwards"})
    IN  IF i = NotFound THEN path ELSE delete_characters_from_index(path, i)

=============================================================================
