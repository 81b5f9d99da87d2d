------------------------------- MODULE Values -------------------------------
(***************************************************************************)
(* A program that calls on values: texts, paths, numbers, dates, URLs,     *)
(* documents, data and UUIDs.  A call has its arguments from the start;    *)
(* its answer holds what the library returns.                              *)
(***************************************************************************)
EXTENDS Documents, Url, Regexp, Uuid

CONSTANTS TextCalls,       \* [text, find, other, options]
          PathCalls,       \* [path, component]
          NumberCalls,     \* [type, value, other type, other value]
          DateCalls,       \* [seconds, zone]
          DocumentCalls,   \* instances
          DataCalls,       \* sequences of bytes
          UuidBytes,       \* sequences of sixteen bytes
          UrlParts         \* from the parts of URLs to what they are set to

VARIABLES call, answer

valuesVars == <<call, answer>>

ValueCalls == [family : {"text"}, of : TextCalls] \cup [family : {"path"}, of : PathCalls]
              \cup [family : {"number"}, of : NumberCalls] \cup [family : {"date"}, of : DateCalls]
              \cup [family : {"json", "plist"}, of : DocumentCalls] \cup [family : {"data"}, of : DataCalls]
              \cup [family : {"uuid"}, of : UuidBytes] \cup [family : {"url"}, of : {url_init}]

ValuesInit == call \in ValueCalls /\ answer = IF call.family = "url" THEN url_init ELSE Null

Asks(family) == call.family = family /\ answer = Null /\ UNCHANGED call

EditText ==
    /\ Asks("text")
    /\ LET c == call.of
           s == c.text
           pattern == [before |-> c.find, group |-> <<>>, insensitive |-> "insensitive" \in c.options]
           copied == strlcpy(s, 3)
       IN  answer' = [at |-> index_of_string(s, c.find, c.options),
                      charAt |-> index_of_char(s, Head(c.find), c.options),
                      replaced |-> replace_string_with_string(s, c.find, c.other, c.options),
                      matched |-> replace_matches_in_string(pattern, s, c.other),
                      parts |-> components_separated_by_string(s, c.find),
                      trimmed |-> delete_surrounding_whitespace(s),
                      printed |-> append_arguments(s, <<"%@", "x", "%n", "%#s">>, <<c.find, 0, Null>>),
                      copied |-> copied,
                      catenated |-> strlcat(copied.text, c.other, 4)]

EditPath ==
    /\ Asks("path")
    /\ \E path \in {normalize_path(call.of.path)} :
           answer' = [normal |-> path,
                      components |-> path_components(path),
                      last |-> last_path_component(path),
                      rest |-> delete_last_path_component(path),
                      inside |-> append_path_component(path, call.of.component),
                      extended |-> append_path_extension(path, call.of.component)]

CompareNumbers ==
    /\ Asks("number")
    /\ LET a == number_init_with_value(call.of.type, call.of.value)
           b == number_init_with_value(call.of.otherType, call.of.other)
       IN  answer' = [a |-> a, b |-> b, order |-> number_compare(a, b), copy |-> number_copy(a)]

WriteDate ==
    /\ Asks("date")
    /\ LET text == rfc3339_string(call.of.seconds, call.of.zone)
       IN  answer' = [text |-> text, read |-> date_init_with_rfc3339_string(text),
                      parts |-> time_interval_parts(call.of.seconds)]

WriteJson ==
    /\ Asks("json")
    /\ answer' = json_instance_for_string(json_string_for_instance(call.of))

WritePlist ==
    /\ Asks("plist")
    /\ answer' = plist_instance_for_string(plist_string_for_instance(call.of))

EncodeData ==
    /\ Asks("data")
    /\ LET text == base64_string_from_data(call.of)
       IN  answer' = [text |-> text, read |-> data_from_base64_string(text)]

MakeUuid ==
    /\ Asks("uuid")
    /\ answer' \in {uuid_init_with_bytes(call.of), uuid_init_from_random_data(call.of)}

\* The setters of a URL, in any order and as often as it takes.
SetUrl ==
    /\ call.family = "url"
    /\ \E f \in Fields : \E v \in UrlParts[f] : answer' = url_set(answer, f, v)
    /\ UNCHANGED call

ValuesNext ==
    EditText \/ EditPath \/ CompareNumbers \/ WriteDate \/ WriteJson \/ WritePlist \/ EncodeData
    \/ MakeUuid \/ SetUrl

Answered(family) == call.family = family /\ answer # Null

(***************************************************************************)
(* What calls on texts do agrees: a search finds the first or the last     *)
(* place where an edit takes place, characters are found as texts of one   *)
(* character, replacing one character is splitting and joining at it, a    *)
(* regular expression replaces as a text does, and bounded copies are      *)
(* beginnings of what they stand for and say how long it is.               *)
(***************************************************************************)
TextsAreTrue ==
    Answered("text") =>
        LET c == call.of
            s == c.text
            insensitive == "insensitive" \in c.options
            places == {i \in 0 .. Len(s) - Len(c.find) :
                          IF insensitive \/ ("smart" \in c.options /\ c.find = lowercase_string(c.find))
                          THEN lowercase_string(substring_with_range(s, i, Len(c.find))) = lowercase_string(c.find)
                          ELSE substring_with_range(s, i, Len(c.find)) = c.find}
            text == IF answer.copied.text = Null THEN <<>> ELSE answer.copied.text
        IN  /\ answer.at = IF places = {} THEN NotFound
                           ELSE IF "backwards" \in c.options THEN Max(places) ELSE Min(places)
            /\ Len(c.find) = 1 => answer.charAt = answer.at
            /\ Len(c.find) = 1 /\ c.options = {} =>
                   answer.replaced = components_joined_by_string(answer.parts, c.other)
            /\ c.options \subseteq {"insensitive"} => answer.matched = answer.replaced
            /\ IsPrefix(answer.trimmed, s) \/ IsSuffix(answer.trimmed, s)
               \/ \E i, j \in DOMAIN s : answer.trimmed = SubSeq(s, i, j)
            /\ answer.trimmed # <<>> => Head(answer.trimmed) \notin Blank /\ Last(answer.trimmed) \notin Blank
            /\ answer.printed.text = s \o c.find \o <<"x">> /\ answer.printed.stored = <<Len(c.find)>>
            /\ answer.catenated.length = Len(text \o c.other)
            /\ answer.catenated.text = SubSeq(text \o c.other, 1, Min({3, Len(text \o c.other)}))

\* A path in its normal form stays as it is, and so does one that is taken apart and put together,
\* when it does not name a directory with a tilde ("./~" becomes "~").
PathsAreTrue ==
    Answered("path") /\ ~has_prefix(answer.normal, <<"~">>) =>
        /\ normalize_path(answer.normal) = answer.normal
        /\ answer.normal \notin {<<>>, Root} =>
               /\ normalize_path(append_path_component(answer.rest, answer.last)) = answer.normal
               /\ last_path_component(answer.inside) = call.of.component
               /\ path_components(answer.inside) = Append(answer.components, call.of.component)
        /\ path_extension(answer.extended) = call.of.component
        /\ delete_path_extension(answer.extended) = answer.normal

(***************************************************************************)
(* Numbers compare by value whatever they are stored as, and equal ones    *)
(* have equal hashes, as far as the hash of a negative number is defined.  *)
(***************************************************************************)
NumbersAreTrue ==
    Answered("number") =>
        LET a == answer.a
            b == answer.b
        IN  /\ answer.order = -number_compare(b, a)
            /\ number_compare(a, answer.copy) = 0
            /\ answer.order = 0 /\ -1 \notin {number_hash(a), number_hash(b)} => number_hash(a) = number_hash(b)

\* Zones whose hours or minutes strtol reads as octal, and not to the end.
ReadAsOctal(zone) == zone.hours \in {8, 9} \/ zone.minutes \in {8, 9}

DatesReturn ==
    Answered("date") /\ ~ReadAsOctal(call.of.zone) => answer.read = call.of.seconds

DataReturns ==
    Answered("data") => answer.read = call.of /\ data_from_base64_string(<<65>> \o answer.text) = call.of

UuidsReturn ==
    Answered("uuid") =>
        /\ uuid_init_with_bytes(uuid_pack_buffer(answer)) = answer
        /\ uuid_init_with_string(uuid_string(answer)) = answer

\* The text of a URL with a scheme and a host says the parts: a path that was not set is the root,
\* a password counts with a user, and IPv6 addresses are in brackets.  A copy has the same parts.
UrlsReturn ==
    Answered("url") =>
        LET url == answer.parts
            returns == url.scheme # Null /\ url.host # Null /\ (url.path = Null \/ has_prefix(url.path, Root))
            path == IF url.path = Null THEN Root ELSE url.path
            user == IF Present(url.user) THEN url.user ELSE Null
            password == IF user # Null /\ Present(url.password) THEN url.password ELSE Null
        IN  /\ returns => url_init_with_string(answer.string)
                          = [url EXCEPT !.path = path, !.user = user, !.password = password]
            /\ url_copy(answer).parts = url

(***************************************************************************)
(* Documents that come back as they were written.  A dictionary may have   *)
(* collections in it, but what is in those is not a collection, and the    *)
(* bracket that ends one must not follow a number, a boolean or null: it   *)
(* is read as a part of that.                                              *)
(***************************************************************************)
Collections == {"dictionary", "array"}

\* The last value that is written.
LastValue(instance) ==
    IF ClassOf(instance) = "array" THEN Last(ValueOf(instance))
    ELSE ValueOf(instance)[Last(SortedKeys(ValueOf(instance)))]

Plain(key) == \A i \in DOMAIN key : key[i] \notin {"\"", "\\"}

ReturnsInJson(instance) ==
    LET v == ValueOf(instance)
        simple(i) == ClassOf(i) \in {"string", "bool", "null"} \/ (ClassOf(i) = "integer" /\ ValueOf(i) >= 0)
        inner(i) == /\ ClassOf(i) \in Collections
                    /\ \A k \in DOMAIN ValueOf(i) : simple(ValueOf(i)[k])
                    /\ ClassOf(i) = "dictionary" => \A k \in DOMAIN ValueOf(i) : Plain(k)
                    /\ ValueOf(i) # <<>> => ClassOf(LastValue(i)) = "string"
    IN  /\ ClassOf(instance) = "dictionary"
        /\ \A k \in DOMAIN v : Plain(k) /\ (simple(v[k]) \/ inner(v[k]))

\* No blank text, and no null, which property lists do not have.
RECURSIVE ReturnsInPlist(_)
ReturnsInPlist(instance) ==
    LET v == ValueOf(instance)
        blank(s) == delete_surrounding_whitespace(s) = <<>>
    IN  /\ ClassOf(instance) # "null"
        /\ ClassOf(instance) = "string" => ~blank(v)
        /\ ClassOf(instance) \in Collections => \A k \in DOMAIN v : ReturnsInPlist(v[k])
        /\ ClassOf(instance) = "dictionary" => \A k \in DOMAIN v : ~blank(k)

DocumentsReturn ==
    /\ Answered("json") /\ ReturnsInJson(call.of) => answer = call.of
    /\ Answered("plist") /\ ReturnsInPlist(call.of) => answer = call.of

(***************************************************************************)
(* Calls on the same value agree with each other: searches with edits,     *)
(* splits with joins, regular expressions with texts, the parts of a path  *)
(* with the path, and the order of numbers with their copies and hashes    *)
(* (wi-string.c, wi-regexp.c, wi-number.c, wi-compat.c).                   *)
(***************************************************************************)
CallsAgree == TextsAreTrue /\ PathsAreTrue /\ NumbersAreTrue

(***************************************************************************)
(* What the library writes as a text it reads back as the same value:      *)
(* RFC 3339 dates, base 64, UUIDs, URLs, JSON and property lists, with the *)
(* exceptions that are named above.                                        *)
(***************************************************************************)
WrittenIsRead == DatesReturn /\ DataReturns /\ UuidsReturn /\ UrlsReturn /\ DocumentsReturn

(***************************************************************************)
(* A date is read back from its RFC 3339 text whatever its zone is.  It is *)
(* not: "08" and "09" are zero to wi_string_uinteger.                      *)
(***************************************************************************)
ZonesAreRead == Answered("date") => answer.read = call.of.seconds

=============================================================================
