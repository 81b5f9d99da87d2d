-------------------------------- MODULE Url --------------------------------
(***************************************************************************)
(* wi_url: an address in parts, and the text that is made again after      *)
(* every change.                                                           *)
(***************************************************************************)
EXTENDS Numbers

Fields == {"scheme", "host", "port", "path", "user", "password"}

NoUrl == [f \in Fields |-> IF f = "port" THEN 0 ELSE Null]

\* The text of a number, for "%lu".
PortText(port) ==
    LET digit(d) == CHOOSE c \in DOMAIN DigitValue : DigitValue[c] = d
    IN  IF port < 10 THEN <<digit(port)>> ELSE <<digit(port \div 10), digit(port % 10)>>

Present(text) == text # Null /\ Len(text) > 0

url_regenerate_string(url) ==
    LET user == IF ~Present(url.user) THEN <<>>
                ELSE url.user \o (IF Present(url.password) THEN <<":">> \o url.password ELSE <<>>) \o <<"@">>
        bracketed == url.host # Null /\ index_of_char(url.host, ":", {}) # NotFound
        host == Formatted(IF bracketed THEN <<"[", "%#@", "]">> ELSE <<"%#@">>, <<url.host>>)
        port == IF url.port > 0 THEN <<":">> \o PortText(url.port) ELSE <<>>
        path == IF url.path # Null THEN url.path ELSE Root
    IN  Formatted(<<"%#@", ":", "/", "/">>, <<url.scheme>>) \o user \o host \o port \o path

\* Each part takes what it finds from the text and leaves the rest of it to the next.
Scheme(url, s) ==
    LET i == index_of_string(s, <<":", "/", "/">>, {})
    IN  IF i = NotFound THEN [url |-> url, rest |-> s]
        ELSE [url |-> [url EXCEPT !.scheme = substring_to_index(s, i)], rest |-> substring_from_index(s, i + 3)]

Path(url, s) ==
    LET i == index_of_string(s, Root, {})
    IN  IF i = NotFound THEN [url |-> url, rest |-> s]
        ELSE [url |-> [url EXCEPT !.path = substring_from_index(s, i)], rest |-> substring_to_index(s, i)]

UserAndPassword(url, s) ==
    LET i == index_of_string(s, <<"@">>, {})
        both == substring_to_index(s, i)
        j == index_of_string(both, <<":">>, {})
    IN  IF i = NotFound THEN [url |-> url, rest |-> s]
        ELSE [url |-> IF j # NotFound /\ j # Len(both) - 1
                      THEN [url EXCEPT !.user = substring_to_index(both, j),
                                       !.password = substring_from_index(both, j + 1)]
                      ELSE [url EXCEPT !.user = both],
              rest |-> substring_from_index(s, i + 1)]

\* An address of IPv6 is in brackets, or it has more than one colon and no port.
HostAndPort(url, s) ==
    LET close == index_of_string(s, <<"]">>, {})
        behind == substring_from_index(s, close + 1)
        colon == index_of_string(s, <<":">>, {})
        number == substring_from_index(s, colon + 1)
    IN  CASE has_prefix(s, <<"[">>) /\ close = NotFound -> [url EXCEPT !.host = s]
          [] has_prefix(s, <<"[">>) /\ close # NotFound ->
                 [url EXCEPT !.host = substring_with_range(s, 1, close - 1),
                             !.port = IF has_prefix(behind, <<":">>) /\ Len(behind) > 1
                                      THEN string_uint(substring_from_index(behind, 1), "int32") ELSE 0]
          [] ~has_prefix(s, <<"[">>) /\ (colon = NotFound \/ colon + 1 >= Len(s)
                                         \/ contains_string(number, <<":">>, {})) -> [url EXCEPT !.host = s]
          [] OTHER -> [url EXCEPT !.host = substring_to_index(s, colon), !.port = string_uint(number, "int32")]

url_init_with_string(s) ==
    LET scheme == Scheme(NoUrl, s)
        path == Path(scheme.url, scheme.rest)
        user == UserAndPassword(path.url, path.rest)
    IN  IF scheme.url.scheme # Null /\ scheme.rest = <<>> THEN scheme.url
        ELSE HostAndPort(user.url, user.rest)

url_is_valid(url) == url.scheme # Null /\ url.host # Null

\* A setter changes one part and makes the text again.
url_init == [parts |-> NoUrl, string |-> Null]

url_set(url, field, value) ==
    LET parts == [url.parts EXCEPT ![field] = value]
    IN  [parts |-> parts, string |-> url_regenerate_string(parts)]

\* The copy of an url is made by the setters, in this order, for the parts that are there.
Setters == <<"scheme", "host", "port", "path", "user", "password">>

url_copy(url) ==
    FoldLeft(LAMBDA copy, f : IF url.parts[f] = Null \/ (f = "port" /\ url.parts.port = 0) THEN copy ELSE url_set(copy, f, url.parts[f]),
             url_init, Setters)

=============================================================================
