-------------------------------- MODULE Error --------------------------------
(***************************************************************************)
(* misc/wi-error.c: the error of a thread is a domain, a code and a        *)
(* string, which may be made only when it is asked for.  A failing         *)
(* function sets it; a succeeding one leaves it alone.  A string is what   *)
(* it describes: <<domain, code>>.                                         *)
(***************************************************************************)
EXTENDS Integers, SequencesExt

VARIABLE error      \* of the thread that a model is about

NoString == <<"NULL">>

Domains == {"none", "errno", "gai", "regex", "openssl", "ssl", "commoncrypto", "libxml2",
            "libwired"}

\* enum _wi_error_code, and the table of strings, each by the code its comment names.
Codes == <<"none", "invalid address", "cipher not supported", "no available addresses",
           "no such facility", "plist read failed", "plist write failed",
           "json read failed", "json write failed", "no valid cipher", "eof",
           "ssl none", "ssl zero return", "ssl want read", "ssl want write",
           "ssl want connect", "ssl want accept", "ssl want x509 lookup">>

Strings == <<"none", "cipher not supported", "no available addresses",
             "no such facility", "plist read failed", "plist write failed",
             "json read failed", "json write failed", "no valid cipher", "eof",
             "ssl none", "ssl zero return", "ssl want read", "ssl want write",
             "ssl want connect", "ssl want accept", "ssl want x509 lookup">>

\* The string at the index of a code, which for the last one lies behind the table.
StringOf(code) ==
    LET i == SelectInSeq(Codes, LAMBDA c : c = code) IN
    <<"libwired", IF i <= Len(Strings) THEN Strings[i] ELSE "behind the table">>

\* wi_error_set_error
SetError(domain, code) ==
    [domain |-> domain, code |-> code, string |-> NoString]

SetErrorWithString(domain, code, string) ==
    [SetError(domain, code) EXCEPT !.string = string]

\* The error a thread starts with.
EnterThread == [domain |-> "none", code |-> "none", string |-> NoString]

SetErrno(code) == SetError("errno", code)

\* The first error of OpenSSL's queue, which is then emptied; errno if there is none.
SetOpenSSLError(queue, errno) ==
    IF queue = <<>> THEN SetErrno(errno)
    ELSE SetErrorWithString("openssl", Head(queue), <<"openssl", Head(queue)>>)

\* The queue is emptied before each call of OpenSSL, and so is that of the failing call.
SetLibwiredError(code) == SetError("libwired", code)

\* with_string and with_format: the string of the code and what is given after it.
SetLibwiredErrorWithString(code, string) ==
    SetErrorWithString("libwired", code, StringOf(code) \o string)

SetCommonCryptoError(code) ==
    SetErrorWithString("commoncrypto", code, <<"commoncrypto", code>>)

SetLibxml2Error(code) == SetErrorWithString("libxml2", code, <<"libxml2", code>>)

SetRegexError(code) == SetErrorWithString("regex", code, <<"regex", code>>)

\* code is that of SSL_get_error.
SetSSLError(code, result, queue, errno) ==
    CASE code = "syscall" /\ queue = <<>> /\ result = 0 -> SetLibwiredError("eof")
      [] code = "syscall" /\ (queue # <<>> \/ result # 0) -> SetOpenSSLError(queue, errno)
      [] code = "ssl" -> SetOpenSSLError(queue, errno)
      [] OTHER -> SetErrorWithString("ssl", code, <<"ssl", code>>)

\* wi_error_string makes the string of a domain that has none yet and keeps it.
Described(e) ==
    IF e.string # NoString THEN e
    ELSE CASE e.domain \in {"errno", "gai", "none"} ->
                  [e EXCEPT !.string = <<e.domain, e.code>>]
           [] e.domain = "libwired" -> [e EXCEPT !.string = StringOf(e.code)]
           [] OTHER -> e

-----------------------------------------------------------------------------

\* A string that has been made is that of this error.
IsError(e) ==
    /\ e.domain \in Domains
    /\ e.string = NoString \/ e.string[1] = e.domain

=============================================================================
