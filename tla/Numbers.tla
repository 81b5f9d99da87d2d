------------------------------ MODULE Numbers ------------------------------
(***************************************************************************)
(* Texts read as numbers (wi_string_int32 and its like), wi_number with    *)
(* its storage types, and dates as the RFC 3339 texts the library writes   *)
(* and reads.  Widths are parameters: Bits[int8] < ... < Bits[int64].      *)
(***************************************************************************)
EXTENDS Strings

CONSTANT Bits       \* from "int8", "int16", "int32" and "int64" to their number of bits

(***************************************************************************)
(* Integers from texts.  strtol takes base 0: a text that starts with a    *)
(* zero is octal and ends before its first 8 or 9.                         *)
(***************************************************************************)
DigitValue == [c \in {"0", "1", "2", "3", "4", "5", "6", "7", "8", "9"} |->
                  CASE c = "0" -> 0 [] c = "1" -> 1 [] c = "2" -> 2 [] c = "3" -> 3 [] c = "4" -> 4
                    [] c = "5" -> 5 [] c = "6" -> 6 [] c = "7" -> 7 [] c = "8" -> 8 [] c = "9" -> 9]

\* The number a text starts with, whether there is one, and whether the text ends with it.
strtol(text) ==
    LET signed == text # <<>> /\ text[1] = "-"
        digits == IF signed THEN Tail(text) ELSE text
        base == IF digits # <<>> /\ digits[1] = "0" THEN 8 ELSE 10
        isDigit(c) == c \in DOMAIN DigitValue /\ DigitValue[c] < base
        length == Max({n \in 0 .. Len(digits) : \A i \in 1 .. n : isDigit(digits[i])})
        value == FoldLeft(LAMBDA v, c : v * base + DigitValue[c], 0, SubSeq(digits, 1, length))
    IN  [value |-> IF signed THEN -value ELSE value, some |-> length > 0, whole |-> length = Len(digits)]

Lowest(type) == -(2 ^ (Bits[type] - 1))
Greatest(type) == 2 ^ (Bits[type] - 1) - 1
GreatestUnsigned(type) == 2 ^ Bits[type] - 1

\* long and long long are int64 here; ERANGE and a text that goes on are zero.
AsInt(n, type) ==
    IF n.some /\ n.whole /\ n.value \in Lowest(type) .. Greatest(type) THEN n.value ELSE 0

string_int(text, type) == AsInt(strtol(text), type)

\* strtoul takes a sign and negates in its own width.
AsUint(n, type) ==
    LET ul == n.value % (GreatestUnsigned("int64") + 1)
        inRange == n.value \in -GreatestUnsigned("int64") .. GreatestUnsigned("int64")
    IN  IF n.some /\ n.whole /\ inRange /\ ul <= GreatestUnsigned(type) THEN ul ELSE 0

string_uint(text, type) == AsUint(strtol(text), type)

string_bool(text) == lowercase_string(text) = <<"y", "e", "s">> \/ string_int(text, "int32") > 0

(***************************************************************************)
(* wi_number.  Doubles are counted in halves, and floats are whole; a      *)
(* conversion to an integer drops the fraction and keeps the low bits.     *)
(***************************************************************************)
StorageTypes == {"int8", "int16", "int32", "int64", "float", "double"}

storage_type(type) ==
    CASE type \in {"bool", "int"} -> "int32"
      [] type = "char" -> "int8"
      [] type = "short" -> "int16"
      [] type \in {"long", "long long"} -> "int64"
      [] OTHER -> type

is_float(number) == number.storage \in {"float", "double"}

ToWidth(v, storage) == ((v - Lowest(storage)) % (2 ^ Bits[storage])) + Lowest(storage)
Towards0(v, unit) == IF v >= 0 THEN (v \div unit) * unit ELSE -((-v \div unit) * unit)

\* What a value in halves becomes in a storage type.
Converted(v, storage) ==
    CASE storage = "double" -> v
      [] storage = "float" -> Towards0(v, 2)
      [] OTHER -> 2 * ToWidth(Towards0(v, 2) \div 2, storage)

number_init_with_value(type, v) == [type |-> type, storage |-> storage_type(type),
                                    value |-> Converted(v, storage_type(type))]

number_get_value(number, type) == Converted(number.value, storage_type(type))

number_copy(number) ==
    IF is_float(number) THEN number_init_with_value("double", number_get_value(number, "double"))
                        ELSE number_init_with_value("int64", number_get_value(number, "int64"))

number_compare(a, b) ==
    LET type == IF is_float(a) \/ is_float(b) THEN "double" ELSE "int64"
        x == number_get_value(a, type)
        y == number_get_value(b, type)
    IN  CASE x > y -> 1 [] x < y -> -1 [] OTHER -> 0

\* wi_hash_int takes the absolute value; so does wi_hash_double of a whole number, but adds twice
\* a negative one, scaled, before it converts the sum to an unsigned integer: -1 stands for that.
number_hash(number) ==
    IF number.storage \in {"int8", "int16", "int32"} \/ (number.value >= 0 /\ number.value % 2 = 0)
    THEN IF number.value >= 0 THEN number.value ELSE -number.value
    ELSE -1

(***************************************************************************)
(* Dates.  A text is its local date and time, as the seconds timegm makes  *)
(* of them, and a zone.                                                    *)
(***************************************************************************)
\* What strftime prints for %z, with the colon that the library puts in.
rfc3339_string(seconds, zone) ==
    LET offset == (zone.hours * 60 + zone.minutes) * 60
        two(n) == LET digit(d) == CHOOSE c \in DOMAIN DigitValue : DigitValue[c] = d
                  IN  <<digit(n \div 10), digit(n % 10)>>
    IN  [local |-> seconds + (IF zone.sign = "-" THEN -offset ELSE offset),
         zone |-> insert_string_at_index(<<zone.sign>> \o two(zone.hours) \o two(zone.minutes), <<":">>, 3)]

\* A format with %z takes the offset from the text; strptime's own is not used.
date_init_with_string(local, zone) ==
    LET hours == string_uint(substring_with_range(zone, 1, 2), "int64")
        minutes == string_uint(substring_with_range(zone, 3, 2), "int64")
        sign == IF zone[1] = "-" THEN 1 ELSE -1
    IN  IF zone = <<>> THEN local ELSE local + sign * (hours * 3600 + minutes * 60)

date_init_with_rfc3339_string(text) ==
    CASE text.zone = <<"Z">> -> date_init_with_string(text.local, <<>>)
      [] Len(text.zone) = 6 -> date_init_with_string(text.local, delete_characters_in_range(text.zone, 3, 1))
      [] OTHER -> Null

\* The parts wi_time_interval_string prints, the largest one first.
time_interval_parts(seconds) ==
    LET days == seconds \div 86400
        hours == (seconds % 86400) \div 3600
        minutes == (seconds % 3600) \div 60
        rest == seconds % 60
    IN  CASE days > 0 -> <<days, hours, minutes, rest>>
          [] days = 0 /\ hours > 0 -> <<hours, minutes, rest>>
          [] OTHER -> <<minutes, rest>>

=============================================================================
