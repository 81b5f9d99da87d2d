------------------------------ MODULE Base64 ------------------------------
(***************************************************************************)
(* Data as base 64: characters of the alphabet are the numbers 0 to 63,    *)
(* Pad stands for the equals sign, and a larger number for any character   *)
(* that is ignored.                                                        *)
(***************************************************************************)
EXTENDS Integers, SequencesExt

Pad == 64

\* The four characters of one group, of which a short group pads the last ones.
Group(bytes, at) ==
    LET byte(i) == IF at + i <= Len(bytes) THEN bytes[at + i] ELSE 0
        count == IF Len(bytes) - at >= 3 THEN 4 ELSE Len(bytes) - at + 1
        out == <<byte(1) \div 4,
                 ((byte(1) % 4) * 16) + (byte(2) \div 16),
                 ((byte(2) % 16) * 4) + (byte(3) \div 64),
                 byte(3) % 64>>
    IN  [i \in 1 .. 4 |-> IF i <= count THEN out[i] ELSE Pad]

base64_string_from_data(bytes) ==
    FlattenSeq([g \in 1 .. (Len(bytes) + 2) \div 3 |-> Group(bytes, 3 * (g - 1))])

\* The low eight bits of each byte of a group; characters of an alphabet have six.
OutBytes(in) ==
    <<((in[1] * 4) + ((in[2] \div 16) % 4)) % 256,
      (((in[2] % 16) * 16) + ((in[3] \div 4) % 16)) % 256,
      (((in[3] % 4) * 64) + (in[4] % 64)) % 256>>

\* in keeps its old characters behind offset; the first padding ends the text.
Decode(state, ch) ==
    LET end == ch = Pad
        offset == IF end THEN 4 ELSE state.offset + 1
        in == [state.in EXCEPT ![offset] = IF end THEN 61 ELSE ch]
        count == IF ~end THEN 3 ELSE IF state.offset \in {1, 2} THEN 1 ELSE 2
    IN  CASE state.stop \/ ch \notin (0 .. 63) \cup {Pad} -> state
          [] ~state.stop /\ end /\ state.offset = 0 -> [state EXCEPT !.stop = TRUE]
          [] OTHER -> IF offset < 4
                      THEN [state EXCEPT !.in = in, !.offset = offset]
                      ELSE [in |-> in, offset |-> 0, stop |-> end,
                            data |-> state.data \o SubSeq(OutBytes(in), 1, count)]

data_from_base64_string(text) ==
    FoldLeft(Decode, [in |-> <<0, 0, 0, 0>>, offset |-> 0, stop |-> FALSE, data |-> <<>>], text).data

=============================================================================
