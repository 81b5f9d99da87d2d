------------------------------ MODULE Regexp ------------------------------
(***************************************************************************)
(* wi_regexp over the regular expressions of the system, of which two      *)
(* kinds stand for all: a text, and a text with a group in it.             *)
(***************************************************************************)
EXTENDS Strings

CONSTANT MaxMatchCount       \* WI_REGEXP_MAX_MATCH_COUNT

\* The ranges of a match that is found at i, and of its group.
RangesAt(regexp, i) ==
    IF i = NotFound THEN <<>>
    ELSE <<[location |-> i, length |-> Len(regexp.before) + Len(regexp.group)]>>
         \o (IF regexp.group = <<>> THEN <<>>
             ELSE <<[location |-> i + Len(regexp.before), length |-> Len(regexp.group)]>>)

\* regexec: the ranges of the first match and of its group, none when nothing matches.
regexec(regexp, text) ==
    RangesAt(regexp, index_of_string(text, regexp.before \o regexp.group,
                                     IF regexp.insensitive THEN {"insensitive"} ELSE {}))

\* Matches and groups are counted and stored alike; the search goes on behind the whole match.
RECURSIVE MatchesFrom(_, _, _)
MatchesFrom(regexp, text, offset) ==
    LET found == regexec(regexp, substring_from_index(text, offset))
    IN  IF offset = Len(text) \/ found = <<>>
        THEN <<>>
        ELSE [i \in DOMAIN found |-> [found[i] EXCEPT !.location = @ + offset]]
             \o MatchesFrom(regexp, text, offset + found[1].location + found[1].length)

\* The ranges that are stored in an array of this size, and how many were counted.
Stored(all, size) ==
    [count |-> Len(all),
     matches |-> [i \in 1 .. size |-> IF i <= Len(all) THEN all[i]
                                      ELSE [location |-> NotFound, length |-> 0]]]

get_matches_in_string(regexp, text, size) == Stored(MatchesFrom(regexp, text, 0), size)

string_of_first_match(regexp, text) ==
    LET range == get_matches_in_string(regexp, text, 1).matches[1]
    IN  IF range.location = NotFound THEN Null
        ELSE substring_with_range(text, range.location, range.length)

Variable(i) == <<"$", <<"0", "1", "2", "3", "4", "5", "6", "7", "8", "9">>[i + 1]>>

\* Both ways go through the matches backwards: ranges before the edit stay where they are.
ReplaceBackwards(found, text, template) ==
    FoldRight(LAMBDA m, s : replace_characters_in_range(s, m.location, m.length, template),
              SubSeq(found.matches, 1, found.count), text)

FillTemplate(found, text, template) ==
    LET fill(s, i) ==
            LET m == found.matches[i]
                at == index_of_string(s, Variable(i - 1), {})
            IN  IF at = NotFound THEN s
                ELSE replace_characters_in_range(s, at, 2, substring_with_range(text, m.location, m.length))
    IN  FoldRightDomain(LAMBDA i, s : fill(s, i), SubSeq(found.matches, 1, found.count), template)

replace_matches_in_string(regexp, text, template) ==
    LET found == get_matches_in_string(regexp, text, MaxMatchCount)
    IN  IF regexp.group # <<>> THEN FillTemplate(found, text, template)
                               ELSE ReplaceBackwards(found, text, template)

=============================================================================
