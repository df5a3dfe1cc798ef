--------------------------- MODULE NumberReading ---------------------------
(***************************************************************************)
(* ranker/candidate_supplements.py: the surfaces a reading is supplemented *)
(* with, and how the segments before them are joined.  A reading is a      *)
(* sequence of kana.  A surface is what it is written with: the number in  *)
(* Arabic digits or as a sequence of numerals, whether it is an ordinal,   *)
(* and its counter; or a word of a table; and the rest of the reading.     *)
(***************************************************************************)
EXTENDS Integers, Sequences, FiniteSets, SequencesExt, FiniteSetsExt, TLC

CONSTANTS
  Words,            \* the three tables of whole surfaces: reading -> surface
  PrefixWords,      \* those of them that supplement the beginning of a reading
  PrefixNumbers,    \* numeric_prefixes, in order
  Numbers,          \* the numbers that are read out, below a hundred thousand
  Endings,          \* what follows a supplemented beginning
  MaxCuts           \* a bound on the cuts between Mozc's segments

VARIABLES
  number,     \* the number that was read out, or 0 for another reading
  counter,    \* and the reading of its counter
  reading,
  segments,   \* Mozc's segments of it
  surfaces, prepared

vars == <<number, counter, reading, segments, surfaces, prepared>>

_DIGITS ==
  << "re", "i" >> :> 0 @@ << "ze", "ro" >> :> 0 @@ << "i", "chi" >> :> 1 @@ <<"ni">> :> 2
  @@ <<"sa", "n">> :> 3 @@ <<"yo", "n">> :> 4 @@ <<"shi">> :> 4 @@ <<"go">> :> 5
  @@ <<"ro", "ku">> :> 6 @@ <<"na", "na">> :> 7 @@ <<"shi", "chi">> :> 7 @@ <<"ha", "chi">> :> 8
  @@ <<"ki", "yu", "u">> :> 9 @@ <<"ku">> :> 9

_UNITS ==
  <<"ji", "yu", "u">> :> 10 @@ <<"ji", "yu", "tsu">> :> 10 @@ <<"hi", "ya", "ku">> :> 100
  @@ <<"bi", "ya", "ku">> :> 100 @@ <<"pi", "ya", "ku">> :> 100 @@ <<"se", "n">> :> 1000
  @@ <<"ze", "n">> :> 1000 @@ <<"ma", "n">> :> 10000 @@ <<"o", "ku">> :> 100000000

_NUMERIC_SUFFIXES ==
  <<"pa", "-", "se", "n", "to">> :> "percent" @@ <<"ne", "n", "do">> :> "year"
  @@ <<"ni", "n">> :> "people" @@ <<"ni", "chi">> :> "day" @@ <<"ji">> :> "hour"
  @@ <<"ko">> :> "piece" @@ <<"da", "i">> :> "machine" @@ <<"ma", "i">> :> "sheet"
  @@ <<"ho", "n">> :> "long" @@ <<"hi", "ki">> :> "animal" @@ <<"e", "n">> :> "yen"
  @@ <<"i">> :> "place"

Ordinal == <<"da", "i">>
OrdinalCounter == "place"

Drop(s, n) == SubSeq(s, n + 1, Len(s))

Longest(keys) == {k \in keys : \A other \in keys : Len(other) <= Len(k)}

-----------------------------------------------------------------------------
(* _parse_number_prefix *)

(* The longest token a text begins with. *)
Tokens == DOMAIN _DIGITS \cup DOMAIN _UNITS
TokenOf(s) == Longest({t \in Tokens : IsPrefix(t, s)})

Nothing == -1
Start == [position |-> 0, total |-> 0, section |-> 0, current |-> Nothing]
OrOne(n) == IF n = Nothing THEN 1 ELSE n

(* A digit replaces the one before it.  A unit below ten thousand is added to *)
(* the section; from there on it multiplies the section and what is pending.  *)
After(state, token) ==
  LET next == [state EXCEPT !.position = @ + Len(token)]
  IN IF token \in DOMAIN _DIGITS THEN [next EXCEPT !.current = _DIGITS[token]]
     ELSE IF _UNITS[token] >= 10000
     THEN [next EXCEPT !.total = @ + (state.section + OrOne(state.current)) * _UNITS[token],
                       !.section = 0, !.current = Nothing]
     ELSE [next EXCEPT !.section = @ + OrOne(state.current) * _UNITS[token], !.current = Nothing]

Read(text, state) ==
  LET token == TokenOf(Drop(text, state.position))
  IN IF token = {} THEN state ELSE After(state, CHOOSE t \in token : TRUE)

(* There are no more tokens than kana; after the last one, nothing is read. *)
Scan(text) ==
  LET state[n \in 0 .. Len(text)] == IF n = 0 THEN Start ELSE Read(text, state[n - 1])
  IN state[Len(text)]

Parsed(end) ==
  [matched |-> end.position > 0, consumed |-> end.position,
   value |-> end.total + end.section + (IF end.current = Nothing THEN 0 ELSE end.current)]

_parse_number_prefix(text) == Parsed(Scan(text))

-----------------------------------------------------------------------------
(* _kanji_number: the numerals of a number below ten thousand; one is not   *)
(* written before ten, hundred and thousand.  Larger numbers stay as they   *)
(* are, one numeral that stands for the digits.                             *)
Place(n, unit) == IF n \div unit = 0 THEN <<>>
                  ELSE IF n \div unit = 1 THEN <<unit>> ELSE <<n \div unit, unit>>

(* Mutant: a hundred is skipped when no ten follows. *)
_kanji_number_short(value) ==
  IF value = 0 \/ value >= 10000 THEN <<value>>
  ELSE Place(value, 1000) \o (IF value % 100 \div 10 = 0 THEN <<>> ELSE Place(value % 1000, 100))
       \o Place(value % 100, 10) \o (IF value % 10 = 0 THEN <<>> ELSE <<value % 10>>)

_kanji_number(value) ==
  IF value = 0 \/ value >= 10000 THEN <<value>>
  ELSE Place(value, 1000) \o Place(value % 1000, 100) \o Place(value % 100, 10)
       \o (IF value % 10 = 0 THEN <<>> ELSE <<value % 10>>)

(* numeric_supplement_surfaces: the longest counter that leaves a number and *)
(* nothing else before it.                                                   *)
NumberBefore(text, key) == _parse_number_prefix(SubSeq(text, 1, Len(text) - Len(key)))

Leaves(prefix, length) == prefix.matched /\ prefix.consumed = length

CountersOf(text) ==
  Longest({key \in DOMAIN _NUMERIC_SUFFIXES :
             IsSuffix(key, text) /\ Leaves(NumberBefore(text, key), Len(text) - Len(key))})

Written(ordinal, unit, value) ==
  LET as(digits) == [ordinal |-> ordinal, digits |-> digits, counter |-> unit, rest |-> <<>>]
  IN IF ordinal /\ unit # OrdinalCounter THEN <<>>
     ELSE <<as(<<value>>), as(_kanji_number(value))>>

WrittenWith(ordinal, text, keys) ==
  LET key == CHOOSE k \in keys : TRUE
  IN IF keys = {} THEN <<>>
     ELSE Written(ordinal, _NUMERIC_SUFFIXES[key], NumberBefore(text, key).value)

Counted(ordinal, text) == WrittenWith(ordinal, text, CountersOf(text))

numeric_supplement_surfaces(text) ==
  LET ordinal == IsPrefix(Ordinal, text)
  IN Counted(ordinal, IF ordinal THEN Drop(text, Len(Ordinal)) ELSE text)

Word(key, rest) == [word |-> Words[key], rest |-> rest]

WordSurfaces(text) == IF text \in DOMAIN Words THEN <<Word(text, <<>>)>> ELSE <<>>

ByLength(keys) == SortSeq(SetToSeq(keys), LAMBDA a, b : Len(a) > Len(b))

(* The surfaces in the code's order; a surface listed twice counts once, which *)
(* the consumers of a set of surfaces cannot tell.                             *)
Beginnings(text, keys) == SelectSeq(keys, LAMBDA k : IsPrefix(k, text) /\ Len(text) > Len(k))

FirstOf(found, rest) == [i \in 1 .. Min({1, Len(found)}) |-> [found[i] EXCEPT !.rest = rest]]

supplemental_surfaces(text) ==
  LET after(key) == Drop(text, Len(key))
      each(keys, written(_)) == FlattenSeq([i \in DOMAIN keys |-> written(keys[i])])
  IN WordSurfaces(text) \o numeric_supplement_surfaces(text)
     \o each(Beginnings(text, ByLength(PrefixWords)), LAMBDA k : <<Word(k, after(k))>>)
     \o each(Beginnings(text, PrefixNumbers),
             LAMBDA k : FirstOf(numeric_supplement_surfaces(k), after(k)))

-----------------------------------------------------------------------------
(* prepare_supplemented_segments.  A segment is its part of the reading.      *)

SupplementedKeys == PrefixWords \cup {k \in ToSet(PrefixNumbers) :
                                        numeric_supplement_surfaces(k) # <<>>}

supplemental_prefix(text) == Longest({k \in SupplementedKeys : IsPrefix(k, text)})

Through(parts, n) == Len(FlattenSeq(SubSeq(parts, 1, n)))

(* The first segments, as many as the prefix reaches into, become one. *)
Collapsed(parts, key, n) ==
  <<key \o Drop(parts[n], Len(key) - Through(parts, n - 1))>> \o Drop(parts, n)

Reaching(parts, base) == {n \in DOMAIN parts : \E key \in base : Through(parts, n) >= Len(key)}

PreparedWith(parts, base, ends) ==
  IF ends = {} THEN parts ELSE Collapsed(parts, CHOOSE key \in base : TRUE, Min(ends))

prepare_supplemented_segments(text, parts) ==
  LET base == supplemental_prefix(text)
  IN PreparedWith(parts, base, Reaching(parts, base))

-----------------------------------------------------------------------------
(* A conversion: a number read out with a counter, or another reading, cut   *)
(* into segments by Mozc.                                                    *)

(* The standard reading of a number: its parts from the largest on, a one    *)
(* said only before ten thousand.  After some digits a hundred, a thousand   *)
(* and the digit itself sound different.                                     *)
DigitSound(d) == << <<"i", "chi">>, <<"ni">>, <<"sa", "n">>, <<"yo", "n">>, <<"go">>, <<"ro", "ku">>,
                    <<"na", "na">>, <<"ha", "chi">>, <<"ki", "yu", "u">> >>[d]
Shifted(d) == IF d = 6 THEN <<"ro", "tsu">> ELSE IF d = 8 THEN <<"ha", "tsu">> ELSE DigitSound(d)
HundredSound(d) == IF d = 3 THEN <<"bi", "ya", "ku">>
                   ELSE IF d \in {6, 8} THEN <<"pi", "ya", "ku">> ELSE <<"hi", "ya", "ku">>
Digit(d, sound, unit) == IF d = 0 THEN <<>> ELSE IF d = 1 THEN unit ELSE sound \o unit

Sound(n) ==
  LET of(unit) == n \div unit % 10
  IN (IF n < 10000 THEN <<>> ELSE DigitSound(of(10000)) \o <<"ma", "n">>)
     \o Digit(of(1000), IF of(1000) = 8 THEN Shifted(8) ELSE DigitSound(of(1000)),
             IF of(1000) = 3 THEN <<"ze", "n">> ELSE <<"se", "n">>)
     \o Digit(of(100), Shifted(of(100)), HundredSound(of(100)))
     \o Digit(of(10), DigitSound(of(10)), <<"ji", "yu", "u">>)
     \o (IF of(1) = 0 THEN <<>> ELSE DigitSound(of(1)))

(* The numbers that are read out with a sound of the shifted ones. *)
HasShift(n) == (n \div 100) % 10 \in {6, 8} \/ (n \div 1000) % 10 = 8

CutAt(text, cuts) ==
  LET ends == SetToSortSeq(cuts \cup {Len(text)}, <)
  IN [i \in DOMAIN ends |-> SubSeq(text, (IF i = 1 THEN 0 ELSE ends[i - 1]) + 1, ends[i])]

Init ==
  /\ \/ /\ number \in Numbers
        /\ counter \in DOMAIN _NUMERIC_SUFFIXES
        /\ reading = Sound(number) \o counter
     \/ /\ number = 0 /\ counter = <<>>
        /\ reading \in {key \o ending : key \in DOMAIN Words \cup ToSet(PrefixNumbers), ending \in Endings}
  /\ \E cuts \in SUBSET (1 .. Len(reading) - 1) :
       /\ Cardinality(cuts) <= IF number = 0 THEN MaxCuts ELSE 0
       /\ segments = CutAt(reading, cuts)
  /\ surfaces = <<>> /\ prepared = <<>>

Supplement ==
  /\ prepared = <<>>
  /\ surfaces' = supplemental_surfaces(reading)
  /\ prepared' = prepare_supplemented_segments(reading, segments)
  /\ UNCHANGED <<number, counter, reading, segments>>

Next == Supplement

Spec == Init /\ [][Next]_vars
-----------------------------------------------------------------------------
(***************************************************************************)
(* Properties.                                                             *)
(***************************************************************************)
(* What a sequence of numerals says: each unit as often as the digit before *)
(* it says, and the digit at the end.                                       *)
Denotes(digits) ==
  IF Len(digits) = 1 /\ digits[1] >= 10000 THEN digits[1]
  ELSE MapThenSumSet(
         LAMBDA i : IF digits[i] >= 10
                    THEN digits[i] * (IF i > 1 /\ digits[i - 1] < 10 THEN digits[i - 1] ELSE 1)
                    ELSE IF i = Len(digits) THEN digits[i] ELSE 0,
         DOMAIN digits)

(* candidate_supplements.py:126-147: a number below a hundred thousand, read  *)
(* out with any of the counters, is supplemented with itself in digits and in *)
(* numerals, and with that counter: no other way to take the reading apart    *)
(* gets in between.  Only readings with a shifted sound have no supplement.   *)
(* And the segments still read as what was typed, wherever Mozc cut it        *)
(* (195-218, "Collapse only the repairable reading span, retaining following  *)
(* grammar").                                                                 *)
NumbersAreWritten ==
  /\ prepared # <<>> => FlattenSeq(prepared) = reading
  /\ number > 0 /\ prepared # <<>> =>
    /\ \A i \in DOMAIN surfaces :
         "digits" \in DOMAIN surfaces[i] /\ surfaces[i].rest = <<>> =>
           /\ Denotes(surfaces[i].digits) = number
           /\ surfaces[i].counter = _NUMERIC_SUFFIXES[counter] /\ ~surfaces[i].ordinal
    /\ ~HasShift(number) => Len(surfaces) >= 2
=============================================================================
