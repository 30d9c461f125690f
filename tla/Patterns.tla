------------------------------ MODULE Patterns ------------------------------
(***************************************************************************)
(* Signatures and string scans: patterns.h.  A text is a sequence of       *)
(* characters; a pattern sent to the bridge is a sequence of items, each a *)
(* byte or a wildcard.                                                     *)
(*                                                                         *)
(* The "48 8B ??" form in which a pattern travels is not kept: writing a   *)
(* byte as two digits and reading it back at the bridge gives the byte.    *)
(* The search itself runs in the scripting host and is external.           *)
(***************************************************************************)
EXTENDS Integers, Sequences, SequencesExt, FiniteSetsExt

CONSTANT Image    \* Image[a]: the byte of the target at address a, for every a that is mapped

HexDigits == <<"0", "1", "2", "3", "4", "5", "6", "7", "8", "9", "A", "B", "C", "D", "E", "F">>

Backslash == "\\"

IsDigit(c)    == Contains(HexDigits, c)
DigitValue(c) == SelectInSeq(HexDigits, LAMBDA d : d = c) - 1
HexByte(b)    == <<HexDigits[b \div 16 + 1], HexDigits[(b % 16) + 1]>>

Wildcard == -1
BadByte  == -2    \* std::stoi throws: there is no hexadecimal digit to read

\* std::stoi of two characters: a blank or a sign may come first, and it stops
\* at the first character that is no digit.
StoiHex(c, d) ==
  IF IsDigit(c) THEN IF IsDigit(d) THEN 16 * DigitValue(c) + DigitValue(d) ELSE DigitValue(c)
  ELSE IF IsDigit(d) /\ c \in {" ", "+"} THEN DigitValue(d)
  ELSE IF IsDigit(d) /\ c = "-" THEN (-DigitValue(d)) % 256
  ELSE BadByte

\* stringToSignature: each character, a signed char, as two backslashes, an x
\* and two digits.
StringToSignature(str) ==
  FlattenSeq([i \in DOMAIN str |-> <<Backslash, Backslash, "x">> \o HexByte(str[i] % 256)])

\* The first position from i on that does not hold a question mark.
PastMarks(text, i) == SelectInSubSeq(text \o <<" ">>, i, Len(text) + 1, LAMBDA c : c # "?")

\* Variant: a byte that ends the text is missed.
ByteStartsBeforeEnd(text, i) ==
  /\ text[i] = Backslash /\ i + 3 < Len(text) /\ text[i + 1] = "x"

\* A byte \xHH starts at position i.
ByteStarts(text, i) ==
  /\ text[i] = Backslash /\ i + 3 <= Len(text) /\ text[i + 1] = "x"

\* patternToMask for a byte pattern; what is neither a byte nor a question
\* mark is skipped, and a run of question marks is one wildcard.
PatternToMask(text) ==
  LET from[i \in 1..(Len(text) + 1)] ==
        IF i > Len(text) THEN <<>>
        ELSE IF ByteStarts(text, i) THEN <<StoiHex(text[i + 2], text[i + 3])>> \o from[i + 4]
        ELSE IF text[i] = "?" THEN <<Wildcard>> \o from[PastMarks(text, i)]
        ELSE from[i + 1]
  IN  from[1]

\* The runs of characters between blanks.
Fields(text) ==
  LET run[k \in 0..Len(text)] ==
        IF k = 0 THEN <<>>
        ELSE IF text[k] = " " THEN run[k - 1]
        ELSE IF k = 1 \/ text[k - 1] = " " THEN Append(run[k - 1], <<text[k]>>)
        ELSE [run[k - 1] EXCEPT ![Len(run[k - 1])] = Append(@, text[k])]
  IN  run[Len(text)]

IsMark(field)  == field \in {<<"?">>, <<"?", "?">>}
IsField(field) == IsMark(field) \/ (Len(field) = 2 /\ IsDigit(field[1]) /\ IsDigit(field[2]))

\* detectPatternType
DetectPatternType(text) ==
  IF Fields(text) # <<>> /\ \A i \in DOMAIN Fields(text) : IsField(Fields(text)[i])
  THEN "IDA_SIGNATURE"
  ELSE IF \E i \in 1..(Len(text) - 1) : text[i] = Backslash /\ text[i + 1] = "x"
  THEN "BYTE_PATTERN"
  ELSE "UNKNOWN"

\* How the bridge reads a signature; it finds nothing for what is none.
IdaItems(text) ==
  LET fields == IF DetectPatternType(text) = "IDA_SIGNATURE" THEN Fields(text) ELSE <<>>
  IN  [i \in DOMAIN fields |->
         IF IsMark(fields[i]) THEN Wildcard ELSE StoiHex(fields[i][1], fields[i][2])]

\* scanPattern: the items sent for a text of the given type, none if it is
\* unknown.
Items(type, text) ==
  CASE type = "IDA_SIGNATURE" -> IdaItems(text)
    [] type = "BYTE_PATTERN"  -> PatternToMask(text)
    [] OTHER                  -> <<>>

Matches(items, a) ==
  \A i \in DOMAIN items :
    /\ a + i - 1 \in DOMAIN Image
    /\ items[i] \in {Wildcard, Image[a + i - 1]}

\* find_code_pattern: the first match in the module, 0 without one.
FindPattern(module, items) ==
  LET found == {a \in module.base .. (module.base + module.size - Len(items)) : Matches(items, a)}
  IN  IF items = <<>> \/ found = {} THEN 0 ELSE Min(found)

\* scanPattern for an answer that arrives: the module is looked up in the
\* cached list, and no module is no match.
ScanPattern(type, text, name, modules) ==
  IF \E i \in DOMAIN modules : modules[i].name = name
  THEN FindPattern(modules[SelectInSeq(modules, LAMBDA m : m.name = name)], Items(type, text))
  ELSE 0

-----------------------------------------------------------------------------
(* For the reference: where a string is, without any pattern. *)

OccursAt(str, a) ==
  \A i \in DOMAIN str : a + i - 1 \in DOMAIN Image /\ Image[a + i - 1] = str[i] % 256

Occurrences(str, module) ==
  {a \in module.base .. (module.base + module.size - Len(str)) : OccursAt(str, a)}

FirstOccurrence(str, module) ==
  IF str = <<>> \/ Occurrences(str, module) = {} THEN 0 ELSE Min(Occurrences(str, module))

=============================================================================
