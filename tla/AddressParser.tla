---------------------------- MODULE AddressParser ----------------------------
(***************************************************************************)
(* The arithmetic of the address bar: addressParser::parseInput of         *)
(* parser.h with ui::isValidHex and ui::toAddress.                         *)
(*                                                                         *)
(* A text is a sequence of pieces: the characters "+", "-", " " and "!",   *)
(* and words, the runs of other characters between them.                   *)
(***************************************************************************)
EXTENDS CachedRead, Sequences, SequencesExt

CONSTANTS Literals,      \* Literals[w]: the number the hexadecimal word w spells
          LibraryWords,  \* the words with .dll or .exe in them
          Names          \* what a user types as the name of a module

ASSUME LiteralsAssumption == \A w \in DOMAIN Literals : Literals[w] \in Nat

Operators == {"+", "-"}
Blank == " "

\* Words are runs of other characters than the four; one with .dll or .exe in it
\* is no hexadecimal number (ui::isValidHex).
ASSUME SpellingAssumption ==
  /\ {"+", "-", Blank, "!"} \cap (DOMAIN Literals \cup LibraryWords) = {}
  /\ DOMAIN Literals \cap LibraryWords = {}
ASSUME NamesAssumption == Names \subseteq Seq(STRING)

\* An empty token when an operator is met, a longer last token otherwise.
TakePiece(cut, c) ==
  IF c \in Operators
  THEN [tokens |-> Append(cut.tokens, <<>>), operators |-> Append(cut.operators, c)]
  ELSE [cut EXCEPT !.tokens[Len(cut.tokens)] = Append(@, c)]

\* The text cut at its operators: always one token more than operators.
Cut(text) ==
  LET cut[k \in 0..Len(text)] ==
        IF k = 0 THEN [tokens |-> << <<>> >>, operators |-> <<>>]
                 ELSE TakePiece(cut[k - 1], text[k])
  IN  cut[Len(text)]

\* A token without the blanks at its ends.
Trim(token) ==
  LET Shown(c) == c # Blank
  IN  IF \E i \in DOMAIN token : Shown(token[i])
      THEN SubSeq(token, SelectInSeq(token, Shown), SelectLastInSeq(token, Shown))
      ELSE <<>>

\* parseExport: gatherExports, the only function that fills the table of
\* exports, is never called, so that no export is ever found.
ParseExport(token) == 0

\* ui::isValidHex
IsValidHex(token) == Len(token) = 1 /\ Head(token) \in DOMAIN Literals

\* ui::toAddress: a number too large for a word reads as the largest word.
ToAddress(token) == IF Literals[Head(token)] < W THEN Literals[Head(token)] ELSE W - 1

\* The base of the first module of that very name.
ModuleBase(token, modules) ==
  modules[SelectInSeq(modules, LAMBDA m : m.name = token)].base

\* What one token stands for.
Value(token, modules) ==
  IF Contains(token, "!") THEN ParseExport(token)
  ELSE IF /\ \E i \in DOMAIN token : token[i] \in LibraryWords
          /\ \E i \in DOMAIN modules : modules[i].name = token
  THEN ModuleBase(token, modules)
  ELSE IF IsValidHex(token) THEN ToAddress(token)
  ELSE 0

\* Variant: token n is combined with the operator after it.
CombineNext(cut, n, sum, value) ==
  IF n < Len(cut.tokens) /\ cut.operators[n] = "-" THEN Minus(sum, value) ELSE Plus(sum, value)

\* Token n > 1 is added to or taken from the sum of the tokens before it.
Combine(cut, n, sum, value) ==
  IF cut.operators[n - 1] = "+" THEN Plus(sum, value) ELSE Minus(sum, value)

\* The tokens of a cut text, summed up with its operators.
SumOf(cut, modules) ==
  LET sum[n \in 1..Len(cut.tokens)] ==
        LET value == Value(Trim(cut.tokens[n]), modules)
        IN  IF n = 1 THEN value ELSE Combine(cut, n, sum[n - 1], value)
  IN  sum[Len(cut.tokens)]

\* addressParser::parseInput
ParseInput(text, modules) == SumOf(Cut(text), modules)

-----------------------------------------------------------------------------
(* What an expression means, for the reference: its terms are numbers and
   names, each with a sign. *)

\* The names parseInput can tell: no operator cuts them, no "!" makes an export
\* of them, one of the two endings is in them as it stands in g_fileEndings, in
\* lower case, and no blank at an end is trimmed away.
Readable(name) ==
  /\ \A i \in DOMAIN name : name[i] \notin Operators \cup {"!"}
  /\ \E i \in DOMAIN name : name[i] \in LibraryWords
  /\ name[1] # Blank /\ name[Len(name)] # Blank

Numbers == {<<w>> : w \in {v \in DOMAIN Literals : Literals[v] < W}}

Terms == [sign : Operators, word : Numbers \cup {name \in Names : Readable(name)}]

\* How a user types a term, with gap around its operator, and the terms of an
\* expression: a first "+" is not written.
Typed(term, first, gap) ==
  IF first /\ term.sign = "+" THEN term.word
  ELSE gap \o <<term.sign>> \o gap \o term.word

Render(terms, gap) == FlattenSeq([i \in DOMAIN terms |-> Typed(terms[i], i = 1, gap)])

Meaning(word, modules) ==
  IF word \in Numbers THEN Literals[Head(word)]
  ELSE IF \E i \in DOMAIN modules : modules[i].name = word THEN ModuleBase(word, modules)
  ELSE 0

\* The sum of the terms, computed in the integers and wrapped once, at the end.
Sum(terms, modules) ==
  LET total[k \in 0..Len(terms)] ==
        IF k = 0 THEN 0
        ELSE LET meaning == Meaning(terms[k].word, modules)
             IN  IF terms[k].sign = "+" THEN total[k - 1] + meaning ELSE total[k - 1] - meaning
  IN  total[Len(terms)] % W

=============================================================================
