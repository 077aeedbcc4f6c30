------------------------------ MODULE ScalarText ------------------------------
(***************************************************************************)
(* How the text of a scalar or a script becomes its value: the lexer cuts  *)
(* a token out of the document and one of process_scalar_plaintext,        *)
(* process_scalar_quotes_double, process_scalar_quotes_single and          *)
(* process_acute_text reads it byte by byte with a few flags.              *)
(*                                                                         *)
(* A byte is a member of Bytes: "quote" is the token's own quote (the      *)
(* double one for plaintext), "blank" a space or a tab, "n" and "s" the    *)
(* letters of the escapes for newline and space, "lead" and "A0" the two   *)
(* bytes of a letter such as U+00E0 or U+0420.  Of the bytes that a        *)
(* hexadecimal code stands for, a value keeps what is_spacer and the ends  *)
(* of letters tell apart: "nul" is a zero, "blank", "newline", "lead" and  *)
(* "A0" are what they are in the text, and "code" is any other.            *)
(***************************************************************************)
EXTENDS Utf8Forms, Sequences, FiniteSets, SequencesExt

CONSTANTS
    Styles,     \* subset of {"plain", "double", "single", "acute"}
    Preserves,  \* subset of 0..2, the preserve_newline of quoted scalars
    Alphabet,   \* of each style: the bytes its tokens are made of
    MaxLength   \* of each style, bound: bytes of a token

HexDigits == {"0", "2", "A"}              \* enough for spaces, tails of letters and zero
DigitValue == [d \in HexDigits |-> CASE d = "0" -> 0 [] d = "2" -> 2 [] OTHER -> 10]

Bytes == {"quote", "blank", "newline", "backslash", "slash", "x", "n", "s", "semicolon",
          "lead", "A0"} \cup HexDigits
Value == Bytes \cup {"code", "nul"}
Spacers == {"blank", "newline", "A0"}     \* is_spacer

ASSUME StylesAssumption   == Styles \subseteq {"plain", "double", "single", "acute"}
ASSUME PreserveAssumption == Preserves \subseteq 0..2
ASSUME AlphabetAssumption == Alphabet \in [Styles -> SUBSET (Bytes \ {"A0"})]
ASSUME LengthAssumption   == MaxLength \in [Styles -> Nat]

VARIABLES
    pc,
    style,          \* which of the four functions
    preserve,       \* preserve_newline; 0 for plaintext, 2 for scripts
    lex,            \* the lexer's place in its pattern
    input,          \* bytes read so far, without the quotes around the token
    accum,
    escaped,
    quote,
    skiping_spaces,
    readhex,
    current_hex_value

textVars  == <<style, preserve>>
flagVars  == <<escaped, quote, skiping_spaces, readhex, current_hex_value>>
vars == <<pc, textVars, lex, input, accum, flagVars>>

EscapeStyles == {"plain", "double"}
QuoteStyles  == {"single", "acute"}

(* skiping_spaces is set only where it is looked at. *)
TypeOK ==
    /\ pc \in {"scan", "done", "threw", "broken"}
    /\ style \in Styles
    /\ preserve \in 0..2
    /\ lex \in {"open", "half", "closed"}
    /\ input \in Seq(Bytes) /\ Len(input) <= MaxLength[style]
    /\ accum \in Seq(Value)
    /\ escaped \in BOOLEAN /\ (escaped => style \in EscapeStyles)
    /\ quote \in BOOLEAN /\ (quote => style \in QuoteStyles)
    /\ skiping_spaces \in BOOLEAN /\ (skiping_spaces => preserve # 2)
    /\ readhex \in BOOLEAN /\ (readhex => style \in EscapeStyles)
    /\ current_hex_value \in Seq(Value)

(* The first byte of a quoted token is its quote and changes nothing but    *)
(* the flag begin; plaintext begins with blanks skipped.                    *)
Init ==
    /\ pc = "scan"
    /\ style \in Styles
    /\ preserve \in CASE style = "plain" -> {0} [] style = "acute" -> {2} [] OTHER -> Preserves
    /\ lex = "open"
    /\ input = <<>>
    /\ accum = <<>>
    /\ escaped = FALSE
    /\ quote = FALSE
    /\ skiping_spaces = (style = "plain")
    /\ readhex = FALSE
    /\ current_hex_value = <<>>

-----------------------------------------------------------------------------
(* The lexer's patterns: what the next byte of the token can be.  "half" is *)
(* after a backslash, a quote or a slash that wants a partner.              *)

LexDouble(c) ==
    \/ lex = "half" /\ lex' = "open"
    \/ lex = "open" /\ c = "backslash" /\ lex' = "half"
    \/ lex = "open" /\ c = "quote" /\ lex' = "closed"
    \/ lex = "open" /\ c \notin {"backslash", "quote"} /\ lex' = "open"

LexQuotes(c) ==
    \/ c = "quote" /\ lex' = IF lex = "open" THEN "half" ELSE "open"
    \/ c # "quote" /\ lex = "open" /\ lex' = "open"

LexPlain(c) ==
    \/ lex = "half" /\ c # "slash" /\ lex' = "open"
    \/ lex = "open" /\ c = "slash" /\ input # <<>> /\ lex' = "half"
    \/ /\ lex = "open"
       /\ c \notin {"quote", "newline", "slash"}
       /\ input = <<>> => c # "blank"
       /\ lex' = "open"

Lex(c) ==
    CASE style = "double" -> LexDouble(c)
      [] style = "plain" -> LexPlain(c)
      [] OTHER -> LexQuotes(c)

(* The token ends here. *)
Complete ==
    CASE style = "double" -> lex = "closed"
      [] style = "plain" -> lex = "open" /\ input # <<>>
      [] OTHER -> lex = "half"

-----------------------------------------------------------------------------
(* The functions' loops.  A definition marked "slip" is a plausible mistake *)
(* in the one that follows it; no action uses it.                           *)

SkipAlways(p) == TRUE                     \* slip: preserved text is folded too
SkipAfterNewline(p) == p # 2

NewlineDropped(p) == <<>>                 \* slip: preserve_newline 1 is forgotten
NewlineKept(p) == IF p = 0 THEN <<>> ELSE <<"newline">>

BothQuotes(q) == <<"quote">>              \* slip: either quote of a pair is kept
QuoteKept(q) == IF q THEN <<"quote">> ELSE <<>>

EscapeKept(c) == <<"backslash", c>>       \* slip: the backslash stays
Unescaped(c) ==
    CASE c = "n" -> <<"newline">>
      [] c = "s" -> <<"blank">>
      [] c = "x" -> <<>>
      [] OTHER -> <<c>>

AnythingGoes(c) == TRUE                   \* slip: no else branch
InCode(c) == c \in HexDigits

(* Bound: digits of one code.  strtoul saturates and the cast to uint32_t   *)
(* drops bits only behind the eighth.                                       *)
MaxDigits == 6

(* strtoul(..., 16), by the digits from the last one on. *)
Digit(h, k) == IF k <= Len(h) THEN DigitValue[h[Len(h) - k + 1]] ELSE 0
Number(h) ==
    Digit(h, 1) + 16 * Digit(h, 2) + 256 * Digit(h, 3) + 4096 * Digit(h, 4)
        + 65536 * Digit(h, 5) + 1048576 * Digit(h, 6)

(* uint32_vector_to_string of the one number. *)
ByteKind(b) ==
    CASE b = 0 -> "nul"
      [] b \in {9, 32} -> "blank"
      [] b = 10 -> "newline"
      [] b = 160 -> "A0"
      [] b >= 192 -> "lead"
      [] OTHER -> "code"
Character(h) == LET e == Number(h) IN [k \in 1..FormLength(e) |-> ByteKind(Byte(e, k))]

(* Erase white space at the end. *)
Trimmed(t) ==
    LET kept == {i \in 1..Len(t) : \E j \in i..Len(t) : t[j] \notin Spacers}
    IN  SubSeq(t, 1, Cardinality(kept))

Skipped(c) == skiping_spaces /\ c = "blank"

(* A blank at the start of a line. *)
ReadSkipped(c) ==
    /\ Skipped(c)
    /\ UNCHANGED <<pc, accum, flagVars>>

ReadEscaped(c) ==
    /\ ~Skipped(c)
    /\ escaped
    /\ escaped' = FALSE
    /\ accum' = accum \o Unescaped(c)
    /\ readhex' = (readhex \/ c = "x")
    /\ current_hex_value' = IF c = "x" THEN <<>> ELSE current_hex_value
    /\ skiping_spaces' = FALSE
    /\ UNCHANGED <<pc, quote>>

(* An unescaped double quote is ignored wherever it is. *)
ReadDoubleQuote(c) ==
    /\ style \in EscapeStyles
    /\ ~escaped
    /\ c = "quote"
    /\ skiping_spaces' = FALSE
    /\ UNCHANGED <<pc, accum, escaped, quote, readhex, current_hex_value>>

ReadNewline(c) ==
    /\ ~escaped
    /\ c = "newline"
    /\ accum' = accum \o NewlineKept(preserve)
    /\ skiping_spaces' = SkipAfterNewline(preserve)
    /\ quote' = FALSE
    /\ UNCHANGED <<pc, escaped, readhex, current_hex_value>>

ReadDigit(c) ==
    /\ ~Skipped(c)
    /\ readhex
    /\ InCode(c)
    /\ Len(current_hex_value) < MaxDigits
    /\ current_hex_value' = Append(current_hex_value, c)
    /\ skiping_spaces' = FALSE
    /\ UNCHANGED <<pc, accum, escaped, quote, readhex>>

ReadCodeEnd(c) ==
    /\ readhex
    /\ c = "semicolon"
    /\ ~InCode(c)
    /\ current_hex_value' = Character(current_hex_value)
    /\ accum' = accum \o current_hex_value'
    /\ readhex' = FALSE
    /\ skiping_spaces' = FALSE
    /\ UNCHANGED <<pc, escaped, quote>>

ReadBadCode(c) ==
    /\ ~Skipped(c)
    /\ readhex
    /\ c \notin {"quote", "newline", "semicolon"}
    /\ ~InCode(c)
    /\ pc' = "threw"
    /\ UNCHANGED <<accum, flagVars>>

ReadBackslash(c) ==
    /\ style \in EscapeStyles
    /\ ~escaped /\ ~readhex
    /\ c = "backslash"
    /\ escaped' = TRUE
    /\ skiping_spaces' = FALSE
    /\ UNCHANGED <<pc, accum, quote, readhex, current_hex_value>>

(* One quote escapes another one. *)
ReadQuote(c) ==
    /\ style \in QuoteStyles
    /\ c = "quote"
    /\ accum' = accum \o QuoteKept(quote)
    /\ quote' = ~quote
    /\ skiping_spaces' = FALSE
    /\ UNCHANGED <<pc, escaped, readhex, current_hex_value>>

ReadOther(c) ==
    /\ ~Skipped(c)
    /\ ~escaped /\ ~readhex
    /\ c \notin {"quote", "newline"}
    /\ style \in EscapeStyles => c # "backslash"
    /\ accum' = Append(accum, c)
    /\ quote' = FALSE
    /\ skiping_spaces' = FALSE
    /\ UNCHANGED <<pc, escaped, readhex, current_hex_value>>

(* Every document is UTF-8: "lead" and "A0" come together. *)
Letters == IF input # <<>> /\ Last(input) = "lead" THEN {"A0"} ELSE Alphabet[style]

Read(c) ==
    /\ pc = "scan"
    /\ c \in Letters
    /\ Len(input) < MaxLength[style]
    /\ Lex(c)
    /\ input' = IF lex' = "closed" THEN input ELSE Append(input, c)
    /\ \/ ReadSkipped(c) \/ ReadEscaped(c) \/ ReadDoubleQuote(c) \/ ReadNewline(c)
       \/ ReadDigit(c) \/ ReadCodeEnd(c) \/ ReadBadCode(c) \/ ReadBackslash(c)
       \/ ReadQuote(c) \/ ReadOther(c)
    /\ UNCHANGED textVars

(* back() of an empty string is undefined: the byte it reads may be no      *)
(* spacer, or pop_back breaks the string.                                   *)
Emptied == style = "plain" /\ Trimmed(accum) = <<>>

(* The checks of the quotes and the last lines of the functions. *)
End ==
    /\ pc = "scan"
    /\ Complete
    /\ input # <<>> => Last(input) # "lead"
    /\ pc' \in IF style \in QuoteStyles /\ ~quote THEN {"threw"}
               ELSE IF Emptied THEN {"done", "broken"} ELSE {"done"}
    /\ accum' = IF style = "plain" THEN Trimmed(accum) ELSE accum
    /\ UNCHANGED <<textVars, lex, input, flagVars>>

Next == End \/ \E c \in Bytes : Read(c)

Spec == Init /\ [][Next]_vars
-----------------------------------------------------------------------------
(* What a token means, by place and without flags.                         *)

(* A token without the quotes around it. *)
Body == IF style \in QuoteStyles THEN Front(input) ELSE input
Places == 1..Len(Body)

(* How many bytes c stand in a row just before place i. *)
RunBefore(c, i) ==
    CHOOSE k \in 0..(i - 1) :
        /\ \A j \in (i - k)..(i - 1) : Body[j] = c
        /\ k < i - 1 => Body[i - k - 1] # c

Odd(k) == k % 2 = 1

(* After an odd number of backslashes. *)
IsEscaped(i) == style \in EscapeStyles /\ Odd(RunBefore("backslash", i))

(* A line break in the text, and the blanks that begin a line: dropped too  *)
(* where preserve_newline is 1.                                             *)
IsBreak(i)  == Body[i] = "newline" /\ ~IsEscaped(i)
IsIndent(i) ==
    /\ preserve # 2
    /\ Body[i] = "blank"
    /\ LET b == i - 1 - RunBefore("blank", i) IN b > 0 /\ IsBreak(b)

(* A code goes from an escaped x to the next semicolon. *)
OpensCode(i) == Body[i] = "x" /\ IsEscaped(i)
WithinCode(i) ==
    \E s \in 1..(i - 1) : OpensCode(s) /\ \A j \in (s + 1)..(i - 1) : Body[j] # "semicolon"
LegalInCode(i) ==
    \/ Body[i] \in HexDigits \cup {"semicolon"}
    \/ IsBreak(i)
    \/ IsIndent(i)

(* The digits of the code that place i stands in. *)
IsDigitOf(j, i) ==
    /\ WithinCode(j)
    /\ Body[j] \in HexDigits
    /\ \A k \in j..(i - 1) : Body[k] # "semicolon"
CodeDigits(i) ==
    FlattenSeq([j \in 1..(i - 1) |-> IF IsDigitOf(j, i) THEN <<Body[j]>> ELSE <<>>])

CodeMeaning(i) == IF Body[i] = "semicolon" THEN Character(CodeDigits(i)) ELSE <<>>

EscapeMeaning(c) ==
    CASE c = "x" -> <<>>
      [] c = "n" -> <<"newline">>
      [] c = "s" -> <<"blank">>
      [] OTHER -> <<c>>

(* A byte that only says how to take the others: an unescaped backslash or *)
(* double quote, and the first quote of a pair.                            *)
IsMark(i) ==
    \/ style \in EscapeStyles /\ Body[i] \in {"backslash", "quote"}
    \/ style \in QuoteStyles /\ Body[i] = "quote" /\ ~Odd(RunBefore("quote", i))

Meaning(i) ==
    IF IsBreak(i) THEN IF preserve = 0 THEN <<>> ELSE <<"newline">>
    ELSE IF IsIndent(i) THEN <<>>
    ELSE IF WithinCode(i) THEN CodeMeaning(i)
    ELSE IF IsEscaped(i) THEN EscapeMeaning(Body[i])
    ELSE IF IsMark(i) THEN <<>>
    ELSE <<Body[i]>>

MeaningOfAll == FlattenSeq([i \in Places |-> Meaning(i)])

(* Plaintext ends with its last byte that is not a spacer. *)
WithoutTail(t) ==
    CHOOSE u \in {SubSeq(t, 1, k) : k \in 0..Len(t)} :
        /\ u # <<>> => Last(u) \notin Spacers
        /\ \A i \in (Len(u) + 1)..Len(t) : t[i] \in Spacers

-----------------------------------------------------------------------------
(* Properties. *)

(* The value of a plain or double-quoted scalar is what its text means:     *)
(* escapes, codes, folded lines and preserved ones, in any mixture.  Only   *)
(* plaintext that means nothing but white space can break the string.       *)
(* Meaning is the code's here: for <"..."> LSCL_standard.tex:226-227 says   *)
(* that all spaces are saved, and IsIndent drops those that begin a line.   *)
EscapesMean ==
    /\ pc = "done" /\ style \in EscapeStyles =>
          accum = IF style = "plain" THEN WithoutTail(MeaningOfAll) ELSE MeaningOfAll
    /\ pc = "broken" => style = "plain" /\ WithoutTail(MeaningOfAll) = <<>>

(* The same of single-quoted scalars and scripts, where a quote is doubled, *)
(* and with the same disagreement about the blanks of <'...'>.              *)
QuotesMean ==
    pc = "done" /\ style \in QuoteStyles => accum = MeaningOfAll

(* An exception is thrown for a byte that has no place in a code and for    *)
(* nothing else: what the lexer takes for quoted text the functions do too. *)
ThrowsForCodes ==
    pc # "scan" =>
        (pc = "threw" <=> \E i \in Places : WithinCode(i) /\ ~LegalInCode(i))

(* "Erase white spaces in the end of unquoted string": a letter is not      *)
(* taken for white space, not even in part.                                 *)
LettersWhole == pc = "done" /\ accum # <<>> => Last(accum) # "lead"
=============================================================================
