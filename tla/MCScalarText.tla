----------------------------- MODULE MCScalarText -----------------------------
(***************************************************************************)
(* Every token of a few bytes over the part of the alphabet that its style *)
(* tells apart: six with escapes and codes, seven with doubled quotes.     *)
(***************************************************************************)
EXTENDS ScalarText

EscapeBytes ==
    {"quote", "blank", "newline", "backslash", "slash", "x", "n", "semicolon"} \cup HexDigits
QuoteBytes == {"quote", "blank", "newline", "backslash", "lead"}

MCAlphabet ==
    [s \in Styles |->
        CASE s = "double" -> EscapeBytes
          [] s = "plain" -> EscapeBytes \cup {"s", "lead"}
          [] OTHER -> QuoteBytes]
MCMaxLength == [s \in Styles |-> CASE s \in {"double", "plain"} -> 6 [] OTHER -> 7]
=============================================================================
