------------------------------- MODULE Utf8Forms -------------------------------
(***************************************************************************)
(* The forms of UTF-8 as uint32_to_utf8 writes them and utf8_to_uint32     *)
(* tells them apart: what the bytes of a symbol are.  The conversions of   *)
(* whole texts are the subject of Utf8; a scalar's hexadecimal codes use   *)
(* the same forms.                                                         *)
(***************************************************************************)
EXTENDS Integers

(* The forms: a sequence of n bytes has a head with a mark and room for one *)
(* of HeadValues[n] values, and n - 1 additions of six bits each.  A        *)
(* definition marked "slip" is a plausible mistake in the one that follows. *)

Forms      == 1..6
Limit      == <<\h7F, \h7FF, \hFFFF, \h1FFFFF, \h3FFFFFF, \h7FFFFFFF>>
HeadMark   == <<0, \hC0, \hE0, \hF0, \hF8, \hFC>>
HeadValues == <<128, 32, 16, 8, 4, 2>>
Weight     == <<1, 64, 4096, 262144, 16777216, 1073741824>>

FormWide(e) ==                              \* slip: 0xFFF for 0x7FF
    CHOOSE n \in Forms : /\ e <= Limit[n] + (IF n = 2 THEN 2048 ELSE 0)
                         /\ \A m \in 1..(n - 1) : e > Limit[m]
FormLength(e) == CHOOSE n \in Forms : e <= Limit[n] /\ \A m \in 1..(n - 1) : e > Limit[m]

(* The k-th byte of symbol e. *)
Byte(e, k) ==
    LET n == FormLength(e)
    IN IF k = 1 THEN HeadMark[n] + ((e \div Weight[n]) % HeadValues[n])
       ELSE 128 + ((e \div Weight[n - k + 1]) % 64)

Encoded(e) == [k \in 1..FormLength(e) |-> Byte(e, k)]

(* The length of the sequence that byte b begins; 0 for an addition. *)
Begins(b, n) == HeadMark[n] <= b /\ b < HeadMark[n] + HeadValues[n]
HeadForm(b) ==
    IF \E n \in Forms : Begins(b, n) THEN CHOOSE n \in Forms : Begins(b, n) ELSE 0

IsAddition(b) == 128 <= b /\ b < 192
=============================================================================
