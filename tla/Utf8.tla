--------------------------------- MODULE Utf8 ---------------------------------
(***************************************************************************)
(* The conversions between symbols (std::wstring, std::vector<uint32_t>)   *)
(* and UTF-8 bytes: uint32_to_utf8 writes a text symbol by symbol,         *)
(* utf8_to_uint32 reads it byte by byte.  In between one byte may get lost,*)
(* as happens to the last byte of a trimmed scalar or at the end of script *)
(* output that is cut.                                                     *)
(*                                                                         *)
(* Symbols have up to 31 bits, the limit the code names for wchar_t; its   *)
(* form of seven bytes, for the thirty-second bit, is left out.            *)
(***************************************************************************)
EXTENDS Utf8Forms, Sequences

CONSTANTS
    Symbols,     \* the symbols texts are made of
    MaxSymbols   \* bound: symbols in one text

Symbol31   == {e \in Nat : e <= \h7FFFFFFF}
ByteValues == {b \in Nat : b < 254}

ASSUME SymbolsAssumption    == Symbols \subseteq Symbol31
ASSUME MaxSymbolsAssumption == MaxSymbols \in Nat

VARIABLES
    phase,            \* what is going on: write, read or done
    text,             \* the symbols written (inp of uint32_to_utf8)
    bytes,            \* its target, and the inp of utf8_to_uint32
    start,            \* history: length of bytes before and after each symbol
    lost,             \* the place of the byte that got lost, 0 if none was
    i,                \* the next byte to read
    current_symbol,   \* the value of the sequence begun
    missing,          \* the bytes it still lacks
    target            \* the symbols read

vars == <<phase, text, bytes, start, lost, i, current_symbol, missing, target>>

-----------------------------------------------------------------------------
(* A definition marked "slip" is a plausible mistake in the one that        *)
(* follows it; no action uses it.                                          *)

(* Where reading goes on after a sequence that byte i or the end cut off. *)
AfterCutKept == i                           \* slip: the byte is read again
AfterCutTwice == i + 2                      \* slip: incremented before the break, too
AfterCut == i + 1

-----------------------------------------------------------------------------
TypeOK ==
    /\ phase \in {"write", "read", "done"}
    /\ text \in Seq(Symbols) /\ Len(text) <= MaxSymbols
    /\ bytes \in Seq(ByteValues)
    /\ start \in Seq(Nat)
    /\ lost \in Nat
    /\ i \in 1..(Len(bytes) + 2)
    /\ current_symbol \in Symbol31 /\ missing \in 0..5
    /\ target \in Seq(Symbol31)

Init ==
    /\ phase = "write"
    /\ text = <<>>
    /\ bytes = <<>>
    /\ start = <<0>>
    /\ lost = 0
    /\ i = 1
    /\ current_symbol = 0
    /\ missing = 0
    /\ target = <<>>

(* One turn of the loop of uint32_to_utf8. *)
Write(e) ==
    /\ phase = "write"
    /\ Len(text) < MaxSymbols
    /\ text' = Append(text, e)
    /\ bytes' = bytes \o Encoded(e)
    /\ start' = Append(start, Len(bytes'))
    /\ UNCHANGED <<phase, lost, i, current_symbol, missing, target>>

Arrive ==
    /\ phase = "write"
    /\ phase' = "read"
    /\ UNCHANGED <<text, bytes, start, lost, i, current_symbol, missing, target>>

(* The byte at place k gets lost on the way. *)
Lose(k) ==
    /\ phase = "write"
    /\ phase' = "read"
    /\ lost' = k
    /\ bytes' = SubSeq(bytes, 1, k - 1) \o SubSeq(bytes, k + 1, Len(bytes))
    /\ UNCHANGED <<text, start, i, current_symbol, missing, target>>

(* utf8_to_uint32 at the beginning of a sequence: an addition is skipped,  *)
(* a symbol of one byte is stored, a longer sequence is begun.             *)
SkipAddition ==
    /\ phase = "read" /\ missing = 0 /\ i <= Len(bytes)
    /\ HeadForm(bytes[i]) = 0
    /\ i' = i + 1
    /\ UNCHANGED <<phase, text, bytes, start, lost, current_symbol, missing, target>>

ReadSingle ==
    /\ phase = "read" /\ missing = 0 /\ i <= Len(bytes)
    /\ HeadForm(bytes[i]) = 1
    /\ target' = Append(target, bytes[i] % HeadValues[1])
    /\ i' = i + 1
    /\ UNCHANGED <<phase, text, bytes, start, lost, current_symbol, missing>>

ReadHead ==
    /\ phase = "read" /\ missing = 0 /\ i <= Len(bytes)
    /\ HeadForm(bytes[i]) > 1
    /\ current_symbol' = bytes[i] % HeadValues[HeadForm(bytes[i])]
    /\ missing' = HeadForm(bytes[i]) - 1
    /\ i' = i + 1
    /\ UNCHANGED <<phase, text, bytes, start, lost, target>>

(* Within a sequence: an addition is taken in, and anything else, or the    *)
(* end, cuts the sequence; what there is of it is stored.                   *)
ReadAddition ==
    /\ phase = "read" /\ missing > 0 /\ i <= Len(bytes)
    /\ IsAddition(bytes[i])
    /\ current_symbol' = (current_symbol * 64) + (bytes[i] % 64)
    /\ missing' = missing - 1
    /\ target' = IF missing = 1 THEN Append(target, current_symbol') ELSE target
    /\ i' = i + 1
    /\ UNCHANGED <<phase, text, bytes, start, lost>>

ReadCut ==
    /\ phase = "read" /\ missing > 0
    /\ i <= Len(bytes) => ~IsAddition(bytes[i])
    /\ target' = Append(target, current_symbol)
    /\ missing' = 0
    /\ i' = AfterCut
    /\ UNCHANGED <<phase, text, bytes, start, lost, current_symbol>>

Finish ==
    /\ phase = "read" /\ missing = 0 /\ i > Len(bytes)
    /\ phase' = "done"
    /\ UNCHANGED <<text, bytes, start, lost, i, current_symbol, missing, target>>

Read == SkipAddition \/ ReadSingle \/ ReadHead \/ ReadAddition \/ ReadCut \/ Finish

Next ==
    \/ \E e \in Symbols : Write(e)
    \/ Arrive
    \/ \E k \in 1..Len(bytes) : Lose(k)
    \/ Read

Spec == Init /\ [][Next]_vars

-----------------------------------------------------------------------------
(* Properties. *)

(* What uint32_to_utf8 wrote utf8_to_uint32 reads back, whatever forms      *)
(* follow each other.                                                       *)
RoundTrip == phase = "done" /\ lost = 0 => target = text

(* A lost byte costs its own symbol and at most the one after it, and       *)
(* reading is in step again behind that: when it was a head nothing but its *)
(* symbol is missing; when it was an addition a smaller symbol stands in    *)
(* its place, and the next one, whose head was taken for the end of the cut *)
(* sequence and passed over, is missing.                                    *)
DamageIsLocal ==
    phase = "done" /\ lost # 0 =>
        \E j \in 1..Len(text) :
            /\ start[j] < lost /\ lost <= start[j + 1]
            /\ IF lost = start[j] + 1
               THEN target = SubSeq(text, 1, j - 1) \o SubSeq(text, j + 1, Len(text))
               ELSE /\ j <= Len(target) /\ target[j] < text[j]
                    /\ target = SubSeq(text, 1, j - 1) \o <<target[j]>>
                                \o SubSeq(text, j + 2, Len(text))
=============================================================================
