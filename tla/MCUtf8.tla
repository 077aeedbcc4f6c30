-------------------------------- MODULE MCUtf8 --------------------------------
(***************************************************************************)
(* Texts of symbols from both ends of every form.                          *)
(***************************************************************************)
EXTENDS Utf8

MCSymbols ==
    {0, 127, 128, 2047, 2048, 65535, 65536, 2097151, 2097152, 67108863, 67108864, 2147483647}
=============================================================================
