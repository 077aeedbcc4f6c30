----------------------------- MODULE Utf8_proofs -----------------------------
(***************************************************************************)
(* The round trip through Utf8, and what a lost byte costs, for every text *)
(* over any set of symbols of 31 bits.                                     *)
(*                                                                         *)
(* The arithmetic of the forms is in the first part.  The invariant of the *)
(* second says where the bytes of every symbol are, and, while they are    *)
(* read, that the value collected is the symbol without the digits (of six *)
(* bits) that are still missing.  The third part adds where the reader can *)
(* be once a byte is lost: before it, within the symbol it tore, passing   *)
(* over what is left of the symbol that is gone, or in step again one      *)
(* symbol behind.                                                          *)
(***************************************************************************)
EXTENDS Utf8, TLAPS

-----------------------------------------------------------------------------
(* The forms. *)

(* One of the forms holds every symbol. *)
LEMMA FormFacts ==
  ASSUME NEW e \in Symbol31
  PROVE  /\ FormLength(e) \in Forms /\ e <= Limit[FormLength(e)]
         /\ \A m \in 1..(FormLength(e) - 1) : e > Limit[m]
  <1>1. \E n \in Forms : e <= Limit[n] /\ \A m \in 1..(n - 1) : e > Limit[m]
    <2>1. CASE e <= 127
      BY SMT, <2>1 DEF Forms, Limit, Symbol31
    <2>2. CASE e > 127 /\ e <= 2047
      BY SMT, <2>2 DEF Forms, Limit, Symbol31
    <2>3. CASE e > 2047 /\ e <= 65535
      BY SMT, <2>3 DEF Forms, Limit, Symbol31
    <2>4. CASE e > 65535 /\ e <= 2097151
      BY SMT, <2>4 DEF Forms, Limit, Symbol31
    <2>5. CASE e > 2097151 /\ e <= 67108863
      BY SMT, <2>5 DEF Forms, Limit, Symbol31
    <2>6. CASE e > 67108863
      BY SMT, <2>6 DEF Forms, Limit, Symbol31
    <2>7. QED
      BY SMT, <2>1, <2>2, <2>3, <2>4, <2>5, <2>6 DEF Symbol31
  <1>2. QED
    BY <1>1 DEF FormLength

(* The head of a form has room for the top digit of its symbols. *)
LEMMA HeadRoom ==
  ASSUME NEW e \in Symbol31, NEW n \in Forms, e <= Limit[n]
  PROVE  /\ e \div Weight[n] \in Nat
         /\ e \div Weight[n] < HeadValues[n]
  <1>1. CASE n = 1
    BY SMT, <1>1 DEF Symbol31, Limit, Weight, HeadValues
  <1>2. CASE n = 2
    BY SMT, <1>2 DEF Symbol31, Limit, Weight, HeadValues
  <1>3. CASE n = 3
    BY SMT, <1>3 DEF Symbol31, Limit, Weight, HeadValues
  <1>4. CASE n = 4
    BY SMT, <1>4 DEF Symbol31, Limit, Weight, HeadValues
  <1>5. CASE n = 5
    BY SMT, <1>5 DEF Symbol31, Limit, Weight, HeadValues
  <1>6. CASE n = 6
    BY SMT, <1>6 DEF Symbol31, Limit, Weight, HeadValues
  <1>7. QED
    BY SMT, <1>1, <1>2, <1>3, <1>4, <1>5, <1>6 DEF Forms

(* The last digit put behind the others gives the number back. *)
LEMMA Digit ==
  ASSUME NEW a \in Nat, NEW b \in Nat, 64 * b <= a, a < 64 * b + 64
  PROVE  (b * 64) + (a % 64) = a
  BY SMT

LEMMA Shift ==
  ASSUME NEW e \in Symbol31, NEW m \in 1..5
  PROVE  ((e \div Weight[m + 1]) * 64) + ((e \div Weight[m]) % 64) = e \div Weight[m]
  <1>1. /\ e \div Weight[m] \in Nat /\ e \div Weight[m + 1] \in Nat
        /\ 64 * (e \div Weight[m + 1]) <= e \div Weight[m]
        /\ e \div Weight[m] < 64 * (e \div Weight[m + 1]) + 64
    <2>1. CASE m = 1
      BY SMT, <2>1 DEF Symbol31, Weight
    <2>2. CASE m = 2
      BY SMT, <2>2 DEF Symbol31, Weight
    <2>3. CASE m = 3
      BY SMT, <2>3 DEF Symbol31, Weight
    <2>4. CASE m = 4
      BY SMT, <2>4 DEF Symbol31, Weight
    <2>5. CASE m = 5
      BY SMT, <2>5 DEF Symbol31, Weight
    <2>6. QED
      BY SMT, <2>1, <2>2, <2>3, <2>4, <2>5
  <1>2. QED
    BY <1>1, Digit

(* No two heads are alike, and no head is an addition. *)
LEMMA HeadsDiffer ==
  ASSUME NEW b \in Nat, NEW n \in Forms, Begins(b, n)
  PROVE  HeadForm(b) = n /\ b \in ByteValues
  <1>1. \A m \in Forms : Begins(b, m) => m = n
    BY SMT DEF Forms, Begins, HeadMark, HeadValues
  <1>2. b < 254
    BY SMT DEF Forms, Begins, HeadMark, HeadValues
  <1>3. QED
    BY <1>1, <1>2 DEF HeadForm, ByteValues

LEMMA HeadByte ==
  ASSUME NEW e \in Symbol31
  PROVE  LET b == Byte(e, 1)
             n == FormLength(e)
         IN b \in ByteValues /\ HeadForm(b) = n /\ b % HeadValues[n] = e \div Weight[n]
  <1> DEFINE n == FormLength(e)
             b == Byte(e, 1)
             d == e \div Weight[n]
  <1>1. n \in Forms /\ e <= Limit[n]
    BY FormFacts
  <1> HIDE DEF n
  <1>2. d \in Nat /\ d < HeadValues[n]
    BY <1>1, HeadRoom
  <1>3. b = HeadMark[n] + (d % HeadValues[n])
    BY DEF Byte, n
  <1> HIDE DEF d, b
  <1>4. d % HeadValues[n] = d /\ b \in Nat /\ Begins(b, n) /\ b % HeadValues[n] = d
    <2>1. CASE n = 1
      BY SMT, <2>1, <1>2, <1>3 DEF Begins, HeadMark, HeadValues
    <2>2. CASE n = 2
      BY SMT, <2>2, <1>2, <1>3 DEF Begins, HeadMark, HeadValues
    <2>3. CASE n = 3
      BY SMT, <2>3, <1>2, <1>3 DEF Begins, HeadMark, HeadValues
    <2>4. CASE n = 4
      BY SMT, <2>4, <1>2, <1>3 DEF Begins, HeadMark, HeadValues
    <2>5. CASE n = 5
      BY SMT, <2>5, <1>2, <1>3 DEF Begins, HeadMark, HeadValues
    <2>6. CASE n = 6
      BY SMT, <2>6, <1>2, <1>3 DEF Begins, HeadMark, HeadValues
    <2>7. QED
      BY SMT, <1>1, <2>1, <2>2, <2>3, <2>4, <2>5, <2>6 DEF Forms
  <1>5. HeadForm(b) = n /\ b \in ByteValues
    BY <1>1, <1>4, HeadsDiffer
  <1>6. QED
    BY <1>4, <1>5 DEF n, b, d

LEMMA AdditionByte ==
  ASSUME NEW e \in Symbol31, NEW k \in 2..FormLength(e)
  PROVE  LET b == Byte(e, k)
         IN /\ b \in ByteValues /\ IsAddition(b)
            /\ b % 64 = (e \div Weight[FormLength(e) - k + 1]) % 64
  <1> DEFINE m == FormLength(e) - k + 1
             d == (e \div Weight[m]) % 64
  <1>1. FormLength(e) \in Forms
    BY FormFacts
  <1>2. m \in 1..5
    BY SMT, <1>1 DEF Forms
  <1> HIDE DEF m
  <1>3. e \div Weight[m] \in Nat
    <2>1. Weight[m] \in Nat \ {0}
      BY SMT, <1>2 DEF Weight
    <2>2. QED
      BY SMT, <2>1 DEF Symbol31
  <1>4. d \in Nat /\ d < 64
    BY SMT, <1>3
  <1>5. Byte(e, k) = 128 + d
    BY SMT, <1>1 DEF Byte, m, Forms
  <1> HIDE DEF d
  <1>6. (128 + d) % 64 = d
    BY SMT, <1>4
  <1>7. QED
    BY SMT, <1>4, <1>5, <1>6 DEF IsAddition, ByteValues, d, m

-----------------------------------------------------------------------------
(* The invariant. *)

(* Where the bytes of the symbols are, as long as none is lost. *)
Placed ==
    /\ Len(start) = Len(text) + 1
    /\ start[1] = 0
    /\ lost = 0 =>
         /\ start[Len(text) + 1] = Len(bytes)
         /\ \A j \in 1..Len(text) :
              /\ start[j + 1] = start[j] + FormLength(text[j])
              /\ start[j + 1] <= Len(bytes)
              /\ \A k \in 1..FormLength(text[j]) : bytes[start[j] + k] = Byte(text[j], k)

(* What can still be taken in fits into the symbol. *)
Room == <<2147483648, 33554432, 524288, 8192, 128, 2>>
Fits ==
    /\ phase = "write" => i = 1 /\ missing = 0 /\ target = <<>> /\ lost = 0
    /\ missing > 0 => current_symbol < Room[missing + 1] /\ i <= Len(bytes) + 1

(* The reader's place, as long as no byte was lost. *)
InStep ==
    lost = 0 =>
        /\ Len(target) <= Len(text)
        /\ \A j \in 1..Len(target) : target[j] = text[j]
        /\ missing = 0 => i = start[Len(target) + 1] + 1
        /\ missing > 0 =>
             LET e == text[Len(target) + 1]
             IN /\ Len(target) < Len(text)
                /\ missing < FormLength(e)
                /\ i = start[Len(target) + 1] + (FormLength(e) - missing) + 1
                /\ current_symbol = e \div Weight[missing + 1]
        /\ phase = "done" => Len(target) = Len(text)

IInv == TypeOK /\ Placed /\ Fits /\ InStep

LEMMA InitIInv == Init => IInv
  BY SMT, MaxSymbolsAssumption
  DEF Init, IInv, TypeOK, Placed, Fits, InStep, Symbol31

(* Writing a symbol puts its bytes behind the others. *)
LEMMA WriteIInv ==
  ASSUME IInv, NEW e \in Symbols, Write(e)
  PROVE  IInv'
  <1>1. e \in Symbol31
    BY SymbolsAssumption
  <1>2. FormLength(e) \in Forms
    BY <1>1, FormFacts
  <1>3. /\ Encoded(e) \in Seq(ByteValues)
        /\ Len(Encoded(e)) = FormLength(e)
        /\ \A k \in 1..FormLength(e) : Encoded(e)[k] = Byte(e, k)
    <2>1. \A k \in 1..FormLength(e) : Byte(e, k) \in ByteValues
      <3> SUFFICES ASSUME NEW k \in 1..FormLength(e) PROVE Byte(e, k) \in ByteValues
        OBVIOUS
      <3>1. CASE k = 1
        BY <3>1, <1>1, HeadByte
      <3>2. CASE k # 1
        <4>1. k \in 2..FormLength(e)
          BY SMT, <3>2, <1>2 DEF Forms
        <4>2. QED
          BY <4>1, <1>1, AdditionByte
      <3>3. QED
        BY <3>1, <3>2
    <2>2. QED
      BY SMT, <2>1, <1>2 DEF Encoded, Forms
  <1>4. /\ phase = "write" /\ phase' = "write" /\ lost = 0 /\ lost' = 0
        /\ text' = Append(text, e) /\ Len(text) < MaxSymbols
        /\ bytes' = bytes \o Encoded(e)
        /\ start' = Append(start, Len(bytes'))
        /\ i = 1 /\ i' = 1 /\ missing = 0 /\ missing' = 0
        /\ target = <<>> /\ target' = <<>> /\ current_symbol' = current_symbol
    BY DEF Write, IInv, Fits
  <1>5. /\ text \in Seq(Symbols) /\ bytes \in Seq(ByteValues) /\ start \in Seq(Nat)
        /\ current_symbol \in Symbol31
    BY DEF IInv, TypeOK
  <1>6. /\ text' \in Seq(Symbols) /\ Len(text') = Len(text) + 1
        /\ bytes' \in Seq(ByteValues) /\ Len(bytes') = Len(bytes) + FormLength(e)
        /\ start' \in Seq(Nat) /\ Len(start') = Len(start) + 1
    BY SMTT(30), <1>2, <1>3, <1>4, <1>5 DEF Forms
  <1>7. TypeOK'
    BY SMT, <1>4, <1>5, <1>6, MaxSymbolsAssumption DEF TypeOK
  <1>8. Placed'
    <2>1. /\ Len(start) = Len(text) + 1 /\ start[1] = 0
          /\ start[Len(text) + 1] = Len(bytes)
      BY <1>4 DEF IInv, Placed
    <2>2. \A j \in 1..(Len(text) + 1) : start'[j] = start[j]
      BY SMT, <2>1, <1>4, <1>5
    <2>3. start'[Len(text) + 2] = Len(bytes')
      BY SMT, <2>1, <1>4, <1>5, <1>6
    <2>4. ASSUME NEW j \in 1..Len(text')
          PROVE  /\ start'[j + 1] = start'[j] + FormLength(text'[j])
                 /\ start'[j + 1] <= Len(bytes')
                 /\ \A k \in 1..FormLength(text'[j]) : bytes'[start'[j] + k] = Byte(text'[j], k)
      <3>1. CASE j <= Len(text)
        <4>1. j \in 1..Len(text) /\ text'[j] = text[j]
          BY SMT, <3>1, <1>4, <1>5, <1>6
        <4>2. /\ start[j + 1] = start[j] + FormLength(text[j])
              /\ start[j + 1] <= Len(bytes)
              /\ \A k \in 1..FormLength(text[j]) : bytes[start[j] + k] = Byte(text[j], k)
          BY <4>1, <1>4 DEF IInv, Placed
        <4>3. start'[j] = start[j] /\ start'[j + 1] = start[j + 1]
          BY SMT, <4>1, <2>2, <1>5
        <4>4. start[j] \in Nat /\ FormLength(text[j]) \in Nat
          <5>1. text[j] \in Symbol31
            BY SMT, <4>1, <1>5, SymbolsAssumption
          <5>2. FormLength(text[j]) \in Forms
            BY <5>1, FormFacts
          <5>3. start[j] \in Nat
            BY SMT, <4>1, <2>1, <1>5
          <5>4. QED
            BY <5>2, <5>3 DEF Forms
        <4>5. ASSUME NEW k \in 1..FormLength(text[j])
              PROVE  bytes'[start[j] + k] = bytes[start[j] + k]
          <5>1. start[j] + k \in 1..Len(bytes)
            <6>1. start[j] + FormLength(text[j]) <= Len(bytes)
              BY <4>2
            <6>2. Len(bytes) \in Nat
              BY SMT, <1>5
            <6>3. QED
              BY SMT, <6>1, <6>2, <4>4
          <5>2. QED
            BY SMT, <5>1, <1>3, <1>4, <1>5
        <4>6. start[j + 1] <= Len(bytes')
          <5>1. start[j + 1] <= Len(bytes) /\ start[j + 1] \in Nat
            BY SMT, <4>2, <4>4
          <5>2. Len(bytes) \in Nat
            BY SMT, <1>5
          <5>3. QED
            BY SMTT(30), <5>1, <5>2, <1>2, <1>6 DEF Forms
        <4>7. \A k \in 1..FormLength(text'[j]) : bytes'[start'[j] + k] = Byte(text'[j], k)
          BY <4>1, <4>2, <4>3, <4>5
        <4>8. QED
          BY <4>1, <4>2, <4>3, <4>6, <4>7
      <3>2. CASE j = Len(text) + 1
        <4>1. text'[j] = e
          BY SMT, <3>2, <1>4, <1>5
        <4>2. start'[j] = Len(bytes) /\ start'[j + 1] = Len(bytes')
          BY SMT, <3>2, <2>1, <2>2, <2>3, <1>5
        <4>3. ASSUME NEW k \in 1..FormLength(e)
              PROVE  bytes'[Len(bytes) + k] = Byte(e, k)
          BY SMTT(30), <1>3, <1>4, <1>5
        <4>4. QED
          BY SMT, <4>1, <4>2, <4>3, <1>2, <1>5, <1>6 DEF Forms
      <3>3. QED
        BY SMT, <3>1, <3>2, <1>5, <1>6
    <2>5. Len(start') = Len(text') + 1 /\ start'[1] = 0 /\ start'[Len(text') + 1] = Len(bytes')
      BY SMT, <2>1, <2>2, <2>3, <1>5, <1>6
    <2>6. QED
      BY <2>4, <2>5 DEF Placed
  <1>9. Fits'
    BY SMT, <1>4 DEF Fits
  <1>10. InStep'
    <2>1. i' = start'[1] + 1
      BY SMT, <1>4, <1>8 DEF Placed
    <2>2. QED
      BY SMT, <2>1, <1>4, <1>6, <1>5 DEF InStep
  <1>11. QED
    BY <1>7, <1>8, <1>9, <1>10 DEF IInv

(* At the beginning of a sequence stands the head of the next symbol.       *)
LEMMA AtHead ==
  ASSUME IInv, lost = 0, missing = 0, i <= Len(bytes)
  PROVE  LET e == text[Len(target) + 1]
         IN /\ Len(target) < Len(text) /\ e \in Symbol31
            /\ i = start[Len(target) + 1] + 1
            /\ bytes[i] = Byte(e, 1)
  <1> DEFINE n == Len(target) + 1
  <1>1. /\ text \in Seq(Symbols) /\ bytes \in Seq(ByteValues) /\ start \in Seq(Nat)
        /\ target \in Seq(Symbol31) /\ Len(target) <= Len(text)
        /\ i = start[n] + 1 /\ start[Len(text) + 1] = Len(bytes)
    BY DEF IInv, TypeOK, InStep, Placed
  <1>2. Len(target) < Len(text)
    BY SMT, <1>1
  <1>3. n \in 1..Len(text)
    BY SMT, <1>1, <1>2
  <1>4. text[n] \in Symbol31
    BY SMT, <1>1, <1>3, SymbolsAssumption
  <1>5. \A k \in 1..FormLength(text[n]) : bytes[start[n] + k] = Byte(text[n], k)
    BY <1>3 DEF IInv, Placed
  <1>6. 1 \in 1..FormLength(text[n])
    BY SMT, <1>4, FormFacts DEF Forms
  <1>7. QED
    BY <1>1, <1>2, <1>4, <1>5, <1>6

LEMMA AdditionPlace ==
  ASSUME NEW p \in Nat, NEW f \in 1..6, NEW m \in 1..5, m < f, NEW l \in Nat, p + f <= l
  PROVE  /\ f - m + 1 \in 2..f /\ f - m + 1 \in 1..f
         /\ p + (f - m) + 1 = p + (f - m + 1)
         /\ p + (f - m) + 1 <= l
  BY SMT

(* Within a sequence stands the next addition of the symbol begun.          *)
LEMMA AtAddition ==
  ASSUME IInv, lost = 0, missing > 0
  PROVE  LET e == text[Len(target) + 1]
         IN /\ i <= Len(bytes) /\ e \in Symbol31
            /\ FormLength(e) - missing + 1 \in 2..FormLength(e)
            /\ bytes[i] = Byte(e, FormLength(e) - missing + 1)
  <1> DEFINE n == Len(target) + 1
             f == FormLength(text[n])
             k == f - missing + 1
  <1>1. /\ text \in Seq(Symbols) /\ bytes \in Seq(ByteValues) /\ start \in Seq(Nat)
        /\ target \in Seq(Symbol31) /\ Len(target) < Len(text) /\ missing \in 0..5
        /\ missing < f
        /\ i = start[n] + (f - missing) + 1
        /\ Len(start) = Len(text) + 1
    BY DEF IInv, TypeOK, InStep, Placed
  <1>2. n \in 1..Len(text)
    BY SMT, <1>1
  <1>3. text[n] \in Symbol31
    BY SMT, <1>1, <1>2, SymbolsAssumption
  <1>4. f \in 1..6
    BY <1>3, FormFacts DEF Forms
  <1>5. /\ start[n + 1] = start[n] + f
        /\ start[n + 1] <= Len(bytes)
        /\ \A m \in 1..f : bytes[start[n] + m] = Byte(text[n], m)
    BY <1>2 DEF IInv, Placed
  <1>6. start[n] \in Nat /\ Len(bytes) \in Nat
    BY SMT, <1>1, <1>2
  <1>7. start[n] + f <= Len(bytes)
    BY <1>5
  <1> HIDE DEF f
  <1>8. k \in 2..f /\ k \in 1..f /\ i = start[n] + k /\ i <= Len(bytes)
    <2>1. missing \in 1..5
      BY SMT, <1>1
    <2>2. QED
      BY <2>1, <1>1, <1>4, <1>6, <1>7, AdditionPlace
  <1>9. bytes[start[n] + k] = Byte(text[n], k)
    BY <1>5, <1>8
  <1>10. QED
    BY <1>3, <1>8, <1>9 DEF f

LEMMA ArriveIInv == ASSUME IInv, Arrive PROVE IInv'
  <1>1. TypeOK' /\ Placed' /\ Fits'
    BY SMT DEF IInv, Arrive, TypeOK, Placed, Fits
  <1>2. InStep'
    BY SMT DEF IInv, Arrive, InStep, Fits
  <1>3. QED
    BY <1>1, <1>2 DEF IInv

LEMMA LoseIInv ==
  ASSUME IInv, NEW k \in 1..Len(bytes), Lose(k)
  PROVE  IInv'
  <1>1. /\ i = 1 /\ i' = 1 /\ missing = 0 /\ missing' = 0 /\ phase' = "read" /\ lost' = k
        /\ UNCHANGED <<text, start, current_symbol, target>>
        /\ bytes \in Seq(ByteValues)
    BY DEF Lose, IInv, Fits, TypeOK
  <1>2. bytes' \in Seq(ByteValues)
    <2>1. SubSeq(bytes, 1, k - 1) \in Seq(ByteValues)
      BY SMT, <1>1
    <2>2. SubSeq(bytes, k + 1, Len(bytes)) \in Seq(ByteValues)
      BY SMT, <1>1
    <2>3. QED
      BY SMT, <2>1, <2>2 DEF Lose
  <1>3. k \in Nat \ {0}
    BY SMT, <1>1
  <1>4. TypeOK'
    BY SMT, <1>1, <1>2, <1>3 DEF IInv, TypeOK
  <1>5. Placed' /\ Fits' /\ InStep'
    BY SMT, <1>1, <1>3 DEF IInv, Placed, Fits, InStep
  <1>6. QED
    BY <1>4, <1>5 DEF IInv

LEMMA SkipAdditionIInv == ASSUME IInv, SkipAddition PROVE IInv'
  <1>1. lost # 0
    <2>1. SUFFICES ASSUME lost = 0 PROVE FALSE
      OBVIOUS
    <2>2. text[Len(target) + 1] \in Symbol31 /\ bytes[i] = Byte(text[Len(target) + 1], 1)
      BY <2>1, AtHead DEF SkipAddition
    <2>3. HeadForm(bytes[i]) \in Forms
      BY <2>2, HeadByte, FormFacts
    <2>4. QED
      BY SMT, <2>3 DEF SkipAddition, Forms
  <1>2. TypeOK' /\ Placed' /\ Fits' /\ InStep'
    BY SMT, <1>1 DEF SkipAddition, IInv, TypeOK, Placed, Fits, InStep
  <1>3. QED
    BY <1>2 DEF IInv

LEMMA FinishIInv == ASSUME IInv, Finish PROVE IInv'
  <1>1. TypeOK' /\ Placed' /\ Fits'
    BY SMT DEF IInv, Finish, TypeOK, Placed, Fits
  <1>2. ASSUME lost = 0 PROVE Len(target) = Len(text)
    <2>1. /\ text \in Seq(Symbols) /\ start \in Seq(Nat) /\ target \in Seq(Symbol31)
          /\ Len(target) <= Len(text) /\ i = start[Len(target) + 1] + 1
          /\ Len(start) = Len(text) + 1 /\ bytes \in Seq(ByteValues) /\ i > Len(bytes)
      BY <1>2 DEF IInv, TypeOK, Placed, InStep, Finish
    <2>2. SUFFICES ASSUME Len(target) < Len(text) PROVE FALSE
      BY SMT, <2>1
    <2> DEFINE n == Len(target) + 1
    <2>3. n \in 1..Len(text)
      BY SMT, <2>1, <2>2
    <2>4. text[n] \in Symbol31
      BY SMT, <2>1, <2>3, SymbolsAssumption
    <2>5. FormLength(text[n]) \in Forms
      BY <2>4, FormFacts
    <2>6. start[n] + FormLength(text[n]) <= Len(bytes)
      BY <2>3, <1>2 DEF IInv, Placed
    <2>7. start[n] \in Nat
      BY SMT, <2>1, <2>3
    <2>8. QED
      BY SMT, <2>1, <2>5, <2>6, <2>7 DEF Forms
  <1>3. InStep'
    BY <1>2 DEF IInv, Finish, InStep
  <1>4. QED
    BY <1>1, <1>3 DEF IInv

(* Reading the head of a sequence. *)
LEMMA AnyHead ==
  ASSUME NEW b \in Nat
  PROVE  /\ HeadForm(b) \in 0..6
         /\ \A n \in Forms : b % HeadValues[n] \in Symbol31 /\ b % HeadValues[n] < Room[n]
  <1>1. HeadForm(b) \in Forms \cup {0}
    BY DEF HeadForm
  <1>2. \A n \in Forms : HeadValues[n] \in 1..128 /\ HeadValues[n] <= Room[n]
    BY SMT DEF Forms, HeadValues, Room
  <1>3. ASSUME NEW n \in Forms PROVE b % HeadValues[n] \in Nat /\ b % HeadValues[n] < HeadValues[n]
    BY SMT, <1>2
  <1>4. \A n \in Forms : Room[n] \in Nat
    BY SMT DEF Forms, Room
  <1>5. \A r \in Nat, h \in 1..128, m \in Nat : r < h /\ h <= m => r \in Symbol31 /\ r < m
    BY SMT DEF Symbol31
  <1>6. \A n \in Forms : b % HeadValues[n] \in Symbol31 /\ b % HeadValues[n] < Room[n]
    BY <1>2, <1>3, <1>4, <1>5
  <1>7. QED
    BY SMT, <1>1, <1>6 DEF Forms

(* Storing the right symbol. *)
LEMMA StoreInStep ==
  ASSUME text \in Seq(Symbols), target \in Seq(Symbol31), Len(target) < Len(text),
         \A j \in 1..Len(target) : target[j] = text[j],
         target' = Append(target, text[Len(target) + 1]), text' = text
  PROVE  /\ Len(target') = Len(target) + 1 /\ Len(target') <= Len(text')
         /\ \A j \in 1..Len(target') : target'[j] = text'[j]
  <1>1. Len(target') = Len(target) + 1 /\ Len(target') <= Len(text')
    BY SMT
  <1>2. ASSUME NEW j \in 1..Len(target') PROVE target'[j] = text'[j]
    <2>1. CASE j = Len(target) + 1
      BY SMT, <2>1
    <2>2. CASE j # Len(target) + 1
      <3>1. j \in 1..Len(target)
        BY SMT, <2>2, <1>1
      <3>2. target'[j] = target[j]
        BY SMT, <3>1
      <3>3. QED
        BY <3>1, <3>2
    <2>3. QED
      BY <2>1, <2>2
  <1>3. QED
    BY <1>1, <1>2

LEMMA ReadSingleIInv == ASSUME IInv, ReadSingle PROVE IInv'
  <1>1. /\ missing = 0 /\ i <= Len(bytes) /\ i' = i + 1 /\ HeadForm(bytes[i]) = 1
        /\ phase = "read" /\ target' = Append(target, bytes[i] % HeadValues[1])
        /\ UNCHANGED <<phase, text, bytes, start, lost, current_symbol, missing>>
    BY DEF ReadSingle
  <1>2. /\ bytes \in Seq(ByteValues) /\ i \in 1..(Len(bytes) + 2)
        /\ text \in Seq(Symbols) /\ target \in Seq(Symbol31) /\ start \in Seq(Nat)
    BY DEF IInv, TypeOK
  <1>3. bytes[i] \in Nat
    BY SMT, <1>1, <1>2 DEF ByteValues
  <1>4. bytes[i] % HeadValues[1] \in Symbol31
    BY <1>3, AnyHead DEF Forms
  <1>5. TypeOK'
    <2>1. target' \in Seq(Symbol31)
      BY SMT, <1>1, <1>2, <1>4
    <2>2. i' \in 1..(Len(bytes) + 2)
      BY SMT, <1>1, <1>2
    <2>3. QED
      BY <1>1, <2>1, <2>2 DEF IInv, TypeOK
  <1>6. Placed' /\ Fits'
    BY SMT, <1>1 DEF IInv, Placed, Fits
  <1>7. ASSUME lost = 0
        PROVE  /\ Len(target') <= Len(text')
               /\ \A j \in 1..Len(target') : target'[j] = text'[j]
               /\ i' = start'[Len(target') + 1] + 1
    <2> DEFINE n == Len(target) + 1
    <2>1. /\ Len(target) < Len(text) /\ text[n] \in Symbol31
          /\ i = start[n] + 1 /\ bytes[i] = Byte(text[n], 1)
      BY <1>1, <1>7, AtHead
    <2>2. FormLength(text[n]) = 1 /\ bytes[i] % HeadValues[1] = text[n] \div Weight[1]
      BY <1>1, <2>1, HeadByte
    <2>3. text[n] \div Weight[1] = text[n]
      BY SMT, <2>1 DEF Weight, Symbol31
    <2>4. \A j \in 1..Len(target) : target[j] = text[j]
      BY <1>7 DEF IInv, InStep
    <2>5. /\ Len(target') = n /\ Len(target') <= Len(text')
          /\ \A j \in 1..Len(target') : target'[j] = text'[j]
      BY <1>1, <1>2, <2>1, <2>2, <2>3, <2>4, StoreInStep
    <2>6. n \in 1..Len(text)
      BY SMT, <1>2, <2>1
    <2>7. start[n + 1] = start[n] + 1
      BY <1>7, <2>2, <2>6 DEF IInv, Placed
    <2>8. QED
      BY <1>1, <2>1, <2>5, <2>7
  <1>8. InStep'
    BY SMT, <1>1, <1>7 DEF InStep
  <1>9. QED
    BY <1>5, <1>6, <1>8 DEF IInv

LEMMA ReadHeadIInv == ASSUME IInv, ReadHead PROVE IInv'
  <1> DEFINE f == HeadForm(bytes[i])
  <1>1. /\ missing = 0 /\ i <= Len(bytes) /\ i' = i + 1 /\ f > 1
        /\ phase = "read" /\ current_symbol' = bytes[i] % HeadValues[f]
        /\ missing' = f - 1
        /\ UNCHANGED <<phase, text, bytes, start, lost, target>>
    BY DEF ReadHead
  <1>2. /\ bytes \in Seq(ByteValues) /\ i \in 1..(Len(bytes) + 2)
        /\ text \in Seq(Symbols) /\ target \in Seq(Symbol31) /\ start \in Seq(Nat)
    BY DEF IInv, TypeOK
  <1>3. bytes[i] \in Nat
    BY SMT, <1>1, <1>2 DEF ByteValues
  <1>4. f \in 0..6
    BY <1>3, AnyHead
  <1> HIDE DEF f
  <1>5. f \in Forms /\ f \in 2..6 /\ missing' \in 1..5 /\ missing' + 1 = f
    BY SMT, <1>1, <1>4 DEF Forms
  <1>6. current_symbol' \in Symbol31 /\ current_symbol' < Room[missing' + 1]
    BY <1>1, <1>3, <1>5, AnyHead
  <1>7. i' \in 1..(Len(bytes) + 2) /\ i' <= Len(bytes) + 1
    BY SMT, <1>1, <1>2
  <1>8. TypeOK'
    <2>1. missing' \in 0..5
      BY SMT, <1>5
    <2>2. QED
      BY <1>1, <1>6, <1>7, <2>1 DEF IInv, TypeOK
  <1>9. Placed' /\ Fits'
    <2>1. Placed'
      BY <1>1 DEF IInv, Placed
    <2>2. Fits'
      BY <1>1, <1>6, <1>7 DEF Fits
    <2>3. QED
      BY <2>1, <2>2
  <1>10. ASSUME lost = 0
         PROVE  LET e == text[Len(target) + 1]
                IN /\ Len(target) < Len(text)
                   /\ missing' < FormLength(e)
                   /\ i' = start[Len(target) + 1] + (FormLength(e) - missing') + 1
                   /\ current_symbol' = e \div Weight[missing' + 1]
    <2> DEFINE n == Len(target) + 1
    <2>1. /\ Len(target) < Len(text) /\ text[n] \in Symbol31
          /\ i = start[n] + 1 /\ bytes[i] = Byte(text[n], 1)
      BY <1>1, <1>10, AtHead
    <2>2. f = FormLength(text[n]) /\ bytes[i] % HeadValues[f] = text[n] \div Weight[f]
      BY <2>1, HeadByte DEF f
    <2>3. n \in 1..Len(text) /\ Len(start) = Len(text) + 1
      BY SMT, <1>2, <2>1 DEF IInv, Placed
    <2>4. start[n] \in Nat
      BY SMT, <1>2, <2>3
    <2>5. i' = start[n] + (f - missing') + 1 /\ missing' < f
      BY SMT, <1>1, <1>5, <2>1, <2>4
    <2>6. QED
      BY <1>1, <1>5, <2>1, <2>2, <2>5
  <1>11. InStep'
    <2>1. missing' > 0 /\ ~(missing' = 0)
      BY SMT, <1>5
    <2>2. lost = 0 => Len(target) <= Len(text) /\ \A j \in 1..Len(target) : target[j] = text[j]
      BY DEF IInv, InStep
    <2>3. phase # "done"
      BY <1>1
    <2>4. QED
      BY <1>1, <1>10, <2>1, <2>2, <2>3 DEF InStep
  <1>12. QED
    BY <1>8, <1>9, <1>11 DEF IInv

(* An addition fits into the room that is left. *)
LEMMA Shifted ==
  ASSUME NEW m \in 1..5, NEW c \in Nat, c < Room[m + 1], NEW b \in Nat
  PROVE  /\ (c * 64) + (b % 64) \in Symbol31
         /\ (c * 64) + (b % 64) < Room[m]
  <1>1. Room[m] \in Nat /\ Room[m] <= 2147483648
    BY SMT DEF Room
  <1>2. (c * 64) + (b % 64) \in Nat /\ (c * 64) + (b % 64) < Room[m]
    <2>1. CASE m = 1
      BY SMT, <2>1 DEF Room
    <2>2. CASE m = 2
      BY SMT, <2>2 DEF Room
    <2>3. CASE m = 3
      BY SMT, <2>3 DEF Room
    <2>4. CASE m = 4
      BY SMT, <2>4 DEF Room
    <2>5. CASE m = 5
      BY SMT, <2>5 DEF Room
    <2>6. m = 1 \/ m = 2 \/ m = 3 \/ m = 4 \/ m = 5
      BY SMT
    <2>7. QED
      BY <2>1, <2>2, <2>3, <2>4, <2>5, <2>6
  <1>3. QED
    BY SMT, <1>1, <1>2 DEF Symbol31

LEMMA ReadAdditionIInv == ASSUME IInv, ReadAddition PROVE IInv'
  <1>1. /\ missing > 0 /\ i <= Len(bytes) /\ i' = i + 1 /\ IsAddition(bytes[i])
        /\ phase = "read" /\ current_symbol' = (current_symbol * 64) + (bytes[i] % 64)
        /\ missing' = missing - 1
        /\ missing = 1 => target' = Append(target, current_symbol')
        /\ missing # 1 => target' = target
        /\ UNCHANGED <<phase, text, bytes, start, lost>>
    BY DEF ReadAddition
  <1>2. /\ bytes \in Seq(ByteValues) /\ i \in 1..(Len(bytes) + 2) /\ missing \in 0..5
        /\ text \in Seq(Symbols) /\ target \in Seq(Symbol31) /\ start \in Seq(Nat)
        /\ current_symbol \in Symbol31
    BY DEF IInv, TypeOK
  <1>3. bytes[i] \in Nat /\ current_symbol \in Nat
    BY SMT, <1>1, <1>2 DEF ByteValues, Symbol31
  <1>4. missing \in 1..5
    BY SMT, <1>1, <1>2
  <1>5. current_symbol' \in Symbol31 /\ current_symbol' < Room[missing]
    BY <1>1, <1>3, <1>4, Shifted DEF IInv, Fits
  <1>6. i' \in 1..(Len(bytes) + 2) /\ i' <= Len(bytes) + 1 /\ missing' \in 0..5 /\ missing' + 1 = missing
    BY SMT, <1>1, <1>2, <1>4
  <1>7. TypeOK'
    <2>1. target' \in Seq(Symbol31)
      <3>1. CASE missing = 1
        <4>1. target' = Append(target, current_symbol')
          BY <3>1, <1>1
        <4>2. QED
          BY SMT, <4>1, <1>2, <1>5
      <3>2. CASE missing # 1
        BY <3>2, <1>1, <1>2
      <3>3. QED
        BY <3>1, <3>2
    <2>2. QED
      BY <1>1, <1>5, <1>6, <2>1 DEF IInv, TypeOK
  <1>8. Placed'
    BY <1>1 DEF IInv, Placed
  <1>9. Fits'
    BY <1>1, <1>5, <1>6 DEF Fits
  <1>10. InStep'
    <2> SUFFICES ASSUME lost = 0 PROVE InStep'
      BY <1>1 DEF InStep
    <2> DEFINE n == Len(target) + 1
               e == text[n]
               f == FormLength(e)
    <2>1. /\ Len(target) < Len(text) /\ missing < f
          /\ i = start[n] + (f - missing) + 1
          /\ current_symbol = e \div Weight[missing + 1]
          /\ \A j \in 1..Len(target) : target[j] = text[j]
          /\ Len(start) = Len(text) + 1
      BY <1>1 DEF IInv, InStep, Placed
    <2>2. e \in Symbol31 /\ f - missing + 1 \in 2..f /\ bytes[i] = Byte(e, f - missing + 1)
      BY <1>1, AtAddition
    <2>3. f \in 1..6
      BY <2>2, FormFacts DEF Forms
    <2>4. n \in 1..Len(text)
      BY SMT, <1>2, <2>1
    <2>5. start[n] \in Nat
      BY SMTT(30), <1>2, <2>1, <2>4
    <2>6. f - (f - missing + 1) + 1 = missing
      <3>1. \A g \in 1..6, m \in 1..5 : g - (g - m + 1) + 1 = m
        BY SMT
      <3>2. QED
        BY <1>4, <2>3, <3>1
    <2>7. bytes[i] % 64 = (e \div Weight[missing]) % 64
      BY <2>2, <2>6, AdditionByte
    <2>8. current_symbol' = e \div Weight[missing]
      BY <1>1, <1>4, <2>1, <2>2, <2>7, Shift
    <2>9. CASE missing = 1
      <3>1. current_symbol' = e
        BY SMT, <2>2, <2>8, <2>9 DEF Weight, Symbol31
      <3>2. target' = Append(target, text[n])
        BY <1>1, <2>9, <3>1
      <3>3. /\ Len(target') = n /\ Len(target') <= Len(text')
            /\ \A j \in 1..Len(target') : target'[j] = text'[j]
        BY <1>1, <1>2, <2>1, <3>2, StoreInStep
      <3>4. start[n + 1] = start[n] + f
        BY <2>4 DEF IInv, Placed
      <3>5. \A p \in Nat, g \in 1..6 : p + (g - 1) + 1 + 1 = p + g + 1
        BY SMT
      <3>6. i' = start[n + 1] + 1
        BY <1>1, <2>1, <2>3, <2>5, <2>9, <3>4, <3>5
      <3>7. missing' = 0 /\ ~(missing' > 0)
        BY SMT, <1>1, <2>9
      <3>8. QED
        BY <1>1, <3>3, <3>6, <3>7 DEF InStep
    <2>10. CASE missing # 1
      <3>1. missing' > 0 /\ missing' # 0
        BY SMT, <1>1, <1>4, <2>10
      <3>2. \A p \in Nat, g \in 1..6, m \in 1..5 :
              m < g => m - 1 < g /\ p + (g - m) + 1 + 1 = p + (g - (m - 1)) + 1
        BY SMT
      <3>3. missing' < f /\ i' = start[n] + (f - missing') + 1
        BY <1>1, <1>4, <2>1, <2>3, <2>5, <3>2
      <3>4. target' = target
        BY <1>1, <2>10
      <3>5. Len(target) <= Len(text)
        BY SMT, <1>2, <2>1
      <3>6. QED
        BY <1>1, <1>6, <2>1, <2>8, <3>1, <3>3, <3>4, <3>5 DEF InStep
    <2>11. QED
      BY <2>9, <2>10
  <1>11. QED
    BY <1>7, <1>8, <1>9, <1>10 DEF IInv

LEMMA ReadCutIInv == ASSUME IInv, ReadCut PROVE IInv'
  <1>1. lost # 0
    <2>1. SUFFICES ASSUME lost = 0 PROVE FALSE
      OBVIOUS
    <2> DEFINE e == text[Len(target) + 1]
    <2>2. /\ i <= Len(bytes) /\ e \in Symbol31
          /\ FormLength(e) - missing + 1 \in 2..FormLength(e)
          /\ bytes[i] = Byte(e, FormLength(e) - missing + 1)
      BY <2>1, AtAddition DEF ReadCut
    <2>3. IsAddition(bytes[i])
      BY <2>2, AdditionByte
    <2>4. QED
      BY <2>2, <2>3 DEF ReadCut
  <1>2. TypeOK'
    <2>1. i' \in 1..(Len(bytes) + 2)
      BY SMT DEF ReadCut, AfterCut, IInv, TypeOK, Fits
    <2>2. target' \in Seq(Symbol31)
      BY SMT DEF ReadCut, IInv, TypeOK
    <2>3. QED
      BY SMT, <2>1, <2>2 DEF ReadCut, IInv, TypeOK
  <1>3. Placed' /\ Fits' /\ InStep'
    BY SMT, <1>1 DEF ReadCut, IInv, Placed, Fits, InStep
  <1>4. QED
    BY <1>2, <1>3 DEF IInv

LEMMA NextIInv == ASSUME IInv, [Next]_vars PROVE IInv'
  <1>1. CASE UNCHANGED vars
    BY <1>1 DEF vars, IInv, TypeOK, Placed, Fits, InStep
  <1>2. CASE \E e \in Symbols : Write(e)
    BY <1>2, WriteIInv
  <1>3. CASE Arrive
    BY <1>3, ArriveIInv
  <1>4. CASE \E k \in 1..Len(bytes) : Lose(k)
    BY <1>4, LoseIInv
  <1>5. CASE Read
    BY <1>5, SkipAdditionIInv, ReadSingleIInv, ReadHeadIInv, ReadAdditionIInv, ReadCutIInv,
       FinishIInv DEF Read
  <1>6. QED
    BY <1>1, <1>2, <1>3, <1>4, <1>5 DEF Next

(* The bytes and the reader are always in step while no byte is lost.       *)
THEOREM Inductive == Spec => []IInv
  BY InitIInv, NextIInv, PTL DEF Spec

(* The types, with them that a symbol read never has more than 31 bits and  *)
(* that reading stops at most one place behind the end.                     *)
THEOREM TypeCorrect == Spec => []TypeOK
  <1>1. IInv => TypeOK
    BY DEF IInv
  <1>2. QED
    BY Inductive, <1>1, PTL

(* Every text, of any length and over any symbols of 31 bits, is read back  *)
(* as it was written.                                                       *)
THEOREM RoundTripCorrect == Spec => []RoundTrip
  <1>1. ASSUME IInv, phase = "done", lost = 0 PROVE target = text
    <2>1. /\ Len(target) = Len(text) /\ \A j \in 1..Len(target) : target[j] = text[j]
          /\ target \in Seq(Symbol31) /\ text \in Seq(Symbols)
      BY <1>1 DEF IInv, InStep, TypeOK
    <2>2. text \in Seq(Symbol31)
      BY SMT, <2>1, SymbolsAssumption
    <2>3. QED
      BY SMT, <2>1, <2>2
  <1>2. IInv => RoundTrip
    BY <1>1 DEF RoundTrip
  <1>3. QED
    BY Inductive, <1>2, PTL

-----------------------------------------------------------------------------
(* A lost byte. *)

(* Where the symbols begin in what was written. *)
Starts ==
    /\ Len(start) = Len(text) + 1 /\ start[1] = 0
    /\ \A q \in 1..Len(text) : start[q + 1] = start[q] + FormLength(text[q])
    /\ \A a, b \in 1..(Len(text) + 1) : a < b => start[a] < start[b]

(* The symbol that the byte at place k belongs to. *)
Holds(q, k) == start[q] < k /\ k <= start[q + 1]
Covered == lost = 0 => \A k \in 1..Len(bytes) : \E q \in 1..Len(text) : Holds(q, k)

(* The bytes behind the lost one have moved up by one place. *)
Remains ==
    lost # 0 =>
        /\ start[Len(text) + 1] = Len(bytes) + 1
        /\ \A q \in 1..Len(text) : \A k \in 1..FormLength(text[q]) :
              /\ start[q] + k < lost => bytes[start[q] + k] = Byte(text[q], k)
              /\ start[q] + k > lost => bytes[start[q] + k - 1] = Byte(text[q], k)

(* How much of symbol e has been taken in, and what that makes. *)
Taken(e) == IF missing = 0 THEN 0 ELSE FormLength(e) - missing
Within(e) ==
    missing > 0 => missing < FormLength(e) /\ current_symbol = e \div Weight[missing + 1]

(* The symbol that is not read when a byte of symbol j is lost. *)
Gone(j) == IF lost = start[j] + 1 THEN j ELSE j + 1

(* What is read of the symbols up to the lost byte and behind it. *)
Moved(j) ==
    \A q \in 1..Len(target) :
        /\ q < j => target[q] = text[q]
        /\ q = j /\ Gone(j) # j => target[q] < text[q]
        /\ q >= Gone(j) /\ q < Len(text) => target[q] = text[q + 1]

(* The reader is before the lost byte of symbol j; or behind it, within j,  *)
(* whose value is already too small; or passes over what remains of the     *)
(* symbol that is gone; or is in step again; or the lost byte was in the    *)
(* last symbol.                                                             *)
Before(j) ==
    /\ Len(target) < j
    /\ Within(text[Len(target) + 1])
    /\ i = start[Len(target) + 1] + Taken(text[Len(target) + 1]) + 1
    /\ i < lost
Torn(j) ==
    /\ Gone(j) # j
    /\ Len(target) = j - 1
    /\ missing > 0 /\ missing < FormLength(text[j])
    /\ i = start[j] + (FormLength(text[j]) - missing) + 1
    /\ i >= lost
    /\ current_symbol < text[j] \div Weight[missing]
Passing(j) ==
    /\ Gone(j) <= Len(text)
    /\ Len(target) = Gone(j) - 1
    /\ missing = 0
    /\ start[Gone(j)] < i /\ i < start[Gone(j) + 1]
After(j) ==
    /\ Len(target) >= Gone(j) - 1
    /\ Len(target) < Len(text)
    /\ missing > 0 => Len(target) + 2 <= Len(text) /\ Within(text[Len(target) + 2])
    /\ i = start[Len(target) + 2] + Taken(text[Len(target) + 2])
Over(j) ==
    /\ Gone(j) > Len(text)
    /\ Len(target) = Len(text)
    /\ missing = 0 /\ i > Len(bytes)

Reading(j) == Before(j) \/ Torn(j) \/ Passing(j) \/ After(j) \/ Over(j)
Damaged ==
    lost # 0 => \E j \in 1..Len(text) : Holds(j, lost) /\ Moved(j) /\ Reading(j)
Ended == phase = "done" => missing = 0 /\ i > Len(bytes)

DInv == IInv /\ Starts /\ Covered /\ Remains /\ Damaged /\ Ended

Step == SkipAddition \/ ReadSingle \/ ReadHead \/ ReadAddition \/ ReadCut

(* What each symbol takes up. *)
LEMMA SymbolFacts ==
  ASSUME TypeOK, Starts, NEW q \in 1..Len(text)
  PROVE  /\ text[q] \in Symbol31 /\ FormLength(text[q]) \in 1..6
         /\ start[q] \in Nat /\ start[q + 1] \in Nat
         /\ start[q + 1] = start[q] + FormLength(text[q])
         /\ start[q + 1] <= start[Len(text) + 1]
  <1>1. text \in Seq(Symbols) /\ start \in Seq(Nat) /\ Len(start) = Len(text) + 1
    BY DEF TypeOK, Starts
  <1>2. text[q] \in Symbol31
    BY SMT, <1>1, SymbolsAssumption
  <1>3. FormLength(text[q]) \in 1..6
    BY <1>2, FormFacts DEF Forms
  <1>4. start[q] \in Nat /\ start[q + 1] \in Nat /\ start[Len(text) + 1] \in Nat
    BY SMT, <1>1
  <1>5. start[q + 1] <= start[Len(text) + 1]
    <2>1. CASE q = Len(text)
      BY SMT, <1>4, <2>1
    <2>2. CASE q # Len(text)
      <3>1. /\ q + 1 \in 1..(Len(text) + 1) /\ Len(text) + 1 \in 1..(Len(text) + 1)
            /\ q + 1 < Len(text) + 1
        BY SMT, <1>1, <2>2
      <3>2. start[q + 1] < start[Len(text) + 1]
        BY <3>1 DEF Starts
      <3>3. QED
        BY SMT, <1>4, <3>2
    <2>3. QED
      BY <2>1, <2>2
  <1>6. QED
    BY <1>2, <1>3, <1>4, <1>5 DEF Starts

(* Symbols that begin earlier end before the others begin. *)
LEMMA InOrder ==
  ASSUME TypeOK, Starts, NEW a \in 1..(Len(text) + 1), NEW b \in 1..(Len(text) + 1)
  PROVE  /\ start[a] \in Nat /\ start[b] \in Nat
         /\ a <= b => start[a] <= start[b]
         /\ a < b => start[a] < start[b]
  <1>1. start \in Seq(Nat) /\ Len(start) = Len(text) + 1 /\ Len(text) \in Nat
    BY SMT DEF TypeOK, Starts
  <1>2. start[a] \in Nat /\ start[b] \in Nat
    BY SMT, <1>1
  <1>3. a < b => start[a] < start[b]
    BY DEF Starts
  <1>4. QED
    BY SMT, <1>1, <1>2, <1>3

(* A symbol is more than its form without the last digit. *)
LEMMA Shorter ==
  ASSUME NEW e \in Symbol31, NEW m \in 1..5, m < FormLength(e)
  PROVE  /\ e \div Weight[m] \in Nat /\ e \div Weight[m + 1] \in Nat
         /\ e \div Weight[m + 1] < e \div Weight[m]
  <1>1. FormLength(e) \in Forms /\ \A k \in 1..(FormLength(e) - 1) : e > Limit[k]
    BY FormFacts
  <1>2. m \in 1..(FormLength(e) - 1)
    BY SMT, <1>1 DEF Forms
  <1>3. e > Limit[m]
    BY <1>1, <1>2
  <1>4. /\ e \div Weight[m] \in Nat /\ e \div Weight[m + 1] \in Nat
        /\ e \div Weight[m + 1] < e \div Weight[m]
    <2>1. CASE m = 1
      BY SMT, <1>3, <2>1 DEF Symbol31, Weight, Limit
    <2>2. CASE m = 2
      BY SMT, <1>3, <2>2 DEF Symbol31, Weight, Limit
    <2>3. CASE m = 3
      BY SMT, <1>3, <2>3 DEF Symbol31, Weight, Limit
    <2>4. CASE m = 4
      BY SMT, <1>3, <2>4 DEF Symbol31, Weight, Limit
    <2>5. CASE m = 5
      BY SMT, <1>3, <2>5 DEF Symbol31, Weight, Limit
    <2>6. QED
      BY SMT, <2>1, <2>2, <2>3, <2>4, <2>5
  <1>5. QED
    BY <1>4

(* A byte of symbol e in its turn completes the symbol or is taken in. *)
LEMMA Consume ==
  ASSUME TypeOK, NEW e \in Symbol31, Within(e), Step, i <= Len(bytes),
         bytes[i] = Byte(e, Taken(e) + 1)
  PROVE  /\ Taken(e) \in 0..(FormLength(e) - 1) /\ i' = i + 1
         /\ UNCHANGED <<phase, text, bytes, start, lost>>
         /\ \/ Taken(e) + 1 = FormLength(e) /\ missing' = 0 /\ target' = Append(target, e)
            \/ /\ Taken(e) + 1 < FormLength(e) /\ target' = target
               /\ missing' = FormLength(e) - (Taken(e) + 1)
               /\ current_symbol' = e \div Weight[missing' + 1]
  <1> DEFINE f == FormLength(e)
             b == bytes[i]
  <1>1. f \in 1..6 /\ missing \in 0..5
    BY FormFacts DEF Forms, TypeOK
  <1>2. CASE missing = 0
    <2>1. Taken(e) = 0 /\ b = Byte(e, 1)
      BY <1>2 DEF Taken
    <2>2. HeadForm(b) = f /\ b % HeadValues[f] = e \div Weight[f]
      BY <2>1, HeadByte
    <2>3. ~ReadAddition /\ ~ReadCut /\ ~SkipAddition
      <3>1. ~(missing > 0) /\ f # 0
        BY SMT, <1>1, <1>2
      <3>2. QED
        BY <2>2, <3>1 DEF ReadAddition, ReadCut, SkipAddition
    <2>4. CASE f = 1
      <3>1. ReadSingle
        BY <2>2, <2>3, <2>4 DEF Step, ReadHead
      <3>2. e \div Weight[1] = e
        BY SMT DEF Weight, Symbol31
      <3>3. /\ i' = i + 1 /\ UNCHANGED <<phase, text, bytes, start, lost>> /\ missing' = 0
            /\ target' = Append(target, e)
        BY <1>2, <2>2, <2>4, <3>1, <3>2 DEF ReadSingle
      <3>4. 0 \in 0..(1 - 1) /\ 0 + 1 = 1
        BY SMT
      <3>5. QED
        BY <2>1, <2>4, <3>3, <3>4
    <2>5. CASE f # 1
      <3>1. ReadHead
        BY <2>2, <2>3, <2>5 DEF Step, ReadSingle
      <3>2. /\ i' = i + 1 /\ UNCHANGED <<phase, text, bytes, start, lost>>
            /\ target' = target /\ missing' = f - 1 /\ current_symbol' = e \div Weight[f]
        BY <2>2, <3>1 DEF ReadHead
      <3>3. 0 \in 0..(f - 1) /\ 0 + 1 < f /\ 0 + 1 = 1 /\ (f - 1) + 1 = f
        BY SMT, <1>1, <2>5
      <3>4. QED
        BY <2>1, <3>2, <3>3
    <2>6. QED
      BY <2>4, <2>5
  <1>3. CASE missing # 0
    <2>1. missing \in 1..5 /\ missing > 0
      BY SMT, <1>1, <1>3
    <2>2. missing < f /\ current_symbol = e \div Weight[missing + 1] /\ Taken(e) = f - missing
      BY <1>3, <2>1 DEF Within, Taken
    <2>3. PICK k : k = f - missing + 1
      OBVIOUS
    <2>4. k \in 2..f /\ f - k + 1 = missing /\ f - missing \in 0..(f - 1) /\ k = Taken(e) + 1
      <3>1. \A g \in 1..6, m \in 1..5 : m < g =>
              g - m + 1 \in 2..g /\ g - (g - m + 1) + 1 = m /\ g - m \in 0..(g - 1)
        BY SMT
      <3>2. QED
        BY <1>1, <2>1, <2>2, <2>3, <3>1
    <2>5. IsAddition(b) /\ b % 64 = (e \div Weight[missing]) % 64
      BY <2>4, AdditionByte
    <2>6. ReadAddition
      BY <1>3, <2>5 DEF Step, SkipAddition, ReadSingle, ReadHead, ReadCut
    <2>7. /\ i' = i + 1 /\ UNCHANGED <<phase, text, bytes, start, lost>>
          /\ current_symbol' = e \div Weight[missing] /\ missing' = missing - 1
          /\ target' = IF missing = 1 THEN Append(target, current_symbol') ELSE target
      BY <2>1, <2>2, <2>5, <2>6, Shift DEF ReadAddition
    <2>8. CASE missing = 1
      <3>1. e \div Weight[1] = e
        BY SMT DEF Weight, Symbol31
      <3>2. missing' = 0 /\ target' = Append(target, e) /\ Taken(e) + 1 = f
        BY SMT, <1>1, <2>2, <2>7, <2>8, <3>1
      <3>3. QED
        BY <2>2, <2>4, <2>7, <3>2
    <2>9. CASE missing # 1
      <3>1. missing' = f - (Taken(e) + 1) /\ missing' + 1 = missing /\ Taken(e) + 1 < f
        BY SMT, <1>1, <2>1, <2>2, <2>7, <2>9
      <3>2. QED
        BY <2>2, <2>4, <2>7, <2>9, <3>1
    <2>10. QED
      BY <2>8, <2>9
  <1>4. QED
    BY <1>2, <1>3

(* One more symbol read, of which the right thing is known. *)
LEMMA MovedNext ==
  ASSUME TypeOK, NEW j \in 1..Len(text), Moved(j), NEW x \in Symbol31,
         target' = Append(target, x), UNCHANGED <<text, start, lost>>,
         Len(target) + 1 < j => x = text[Len(target) + 1],
         Len(target) + 1 = j /\ Gone(j) # j => x < text[Len(target) + 1],
         Len(target) + 1 >= Gone(j) /\ Len(target) + 1 < Len(text) => x = text[Len(target) + 2]
  PROVE  Moved(j)' /\ Len(target') = Len(target) + 1
  <1> DEFINE n == Len(target) + 1
  <1>1. target \in Seq(Symbol31) /\ Len(target) \in Nat
    BY SMT DEF TypeOK
  <1>2. Len(target') = n /\ target'[n] = x /\ \A q \in 1..Len(target) : target'[q] = target[q]
    BY SMT, <1>1
  <1>3. Gone(j)' = Gone(j)
    BY DEF Gone
  <1>4. n + 1 = Len(target) + 2
    BY SMT, <1>1
  <1>5. ASSUME NEW q \in 1..n
        PROVE  /\ q < j => target'[q] = text[q]
               /\ q = j /\ Gone(j) # j => target'[q] < text[q]
               /\ q >= Gone(j) /\ q < Len(text) => target'[q] = text[q + 1]
    <2>1. CASE q = n
      BY <1>2, <1>4, <2>1
    <2>2. CASE q # n
      <3>1. q \in 1..Len(target)
        BY SMT, <1>1, <2>2
      <3>2. QED
        BY <1>2, <3>1 DEF Moved
    <2>3. QED
      BY <2>1, <2>2
  <1> HIDE DEF n
  <1>6. Moved(j)'
    BY <1>2, <1>3, <1>5 DEF Moved
  <1>7. QED
    BY <1>2, <1>6 DEF n

LEMMA MovedSame ==
  ASSUME NEW j, Moved(j), UNCHANGED <<target, text, start, lost>>
  PROVE  Moved(j)'
BY DEF Moved, Gone

(* The reader before the lost byte. *)
LEMMA BeforeNext ==
  ASSUME TypeOK, Starts, Remains, lost # 0, Step,
         NEW j \in 1..Len(text), Holds(j, lost), Moved(j), Before(j)
  PROVE  /\ UNCHANGED <<phase, text, bytes, start, lost>>
         /\ Moved(j)' /\ Reading(j)'
  <1>1. PICK n : n = Len(target) + 1
    OBVIOUS
  <1>2. PICK e, s : e = text[n] /\ s = start[n]
    OBVIOUS
  <1>3. PICK h, f : h = Taken(e) /\ f = FormLength(e)
    OBVIOUS
  <1>4. PICK a, g : a = start[j] /\ g = FormLength(text[j])
    OBVIOUS
  <1>5. /\ Len(text) \in Nat /\ Len(bytes) \in Nat /\ Len(target) \in Nat /\ lost \in Nat
        /\ missing \in 0..5 /\ i \in Nat
    BY SMT DEF TypeOK
  <1>6. n \in 1..Len(text) /\ n <= j /\ j <= Len(text) /\ Len(target) = n - 1
    BY SMT, <1>1, <1>5 DEF Before
  <1>7. e \in Symbol31 /\ f \in 1..6 /\ s \in Nat /\ start[n + 1] = s + f
    BY <1>2, <1>3, <1>6, SymbolFacts
  <1>8. /\ a \in Nat /\ g \in 1..6 /\ start[j + 1] = a + g /\ a + g <= Len(bytes) + 1
        /\ a < lost /\ lost <= a + g
    <2>1. a \in Nat /\ g \in 1..6 /\ start[j + 1] = a + g /\ start[j + 1] <= start[Len(text) + 1]
      BY <1>4, SymbolFacts
    <2>2. start[Len(text) + 1] = Len(bytes) + 1
      BY DEF Remains
    <2>3. QED
      BY <1>4, <2>1, <2>2 DEF Holds
  <1>9. Within(e) /\ i = s + h + 1 /\ i < lost
    BY <1>1, <1>2, <1>3 DEF Before
  <1>10. h \in 0..(f - 1)
    <2>1. CASE missing = 0
      BY SMT, <1>3, <1>7, <2>1 DEF Taken
    <2>2. CASE missing # 0
      <3>1. missing \in 1..5 /\ missing > 0
        BY SMT, <1>5, <2>2
      <3>2. h = f - missing /\ missing < f
        BY <1>3, <1>9, <2>2, <3>1 DEF Taken, Within
      <3>3. QED
        BY SMT, <1>7, <3>1, <3>2
    <2>3. QED
      BY <2>1, <2>2
  <1>11. i <= Len(bytes)
    BY SMT, <1>5, <1>8, <1>9
  <1>12. bytes[i] = Byte(e, h + 1)
    <2>1. PICK k : k = h + 1
      OBVIOUS
    <2>2. k \in 1..f /\ s + k = i
      BY SMT, <1>7, <1>9, <1>10, <2>1
    <2>3. bytes[start[n] + k] = Byte(text[n], k)
      BY <1>2, <1>3, <1>6, <1>9, <2>2 DEF Remains
    <2>4. QED
      BY <1>2, <2>1, <2>2, <2>3
  <1>13. /\ i' = i + 1 /\ UNCHANGED <<phase, text, bytes, start, lost>>
         /\ \/ h + 1 = f /\ missing' = 0 /\ target' = Append(target, e)
            \/ /\ h + 1 < f /\ target' = target /\ missing' = f - (h + 1)
               /\ current_symbol' = e \div Weight[missing' + 1]
    BY <1>3, <1>7, <1>9, <1>11, <1>12, Consume
  <1>14. Gone(j)' = Gone(j)
    BY <1>13 DEF Gone
  <1>15. Gone(j) \in {j, j + 1} /\ (Gone(j) = j <=> lost = a + 1)
    BY SMT, <1>4, <1>6 DEF Gone
  <1>16. i' \in Nat /\ i' <= lost
    BY SMT, <1>5, <1>9, <1>13
  <1>17. CASE h + 1 = f /\ missing' = 0 /\ target' = Append(target, e)
    <2>1. i' = s + f + 1
      BY SMT, <1>7, <1>9, <1>10, <1>13, <1>17
    <2>2. n < j
      <3>1. n = j => s = a /\ f = g
        BY <1>2, <1>3, <1>4
      <3>2. QED
        BY SMT, <1>5, <1>6, <1>7, <1>8, <1>16, <2>1, <3>1
    <2>3. Moved(j)' /\ Len(target') = n
      <3>1. ~(n >= Gone(j)) /\ n # j
        BY SMT, <1>6, <1>15, <2>2
      <3>2. QED
        BY <1>1, <1>2, <1>7, <1>13, <1>17, <2>2, <3>1, MovedNext
    <2>4. ~(missing' > 0)
      BY SMT, <1>17
    <2>5. CASE i' < lost
      <3>1. Len(target') < j /\ i' = start[n + 1] + 0 + 1
        BY SMT, <1>7, <2>1, <2>2, <2>3
      <3>2. Before(j)'
        BY <1>13, <1>17, <2>3, <2>4, <2>5, <3>1 DEF Before, Within, Taken
      <3>3. QED
        BY <1>13, <2>3, <3>2 DEF Reading
    <2>6. CASE ~(i' < lost)
      <3>1. s + f + 1 = lost
        BY SMT, <1>5, <1>16, <2>1, <2>6
      <3>2. n + 1 \in 1..(Len(text) + 1) /\ j \in 1..(Len(text) + 1) /\ n + 1 <= j
        BY SMT, <1>5, <1>6, <2>2
      <3>3. n + 1 = j
        <4>1. n + 1 < j => s + f < a
          BY <1>4, <1>7, <3>2, InOrder
        <4>2. QED
          BY SMT, <1>6, <1>7, <1>8, <3>1, <3>2, <4>1
      <3>4. a = s + f
        BY <1>4, <1>7, <3>3
      <3>5. Gone(j) = j
        BY SMT, <1>7, <1>15, <3>1, <3>4
      <3>6. i' = a + 1 /\ Len(target') = j - 1
        BY SMT, <1>6, <2>1, <2>3, <3>3, <3>4
      <3>7. CASE g = 1
        <4>1. Len(target') >= j - 1 /\ Len(target') < Len(text) /\ Len(target') + 2 = j + 1
              /\ i' = a + g + 0
          BY SMT, <1>5, <1>6, <1>8, <3>6, <3>7
        <4>2. After(j)'
          BY <1>8, <1>13, <1>14, <1>17, <2>4, <3>5, <4>1 DEF After, Taken
        <4>3. QED
          BY <1>13, <2>3, <4>2 DEF Reading
      <3>8. CASE g # 1
        <4>1. a < i' /\ i' < a + g
          BY SMT, <1>8, <3>6, <3>8
        <4>2. Passing(j)'
          BY <1>4, <1>6, <1>8, <1>13, <1>14, <1>17, <3>5, <3>6, <4>1 DEF Passing
        <4>3. QED
          BY <1>13, <2>3, <4>2 DEF Reading
      <3>9. QED
        BY <3>7, <3>8
    <2>7. QED
      BY <2>5, <2>6
  <1>18. CASE /\ h + 1 < f /\ target' = target /\ missing' = f - (h + 1)
              /\ current_symbol' = e \div Weight[missing' + 1]
    <2>1. Moved(j)'
      BY <1>13, <1>18, MovedSame
    <2>2. /\ i' = s + (h + 1) + 1 /\ missing' \in 1..5 /\ missing' > 0 /\ missing' # 0
          /\ missing' < f /\ f - missing' = h + 1
      BY SMT, <1>7, <1>9, <1>10, <1>13, <1>18
    <2>3. CASE i' < lost
      <3>1. text'[Len(target') + 1] = e /\ start'[Len(target') + 1] = s
        BY <1>1, <1>2, <1>13, <1>18
      <3>2. Within(text[Len(target) + 1])'
        BY <1>3, <1>18, <2>2, <3>1 DEF Within
      <3>3. Taken(text[Len(target) + 1])' = h + 1
        BY <1>3, <2>2, <3>1 DEF Taken
      <3>4. Len(target') < j
        BY SMT, <1>6, <1>18
      <3>5. Before(j)'
        BY <1>13, <1>18, <2>2, <2>3, <3>1, <3>2, <3>3, <3>4 DEF Before
      <3>6. QED
        BY <1>13, <2>1, <3>5 DEF Reading
    <2>4. CASE ~(i' < lost)
      <3>1. lost = s + (h + 1) + 1 /\ i' = lost
        BY SMT, <1>5, <1>16, <2>2, <2>4
      <3>2. n = j
        <4>1. n + 1 \in 1..(Len(text) + 1) /\ j \in 1..(Len(text) + 1) /\ (n # j => n + 1 <= j)
          BY SMT, <1>5, <1>6
        <4>2. n # j => s + f <= a
          BY <1>4, <1>7, <4>1, InOrder
        <4>3. QED
          BY SMT, <1>7, <1>8, <1>10, <1>18, <3>1, <4>2
      <3>3. s = a /\ f = g
        BY <1>2, <1>3, <1>4, <3>2
      <3>4. Gone(j) # j
        BY SMT, <1>7, <1>10, <1>15, <3>1, <3>3
      <3>5. current_symbol' < e \div Weight[missing']
        BY <1>3, <1>7, <1>18, <2>2, Shorter
      <3>6. Len(target') = j - 1 /\ i' = a + (f - missing') + 1 /\ i' >= lost
        BY SMT, <1>5, <1>6, <1>18, <2>2, <3>1, <3>2, <3>3
      <3>7. Torn(j)'
        BY <1>2, <1>3, <1>4, <1>13, <1>14, <2>2, <3>2, <3>4, <3>5, <3>6 DEF Torn
      <3>8. QED
        BY <1>13, <2>1, <3>7 DEF Reading
    <2>5. QED
      BY <2>3, <2>4
  <1>19. QED
    BY <1>13, <1>17, <1>18

(* The reader within the symbol that lost an addition. *)
LEMMA TornNext ==
  ASSUME TypeOK, Starts, Remains, lost # 0, Step,
         NEW j \in 1..Len(text), Holds(j, lost), Moved(j), Torn(j)
  PROVE  /\ UNCHANGED <<phase, text, bytes, start, lost>>
         /\ Moved(j)' /\ Reading(j)'
  <1>1. PICK e, f : e = text[j] /\ f = FormLength(e)
    OBVIOUS
  <1>2. PICK a : a = start[j]
    OBVIOUS
  <1>3. PICK m : m = missing
    OBVIOUS
  <1>4. /\ Len(text) \in Nat /\ Len(bytes) \in Nat /\ Len(target) \in Nat /\ lost \in Nat
        /\ m \in 0..5 /\ i \in Nat /\ current_symbol \in Symbol31 /\ j <= Len(text)
    BY SMT, <1>3 DEF TypeOK
  <1>5. /\ e \in Symbol31 /\ f \in 1..6 /\ a \in Nat /\ start[j + 1] = a + f
        /\ start[Len(text) + 1] = Len(bytes) + 1 /\ a + f <= Len(bytes) + 1
    BY <1>1, <1>2, SymbolFacts DEF Remains
  <1>6. /\ Len(target) = j - 1 /\ m > 0 /\ m < f /\ i = a + (f - m) + 1 /\ i >= lost
        /\ current_symbol < e \div Weight[m] /\ Gone(j) # j
    BY <1>1, <1>2, <1>3 DEF Torn
  <1>7. Gone(j) = j + 1 /\ a < lost
    BY <1>2, <1>6 DEF Gone, Holds
  <1>8. m \in 1..5 /\ m # 0
    BY SMT, <1>4, <1>6
  <1>9. CASE m # 1
    <2>1. PICK k : k = f - m + 2
      OBVIOUS
    <2>2. /\ k \in 2..f /\ k \in 1..f /\ a + k > lost /\ a + k - 1 = i
          /\ f - k + 1 = m - 1 /\ m - 1 \in 1..5 /\ (m - 1) + 1 = m /\ i <= Len(bytes)
      BY SMT, <1>4, <1>5, <1>6, <1>8, <1>9, <2>1
    <2>3. bytes[i] = Byte(e, k)
      <3>1. bytes[start[j] + k - 1] = Byte(text[j], k)
        BY <1>1, <1>2, <2>2 DEF Remains
      <3>2. QED
        BY <1>1, <1>2, <2>2, <3>1
    <2>4. IsAddition(bytes[i]) /\ bytes[i] % 64 = (e \div Weight[m - 1]) % 64
      <3>1. k \in 2..FormLength(e) /\ FormLength(e) - k + 1 = m - 1
        BY <1>1, <2>2
      <3>2. QED
        BY <1>5, <2>3, <3>1, AdditionByte
    <2>5. ReadAddition
      BY <1>3, <1>8, <2>2, <2>4 DEF Step, SkipAddition, ReadSingle, ReadHead, ReadCut
    <2>6. /\ i' = i + 1 /\ UNCHANGED <<phase, text, bytes, start, lost, target>>
          /\ missing' = m - 1
          /\ current_symbol' = (current_symbol * 64) + ((e \div Weight[m - 1]) % 64)
      BY <1>3, <1>9, <2>4, <2>5 DEF ReadAddition
    <2>7. current_symbol' < e \div Weight[m - 1]
      <3>1. PICK p, q, c : p = e \div Weight[m] /\ q = e \div Weight[m - 1] /\ c = current_symbol
        OBVIOUS
      <3>2. (p * 64) + (q % 64) = q
        BY <1>5, <2>2, <3>1, Shift
      <3>3. p \in Nat /\ q \in Nat
        <4>1. m < f /\ m - 1 < f
          BY SMT, <1>5, <1>6, <1>8
        <4>2. QED
          BY <1>1, <1>5, <1>8, <2>2, <3>1, <4>1, Shorter
      <3>4. c \in Nat /\ c < p
        BY SMT, <1>4, <1>6, <3>1 DEF Symbol31
      <3>5. q % 64 \in Nat
        BY SMT, <3>3
      <3>6. (c * 64) + (q % 64) < q
        BY SMT, <3>2, <3>3, <3>4, <3>5
      <3>7. QED
        BY <2>6, <3>1, <3>6
    <2>8. Gone(j)' = Gone(j)
      BY <2>6 DEF Gone
    <2>9. /\ missing' > 0 /\ missing' < f /\ i' = a + (f - missing') + 1 /\ i' >= lost
      BY SMT, <1>4, <1>5, <1>6, <1>8, <1>9, <2>6
    <2>10. Torn(j)'
      BY <1>1, <1>2, <1>6, <2>6, <2>7, <2>8, <2>9 DEF Torn
    <2>11. Moved(j)'
      BY <2>6, MovedSame
    <2>12. QED
      BY <2>6, <2>10, <2>11 DEF Reading
  <1>10. CASE m = 1
    <2>1. i = a + f /\ e \div Weight[1] = e /\ current_symbol < e
      <3>1. e \div Weight[1] = e
        BY SMT, <1>5 DEF Weight, Symbol31
      <3>2. i = a + f
        BY SMT, <1>5, <1>6, <1>10
      <3>3. QED
        BY <1>6, <1>10, <3>1, <3>2
    <2>2. ASSUME i <= Len(bytes)
          PROVE  /\ j + 1 \in 1..Len(text) /\ start[j + 1] \in Nat
                 /\ start[j + 2] = start[j + 1] + FormLength(text[j + 1])
                 /\ FormLength(text[j + 1]) \in 1..6
                 /\ ~IsAddition(bytes[i])
      <3>1. j # Len(text)
        BY SMT, <1>4, <1>5, <2>1, <2>2
      <3>2. PICK q : q = j + 1
        OBVIOUS
      <3>3. q \in 1..Len(text) /\ q + 1 = j + 2
        BY SMT, <1>4, <3>1, <3>2
      <3>4. /\ text[q] \in Symbol31 /\ FormLength(text[q]) \in 1..6 /\ start[q] \in Nat
            /\ start[q + 1] = start[q] + FormLength(text[q])
        BY <3>3, SymbolFacts
      <3>5. 1 \in 1..FormLength(text[q]) /\ start[q] + 1 > lost /\ start[q] + 1 - 1 = i
        BY SMT, <1>4, <1>5, <1>6, <2>1, <3>2, <3>4
      <3>6. bytes[i] = Byte(text[q], 1)
        BY <3>3, <3>5 DEF Remains
      <3>7. HeadForm(bytes[i]) \in Forms
        BY <3>4, <3>6, HeadByte, FormFacts
      <3>8. \E n \in Forms : Begins(bytes[i], n)
        BY SMT, <3>7 DEF HeadForm, Forms
      <3>9. bytes[i] \in ByteValues
        BY <3>4, <3>6, HeadByte
      <3>10. ~IsAddition(bytes[i])
        <4>1. PICK n \in Forms : Begins(bytes[i], n)
          BY <3>8
        <4>2. PICK b \in Nat : b = bytes[i]
          BY <3>9 DEF ByteValues
        <4>3. Begins(b, n)
          BY <4>1, <4>2
        <4>4. ~IsAddition(b)
          BY SMT, <4>3 DEF Forms, Begins, HeadMark, HeadValues, IsAddition
        <4>5. QED
          BY <4>2, <4>4
      <3>11. QED
        BY <3>2, <3>3, <3>4, <3>10
    <2>3. ReadCut
      BY <1>3, <1>8, <2>2 DEF Step, SkipAddition, ReadSingle, ReadHead, ReadAddition
    <2>4. /\ i' = i + 1 /\ UNCHANGED <<phase, text, bytes, start, lost>> /\ missing' = 0
          /\ target' = Append(target, current_symbol)
      BY <2>3 DEF ReadCut, AfterCut
    <2>5. Moved(j)' /\ Len(target') = j
      <3>1. Len(target) + 1 = j
        BY SMT, <1>4, <1>6
      <3>2. ~(j >= j + 1) /\ ~(j < j)
        BY SMT, <1>4
      <3>3. Moved(j)' /\ Len(target') = Len(target) + 1
        BY <1>1, <1>4, <1>7, <2>1, <2>4, <3>1, <3>2, MovedNext
      <3>4. QED
        BY <3>1, <3>3
    <2>6. Gone(j)' = j + 1 /\ i' = a + f + 1 /\ missing' = 0
      BY <1>7, <2>1, <2>4 DEF Gone
    <2>7. CASE j = Len(text)
      <3>1. j + 1 > Len(text) /\ i' > Len(bytes)
        BY SMT, <1>4, <1>5, <2>6, <2>7
      <3>2. Over(j)'
        BY <2>4, <2>5, <2>6, <2>7, <3>1 DEF Over
      <3>3. QED
        BY <2>4, <2>5, <3>2 DEF Reading
    <2>8. CASE j # Len(text)
      <3>1. PICK q, g : q = j + 1 /\ g = FormLength(text[j + 1])
        OBVIOUS
      <3>2. q \in 1..Len(text) /\ q + 1 = j + 2 /\ q - 1 = j
        BY SMT, <1>4, <2>8, <3>1
      <3>3. start[q] = a + f /\ g \in 1..6 /\ start[q + 1] = a + f + g
        BY <1>5, <3>1, <3>2, SymbolFacts
      <3>4. CASE g = 1
        <4>1. /\ Len(target') >= q - 1 /\ Len(target') < Len(text) /\ Len(target') + 2 = q + 1
              /\ i' = a + f + g + 0
          BY SMT, <1>4, <1>5, <2>5, <2>6, <2>8, <3>2, <3>4
        <4>2. ~(missing' > 0)
          BY SMT, <2>4
        <4>3. After(j)'
          BY <2>4, <2>6, <3>1, <3>3, <4>1, <4>2 DEF After, Taken
        <4>4. QED
          BY <2>4, <2>5, <4>3 DEF Reading
      <3>5. CASE g # 1
        <4>1. a + f < i' /\ i' < a + f + g /\ q <= Len(text)
          BY SMT, <1>5, <2>6, <3>2, <3>3, <3>5
        <4>2. Passing(j)'
          BY <2>4, <2>5, <2>6, <3>1, <3>2, <3>3, <4>1 DEF Passing
        <4>3. QED
          BY <2>4, <2>5, <4>2 DEF Reading
      <3>6. QED
        BY <3>4, <3>5
    <2>9. QED
      BY <2>7, <2>8
  <1>11. QED
    BY <1>9, <1>10

(* The reader in what remains of the symbol that is gone. *)
LEMMA PassingNext ==
  ASSUME TypeOK, Starts, Remains, lost # 0, Step,
         NEW j \in 1..Len(text), Holds(j, lost), Moved(j), Passing(j)
  PROVE  /\ UNCHANGED <<phase, text, bytes, start, lost>>
         /\ Moved(j)' /\ Reading(j)'
  <1>1. PICK q : q = Gone(j)
    OBVIOUS
  <1>2. PICK e, f, a : e = text[q] /\ f = FormLength(e) /\ a = start[q]
    OBVIOUS
  <1>3. /\ Len(text) \in Nat /\ Len(bytes) \in Nat /\ Len(target) \in Nat /\ lost \in Nat
        /\ i \in Nat
    BY SMT DEF TypeOK
  <1>4. q \in {j, j + 1} /\ (q = j <=> lost = start[j] + 1)
    BY SMT, <1>1 DEF Gone
  <1>5. /\ q \in 1..Len(text) /\ Len(target) = q - 1 /\ missing = 0
        /\ a < i /\ i < start[q + 1]
    BY SMT, <1>1, <1>2, <1>3, <1>4 DEF Passing
  <1>6. /\ e \in Symbol31 /\ f \in 1..6 /\ a \in Nat /\ start[q + 1] = a + f
        /\ start[Len(text) + 1] = Len(bytes) + 1 /\ a + f <= Len(bytes) + 1
    BY <1>2, <1>5, SymbolFacts DEF Remains
  <1>7. lost <= a + 1
    <2>1. CASE q = j
      <3>1. a \in Nat /\ lost = a + 1
        BY <1>2, <1>4, <1>6, <2>1
      <3>2. QED
        BY SMT, <3>1
    <2>2. CASE q = j + 1
      <3>1. lost <= a
        BY <1>2, <2>2 DEF Holds
      <3>2. QED
        BY SMT, <1>3, <1>6, <3>1
    <2>3. QED
      BY <1>4, <2>1, <2>2
  <1>8. PICK k : k = i - a + 1
    OBVIOUS
  <1>9. k \in 2..f /\ k \in 1..f /\ a + k > lost /\ a + k - 1 = i /\ i <= Len(bytes)
    BY SMT, <1>3, <1>5, <1>6, <1>7, <1>8
  <1>10. bytes[i] = Byte(e, k)
    BY <1>2, <1>5, <1>9 DEF Remains
  <1>11. IsAddition(bytes[i]) /\ bytes[i] \in ByteValues
    BY <1>2, <1>6, <1>9, <1>10, AdditionByte
  <1>12. HeadForm(bytes[i]) = 0
    <2>1. ~\E n \in Forms : Begins(bytes[i], n)
      BY SMT, <1>11 DEF Forms, Begins, HeadMark, HeadValues, IsAddition, ByteValues
    <2>2. QED
      BY <2>1 DEF HeadForm
  <1>13. SkipAddition
    <2>1. ~(missing > 0)
      BY SMT, <1>5
    <2>2. QED
      BY SMT, <1>12, <2>1 DEF Step, ReadSingle, ReadHead, ReadAddition, ReadCut
  <1>14. /\ i' = i + 1 /\ missing' = 0
         /\ UNCHANGED <<phase, text, bytes, start, lost, target>>
    BY <1>5, <1>13 DEF SkipAddition
  <1>15. Moved(j)' /\ Gone(j)' = q
    BY <1>1, <1>14, MovedSame DEF Gone
  <1>16. CASE i' < a + f
    <2>1. a < i' /\ q <= Len(text)
      BY SMT, <1>3, <1>5, <1>6, <1>14
    <2>2. Passing(j)'
      BY <1>2, <1>5, <1>6, <1>14, <1>15, <1>16, <2>1 DEF Passing
    <2>3. QED
      BY <1>14, <1>15, <2>2 DEF Reading
  <1>17. CASE ~(i' < a + f)
    <2>1. /\ i' = a + f + 0 /\ Len(target) >= q - 1 /\ Len(target) < Len(text)
          /\ Len(target) + 2 = q + 1
      BY SMT, <1>3, <1>5, <1>6, <1>14, <1>17
    <2>2. ~(missing' > 0)
      BY SMT, <1>14
    <2>3. After(j)'
      BY <1>6, <1>14, <1>15, <2>1, <2>2 DEF After, Taken
    <2>4. QED
      BY <1>14, <1>15, <2>3 DEF Reading
  <1>18. QED
    BY <1>16, <1>17

(* The reader in step again. *)
LEMMA AfterNext ==
  ASSUME TypeOK, Starts, Remains, lost # 0, Step,
         NEW j \in 1..Len(text), Holds(j, lost), Moved(j), After(j)
  PROVE  /\ UNCHANGED <<phase, text, bytes, start, lost>>
         /\ Moved(j)' /\ Reading(j)'
  <1>1. PICK n : n = Len(target) + 2
    OBVIOUS
  <1>2. PICK e, s : e = text[n] /\ s = start[n]
    OBVIOUS
  <1>3. PICK h, f : h = Taken(e) /\ f = FormLength(e)
    OBVIOUS
  <1>4. /\ Len(text) \in Nat /\ Len(bytes) \in Nat /\ Len(target) \in Nat /\ lost \in Nat
        /\ missing \in 0..5 /\ i \in Nat
    BY SMT DEF TypeOK
  <1>5. Gone(j) \in {j, j + 1} /\ Gone(j) \in Nat
    BY SMT DEF Gone
  <1>6. /\ Len(target) >= Gone(j) - 1 /\ Len(target) < Len(text)
        /\ missing > 0 => n <= Len(text) /\ Within(e)
        /\ i = s + h
    BY <1>1, <1>2, <1>3 DEF After
  <1>7. n \in 1..(Len(text) + 1) /\ n > Gone(j) /\ n > j
    BY SMT, <1>1, <1>4, <1>5, <1>6
  <1>8. s \in Nat /\ lost <= s
    <2>1. j + 1 \in 1..(Len(text) + 1) /\ j + 1 <= n
      BY SMT, <1>4, <1>7
    <2>2. s \in Nat /\ start[j + 1] \in Nat /\ start[j + 1] <= s
      BY <1>2, <1>7, <2>1, InOrder
    <2>3. QED
      BY SMT, <1>4, <2>2 DEF Holds
  <1>9. start[Len(text) + 1] = Len(bytes) + 1
    BY DEF Remains
  <1>10. n \in 1..Len(text)
    <2>1. CASE missing > 0
      BY SMT, <1>4, <1>6, <1>7, <2>1
    <2>2. CASE ~(missing > 0)
      <3>1. missing = 0 /\ h = 0
        BY SMT, <1>3, <1>4, <2>2 DEF Taken
      <3>2. i <= Len(bytes)
        BY <2>2 DEF Step, SkipAddition, ReadSingle, ReadHead, ReadAddition, ReadCut
      <3>3. n = Len(text) + 1 => s = Len(bytes) + 1
        BY <1>2, <1>9
      <3>4. n # Len(text) + 1
        BY SMT, <1>4, <1>6, <1>8, <3>1, <3>2, <3>3
      <3>5. QED
        BY SMT, <1>4, <1>7, <3>4
    <2>3. QED
      BY <2>1, <2>2
  <1>11. e \in Symbol31 /\ f \in 1..6 /\ start[n + 1] = s + f /\ s + f <= Len(bytes) + 1
    BY <1>2, <1>3, <1>9, <1>10, SymbolFacts
  <1>12. Within(e)
    BY <1>6 DEF Within
  <1>13. h \in 0..(f - 1)
    <2>1. CASE missing = 0
      BY SMT, <1>3, <1>11, <2>1 DEF Taken
    <2>2. CASE missing # 0
      <3>1. missing \in 1..5 /\ missing > 0
        BY SMT, <1>4, <2>2
      <3>2. h = f - missing /\ missing < f
        BY <1>3, <1>12, <2>2, <3>1 DEF Taken, Within
      <3>3. QED
        BY SMT, <1>11, <3>1, <3>2
    <2>3. QED
      BY <2>1, <2>2
  <1>14. i <= Len(bytes)
    BY SMT, <1>4, <1>6, <1>8, <1>11, <1>13
  <1>15. bytes[i] = Byte(e, h + 1)
    <2>1. PICK k : k = h + 1
      OBVIOUS
    <2>2. k \in 1..f /\ s + k - 1 = i /\ s + k > lost
      BY SMT, <1>4, <1>6, <1>8, <1>11, <1>13, <2>1
    <2>3. bytes[start[n] + k - 1] = Byte(text[n], k)
      BY <1>2, <1>3, <1>10, <2>2 DEF Remains
    <2>4. QED
      BY <1>2, <2>1, <2>2, <2>3
  <1>16. /\ i' = i + 1 /\ UNCHANGED <<phase, text, bytes, start, lost>>
         /\ \/ h + 1 = f /\ missing' = 0 /\ target' = Append(target, e)
            \/ /\ h + 1 < f /\ target' = target /\ missing' = f - (h + 1)
               /\ current_symbol' = e \div Weight[missing' + 1]
    BY <1>3, <1>11, <1>12, <1>14, <1>15, Consume
  <1>17. Gone(j)' = Gone(j)
    BY <1>16 DEF Gone
  <1>18. CASE h + 1 = f /\ missing' = 0 /\ target' = Append(target, e)
    <2>1. i' = s + f + 0 /\ ~(missing' > 0)
      BY SMT, <1>6, <1>8, <1>11, <1>13, <1>16, <1>18
    <2>2. Moved(j)' /\ Len(target') = Len(target) + 1
      <3>1. ~(Len(target) + 1 < j) /\ ~(Len(target) + 1 = j /\ Gone(j) # j)
        BY SMT, <1>1, <1>4, <1>5, <1>7
      <3>2. QED
        BY <1>1, <1>2, <1>11, <1>16, <1>18, <3>1, MovedNext
    <2>3. /\ Len(target') >= Gone(j) - 1 /\ Len(target') < Len(text)
          /\ Len(target') + 2 = n + 1
      BY SMT, <1>1, <1>4, <1>5, <1>6, <1>10, <2>2
    <2>4. After(j)'
      BY <1>11, <1>16, <1>17, <1>18, <2>1, <2>3 DEF After, Taken
    <2>5. QED
      BY <1>16, <2>2, <2>4 DEF Reading
  <1>19. CASE /\ h + 1 < f /\ target' = target /\ missing' = f - (h + 1)
              /\ current_symbol' = e \div Weight[missing' + 1]
    <2>1. Moved(j)'
      BY <1>16, <1>19, MovedSame
    <2>2. /\ i' = s + (h + 1) /\ missing' > 0 /\ missing' # 0
          /\ missing' < f /\ f - missing' = h + 1
      BY SMT, <1>6, <1>8, <1>11, <1>13, <1>16, <1>19
    <2>3. text'[Len(target') + 2] = e /\ start'[Len(target') + 2] = s
      BY <1>1, <1>2, <1>16, <1>19
    <2>4. Within(text[Len(target) + 2])'
      BY <1>3, <1>19, <2>2, <2>3 DEF Within
    <2>5. Taken(text[Len(target) + 2])' = h + 1
      BY <1>3, <2>2, <2>3 DEF Taken
    <2>6. Len(target') + 2 <= Len(text')
      BY SMT, <1>1, <1>4, <1>10, <1>16, <1>19
    <2>7. After(j)'
      BY <1>6, <1>16, <1>17, <1>19, <2>2, <2>3, <2>4, <2>5, <2>6 DEF After
    <2>8. QED
      BY <1>16, <2>1, <2>7 DEF Reading
  <1>20. QED
    BY <1>16, <1>18, <1>19

(* Sequences with the same members. *)
LEMMA SameMembers ==
  ASSUME NEW V, NEW x \in Seq(V), NEW y \in Seq(V), Len(x) = Len(y),
         \A p \in 1..Len(x) : x[p] = y[p]
  PROVE  x = y
  BY SMT

(* Two sequences in a row. *)
LEMMA InARow ==
  ASSUME NEW V, NEW x \in Seq(V), NEW y \in Seq(V)
  PROVE  /\ x \o y \in Seq(V) /\ Len(x \o y) = Len(x) + Len(y)
         /\ \A p \in 1..Len(x) : (x \o y)[p] = x[p]
         /\ \A p \in 1..Len(y) : (x \o y)[Len(x) + p] = y[p]
  <1>1. x \o y \in Seq(V) /\ Len(x \o y) = Len(x) + Len(y)
    OBVIOUS
  <1>2. \A p \in 1..Len(x) : (x \o y)[p] = x[p]
    BY SMT
  <1>3. ASSUME NEW p \in 1..Len(y) PROVE (x \o y)[Len(x) + p] = y[p]
    <2>1. PICK c : c = Len(x) + p
      OBVIOUS
    <2>2. c \in 1..(Len(x) + Len(y)) /\ c > Len(x) /\ c - Len(x) = p
      BY SMT, <2>1
    <2>3. (x \o y)[c] = y[c - Len(x)]
      BY SMT, <2>2
    <2>4. QED
      BY <2>1, <2>2, <2>3
  <1>4. QED
    BY <1>1, <1>2, <1>3

(* The part of a sequence behind its a-th member. *)
LEMMA Behind ==
  ASSUME NEW V, NEW s \in Seq(V), NEW m \in Nat, m = Len(s), NEW k \in 1..m
  PROVE  LET y == SubSeq(s, k + 1, m)
         IN  /\ y \in Seq(V) /\ Len(y) = m - k
             /\ \A p \in 1..(m - k) : y[p] = s[k + p]
  <1>1. SubSeq(s, k + 1, m) \in Seq(V)
    BY SMT
  <1>2. Len(SubSeq(s, k + 1, m)) = m - k
    BY SMT
  <1>3. ASSUME NEW p \in 1..(m - k) PROVE SubSeq(s, k + 1, m)[p] = s[k + p]
    BY SMT
  <1>4. QED
    BY <1>1, <1>2, <1>3

(* A sequence without its k-th member. *)
LEMMA Without ==
  ASSUME NEW V, NEW s \in Seq(V), NEW k \in 1..Len(s)
  PROVE  LET t == SubSeq(s, 1, k - 1) \o SubSeq(s, k + 1, Len(s))
         IN  /\ t \in Seq(V) /\ Len(t) = Len(s) - 1
             /\ \A p \in 1..Len(s) : /\ p < k => t[p] = s[p]
                                     /\ p > k => t[p - 1] = s[p]
  <1>1. PICK m : m = Len(s)
    OBVIOUS
  <1>2. PICK x, y : x = SubSeq(s, 1, k - 1) /\ y = SubSeq(s, k + 1, m)
    OBVIOUS
  <1>3. m \in Nat /\ k \in 1..m
    BY SMT, <1>1
  <1>4. PICK a, b : a = k - 1 /\ b = m - k
    OBVIOUS
  <1>5. a \in Nat /\ b \in Nat /\ a + b = m - 1 /\ k \in Nat
    BY SMT, <1>3, <1>4
  <1>6. x \in Seq(V) /\ Len(x) = a /\ \A p \in 1..a : x[p] = s[p]
    BY SMT, <1>1, <1>2, <1>4
  <1>7. y \in Seq(V) /\ Len(y) = b /\ \A p \in 1..b : y[p] = s[k + p]
    BY SMTT(30), <1>1, <1>2, <1>3, <1>4, Behind
  <1>8. /\ x \o y \in Seq(V) /\ Len(x \o y) = a + b
        /\ \A p \in 1..a : (x \o y)[p] = x[p]
        /\ \A p \in 1..b : (x \o y)[a + p] = y[p]
    <2>1. x \in Seq(V) /\ y \in Seq(V)
      BY <1>6, <1>7
    <2>2. /\ x \o y \in Seq(V) /\ Len(x \o y) = Len(x) + Len(y)
          /\ \A p \in 1..Len(x) : (x \o y)[p] = x[p]
          /\ \A p \in 1..Len(y) : (x \o y)[Len(x) + p] = y[p]
      BY <2>1, InARow
    <2>3. Len(x) = a /\ Len(y) = b
      BY <1>6, <1>7
    <2>4. QED
      BY <2>2, <2>3
  <1>9. ASSUME NEW p \in 1..m, p < k PROVE (x \o y)[p] = s[p]
    <2>1. p \in 1..a
      BY SMT, <1>3, <1>4, <1>9
    <2>2. QED
      BY <1>6, <1>8, <2>1
  <1>10. ASSUME NEW p \in 1..m, p > k PROVE (x \o y)[p - 1] = s[p]
    <2>1. PICK d : d = p - k
      OBVIOUS
    <2>2. d \in 1..b /\ a + d = p - 1 /\ k + d = p
      BY SMT, <1>3, <1>4, <1>10, <2>1
    <2>3. (x \o y)[a + d] = s[k + d]
      BY <1>7, <1>8, <2>2
    <2>4. QED
      BY <2>2, <2>3
  <1>11. QED
    BY <1>1, <1>2, <1>5, <1>8, <1>9, <1>10

(* A sequence with c in the place of its k-th and next member. *)
Instead(s, k, c) == SubSeq(s, 1, k - 1) \o <<c>> \o SubSeq(s, k + 2, Len(s))

LEMMA WithInstead ==
  ASSUME NEW V, NEW s \in Seq(V), NEW k \in 1..Len(s), NEW c \in V
  PROVE  /\ Instead(s, k, c) \in Seq(V)
         /\ Len(Instead(s, k, c)) = (IF k = Len(s) THEN k ELSE Len(s) - 1)
         /\ Instead(s, k, c)[k] = c
         /\ \A p \in 1..Len(s) : /\ p < k => Instead(s, k, c)[p] = s[p]
                                 /\ p > k + 1 => Instead(s, k, c)[p - 1] = s[p]
  <1>1. PICK m : m = Len(s)
    OBVIOUS
  <1>2. PICK x, y : x = SubSeq(s, 1, k - 1) /\ y = SubSeq(s, k + 2, m)
    OBVIOUS
  <1>3. m \in Nat /\ k \in 1..m /\ k \in Nat
    BY SMT, <1>1
  <1>4. PICK a, b : a = k - 1 /\ b = IF k = m THEN 0 ELSE m - k - 1
    OBVIOUS
  <1>5. a \in Nat /\ b \in Nat /\ a + 1 = k
    BY SMT, <1>3, <1>4
  <1>6. x \in Seq(V) /\ Len(x) = a /\ \A p \in 1..a : x[p] = s[p]
    BY SMT, <1>1, <1>2, <1>4
  <1>7. y \in Seq(V) /\ Len(y) = b /\ \A p \in 1..b : y[p] = s[k + 1 + p]
    <2>1. CASE k = m
      <3>1. y = <<>> /\ b = 0
        BY SMT, <1>1, <1>2, <1>3, <1>4, <2>1
      <3>2. QED
        BY SMT, <3>1
    <2>2. CASE k # m
      <3>1. PICK l : l = k + 1
        OBVIOUS
      <3>2. l \in 1..m /\ k + 2 = l + 1 /\ b = m - l
        BY SMT, <1>3, <1>4, <2>2, <3>1
      <3>3. y = SubSeq(s, l + 1, m)
        BY <1>2, <3>2
      <3>4. LET v == SubSeq(s, l + 1, m)
            IN  v \in Seq(V) /\ Len(v) = m - l /\ \A p \in 1..(m - l) : v[p] = s[l + p]
        BY <1>1, <1>3, <3>2, Behind
      <3>5. QED
        BY <3>1, <3>2, <3>3, <3>4
    <2>3. QED
      BY <2>1, <2>2
  <1>8. PICK z : z = x \o <<c>>
    OBVIOUS
  <1>9. /\ z \in Seq(V) /\ Len(z) = k /\ z[k] = c
        /\ \A p \in 1..a : z[p] = x[p]
    <2>1. PICK d : d = <<c>>
      OBVIOUS
    <2>2. x \in Seq(V) /\ d \in Seq(V)
      BY SMT, <1>6, <2>1
    <2>3. /\ x \o d \in Seq(V) /\ Len(x \o d) = Len(x) + Len(d)
          /\ \A p \in 1..Len(x) : (x \o d)[p] = x[p]
          /\ \A p \in 1..Len(d) : (x \o d)[Len(x) + p] = d[p]
      BY <2>2, InARow
    <2>4. Len(x) = a /\ Len(d) = 1 /\ d[1] = c /\ 1 \in 1..1
      BY SMT, <1>6, <2>1
    <2>5. QED
      BY <1>5, <1>8, <2>1, <2>3, <2>4
  <1>10. /\ z \o y \in Seq(V) /\ Len(z \o y) = k + b
         /\ \A p \in 1..k : (z \o y)[p] = z[p]
         /\ \A p \in 1..b : (z \o y)[k + p] = y[p]
    <2>1. z \in Seq(V) /\ y \in Seq(V)
      BY <1>7, <1>9
    <2>2. /\ z \o y \in Seq(V) /\ Len(z \o y) = Len(z) + Len(y)
          /\ \A p \in 1..Len(z) : (z \o y)[p] = z[p]
          /\ \A p \in 1..Len(y) : (z \o y)[Len(z) + p] = y[p]
      BY <2>1, InARow
    <2>3. Len(z) = k /\ Len(y) = b
      BY <1>7, <1>9
    <2>4. QED
      BY <2>2, <2>3
  <1>11. k + b = IF k = m THEN k ELSE m - 1
    BY SMT, <1>3, <1>4
  <1>12. (z \o y)[k] = c
    <2>1. k \in 1..k
      BY SMT, <1>3
    <2>2. QED
      BY <1>9, <1>10, <2>1
  <1>13. ASSUME NEW p \in 1..m, p < k PROVE (z \o y)[p] = s[p]
    <2>1. p \in 1..a /\ p \in 1..k
      BY SMT, <1>3, <1>4, <1>13
    <2>2. QED
      BY <1>6, <1>9, <1>10, <2>1
  <1>14. ASSUME NEW p \in 1..m, p > k + 1 PROVE (z \o y)[p - 1] = s[p]
    <2>1. PICK q : q = p - (k + 1)
      OBVIOUS
    <2>2. q \in 1..b /\ k + q = p - 1 /\ k + 1 + q = p
      BY SMT, <1>3, <1>4, <1>14, <2>1
    <2>3. (z \o y)[k + q] = s[k + 1 + q]
      BY <1>7, <1>10, <2>2
    <2>4. QED
      BY <2>2, <2>3
  <1>15. Instead(s, k, c) = z \o y
    BY <1>1, <1>2, <1>8 DEF Instead
  <1>16. QED
    BY <1>1, <1>10, <1>11, <1>12, <1>13, <1>14, <1>15

(* The byte gets lost. *)
LEMMA LoseDamaged ==
  ASSUME IInv, Starts, Covered, NEW k \in 1..Len(bytes), Lose(k)
  PROVE  Starts' /\ Covered' /\ Remains' /\ Damaged' /\ Ended'
  <1>1. /\ phase = "write" /\ lost = 0 /\ i = 1 /\ missing = 0 /\ target = <<>>
        /\ lost' = k /\ phase' = "read" /\ k # 0
        /\ bytes' = SubSeq(bytes, 1, k - 1) \o SubSeq(bytes, k + 1, Len(bytes))
        /\ UNCHANGED <<text, start, i, current_symbol, missing, target>>
    BY SMT DEF Lose, IInv, Fits
  <1>2. /\ bytes \in Seq(ByteValues) /\ Len(bytes) \in Nat /\ k \in Nat /\ TypeOK
        /\ Len(text) \in Nat
    BY SMT DEF IInv, TypeOK
  <1>3. /\ Len(bytes') = Len(bytes) - 1
        /\ \A p \in 1..Len(bytes) : /\ p < k => bytes'[p] = bytes[p]
                                    /\ p > k => bytes'[p - 1] = bytes[p]
    BY <1>1, <1>2, Without
  <1>4. Starts' /\ Covered' /\ Ended'
    <2>1. Starts'
      BY <1>1 DEF Starts
    <2>2. QED
      BY <1>1, <2>1 DEF Covered, Ended
  <1>5. /\ start[Len(text) + 1] = Len(bytes)
        /\ \A q \in 1..Len(text) : \A p \in 1..FormLength(text[q]) : bytes[start[q] + p] = Byte(text[q], p)
    BY <1>1 DEF IInv, Placed
  <1>6. Remains'
    <2>1. start[Len(text) + 1] = Len(bytes') + 1
      BY SMT, <1>2, <1>3, <1>5
    <2>2. ASSUME NEW q \in 1..Len(text), NEW p \in 1..FormLength(text[q])
          PROVE  /\ start[q] + p < k => bytes'[start[q] + p] = Byte(text[q], p)
                 /\ start[q] + p > k => bytes'[start[q] + p - 1] = Byte(text[q], p)
      <3>1. PICK r : r = start[q] + p
        OBVIOUS
      <3>2. r \in 1..Len(bytes) /\ start[q] + p - 1 = r - 1
        <4>1. PICK s, f : s = start[q] /\ f = FormLength(text[q])
          OBVIOUS
        <4>2. s \in Nat /\ f \in 1..6 /\ s + f <= Len(bytes) /\ p \in 1..f
          BY <1>2, <1>5, <4>1, SymbolFacts
        <4>3. QED
          BY SMTT(30), <1>2, <3>1, <4>1, <4>2
      <3>3. bytes[r] = Byte(text[q], p)
        BY <1>5, <3>1
      <3>4. /\ r < k => bytes'[r] = bytes[r]
            /\ r > k => bytes'[r - 1] = bytes[r]
        BY <1>3, <3>2
      <3>5. start[q] + p < k => bytes'[start[q] + p] = Byte(text[q], p)
        BY <3>1, <3>3, <3>4, Zenon
      <3>6. start[q] + p > k => bytes'[start[q] + p - 1] = Byte(text[q], p)
        BY <3>1, <3>2, <3>3, <3>4, Zenon
      <3>7. QED
        BY <3>5, <3>6
    <2>3. QED
      BY <1>1, <2>1, <2>2 DEF Remains
  <1>7. Damaged'
    <2>1. PICK j \in 1..Len(text) : Holds(j, k)
      BY <1>1 DEF Covered
    <2>2. /\ start[j] \in Nat /\ start[j + 1] \in Nat /\ start[j] < k /\ k <= start[j + 1]
          /\ start[j + 1] = start[j] + FormLength(text[j]) /\ FormLength(text[j]) \in 1..6
      BY <1>2, <2>1, SymbolFacts DEF Holds
    <2>3. Holds(j, lost)'
      BY <1>1, <2>1 DEF Holds
    <2>4. Len(target') = 0 /\ start[1] = 0
      BY SMT, <1>1 DEF Starts
    <2>5. Moved(j)'
      BY SMT, <2>4 DEF Moved
    <2>6. ~(missing' > 0)
      BY SMT, <1>1
    <2>7. CASE k > 1
      <3>1. Len(target') < j /\ Len(target') + 1 = 1 /\ i' = 0 + 0 + 1 /\ i' < k
        BY SMT, <1>1, <2>4, <2>7
      <3>2. Before(j)'
        BY <1>1, <2>4, <2>6, <3>1 DEF Before, Within, Taken
      <3>3. QED
        BY <1>1, <2>3, <2>5, <3>2 DEF Damaged, Reading
    <2>8. CASE ~(k > 1)
      <3>1. k = 1 /\ start[j] = 0
        BY SMT, <1>2, <2>2, <2>8
      <3>2. j = 1
        <4>1. 1 \in 1..(Len(text) + 1) /\ j \in 1..(Len(text) + 1)
          BY SMT, <1>2
        <4>2. 1 < j => start[1] < start[j]
          BY <1>2, <4>1, InOrder
        <4>3. QED
          BY SMT, <2>4, <3>1, <4>2
      <3>3. Gone(j)' = 1
        BY SMT, <1>1, <3>1, <3>2 DEF Gone
      <3>4. start[2] = FormLength(text[1]) /\ FormLength(text[1]) \in 1..6
        BY SMT, <2>2, <3>1, <3>2
      <3>5. CASE FormLength(text[1]) = 1
        <4>1. /\ Len(target') >= 1 - 1 /\ Len(target') < Len(text)
              /\ Len(target') + 2 = 2 /\ i' = start[2] + 0
          BY SMT, <1>1, <1>2, <2>4, <3>4, <3>5
        <4>2. After(j)'
          BY <1>1, <2>6, <3>3, <4>1 DEF After, Taken
        <4>3. QED
          BY <1>1, <2>3, <2>5, <4>2 DEF Damaged, Reading
      <3>6. CASE FormLength(text[1]) # 1
        <4>1. /\ 1 <= Len(text) /\ Len(target') = 1 - 1 /\ start[1] < i' /\ 1 + 1 = 2
              /\ i' < start[2]
          BY SMT, <1>1, <1>2, <2>4, <3>4, <3>6
        <4>2. Passing(j)'
          BY <1>1, <3>3, <4>1 DEF Passing
        <4>3. QED
          BY <1>1, <2>3, <2>5, <4>2 DEF Damaged, Reading
      <3>7. QED
        BY <3>5, <3>6
    <2>9. QED
      BY <2>7, <2>8
  <1>8. QED
    BY <1>4, <1>6, <1>7

(* A symbol more. *)
LEMMA WriteDamaged ==
  ASSUME IInv, Starts, Covered, NEW e \in Symbols, Write(e), IInv'
  PROVE  Starts' /\ Covered' /\ Remains' /\ Damaged' /\ Ended'
  <1>1. /\ phase = "write" /\ phase' = "write" /\ lost = 0 /\ lost' = 0
        /\ text' = Append(text, e) /\ bytes' = bytes \o Encoded(e)
        /\ start' = Append(start, Len(bytes'))
    BY DEF Write, IInv, Fits
  <1>2. Remains' /\ Damaged' /\ Ended'
    BY <1>1 DEF Remains, Damaged, Ended
  <1>3. /\ text \in Seq(Symbols) /\ start \in Seq(Nat) /\ bytes \in Seq(ByteValues) /\ TypeOK
        /\ Len(text) \in Nat /\ Len(bytes) \in Nat /\ Len(bytes') \in Nat
        /\ Len(start) = Len(text) + 1
    BY SMTT(30) DEF IInv, TypeOK, Placed
  <1>4. Len(text') = Len(text) + 1
    BY SMT, <1>1, <1>3
  <1>5. PICK n, m, l : n = Len(text) /\ m = Len(bytes) /\ l = Len(bytes')
    OBVIOUS
  <1>6. /\ start[1] = 0 /\ start[n + 1] = m
        /\ \A q \in 1..n : start[q + 1] = start[q] + FormLength(text[q])
    BY <1>1, <1>5 DEF Starts, IInv, Placed
  <1>7. /\ Len(start') = n + 2 /\ start'[n + 2] = l
        /\ \A q \in 1..(n + 1) : start'[q] = start[q]
    BY SMT, <1>1, <1>3, <1>5
  <1>8. /\ Len(start') = Len(text') + 1 /\ start'[1] = 0
        /\ \A q \in 1..Len(text') : start'[q + 1] = start'[q] + FormLength(text'[q])
    BY <1>1 DEF IInv, Placed
  <1>9. m < l
    <2>1. e \in Symbol31
      BY SymbolsAssumption
    <2>2. FormLength(e) \in 1..6
      BY <2>1, FormFacts DEF Forms
    <2>3. n + 1 \in 1..Len(text') /\ text'[n + 1] = e /\ (n + 1) + 1 = n + 2 /\ n + 1 \in 1..(n + 1)
      BY SMT, <1>1, <1>3, <1>4, <1>5
    <2>4. start'[n + 2] = start'[n + 1] + FormLength(e)
      BY <1>8, <2>3
    <2>5. l = m + FormLength(e)
      BY <1>6, <1>7, <2>3, <2>4
    <2>6. QED
      BY SMT, <1>3, <1>5, <2>2, <2>5
  <1>10. Starts'
    <2>1. ASSUME NEW a \in 1..(n + 2), NEW b \in 1..(n + 2), a < b
          PROVE  start'[a] < start'[b]
      <3>1. CASE b # n + 2
        <4>1. a \in 1..(n + 1) /\ b \in 1..(n + 1)
          <5>1. n \in Nat
            BY <1>3, <1>5
          <5>2. QED
            BY SMT, <5>1, <2>1, <3>1
        <4>2. start[a] < start[b]
          BY <1>5, <2>1, <4>1 DEF Starts
        <4>3. QED
          BY <1>7, <4>1, <4>2
      <3>2. CASE b = n + 2
        <4>1. a \in 1..(n + 1) /\ n + 1 \in 1..(n + 1) /\ a <= n + 1
          BY SMT, <1>3, <1>5, <2>1, <3>2
        <4>2. start[a] \in Nat /\ start[a] <= m
          BY <1>3, <1>5, <1>6, <4>1, InOrder
        <4>3. start[a] < l
          BY SMT, <1>3, <1>5, <1>9, <4>2
        <4>4. QED
          BY <1>7, <3>2, <4>1, <4>3
      <3>3. QED
        BY <3>1, <3>2
    <2>2. Len(text') + 1 = n + 2
      BY SMT, <1>3, <1>4, <1>5
    <2>3. QED
      BY <1>8, <2>1, <2>2 DEF Starts
  <1>11. Covered'
    <2>1. ASSUME NEW k \in 1..l PROVE \E q \in 1..(n + 1) : start'[q] < k /\ k <= start'[q + 1]
      <3>1. CASE k <= m
        <4>1. k \in 1..m
          BY SMT, <1>3, <1>5, <3>1
        <4>2. PICK q \in 1..n : start[q] < k /\ k <= start[q + 1]
          BY <1>1, <1>5, <4>1 DEF Covered, Holds
        <4>3. q \in 1..(n + 1) /\ q + 1 \in 1..(n + 1)
          BY SMT, <1>3, <1>5
        <4>4. QED
          BY <1>7, <4>2, <4>3
      <3>2. CASE ~(k <= m)
        <4>1. n + 1 \in 1..(n + 1) /\ (n + 1) + 1 = n + 2 /\ m < k /\ k <= l
          BY SMT, <1>3, <1>5, <3>2
        <4>2. start'[n + 1] < k /\ k <= start'[(n + 1) + 1]
          BY <1>6, <1>7, <4>1
        <4>3. QED
          BY <4>1, <4>2
      <3>3. QED
        BY <3>1, <3>2
    <2>2. Len(text') = n + 1
      BY <1>4, <1>5
    <2>3. QED
      BY <1>5, <2>1, <2>2 DEF Covered, Holds
  <1>12. QED
    BY <1>2, <1>10, <1>11

LEMMA NextDamaged ==
  ASSUME DInv, [Next]_vars
  PROVE  DInv'
  <1>1. IInv /\ Starts /\ Covered /\ Remains /\ Damaged /\ Ended /\ TypeOK
    BY DEF DInv, IInv
  <1>2. IInv'
    BY <1>1, NextIInv
  <1>3. SUFFICES Starts' /\ Covered' /\ Remains' /\ Damaged' /\ Ended'
    BY <1>2 DEF DInv
  <1>4. CASE UNCHANGED vars
    <2>1. Starts' /\ Covered' /\ Remains' /\ Ended'
      BY <1>1, <1>4 DEF vars, Starts, Covered, Holds, Remains, Ended
    <2>2. Damaged'
      BY <1>1, <1>4 DEF vars, Damaged, Holds, Moved, Reading, Before, Torn, Passing, After, Over,
                        Gone, Taken, Within
    <2>3. QED
      BY <2>1, <2>2
  <1>5. ASSUME NEW e \in Symbols, Write(e) PROVE Starts' /\ Covered' /\ Remains' /\ Damaged' /\ Ended'
    BY <1>1, <1>2, <1>5, WriteDamaged
  <1>6. CASE Arrive
    <2>1. lost = 0 /\ lost' = 0 /\ phase' = "read" /\ UNCHANGED <<text, bytes, start>>
      BY <1>1, <1>6 DEF Arrive, IInv, Fits
    <2>2. QED
      BY <1>1, <2>1 DEF Starts, Covered, Holds, Remains, Damaged, Ended
  <1>7. ASSUME NEW k \in 1..Len(bytes), Lose(k)
        PROVE  Starts' /\ Covered' /\ Remains' /\ Damaged' /\ Ended'
    BY <1>1, <1>7, LoseDamaged
  <1>8. CASE Step
    <2>1. UNCHANGED <<phase, text, bytes, start, lost>> /\ phase = "read"
      BY <1>8 DEF Step, SkipAddition, ReadSingle, ReadHead, ReadAddition, ReadCut
    <2>2. Starts' /\ Covered' /\ Remains' /\ Ended'
      BY <1>1, <2>1 DEF Starts, Covered, Holds, Remains, Ended
    <2>3. CASE lost # 0
      <3>1. PICK j \in 1..Len(text) : Holds(j, lost) /\ Moved(j) /\ Reading(j)
        BY <1>1, <2>3 DEF Damaged
      <3>2. ~Over(j)
        <4>1. SUFFICES ASSUME missing = 0, i > Len(bytes) PROVE FALSE
          BY DEF Over
        <4>2. ~(missing > 0) /\ ~(i <= Len(bytes))
          BY SMT, <4>1, <1>1 DEF TypeOK
        <4>3. QED
          BY <1>8, <4>2 DEF Step, SkipAddition, ReadSingle, ReadHead, ReadAddition, ReadCut
      <3>3. Moved(j)' /\ Reading(j)'
        BY <1>1, <1>8, <2>3, <3>1, <3>2, BeforeNext, TornNext, PassingNext, AfterNext DEF Reading
      <3>4. Damaged'
        BY <2>1, <3>1, <3>3 DEF Damaged, Holds
      <3>5. QED
        BY <2>2, <3>4
    <2>4. CASE lost = 0
      BY <2>1, <2>2, <2>4 DEF Damaged
    <2>5. QED
      BY <2>3, <2>4
  <1>9. CASE Finish
    <2>1. /\ UNCHANGED <<text, bytes, start, lost, i, current_symbol, missing, target>>
          /\ missing = 0 /\ i > Len(bytes)
      BY <1>9 DEF Finish
    <2>2. Starts' /\ Covered' /\ Remains' /\ Ended'
      BY <1>1, <2>1 DEF Starts, Covered, Holds, Remains, Ended
    <2>3. Damaged'
      BY <1>1, <2>1 DEF Damaged, Holds, Moved, Reading, Before, Torn, Passing, After, Over,
                        Gone, Taken, Within
    <2>4. QED
      BY <2>2, <2>3
  <1>10. QED
    BY <1>4, <1>5, <1>6, <1>7, <1>8, <1>9 DEF Next, Read, Step

LEMMA InitDamaged == Init => DInv
  <1> SUFFICES ASSUME Init PROVE DInv
    OBVIOUS
  <1>1. IInv
    BY InitIInv
  <1>2. /\ text = <<>> /\ bytes = <<>> /\ start = <<0>> /\ lost = 0 /\ phase = "write"
    BY DEF Init
  <1>3. Starts
    BY SMT, <1>2 DEF Starts
  <1>4. Covered
    BY SMT, <1>2 DEF Covered
  <1>5. Remains /\ Damaged /\ Ended
    BY <1>2 DEF Remains, Damaged, Ended
  <1>6. QED
    BY <1>1, <1>3, <1>4, <1>5 DEF DInv

(* The lost byte and the reader are always in one of these stages.         *)
THEOREM DamageInductive == Spec => []DInv
  BY InitDamaged, NextDamaged, PTL DEF Spec

(* What a reader that has come to the end has read when a byte was lost. *)
LEMMA EndDamaged ==
  ASSUME DInv, phase = "done", lost # 0
  PROVE  \E j \in 1..Len(text) :
            /\ Holds(j, lost) /\ Moved(j)
            /\ \/ Gone(j) <= Len(text) /\ Len(target) = Len(text) - 1
               \/ Gone(j) > Len(text) /\ Len(target) = Len(text)
  <1>1. IInv /\ Starts /\ Remains /\ Damaged /\ Ended /\ TypeOK
    BY DEF DInv, IInv
  <1>2. PICK j \in 1..Len(text) : Holds(j, lost) /\ Moved(j) /\ Reading(j)
    BY <1>1 DEF Damaged
  <1>3. PICK n, m, t : n = Len(text) /\ m = Len(bytes) /\ t = Len(target)
    OBVIOUS
  <1>4. /\ n \in Nat /\ m \in Nat /\ t \in Nat /\ i \in Nat /\ lost \in Nat /\ j \in 1..n
        /\ missing = 0 /\ i > m
    BY SMT, <1>1, <1>3 DEF TypeOK, Ended
  <1>5. start[n + 1] = m + 1
    BY <1>1, <1>3 DEF Remains
  <1>6. PICK g : g = Gone(j)
    OBVIOUS
  <1>7. g \in 1..(n + 1)
    BY SMT, <1>4, <1>6 DEF Gone
  <1>8. \A a, b \in 1..(n + 1) : /\ start[a] \in Nat
                                 /\ a < b => start[a] < start[b]
                                 /\ a <= b => start[a] <= start[b]
    BY <1>1, <1>3, InOrder DEF Starts
  <1>9. CASE Before(j)
    <2>1. j + 1 \in 1..(n + 1) /\ n + 1 \in 1..(n + 1) /\ j + 1 <= n + 1
      BY SMT, <1>4
    <2>2. PICK s : s = start[j + 1]
      OBVIOUS
    <2>3. s \in Nat /\ s <= m + 1 /\ lost <= s
      BY <1>2, <1>5, <1>8, <2>1, <2>2 DEF Holds
    <2>4. i < lost
      BY <1>9 DEF Before
    <2>5. QED
      BY SMT, <1>4, <2>3, <2>4
  <1>10. CASE Torn(j)
    BY SMT, <1>4, <1>10 DEF Torn
  <1>11. CASE Passing(j)
    <2>1. g <= n /\ i < start[g + 1]
      BY <1>3, <1>6, <1>11 DEF Passing
    <2>2. g + 1 \in 1..(n + 1) /\ n + 1 \in 1..(n + 1) /\ g + 1 <= n + 1
      BY SMT, <1>4, <1>7, <2>1
    <2>3. PICK s : s = start[g + 1]
      OBVIOUS
    <2>4. s \in Nat /\ s <= m + 1 /\ i < s
      BY <1>5, <1>8, <2>1, <2>2, <2>3
    <2>5. QED
      BY SMT, <1>4, <2>4
  <1>12. CASE After(j)
    <2>1. /\ t >= g - 1 /\ t < n
          /\ i = start[t + 2] + 0
      BY <1>3, <1>4, <1>6, <1>12 DEF After, Taken
    <2>2. ~(t + 2 < n + 1)
      <3>1. SUFFICES ASSUME t + 2 < n + 1 PROVE FALSE
        OBVIOUS
      <3>2. PICK k : k = t + 2
        OBVIOUS
      <3>3. k \in 1..(n + 1) /\ n + 1 \in 1..(n + 1) /\ k < n + 1
        BY SMT, <1>4, <3>1, <3>2
      <3>4. PICK s : s = start[k]
        OBVIOUS
      <3>5. s \in Nat /\ s < m + 1 /\ i = s + 0
        BY <1>5, <1>8, <2>1, <3>2, <3>3, <3>4
      <3>6. QED
        BY SMT, <1>4, <3>5
    <2>3. t = n - 1 /\ g <= n
      BY SMT, <1>4, <1>7, <2>1, <2>2
    <2>4. QED
      BY <1>2, <1>3, <1>6, <2>3
  <1>13. CASE Over(j)
    BY <1>2, <1>13 DEF Over
  <1>14. QED
    BY <1>2, <1>9, <1>10, <1>11, <1>12, <1>13 DEF Reading

(* What has been read in front of the gone symbol and behind it makes what  *)
(* DamageIsLocal says.                                                       *)
LEMMA DamageImplied == DInv => DamageIsLocal
  <1>1. SUFFICES ASSUME DInv, phase = "done", lost # 0
                 PROVE  \E j \in 1..Len(text) :
                            /\ start[j] < lost /\ lost <= start[j + 1]
                            /\ IF lost = start[j] + 1
                               THEN target = SubSeq(text, 1, j - 1) \o SubSeq(text, j + 1, Len(text))
                               ELSE /\ j <= Len(target) /\ target[j] < text[j]
                                    /\ target = SubSeq(text, 1, j - 1) \o <<target[j]>>
                                                \o SubSeq(text, j + 2, Len(text))
    BY DEF DamageIsLocal
  <1>2. PICK j \in 1..Len(text) :
            /\ Holds(j, lost) /\ Moved(j)
            /\ \/ Gone(j) <= Len(text) /\ Len(target) = Len(text) - 1
               \/ Gone(j) > Len(text) /\ Len(target) = Len(text)
    BY <1>1, EndDamaged
  <1>3. PICK n, m : n = Len(text) /\ m = Len(target)
    OBVIOUS
  <1>4. /\ text \in Seq(Symbol31) /\ target \in Seq(Symbol31)
        /\ n \in Nat /\ m \in Nat /\ j \in 1..n
    <2>1. text \in Seq(Symbols) /\ target \in Seq(Symbol31)
      BY <1>1 DEF DInv, IInv, TypeOK
    <2>2. text \in Seq(Symbol31)
      BY <2>1, SymbolsAssumption
    <2>3. QED
      BY SMT, <1>3, <2>1, <2>2
  <1>5. CASE lost = start[j] + 1
    <2>1. PICK r : r = SubSeq(text, 1, j - 1) \o SubSeq(text, j + 1, Len(text))
      OBVIOUS
    <2>2. /\ r \in Seq(Symbol31) /\ Len(r) = n - 1
          /\ \A p \in 1..n : /\ p < j => r[p] = text[p]
                             /\ p > j => r[p - 1] = text[p]
      BY <1>3, <1>4, <2>1, Without
    <2>3. Gone(j) = j
      BY <1>5 DEF Gone
    <2>4. m = n - 1
      BY SMT, <1>2, <1>3, <1>4, <2>3
    <2>5. ASSUME NEW q \in 1..m PROVE target[q] = r[q]
      <3>1. CASE q < j
        <4>1. q \in 1..n
          BY SMT, <1>4, <2>4
        <4>2. QED
          BY <1>2, <1>3, <2>2, <3>1, <4>1 DEF Moved
      <3>2. CASE ~(q < j)
        <4>1. PICK p : p = q + 1
          OBVIOUS
        <4>2. p \in 1..n /\ p > j /\ p - 1 = q /\ q >= j /\ q < n
          BY SMT, <1>4, <2>4, <3>2, <4>1
        <4>3. target[q] = text[p]
          BY <1>2, <1>3, <2>3, <4>1, <4>2 DEF Moved
        <4>4. QED
          BY <2>2, <4>2, <4>3
      <3>3. QED
        BY <3>1, <3>2
    <2>6. target = r
      BY <1>3, <1>4, <2>2, <2>4, <2>5, SameMembers
    <2>7. QED
      BY <1>2, <1>5, <2>1, <2>6 DEF Holds
  <1>6. CASE lost # start[j] + 1
    <2>1. Gone(j) = j + 1
      BY <1>6 DEF Gone
    <2>2. m = (IF j = n THEN j ELSE n - 1) /\ j \in 1..m
      BY SMT, <1>2, <1>3, <1>4, <2>1
    <2>3. Gone(j) # j
      BY SMT, <1>4, <2>1
    <2>4. target[j] < text[j]
      BY <1>2, <1>3, <2>2, <2>3 DEF Moved
    <2>5. PICK c : c = target[j]
      OBVIOUS
    <2>6. c \in Symbol31
      <3>1. j \in 1..Len(target)
        BY <1>3, <2>2
      <3>2. QED
        BY <1>4, <2>5, <3>1
    <2>7. PICK r : r = Instead(text, j, c)
      OBVIOUS
    <2>8. /\ r \in Seq(Symbol31) /\ Len(r) = (IF j = n THEN j ELSE n - 1)
          /\ r[j] = c
          /\ \A p \in 1..n : /\ p < j => r[p] = text[p]
                             /\ p > j + 1 => r[p - 1] = text[p]
      <3>1. text \in Seq(Symbol31) /\ j \in 1..Len(text)
        BY <1>3, <1>4
      <3>2. /\ Instead(text, j, c) \in Seq(Symbol31)
            /\ Len(Instead(text, j, c)) = (IF j = Len(text) THEN j ELSE Len(text) - 1)
            /\ Instead(text, j, c)[j] = c
            /\ \A p \in 1..Len(text) : /\ p < j => Instead(text, j, c)[p] = text[p]
                                       /\ p > j + 1 => Instead(text, j, c)[p - 1] = text[p]
        BY <2>6, <3>1, WithInstead
      <3>3. QED
        BY <1>3, <2>7, <3>2
    <2>9. ASSUME NEW q \in 1..m PROVE target[q] = r[q]
      <3>1. CASE q < j
        <4>1. q \in 1..n
          BY SMT, <1>4, <2>2
        <4>2. QED
          BY <1>2, <1>3, <2>8, <3>1, <4>1 DEF Moved
      <3>2. CASE q = j
        BY <2>5, <2>8, <3>2
      <3>3. CASE ~(q < j) /\ q # j
        <4>1. PICK p : p = q + 1
          OBVIOUS
        <4>2. p \in 1..n /\ p > j + 1 /\ p - 1 = q /\ q >= j + 1 /\ q < n
          BY SMT, <1>4, <2>2, <3>3, <4>1
        <4>3. target[q] = text[p]
          BY <1>2, <1>3, <2>1, <4>1, <4>2 DEF Moved
        <4>4. QED
          BY <2>8, <4>2, <4>3
      <3>4. QED
        BY <3>1, <3>2, <3>3
    <2>10. target = r
      BY <1>3, <1>4, <2>2, <2>8, <2>9, SameMembers
    <2>11. j <= Len(target)
      BY SMT, <1>3, <1>4, <2>2
    <2>12. QED
      <3>1. target = SubSeq(text, 1, j - 1) \o <<target[j]>> \o SubSeq(text, j + 2, Len(text))
        BY <2>5, <2>7, <2>10, Zenon DEF Instead
      <3>2. QED
        BY <1>2, <1>6, <2>4, <2>11, <3>1 DEF Holds
  <1>7. QED
    BY <1>5, <1>6

(* Whatever the text and whichever of its bytes is lost, the reader loses   *)
(* that symbol and at most the one behind it, and reads all others.         *)
THEOREM DamageCorrect == Spec => []DamageIsLocal
  <1>1. DInv => DamageIsLocal
    BY DamageImplied
  <1>2. QED
    BY <1>1, DamageInductive, PTL
=============================================================================
