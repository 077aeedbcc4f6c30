--------------------------- MODULE ScalarText_proofs ---------------------------
(***************************************************************************)
(* Proofs about the text of scalars and scripts, of any length.  The flags *)
(* of the functions are shown to say of the next byte what its place in    *)
(* the text says of it, as long as nothing has been refused, and so the    *)
(* value to be what the bytes of the text mean, one after the other.       *)
(***************************************************************************)
EXTENDS ScalarText, FiniteSetTheorems, WellFoundedInduction, TLAPS

-----------------------------------------------------------------------------
(* The places of a text, as operators on it. *)

(* k is the length of the run of c that ends before place i. *)
IsRun(t, c, i, k) ==
    /\ \A j \in (i - k)..(i - 1) : t[j] = c
    /\ k < i - 1 => t[i - k - 1] # c

Run(t, c, i) == CHOOSE k \in 0..(i - 1) : IsRun(t, c, i, k)

Esc(t, i)    == Odd(Run(t, "backslash", i))
Break(t, i)  == t[i] = "newline" /\ ~Esc(t, i)
Margin(t, i) == LET b == i - 1 - Run(t, "blank", i) IN b > 0 /\ Break(t, b)
Opens(t, i)  == t[i] = "x" /\ Esc(t, i)
Within(t, i) ==
    \E s \in 1..(i - 1) : Opens(t, s) /\ \A j \in (s + 1)..(i - 1) : t[j] # "semicolon"
Legal(t, p, i) ==
    \/ t[i] \in HexDigits \cup {"semicolon"}
    \/ Break(t, i)
    \/ p # 2 /\ t[i] = "blank" /\ Margin(t, i)

-----------------------------------------------------------------------------
(* There is one run before a place, and a byte more makes it longer or     *)
(* ends it.                                                                *)

LEMMA RunUnique ==
    ASSUME NEW t, NEW c, NEW i \in Nat \ {0},
           NEW k \in 0..(i - 1), IsRun(t, c, i, k),
           NEW m \in 0..(i - 1), IsRun(t, c, i, m)
    PROVE  k = m
<1>1. ASSUME NEW a \in 0..(i - 1), IsRun(t, c, i, a), NEW b \in 0..(i - 1), IsRun(t, c, i, b)
      PROVE  ~(a < b)
  <2>1. SUFFICES ASSUME a < b PROVE FALSE
    OBVIOUS
  <2>2. i - a - 1 \in (i - b)..(i - 1) /\ a < i - 1
    BY <2>1
  <2> QED
    BY <1>1, <2>2 DEF IsRun
<1>2. ~(k < m) /\ ~(m < k)
  BY <1>1
<1> QED
  BY <1>2

LEMMA Least ==
    ASSUME NEW M, M \subseteq Nat, M # {}
    PROVE  \E k \in M : \A m \in M : k <= m
<1>1. PICK k \in M : \A m \in M : <<m, k>> \notin OpToRel(<, Nat)
  BY NatLessThanWellFounded, WFMin
<1>2. \A m \in M : ~(m < k)
  BY <1>1 DEF OpToRel
<1> QED
  BY <1>2

LEMMA RunExists ==
    ASSUME NEW t, NEW c, NEW i \in Nat \ {0}
    PROVE  Run(t, c, i) \in 0..(i - 1) /\ IsRun(t, c, i, Run(t, c, i))
<1> DEFINE M == {k \in Nat : k = i - 1 \/ t[i - k - 1] # c}
<1>1. i - 1 \in M
  OBVIOUS
<1>2. M \subseteq Nat /\ M # {}
  BY <1>1
<1> HIDE DEF M
<1>3. PICK k \in M : \A m \in M : k <= m
  BY <1>2, Least
<1>4. k \in 0..(i - 1)
  BY <1>1, <1>2, <1>3
<1>5. ASSUME NEW j \in (i - k)..(i - 1) PROVE t[j] = c
  <2>1. i - 1 - j \in Nat /\ i - 1 - j < k /\ i - (i - 1 - j) - 1 = j
    BY <1>4
  <2>2. i - 1 - j \notin M
    BY <1>2, <1>3, <2>1
  <2> QED
    BY <2>1, <2>2 DEF M
<1>6. IsRun(t, c, i, k)
  BY <1>3, <1>4, <1>5 DEF IsRun, M
<1> QED
  BY <1>4, <1>6 DEF Run

LEMMA RunIs ==
    ASSUME NEW t, NEW c, NEW i \in Nat \ {0}, NEW k \in 0..(i - 1), IsRun(t, c, i, k)
    PROVE  Run(t, c, i) = k
BY RunExists, RunUnique

LEMMA Longer ==
    ASSUME NEW t \in Seq(Bytes), NEW d \in Bytes
    PROVE  /\ Append(t, d) \in Seq(Bytes)
           /\ Len(Append(t, d)) = Len(t) + 1
           /\ \A j \in 1..Len(t) : Append(t, d)[j] = t[j]
           /\ Append(t, d)[Len(t) + 1] = d
OBVIOUS

LEMMA RunSame ==
    ASSUME NEW t \in Seq(Bytes), NEW d \in Bytes, NEW c, NEW i \in 1..(Len(t) + 1)
    PROVE  Run(Append(t, d), c, i) = Run(t, c, i)
<1> DEFINE k == Run(t, c, i)
<1>1. i \in Nat \ {0} /\ Len(t) \in Nat
  OBVIOUS
<1>2. k \in 0..(i - 1) /\ IsRun(t, c, i, k)
  BY <1>1, RunExists
<1>3. \A j \in 1..Len(t) : Append(t, d)[j] = t[j]
  BY Longer
<1> HIDE DEF k
<1>4. IsRun(Append(t, d), c, i, k)
  BY <1>1, <1>2, <1>3 DEF IsRun
<1> QED
  BY <1>1, <1>2, <1>4, RunIs DEF k

LEMMA RunNext ==
    ASSUME NEW t \in Seq(Bytes), NEW d \in Bytes, NEW c
    PROVE  Run(Append(t, d), c, Len(t) + 2) = IF d = c THEN Run(t, c, Len(t) + 1) + 1 ELSE 0
<1> DEFINE n == Len(t)
           u == Append(t, d)
           k == Run(t, c, n + 1)
<1>1. n \in Nat
  OBVIOUS
<1>2. k \in 0..n /\ IsRun(t, c, n + 1, k)
  BY <1>1, RunExists
<1>3. (\A j \in 1..n : u[j] = t[j]) /\ u[n + 1] = d
  BY Longer
<1> HIDE DEF n, u, k
<1>4. CASE d = c
  <2>1. PICK i, m : i = n + 2 /\ m = k + 1
    OBVIOUS
  <2>2. i \in Nat \ {0} /\ m \in 0..(i - 1)
    BY <1>1, <1>2, <2>1
  <2>3. ASSUME NEW j \in (i - m)..(i - 1) PROVE u[j] = c
    BY SMTT(30), <1>1, <1>2, <1>3, <1>4, <2>1 DEF IsRun
  <2>4. m < i - 1 => u[i - m - 1] # c
    BY <1>1, <1>2, <1>3, <2>1 DEF IsRun
  <2>5. Run(u, c, i) = m
    BY <2>2, <2>3, <2>4, RunIs DEF IsRun
  <2> QED
    BY <1>4, <2>1, <2>5 DEF n, u, k
<1>5. CASE d # c
  <2>1. IsRun(u, c, n + 2, 0)
    BY <1>1, <1>3, <1>5 DEF IsRun
  <2>2. n + 2 \in Nat \ {0} /\ 0 \in 0..(n + 2 - 1)
    BY <1>1
  <2>3. Run(u, c, n + 2) = 0
    BY <2>1, <2>2, RunIs
  <2> QED
    BY <1>5, <2>3 DEF n, u
<1> QED
  BY <1>4, <1>5

-----------------------------------------------------------------------------
(* What a byte more does to the places: nothing to those up to it, and     *)
(* what is said of the place behind it.                                    *)

LEMMA PlacesSame ==
    ASSUME NEW t \in Seq(Bytes), NEW d \in Bytes
    PROVE  /\ \A i \in 1..(Len(t) + 1) : Esc(Append(t, d), i) = Esc(t, i)
           /\ \A i \in 1..Len(t) : Break(Append(t, d), i) = Break(t, i)
           /\ \A i \in 1..(Len(t) + 1) : Margin(Append(t, d), i) = Margin(t, i)
           /\ \A i \in 1..Len(t) : Opens(Append(t, d), i) = Opens(t, i)
           /\ \A i \in 1..(Len(t) + 1) : Within(Append(t, d), i) = Within(t, i)
           /\ \A i \in 1..Len(t) : \A p : Legal(Append(t, d), p, i) = Legal(t, p, i)
<1> DEFINE u == Append(t, d)
           n == Len(t)
<1>1. n \in Nat /\ \A j \in 1..n : u[j] = t[j]
  BY Longer
<1>2. \A i \in 1..(n + 1) : Esc(u, i) = Esc(t, i)
  BY RunSame DEF Esc
<1>3. \A i \in 1..(n + 1) : Run(u, "blank", i) = Run(t, "blank", i)
  BY RunSame
<1>4. \A i \in 1..(n + 1) : Run(t, "blank", i) \in 0..(i - 1)
  BY <1>1, RunExists
<1> HIDE DEF u, n
<1>5. \A i \in 1..n : Break(u, i) = Break(t, i)
  BY <1>1, <1>2 DEF Break
<1>6. \A i \in 1..(n + 1) : Margin(u, i) = Margin(t, i)
  <2> SUFFICES ASSUME NEW i \in 1..(n + 1) PROVE Margin(u, i) = Margin(t, i)
    OBVIOUS
  <2>1. PICK b : b = i - 1 - Run(t, "blank", i)
    OBVIOUS
  <2>2. b \in 0..n
    BY <1>1, <1>4, <2>1
  <2>3. b > 0 => Break(u, b) = Break(t, b)
    BY <1>5, <2>2
  <2> QED
    BY <1>3, <2>1, <2>3 DEF Margin
<1>7. \A i \in 1..n : Opens(u, i) = Opens(t, i)
  BY <1>1, <1>2 DEF Opens
<1>8. \A i \in 1..(n + 1) : Within(u, i) = Within(t, i)
  <2> SUFFICES ASSUME NEW i \in 1..(n + 1) PROVE Within(u, i) = Within(t, i)
    OBVIOUS
  <2>1. \A s \in 1..(i - 1) : Opens(u, s) = Opens(t, s)
    BY <1>1, <1>7
  <2>2. \A s \in 1..(i - 1) : \A j \in (s + 1)..(i - 1) : u[j] = t[j]
    BY <1>1
  <2> QED
    BY <2>1, <2>2 DEF Within
<1>9. \A i \in 1..n : \A p : Legal(u, p, i) = Legal(t, p, i)
  BY <1>1, <1>5, <1>6 DEF Legal
<1> QED
  BY <1>2, <1>5, <1>6, <1>7, <1>8, <1>9 DEF u, n

LEMMA PlaceNext ==
    ASSUME NEW t \in Seq(Bytes), NEW d \in Bytes
    PROVE  LET u == Append(t, d)
               n == Len(t)
           IN  /\ Esc(u, n + 2) <=> d = "backslash" /\ ~Esc(t, n + 1)
               /\ Break(u, n + 1) <=> d = "newline" /\ ~Esc(t, n + 1)
               /\ Margin(u, n + 2) <=> \/ d = "blank" /\ Margin(t, n + 1)
                                       \/ d = "newline" /\ ~Esc(t, n + 1)
               /\ Within(u, n + 2) <=> \/ d # "semicolon" /\ Within(t, n + 1)
                                       \/ d = "x" /\ Esc(t, n + 1)
<1> DEFINE u == Append(t, d)
           n == Len(t)
<1>1. n \in Nat /\ (\A j \in 1..n : u[j] = t[j]) /\ u[n + 1] = d
  BY Longer
<1>2. \A c : Run(u, c, n + 2) = IF d = c THEN Run(t, c, n + 1) + 1 ELSE 0
  BY RunNext
<1>3. \A c : Run(t, c, n + 1) \in 0..n
  <2> SUFFICES ASSUME NEW c PROVE Run(t, c, n + 1) \in 0..n
    OBVIOUS
  <2> QED
    BY <1>1, RunExists
<1>4. Esc(u, n + 1) = Esc(t, n + 1) /\ Within(u, n + 1) = Within(t, n + 1)
  BY <1>1, PlacesSame
<1>5. \A i \in 1..n : Break(u, i) = Break(t, i) /\ Opens(u, i) = Opens(t, i)
  BY <1>1, PlacesSame
<1> HIDE DEF u, n
<1>6. Esc(u, n + 2) <=> d = "backslash" /\ ~Esc(t, n + 1)
  <2>1. \A k \in Nat : Odd(k + 1) <=> ~Odd(k)
    BY DEF Odd
  <2>2. ~Odd(0)
    BY DEF Odd
  <2>3. Run(t, "backslash", n + 1) \in Nat
    BY <1>1, <1>3
  <2> QED
    BY <1>2, <2>1, <2>2, <2>3, Zenon DEF Esc
<1>7. Break(u, n + 1) <=> d = "newline" /\ ~Esc(t, n + 1)
  BY <1>1, <1>4 DEF Break
<1>8. Margin(u, n + 2) <=> \/ d = "blank" /\ Margin(t, n + 1)
                           \/ d = "newline" /\ ~Esc(t, n + 1)
  <2>1. PICK k : k = Run(t, "blank", n + 1)
    OBVIOUS
  <2>2. k \in 0..n
    BY <1>3, <2>1
  <2>3. PICK i : i = n + 2
    OBVIOUS
  <2>4. PICK i1 : i1 = n + 1
    OBVIOUS
  <2>5. CASE d = "blank"
    <3>1. PICK b : b = n - k
      OBVIOUS
    <3>2. Run(u, "blank", i) = k + 1 /\ i - 1 - (k + 1) = b
      BY <1>1, <1>2, <2>1, <2>2, <2>3, <2>5, <3>1
    <3>3. Run(t, "blank", i1) = k /\ i1 - 1 - k = b
      BY <1>1, <2>1, <2>2, <2>4, <3>1
    <3>4. b > 0 => Break(u, b) = Break(t, b)
      BY <1>1, <1>5, <2>2, <3>1
    <3>5. Margin(u, i) = Margin(t, i1)
      BY <3>2, <3>3, <3>4 DEF Margin
    <3> QED
      BY <2>3, <2>4, <2>5, <3>5
  <2>6. CASE d # "blank"
    <3>1. i - 1 - Run(u, "blank", i) = i1 /\ i1 > 0
      BY <1>1, <1>2, <2>3, <2>4, <2>6
    <3>2. Margin(u, i) <=> Break(u, i1)
      BY <3>1 DEF Margin, Break
    <3> QED
      BY <1>7, <2>3, <2>4, <2>6, <3>2
  <2> QED
    BY <2>5, <2>6
<1>9. Within(u, n + 2) <=> \/ d # "semicolon" /\ Within(t, n + 1)
                           \/ d = "x" /\ Esc(t, n + 1)
  <2>1. Opens(u, n + 1) <=> d = "x" /\ Esc(t, n + 1)
    BY <1>1, <1>4 DEF Opens
  <2>2. ASSUME Within(u, n + 2)
        PROVE  (d # "semicolon" /\ Within(t, n + 1)) \/ Opens(u, n + 1)
    <3>1. PICK s \in 1..(n + 1) : Opens(u, s) /\ \A j \in (s + 1)..(n + 1) : u[j] # "semicolon"
      BY <1>1, <2>2 DEF Within
    <3>2. SUFFICES ASSUME s # n + 1 PROVE d # "semicolon" /\ Within(t, n + 1)
      BY <3>1
    <3>3. s \in 1..n /\ n + 1 \in (s + 1)..(n + 1) /\ (n + 1) - 1 = n
      BY <1>1, <3>2
    <3>4. Opens(u, s) /\ \A j \in (s + 1)..n : u[j] # "semicolon"
      BY <1>1, <3>1, <3>3
    <3> QED
      BY <1>1, <1>4, <3>1, <3>3, <3>4 DEF Within
  <2>3. ASSUME d # "semicolon", Within(t, n + 1)
        PROVE  Within(u, n + 2)
    <3>1. PICK s \in 1..n : Opens(u, s) /\ \A j \in (s + 1)..n : u[j] # "semicolon"
      BY <1>1, <1>4, <2>3 DEF Within
    <3>2. \A j \in (s + 1)..(n + 1) : u[j] # "semicolon"
      BY <1>1, <2>3, <3>1
    <3> QED
      BY <1>1, <3>1, <3>2 DEF Within
  <2>4. ASSUME Opens(u, n + 1) PROVE Within(u, n + 2)
    <3>1. PICK i, s : i = n + 2 /\ s = n + 1
      OBVIOUS
    <3>2. s \in 1..(i - 1) /\ (s + 1)..(i - 1) = {}
      BY <1>1, <3>1
    <3>3. Within(u, i)
      BY <2>4, <3>1, <3>2 DEF Within
    <3> QED
      BY <3>1, <3>3
  <2> QED
    BY <2>1, <2>2, <2>3, <2>4
<1> QED
  BY <1>6, <1>7, <1>8, <1>9 DEF u, n

-----------------------------------------------------------------------------
(* The inductive invariant. *)

TypeInv == TypeOK /\ (readhex => current_hex_value \in Seq(HexDigits))

(* What the flags say of the place that is read next. *)
FlagInv ==
    style \in EscapeStyles /\ pc = "scan" /\ lex # "closed" =>
        /\ escaped <=> Esc(input, Len(input) + 1)
        /\ readhex <=> Within(input, Len(input) + 1)
        /\ skiping_spaces <=> \/ preserve # 2 /\ Margin(input, Len(input) + 1)
                              \/ style = "plain" /\ input = <<>>
        /\ escaped => ~readhex /\ ~skiping_spaces

(* Where the lexer is when a flag is set. *)
LexInv ==
    /\ lex = "closed" => style = "double"
    /\ pc = "scan" =>
          /\ style = "double" => (lex = "half" <=> escaped)
          /\ style = "plain" /\ readhex => lex = "open"
          /\ style = "plain" /\ lex = "half" => input # <<>>
          /\ style \in QuoteStyles => (lex = "half" <=> quote)

(* Nothing that has no place in a code was passed over. *)
CodeInv ==
    IF style \in QuoteStyles THEN pc # "threw"
    ELSE pc = "threw" <=>
            \E i \in 1..Len(input) : Within(input, i) /\ ~Legal(input, preserve, i)

IInv == TypeInv /\ FlagInv /\ LexInv /\ CodeInv

(* What the functions put into the value. *)
LEMMA PieceTypes ==
    ASSUME TypeInv, NEW c \in Bytes
    PROVE  /\ Unescaped(c) \in Seq(Value)
           /\ NewlineKept(preserve) \in Seq(Value)
           /\ QuoteKept(quote) \in Seq(Value)
           /\ \A a, b \in Seq(Value) :
                 a \o b \in Seq(Value)
<1>1. {"newline", "blank", "quote", c} \subseteq Value
  BY DEF Bytes, Value
<1>2. <<>> \in Seq(Value) /\ \A v \in Value : <<v>> \in Seq(Value)
  OBVIOUS
<1>3. \A a, b \in Seq(Value) : a \o b \in Seq(Value)
  OBVIOUS
<1>4. Unescaped(c) \in {<<"newline">>, <<"blank">>, <<>>, <<c>>}
  BY DEF Unescaped
<1>5. NewlineKept(preserve) \in {<<>>, <<"newline">>} /\ QuoteKept(quote) \in {<<>>, <<"quote">>}
  BY DEF NewlineKept, QuoteKept
<1> QED
  BY <1>1, <1>2, <1>3, <1>4, <1>5

(* The bytes of a code, of as many digits as there are. *)
LEMMA CharacterType ==
    ASSUME NEW h \in Seq(HexDigits)
    PROVE  Character(h) \in Seq(Value)
<1>1. ASSUME NEW k \in 1..6 PROVE Digit(h, k) \in 0..15
  <2>1. \A d \in HexDigits : DigitValue[d] \in 0..15
    BY DEF DigitValue, HexDigits
  <2>2. k <= Len(h) => h[Len(h) - k + 1] \in HexDigits
    OBVIOUS
  <2> QED
    BY <2>1, <2>2 DEF Digit
<1>2. Number(h) \in Nat /\ Number(h) <= Limit[5]
  <2>1. PICK a : a = Digit(h, 1)
    OBVIOUS
  <2>2. PICK b : b = Digit(h, 2)
    OBVIOUS
  <2>3. PICK c : c = Digit(h, 3)
    OBVIOUS
  <2>4. PICK d : d = Digit(h, 4)
    OBVIOUS
  <2>5. PICK e : e = Digit(h, 5)
    OBVIOUS
  <2>6. PICK f : f = Digit(h, 6)
    OBVIOUS
  <2>7. a \in 0..15 /\ b \in 0..15 /\ c \in 0..15 /\ d \in 0..15 /\ e \in 0..15 /\ f \in 0..15
    BY <1>1, <2>1, <2>2, <2>3, <2>4, <2>5, <2>6
  <2>8. PICK sum : sum = a + 16 * b + 256 * c + 4096 * d + 65536 * e + 1048576 * f
    BY SMT
  <2>9. sum \in Nat /\ sum <= Limit[5]
    BY SMT, <2>7, <2>8 DEF Limit
  <2>10. Number(h) = sum
    BY SMT, <2>1, <2>2, <2>3, <2>4, <2>5, <2>6, <2>8 DEF Number
  <2> QED
    BY <2>9, <2>10
<1>3. ASSUME NEW e \in Nat, e <= Limit[5] PROVE FormLength(e) \in Forms
  <2> SUFFICES \E n \in Forms : e <= Limit[n] /\ \A m \in 1..(n - 1) : e > Limit[m]
    BY DEF FormLength
  <2>1. CASE e <= Limit[1]
    BY SMT, <2>1 DEF Forms, Limit
  <2>2. CASE e > Limit[1] /\ e <= Limit[2]
    BY SMT, <2>2 DEF Forms, Limit
  <2>3. CASE e > Limit[2] /\ e <= Limit[3]
    BY SMT, <2>3 DEF Forms, Limit
  <2>4. CASE e > Limit[3] /\ e <= Limit[4]
    BY SMT, <2>4 DEF Forms, Limit
  <2>5. CASE e > Limit[4]
    BY SMT, <1>3, <2>5 DEF Forms, Limit
  <2> QED
    BY SMT, <2>1, <2>2, <2>3, <2>4, <2>5 DEF Limit
<1>4. \A b : ByteKind(b) \in Value
  BY DEF ByteKind, Value, Bytes
<1> DEFINE n == FormLength(Number(h))
           bytes == [k \in 1..n |-> ByteKind(Byte(Number(h), k))]
<1>5. n \in Nat
  BY <1>2, <1>3 DEF Forms
<1>6. Character(h) = bytes
  BY DEF Character
<1>7. \A k \in 1..n : bytes[k] \in Value
  BY <1>4
<1> HIDE DEF n
<1>8. bytes \in Seq(Value)
  BY <1>5, <1>7
<1> QED
  BY <1>6, <1>8

LEMMA TrimmedType ==
    ASSUME NEW S, NEW t \in Seq(S) PROVE Trimmed(t) \in Seq(S)
<1> DEFINE kept == {i \in 1..Len(t) : \E j \in i..Len(t) : t[j] \notin Spacers}
<1> DEFINE n == Len(t)
<1>0. n \in Nat
  OBVIOUS
<1>1. IsFiniteSet(1..n) /\ Cardinality(1..n) = n
  <2> HIDE DEF n
  <2> QED
    BY <1>0, FS_Interval
<1>2. Cardinality(kept) \in Nat /\ Cardinality(kept) <= Len(t)
  <2>1. kept \subseteq 1..Len(t)
    OBVIOUS
  <2>2. IsFiniteSet(kept)
    BY <1>1, <2>1, FS_Subset
  <2> QED
    BY <1>1, <2>1, <2>2, FS_Subset, FS_CardinalityType
<1> HIDE DEF kept
<1>3. SubSeq(t, 1, Cardinality(kept)) \in Seq(S)
  BY <1>2
<1> QED
  BY <1>3 DEF Trimmed, kept

LEMMA ReadTypes ==
    ASSUME TypeInv, NEW c \in Bytes, Read(c)
    PROVE  TypeInv'
<1> USE DEF textVars, flagVars
<1>1. /\ pc = "scan" /\ Len(input) < MaxLength[style] /\ style' = style /\ preserve' = preserve
      /\ input' = (IF lex' = "closed" THEN input ELSE Append(input, c))
  BY DEF Read
<1>2. MaxLength[style] \in Nat
  BY LengthAssumption DEF TypeInv, TypeOK
<1>3. /\ input' \in Seq(Bytes) /\ Len(input') <= MaxLength[style]
      /\ Len(input) <= Len(input')
      /\ lex' # "closed" => Len(input') = Len(input) + 1
  BY <1>1, <1>2 DEF TypeInv, TypeOK
<1>4. lex' \in {"open", "half", "closed"} /\ (lex' = "closed" => c = "quote")
  BY DEF Read, Lex, LexDouble, LexPlain, LexQuotes
<1>5. pc' \in {"scan", "threw"}
  BY <1>1 DEF Read, ReadSkipped, ReadEscaped, ReadDoubleQuote, ReadNewline, ReadDigit,
              ReadCodeEnd, ReadBadCode, ReadBackslash, ReadQuote, ReadOther
<1>6. accum' \in Seq(Value)
  <2>1. accum \in Seq(Value) /\ c \in Value
    BY DEF TypeInv, TypeOK, Value
  <2>2. /\ accum \o Unescaped(c) \in Seq(Value)
        /\ accum \o NewlineKept(preserve) \in Seq(Value)
        /\ accum \o QuoteKept(quote) \in Seq(Value)
    BY <2>1, PieceTypes
  <2>3. \A v \in Value : Append(accum, v) \in Seq(Value)
    BY <2>1
  <2>4. ReadCodeEnd(c) => accum \o Character(current_hex_value) \in Seq(Value)
    BY <2>1, CharacterType DEF ReadCodeEnd, TypeInv
  <2> QED
    BY <2>1, <2>2, <2>3, <2>4
    DEF Read, ReadSkipped, ReadEscaped, ReadDoubleQuote, ReadNewline, ReadDigit,
        ReadCodeEnd, ReadBadCode, ReadBackslash, ReadQuote, ReadOther
<1>7. /\ escaped' \in BOOLEAN /\ (escaped' => style \in EscapeStyles)
      /\ quote' \in BOOLEAN /\ (quote' => style \in QuoteStyles)
      /\ skiping_spaces' \in BOOLEAN /\ (skiping_spaces' => preserve # 2)
      /\ readhex' \in BOOLEAN /\ (readhex' => style \in EscapeStyles)
  <2> USE DEF TypeInv, TypeOK
  <2>1. CASE ReadSkipped(c)
    BY <2>1 DEF ReadSkipped
  <2>2. CASE ReadEscaped(c)
    BY <2>2 DEF ReadEscaped
  <2>3. CASE ReadDoubleQuote(c)
    BY <2>3 DEF ReadDoubleQuote
  <2>4. CASE ReadNewline(c)
    BY <2>4 DEF ReadNewline, SkipAfterNewline
  <2>5. CASE ReadDigit(c)
    BY <2>5 DEF ReadDigit
  <2>6. CASE ReadCodeEnd(c)
    BY <2>6 DEF ReadCodeEnd
  <2>7. CASE ReadBadCode(c)
    BY <2>7 DEF ReadBadCode
  <2>8. CASE ReadBackslash(c)
    BY <2>8 DEF ReadBackslash
  <2>9. CASE ReadQuote(c)
    BY <2>9 DEF ReadQuote
  <2>10. CASE ReadOther(c)
    BY <2>10 DEF ReadOther
  <2> QED
    BY <2>1, <2>2, <2>3, <2>4, <2>5, <2>6, <2>7, <2>8, <2>9, <2>10 DEF Read
<1>8. current_hex_value' \in Seq(Value)
  <2>1. current_hex_value \in Seq(Value) /\ c \in Value /\ <<>> \in Seq(Value)
    BY DEF TypeInv, TypeOK, Value
  <2>2. Append(current_hex_value, c) \in Seq(Value)
    BY <2>1
  <2>3. ReadCodeEnd(c) => Character(current_hex_value) \in Seq(Value)
    BY CharacterType DEF ReadCodeEnd, TypeInv
  <2> QED
    BY <2>1, <2>2, <2>3
    DEF Read, ReadSkipped, ReadEscaped, ReadDoubleQuote, ReadNewline, ReadDigit,
        ReadCodeEnd, ReadBadCode, ReadBackslash, ReadQuote, ReadOther
<1>9. readhex' => current_hex_value' \in Seq(HexDigits)
  <2>1. readhex => current_hex_value \in Seq(HexDigits)
    BY DEF TypeInv
  <2>2. CASE ReadEscaped(c)
    <3>1. CASE c = "x"
      BY <2>2, <3>1 DEF ReadEscaped
    <3>2. CASE c # "x"
      BY <2>1, <2>2, <3>2, Zenon DEF ReadEscaped
    <3> QED
      BY <3>1, <3>2
  <2>3. CASE ReadDigit(c)
    <3>1. readhex /\ c \in HexDigits /\ current_hex_value' = Append(current_hex_value, c)
      BY <2>3 DEF ReadDigit, InCode
    <3> QED
      BY <2>1, <3>1
  <2>4. CASE ~ReadEscaped(c) /\ ~ReadDigit(c)
    BY <2>1, <2>4 DEF Read, ReadSkipped, ReadDoubleQuote, ReadNewline, ReadCodeEnd,
                      ReadBadCode, ReadBackslash, ReadQuote, ReadOther
  <2> QED
    BY <2>2, <2>3, <2>4
<1>10. style \in Styles /\ preserve \in 0..2
  BY DEF TypeInv, TypeOK
<1> QED
  BY <1>1, <1>3, <1>4, <1>5, <1>6, <1>7, <1>8, <1>9, <1>10 DEF TypeInv, TypeOK

LEMMA EndTypes == ASSUME TypeInv, End PROVE TypeInv'
<1>1. accum' \in Seq(Value)
  BY TrimmedType DEF TypeInv, TypeOK, End
<1>2. pc' \in {"done", "threw", "broken"}
  BY DEF End
<1>3. UNCHANGED <<style, preserve, lex, input, escaped, quote, skiping_spaces, readhex,
                  current_hex_value>>
  BY DEF End, textVars, flagVars
<1> QED
  BY <1>1, <1>2, <1>3 DEF TypeInv, TypeOK

-----------------------------------------------------------------------------
(* The steps. *)

LEMMA InvInit == Init => IInv
<1> SUFFICES ASSUME Init PROVE IInv
  OBVIOUS
<1>1. /\ pc = "scan" /\ lex = "open" /\ input = <<>> /\ accum = <<>>
      /\ escaped = FALSE /\ quote = FALSE /\ readhex = FALSE
      /\ current_hex_value = <<>>
      /\ skiping_spaces = (style = "plain")
      /\ style \in Styles /\ preserve \in 0..2 /\ (style = "plain" => preserve = 0)
  BY PreserveAssumption DEF Init
<1>2. MaxLength[style] \in Nat /\ Len(input) = 0
  BY <1>1, LengthAssumption
<1>3. TypeInv
  <2>1. input \in Seq(Bytes) /\ accum \in Seq(Value) /\ current_hex_value \in Seq(Value)
    BY <1>1
  <2>2. Len(input) <= MaxLength[style]
    BY <1>1, <1>2
  <2>3. preserve = 0 => preserve # 2
    OBVIOUS
  <2>4. skiping_spaces \in BOOLEAN /\ (skiping_spaces => preserve # 2)
    BY <1>1, <2>3, Zenon
  <2> QED
    BY <1>1, <2>1, <2>2, <2>4 DEF TypeInv, TypeOK
<1>4. ~Esc(<<>>, 1) /\ ~Margin(<<>>, 1)
  <2>1. \A c : Run(<<>>, c, 1) = 0
    <3> SUFFICES ASSUME NEW c PROVE Run(<<>>, c, 1) = 0
      OBVIOUS
    <3> QED
      BY RunExists
  <2>2. ~Odd(0) /\ ~(1 - 1 - 0 > 0)
    BY DEF Odd
  <2> QED
    BY <2>1, <2>2, Zenon DEF Esc, Margin
<1>5. ~Within(<<>>, 1)
  BY DEF Within
<1>6. FlagInv
  <2>1. Len(input) + 1 = 1
    BY <1>2
  <2> QED
    BY <1>1, <1>4, <1>5, <2>1, Zenon DEF FlagInv
<1>7. LexInv /\ CodeInv
  BY <1>1, <1>2 DEF LexInv, CodeInv, QuoteStyles
<1> QED
  BY <1>3, <1>6, <1>7 DEF IInv

(* Single-quoted scalars and scripts. *)
LEMMA QuotedStep ==
    ASSUME IInv, NEW c \in Bytes, Read(c), style \in QuoteStyles
    PROVE  FlagInv' /\ LexInv' /\ CodeInv'
<1>1. /\ style' = style /\ style \notin {"plain", "double"} /\ ~escaped /\ ~readhex
      /\ pc = "scan" /\ (lex = "half" <=> quote) /\ lex \in {"open", "half"}
  BY DEF IInv, TypeInv, TypeOK, LexInv, Read, textVars, EscapeStyles, QuoteStyles
<1>2. LexQuotes(c)
  BY <1>1 DEF Read, Lex
<1>3. pc' = "scan" /\ lex' \in {"open", "half"}
  BY <1>1, <1>2 DEF LexQuotes, Read, ReadSkipped, ReadEscaped, ReadDoubleQuote, ReadNewline,
     ReadDigit, ReadCodeEnd, ReadBadCode, ReadBackslash, ReadQuote, ReadOther, EscapeStyles
<1>4. lex' = "half" <=> quote'
  <2>1. ReadSkipped(c) \/ ReadNewline(c) \/ ReadQuote(c) \/ ReadOther(c)
    BY <1>1 DEF Read, ReadEscaped, ReadDoubleQuote, ReadDigit, ReadCodeEnd, ReadBadCode,
                ReadBackslash, EscapeStyles
  <2>2. CASE c = "quote"
    <3>1. ReadQuote(c)
      BY <2>1, <2>2 DEF ReadSkipped, Skipped, ReadNewline, ReadOther
    <3> QED
      BY <1>1, <1>2, <2>2, <3>1 DEF ReadQuote, LexQuotes, IInv, TypeInv, TypeOK
  <2>3. CASE c # "quote"
    <3>1. lex = "open" /\ lex' = "open"
      BY <1>2, <2>3 DEF LexQuotes
    <3>2. quote' = FALSE \/ quote' = quote
      BY <2>1, <2>3 DEF ReadSkipped, ReadNewline, ReadQuote, ReadOther, flagVars
    <3> QED
      BY <1>1, <3>1, <3>2
  <2> QED
    BY <2>2, <2>3
<1> QED
  BY <1>1, <1>3, <1>4 DEF FlagInv, LexInv, CodeInv, EscapeStyles, QuoteStyles

(* The quote that ends a double-quoted scalar. *)
LEMMA ClosingStep ==
    ASSUME IInv, NEW c \in Bytes, Read(c), style \in EscapeStyles, lex' = "closed"
    PROVE  FlagInv' /\ LexInv' /\ CodeInv'
<1>1. /\ UNCHANGED <<style, preserve, input>> /\ pc = "scan"
      /\ style = "double" /\ c = "quote" /\ lex = "open"
  BY DEF Read, Lex, LexDouble, LexPlain, EscapeStyles, LexQuotes, textVars
<1>2. ~escaped
  BY <1>1 DEF IInv, LexInv
<1>3. ReadDoubleQuote(c)
  BY <1>1, <1>2 DEF Read, ReadSkipped, Skipped, ReadEscaped, ReadNewline, ReadDigit, InCode,
     HexDigits, ReadCodeEnd, ReadBadCode, ReadBackslash, ReadQuote, ReadOther, QuoteStyles
<1>4. pc' = "scan" /\ escaped' = escaped
  BY <1>1, <1>3 DEF ReadDoubleQuote
<1>5. CodeInv'
  BY <1>1, <1>4 DEF IInv, CodeInv, Within, Opens, Legal, Margin, Break, QuoteStyles
<1> QED
  BY <1>1, <1>2, <1>4, <1>5 DEF FlagInv, LexInv, QuoteStyles

(* A byte of a plain or double-quoted scalar, by what the flags and the     *)
(* places say before and after it.                                          *)
LEMMA EscapeStep ==
    ASSUME IInv, NEW c \in Bytes, Read(c), style \in EscapeStyles, lex' # "closed"
    PROVE  FlagInv' /\ LexInv' /\ CodeInv'
<1> DEFINE n == Len(input)
           u == Append(input, c)
           esc == Esc(input, n + 1)
           margin == Margin(input, n + 1)
           within == Within(input, n + 1)
           code == Within(u, n + 1) /\ ~Legal(u, preserve, n + 1)
<1>1. /\ input \in Seq(Bytes) /\ n \in Nat /\ pc = "scan" /\ UNCHANGED <<style, preserve>>
      /\ input' = u /\ u # <<>> /\ Len(input') + 1 = n + 2 /\ Len(input') = n + 1
      /\ lex # "closed" /\ style \notin QuoteStyles /\ style \in {"plain", "double"}
  <2>1. input \in Seq(Bytes) /\ pc = "scan" /\ UNCHANGED <<style, preserve>> /\ input' = u
    BY DEF IInv, TypeInv, TypeOK, Read, textVars
  <2>2. lex # "closed" /\ style \notin QuoteStyles /\ style \in {"plain", "double"}
    BY DEF Read, Lex, LexDouble, LexPlain, EscapeStyles, QuoteStyles
  <2> QED
    BY <2>1, <2>2
<1>2. /\ escaped \in BOOLEAN /\ readhex \in BOOLEAN /\ skiping_spaces \in BOOLEAN
      /\ escaped <=> esc
      /\ readhex <=> within
      /\ skiping_spaces <=> \/ preserve # 2 /\ margin
                            \/ style = "plain" /\ input = <<>>
      /\ escaped => ~readhex /\ ~skiping_spaces
  BY <1>1 DEF IInv, FlagInv, TypeInv, TypeOK
<1>3. /\ style = "double" => (lex = "half" <=> escaped)
      /\ style = "plain" /\ readhex => lex = "open"
  BY <1>1 DEF IInv, LexInv
<1>4. /\ style = "double" =>
           \/ lex = "half" /\ lex' = "open"
           \/ lex = "open" /\ c = "backslash" /\ lex' = "half"
           \/ lex = "open" /\ c \notin {"backslash", "quote"} /\ lex' = "open"
      /\ style = "plain" =>
           \/ lex = "half" /\ c # "slash" /\ lex' = "open"
           \/ lex = "open" /\ c = "slash" /\ lex' = "half"
           \/ lex = "open" /\ c \notin {"quote", "newline", "slash"} /\ lex' = "open"
      /\ style = "plain" /\ input = <<>> => c # "blank"
  BY <1>1 DEF IInv, LexInv, Read, Lex, LexDouble, LexPlain
<1>5. /\ Esc(u, n + 2) <=> c = "backslash" /\ ~esc
      /\ Break(u, n + 1) <=> c = "newline" /\ ~esc
      /\ Margin(u, n + 2) <=> \/ c = "blank" /\ margin
                              \/ c = "newline" /\ ~esc
      /\ Within(u, n + 2) <=> \/ c # "semicolon" /\ within
                              \/ c = "x" /\ esc
  BY <1>1, PlaceNext
<1>6. code <=> /\ within
               /\ c \notin HexDigits \cup {"semicolon"}
               /\ ~(c = "newline" /\ ~esc)
               /\ ~(preserve # 2 /\ c = "blank" /\ margin)
  <2>1. Within(u, n + 1) = within /\ Margin(u, n + 1) = margin /\ u[n + 1] = c
    BY <1>1, PlacesSame, Longer
  <2> QED
    BY <1>5, <2>1 DEF Legal
<1>7. ~\E i \in 1..n : Within(input, i) /\ ~Legal(input, preserve, i)
  BY <1>1 DEF IInv, CodeInv
<1>8. (\E i \in 1..(n + 1) : Within(u, i) /\ ~Legal(u, preserve, i)) <=> code
  <2>1. \A i \in 1..n : /\ Within(u, i) = Within(input, i)
                        /\ Legal(u, preserve, i) = Legal(input, preserve, i)
    BY <1>1, PlacesSame
  <2> QED
    BY <1>1, <1>7, <2>1
<1> HIDE DEF n, u, esc, margin, within, code
<1> DEFINE
      Goal ==
        /\ pc' \in {"scan", "threw"} /\ (pc' = "threw" <=> code)
        /\ pc' = "scan" =>
              /\ escaped' <=> Esc(u, n + 2)
              /\ readhex' <=> Within(u, n + 2)
              /\ skiping_spaces' <=> preserve # 2 /\ Margin(u, n + 2)
              /\ escaped' => ~readhex' /\ ~skiping_spaces'
              /\ style = "double" => (lex' = "half" <=> escaped')
              /\ style = "plain" /\ readhex' => lex' = "open"
<1>9. Goal
  <2>1. CASE ReadSkipped(c)
    BY <1>1, <1>2, <1>3, <1>4, <1>5, <1>6, <2>1
    DEF ReadSkipped, Skipped, InCode, SkipAfterNewline, flagVars
  <2>2. CASE ReadEscaped(c)
    BY <1>1, <1>2, <1>3, <1>4, <1>5, <1>6, <2>2
    DEF ReadEscaped, Skipped, InCode, SkipAfterNewline, flagVars
  <2>3. CASE ReadDoubleQuote(c)
    BY <1>1, <1>2, <1>3, <1>4, <1>5, <1>6, <2>3
    DEF ReadDoubleQuote, Skipped, InCode, SkipAfterNewline, flagVars
  <2>4. CASE ReadNewline(c)
    BY <1>1, <1>2, <1>3, <1>4, <1>5, <1>6, <2>4
    DEF ReadNewline, Skipped, InCode, SkipAfterNewline, flagVars
  <2>5. CASE ReadDigit(c)
    BY <1>1, <1>2, <1>3, <1>4, <1>5, <1>6, <2>5
    DEF ReadDigit, Skipped, InCode, HexDigits, SkipAfterNewline, flagVars
  <2>6. CASE ReadCodeEnd(c)
    BY <1>1, <1>2, <1>3, <1>4, <1>5, <1>6, <2>6
    DEF ReadCodeEnd, Skipped, InCode, SkipAfterNewline, flagVars
  <2>7. CASE ReadBadCode(c)
    BY <1>1, <1>2, <1>3, <1>4, <1>5, <1>6, <2>7
    DEF ReadBadCode, Skipped, InCode, SkipAfterNewline, flagVars
  <2>8. CASE ReadBackslash(c)
    BY <1>1, <1>2, <1>3, <1>4, <1>5, <1>6, <2>8
    DEF ReadBackslash, Skipped, InCode, SkipAfterNewline, flagVars
  <2>9. CASE ReadOther(c)
    BY <1>1, <1>2, <1>3, <1>4, <1>5, <1>6, <2>9
    DEF ReadOther, Skipped, InCode, SkipAfterNewline, flagVars
  <2>10. ~ReadQuote(c)
    BY <1>1 DEF ReadQuote
  <2> QED
    BY <2>1, <2>2, <2>3, <2>4, <2>5, <2>6, <2>7, <2>8, <2>9, <2>10 DEF Read
<1>10. FlagInv'
  BY <1>1, <1>9 DEF FlagInv
<1>11. LexInv'
  BY <1>1, <1>9 DEF LexInv
<1>12. CodeInv'
  BY <1>1, <1>8, <1>9 DEF CodeInv
<1> QED
  BY <1>10, <1>11, <1>12

(* The end of a token: the quotes of what the lexer took are in pairs. *)
LEMMA EndStep ==
    ASSUME IInv, End
    PROVE  FlagInv' /\ LexInv' /\ CodeInv'
<1>1. UNCHANGED <<style, preserve, lex, input>> /\ pc = "scan"
  BY DEF End, textVars
<1>2. pc' \in {"done", "broken"}
  <2>1. SUFFICES ASSUME style \in QuoteStyles PROVE quote
    BY DEF End
  <2>2. lex = "half"
    BY <2>1 DEF End, Complete, QuoteStyles
  <2> QED
    BY <1>1, <2>1, <2>2 DEF IInv, LexInv
<1>3. CodeInv'
  BY <1>1, <1>2 DEF IInv, CodeInv, Within, Opens, Legal, Margin, Break
<1> QED
  BY <1>1, <1>2, <1>3 DEF IInv, FlagInv, LexInv

LEMMA InvStep == IInv /\ [Next]_vars => IInv'
<1> SUFFICES ASSUME IInv, [Next]_vars PROVE IInv'
  OBVIOUS
<1>1. ASSUME NEW c \in Bytes, Read(c) PROVE IInv'
  <2>1. TypeInv'
    BY <1>1, ReadTypes DEF IInv
  <2>2. style \in EscapeStyles \/ style \in QuoteStyles
    BY StylesAssumption DEF IInv, TypeInv, TypeOK, EscapeStyles, QuoteStyles
  <2>3. FlagInv' /\ LexInv' /\ CodeInv'
    BY <1>1, <2>2, QuotedStep, ClosingStep, EscapeStep
  <2> QED
    BY <2>1, <2>3 DEF IInv
<1>2. CASE End
  BY <1>2, EndTypes, EndStep DEF IInv
<1>3. CASE UNCHANGED vars
  BY <1>3 DEF vars, textVars, flagVars, IInv, TypeInv, TypeOK, FlagInv, LexInv, CodeInv,
              Within, Opens, Legal, Margin, Break
<1> QED
  BY <1>1, <1>2, <1>3 DEF Next

THEOREM Inductive == Spec => []IInv
BY InvInit, InvStep, PTL DEF Spec

-----------------------------------------------------------------------------
(* The flags, the value and the code being read keep their types, and a     *)
(* flag is set only in the functions that have it, for texts of any length. *)
THEOREM TypeCorrect == Spec => []TypeOK
<1>1. IInv => TypeOK
  BY DEF IInv, TypeInv
<1> QED
  BY <1>1, Inductive, PTL

(* The places of the specification are the operators above. *)
LEMMA PlacesInText ==
    ASSUME style \in EscapeStyles
    PROVE  /\ Places = 1..Len(input)
           /\ \A i : WithinCode(i) <=> Within(input, i)
           /\ \A i : LegalInCode(i) <=> Legal(input, preserve, i)
<1>1. Body = input
  BY DEF Body, EscapeStyles, QuoteStyles
<1>2. \A c, i : RunBefore(c, i) = Run(input, c, i)
  BY <1>1, Zenon DEF RunBefore, Run, IsRun
<1>3. \A i : IsEscaped(i) <=> Esc(input, i)
  BY <1>2, Zenon DEF IsEscaped, Esc
<1>4. \A i : IsBreak(i) <=> Break(input, i)
  BY <1>1, <1>3, Zenon DEF IsBreak, Break
<1>5. \A i : IsIndent(i) <=> preserve # 2 /\ input[i] = "blank" /\ Margin(input, i)
  BY <1>1, <1>2, <1>4, Zenon DEF IsIndent, Margin
<1>6. \A i : OpensCode(i) <=> Opens(input, i)
  BY <1>1, <1>3, Zenon DEF OpensCode, Opens
<1>7. \A i : WithinCode(i) <=> Within(input, i)
  BY <1>1, <1>6, Zenon DEF WithinCode, Within
<1>8. \A i : LegalInCode(i) <=> Legal(input, preserve, i)
  BY <1>1, <1>4, <1>5, Zenon DEF LegalInCode, Legal
<1> QED
  BY <1>1, <1>7, <1>8 DEF Places

(* An exception is thrown for a byte that has no place in a code and for    *)
(* nothing else, whatever the length of the text and the mixture of         *)
(* escapes, codes, quotes and folded lines: what the lexer takes for quoted *)
(* text is never refused.                                                   *)
THEOREM ThrowsCorrect == Spec => []ThrowsForCodes
<1>1. IInv => ThrowsForCodes
  <2> SUFFICES ASSUME IInv
               PROVE  pc = "threw" <=> \E i \in Places : WithinCode(i) /\ ~LegalInCode(i)
    BY DEF ThrowsForCodes
  <2>1. style \in EscapeStyles \/ style \in QuoteStyles
    BY StylesAssumption DEF IInv, TypeInv, TypeOK, EscapeStyles, QuoteStyles
  <2>2. CASE style \in EscapeStyles
    <3>1. style \notin QuoteStyles
      BY <2>2 DEF EscapeStyles, QuoteStyles
    <3> QED
      BY <2>2, <3>1, PlacesInText, Zenon DEF IInv, CodeInv
  <2>3. CASE style \in QuoteStyles
    <3>1. pc # "threw"
      BY <2>3 DEF IInv, CodeInv
    <3>2. \A i : ~IsEscaped(i)
      BY <2>3 DEF IsEscaped, EscapeStyles, QuoteStyles
    <3>3. \A i : ~WithinCode(i)
      BY <3>2 DEF WithinCode, OpensCode
    <3> QED
      BY <3>1, <3>3
  <2> QED
    BY <2>1, <2>2, <2>3
<1> QED
  BY <1>1, Inductive, PTL

-----------------------------------------------------------------------------
(* What FlattenSeq makes of one more sequence.  Its recursive function      *)
(* exists on every prefix, and two of them agree where both are defined.    *)

LEMMA UpTo ==
    ASSUME NEW k \in Nat, NEW S, 0 \in S, \A i \in 0..(k - 1) : i \in S => i + 1 \in S
    PROVE  0..k \subseteq S
<1> DEFINE L == {i \in 0..k : i \notin S}
<1> SUFFICES ASSUME L # {} PROVE FALSE
  OBVIOUS
<1>1. PICK l \in L : \A m \in L : l <= m
  <2>1. L \subseteq Nat
    OBVIOUS
  <2> HIDE DEF L
  <2> QED
    BY <2>1, Least
<1>2. l \in Nat /\ l # 0 /\ l <= k /\ l \notin S
  BY <1>1
<1>3. l - 1 \in 0..(k - 1) /\ ~(l <= l - 1)
  BY <1>2
<1>4. l - 1 \in S
  BY <1>1, <1>3
<1> QED
  BY <1>2, <1>3, <1>4

IsFlat(f, s, n) == f = [i \in 1..n |-> IF i = 1 THEN s[i] ELSE f[i - 1] \o s[i]]

LEMMA FlatExists ==
    ASSUME NEW s, NEW n \in Nat
    PROVE  \E f : IsFlat(f, s, n)
<1> DEFINE S == {k \in Nat : \E f : IsFlat(f, s, k)}
<1>1. 0 \in S
  <2>1. IsFlat([i \in 1..0 |-> s], s, 0)
    BY DEF IsFlat
  <2> QED
    BY <2>1
<1>2. ASSUME NEW k \in 0..(n - 1), k \in S
      PROVE  k + 1 \in S
  <2>1. PICK f : IsFlat(f, s, k)
    BY <1>2
  <2> DEFINE m == k + 1
             g == [i \in 1..m |-> IF i <= k THEN f[i]
                                  ELSE IF i = 1 THEN s[i] ELSE f[k] \o s[i]]
  <2>2. k \in Nat
    OBVIOUS
  <2>3. ASSUME NEW i \in 1..m
        PROVE  g[i] = IF i = 1 THEN s[i] ELSE g[i - 1] \o s[i]
    <3>1. CASE i <= k
      <4>1. i \in 1..k /\ (i # 1 => i - 1 \in 1..m /\ i - 1 <= k)
        BY <2>2, <3>1
      <4>2. f[i] = IF i = 1 THEN s[i] ELSE f[i - 1] \o s[i]
        BY <2>1, <4>1 DEF IsFlat
      <4> QED
        BY <3>1, <4>1, <4>2
    <3>2. CASE ~(i <= k)
      <4>1. i = m /\ (i # 1 => i - 1 = k /\ k \in 1..m /\ k <= k)
        BY <2>2, <3>2
      <4> QED
        BY <3>2, <4>1
    <3> QED
      BY <3>1, <3>2
  <2>4. IsFlat(g, s, m)
    BY <2>3 DEF IsFlat
  <2> HIDE DEF g
  <2>5. \E h : IsFlat(h, s, m)
    BY <2>4
  <2> QED
    BY <2>2, <2>5
<1> HIDE DEF S
<1>3. 0..n \subseteq S
  BY <1>1, <1>2, UpTo
<1> QED
  BY <1>3 DEF S

Flat(s, n) == CHOOSE f : IsFlat(f, s, n)

LEMMA FlatValues ==
    ASSUME NEW s, NEW n \in Nat
    PROVE  \A i \in 1..n : Flat(s, n)[i] = IF i = 1 THEN s[i] ELSE Flat(s, n)[i - 1] \o s[i]
<1>1. IsFlat(Flat(s, n), s, n)
  BY FlatExists DEF Flat
<1> DEFINE f == Flat(s, n)
<1>2. IsFlat(f, s, n)
  BY <1>1
<1> HIDE DEF f
<1>3. \A i \in 1..n : f[i] = IF i = 1 THEN s[i] ELSE f[i - 1] \o s[i]
  BY <1>2 DEF IsFlat
<1> QED
  BY <1>3 DEF f

LEMMA FlattenIs ==
    ASSUME NEW s, Len(s) \in Nat \ {0}
    PROVE  FlattenSeq(s) = Flat(s, Len(s))[Len(s)]
BY DEF FlattenSeq, Flat, IsFlat

LEMMA FlattenAppend ==
    ASSUME NEW V, NEW s \in Seq(Seq(V)), NEW e \in Seq(V)
    PROVE  /\ FlattenSeq(s) \in Seq(V)
           /\ FlattenSeq(Append(s, e)) = FlattenSeq(s) \o e
           /\ FlattenSeq(Append(s, e)) \in Seq(V)
<1> DEFINE u == Append(s, e)
           n == Len(s)
           f == Flat(s, n)
           g == Flat(u, n + 1)
<1>1. n \in Nat /\ Len(u) = n + 1 /\ u[n + 1] = e /\ \A i \in 1..n : u[i] = s[i] /\ s[i] \in Seq(V)
  OBVIOUS
<1>2. \A i \in 1..n : f[i] = IF i = 1 THEN s[i] ELSE f[i - 1] \o s[i]
  BY <1>1, FlatValues
<1>3. \A i \in 1..(n + 1) : g[i] = IF i = 1 THEN u[i] ELSE g[i - 1] \o u[i]
  <2>1. n + 1 \in Nat
    BY <1>1
  <2> QED
    BY <2>1, FlatValues
<1>4. FlattenSeq(u) = g[n + 1]
  <2>1. PICK m : m = n + 1
    OBVIOUS
  <2>2. Len(u) = m /\ m \in Nat \ {0}
    BY <1>1, <2>1
  <2> HIDE DEF u, n
  <2>3. FlattenSeq(u) = Flat(u, m)[m]
    BY <2>2, FlattenIs
  <2> QED
    BY <2>1, <2>3
<1>5. n # 0 => FlattenSeq(s) = f[n]
  BY <1>1, FlattenIs
<1>6. n = 0 => s = <<>> /\ FlattenSeq(s) = s
  BY <1>1 DEF FlattenSeq
<1> HIDE DEF u, n, f, g
<1>7. CASE n = 0
  <2>1. g[1] = e /\ n + 1 = 1
    BY <1>1, <1>3, <1>7
  <2>2. s = <<>> /\ FlattenSeq(s) = <<>>
    BY <1>6, <1>7
  <2>3. <<>> \in Seq(V) /\ <<>> \o e = e
    OBVIOUS
  <2>4. FlattenSeq(u) = e
    BY <1>4, <2>1
  <2> QED
    BY <2>2, <2>3, <2>4 DEF u
<1>8. CASE n # 0
  <2> DEFINE S == {i \in 0..n : i = 0 \/ (g[i] = f[i] /\ f[i] \in Seq(V))}
  <2>1. 0 \in S
    BY <1>1
  <2>2. ASSUME NEW i \in 0..(n - 1), i \in S
        PROVE  i + 1 \in S
    <3>1. PICK j : j = i + 1
      OBVIOUS
    <3>2. j \in 1..n /\ j \in 1..(n + 1) /\ j - 1 = i /\ (j = 1 <=> i = 0)
      BY <1>1, <3>1
    <3>3. g[j] = f[j] /\ f[j] \in Seq(V)
      <4>1. f[j] = IF j = 1 THEN s[j] ELSE f[i] \o s[j]
        BY <1>2, <3>2
      <4>2. g[j] = IF j = 1 THEN s[j] ELSE g[i] \o s[j]
        BY <1>1, <1>3, <3>2
      <4>3. s[j] \in Seq(V)
        BY <1>1, <3>2
      <4> QED
        BY <2>2, <3>2, <4>1, <4>2, <4>3
    <3> QED
      BY <1>1, <3>1, <3>2, <3>3
  <2> HIDE DEF S
  <2>3. n \in S
    <3>1. 0..n \subseteq S
      BY <1>1, <2>1, <2>2, UpTo
    <3> QED
      BY <1>1, <3>1
  <2>4. g[n] = f[n] /\ f[n] \in Seq(V)
    BY <1>8, <2>3 DEF S
  <2>5. n + 1 \in 1..(n + 1) /\ n + 1 # 1 /\ (n + 1) - 1 = n
    BY <1>1, <1>8
  <2>6. g[n + 1] = f[n] \o e
    BY <1>1, <1>3, <2>4, <2>5
  <2>7. f[n] \o e \in Seq(V)
    BY <2>4
  <2> QED
    BY <1>4, <1>5, <1>8, <2>4, <2>6, <2>7 DEF u
<1> QED
  BY <1>7, <1>8

-----------------------------------------------------------------------------
(* What a text means, as operators on it. *)

(* The digits of the code that place i stands in. *)
Held(t, j, i) ==
    /\ Within(t, j)
    /\ t[j] \in HexDigits
    /\ \A k \in j..(i - 1) : t[k] # "semicolon"
DigitPieces(t, i) == [j \in 1..(i - 1) |-> IF Held(t, j, i) THEN <<t[j]>> ELSE <<>>]
Digits(t, i)      == FlattenSeq(DigitPieces(t, i))

Mean(t, p, i) ==
    IF Break(t, i) THEN IF p = 0 THEN <<>> ELSE <<"newline">>
    ELSE IF p # 2 /\ t[i] = "blank" /\ Margin(t, i) THEN <<>>
    ELSE IF Within(t, i)
         THEN IF t[i] = "semicolon" THEN Character(Digits(t, i)) ELSE <<>>
    ELSE IF Esc(t, i) THEN EscapeMeaning(t[i])
    ELSE IF t[i] \in {"backslash", "quote"} THEN <<>>
    ELSE <<t[i]>>

(* Between single or acute quotes there are no escapes. *)
QuotedMargin(t, i) == LET b == i - 1 - Run(t, "blank", i) IN b > 0 /\ t[b] = "newline"
QuotedMean(t, p, i) ==
    IF t[i] = "newline" THEN IF p = 0 THEN <<>> ELSE <<"newline">>
    ELSE IF p # 2 /\ t[i] = "blank" /\ QuotedMargin(t, i) THEN <<>>
    ELSE IF t[i] = "quote" /\ ~Odd(Run(t, "quote", i)) THEN <<>>
    ELSE <<t[i]>>

Pieces(t, p)       == [i \in 1..Len(t) |-> Mean(t, p, i)]
QuotedPieces(t, p) == [i \in 1..Len(t) |-> QuotedMean(t, p, i)]

LEMMA DigitTypes ==
    ASSUME NEW t \in Seq(Bytes), NEW i \in 1..(Len(t) + 1)
    PROVE  /\ DigitPieces(t, i) \in Seq(Seq(HexDigits))
           /\ Digits(t, i) \in Seq(HexDigits)
           /\ Character(Digits(t, i)) \in Seq(Value)
<1> DEFINE f == DigitPieces(t, i)
<1>1. <<>> \in Seq(HexDigits) /\ \A d \in HexDigits : <<d>> \in Seq(HexDigits)
  OBVIOUS
<1>2. \A j \in 1..(i - 1) : f[j] \in Seq(HexDigits)
  BY <1>1 DEF DigitPieces, Held
<1>3. PICK m \in Nat : m = i - 1
  OBVIOUS
<1>4. f \in Seq(Seq(HexDigits))
  <2>1. f = [j \in 1..m |-> f[j]]
    BY <1>3 DEF DigitPieces
  <2>2. \A j \in 1..m : f[j] \in Seq(HexDigits)
    BY <1>2, <1>3
  <2> DEFINE V == Seq(HexDigits)
  <2> HIDE DEF f, V
  <2>3. f \in Seq(V)
    BY <2>1, <2>2 DEF V
  <2> QED
    BY <2>3 DEF V
<1>5. FlattenSeq(f) \in Seq(HexDigits)
  BY <1>1, <1>4, FlattenAppend
<1> QED
  BY <1>4, <1>5, CharacterType DEF f, Digits

LEMMA FlattenNothing ==
    ASSUME NEW n \in Nat, NEW s, s = [j \in 1..n |-> <<>>]
    PROVE  FlattenSeq(s) = <<>>
<1>1. <<>> \in Seq({})
  OBVIOUS
<1>2. s \in Seq(Seq({}))
  BY <1>1
<1>3. FlattenSeq(s) \in Seq({})
  BY <1>1, <1>2, FlattenAppend
<1>4. \A e \in Seq({}) : e = <<>>
  OBVIOUS
<1> QED
  BY <1>3, <1>4

(* A byte more is a digit of the code or not, and outside of codes there   *)
(* are none.                                                               *)
LEMMA DigitsNext ==
    ASSUME NEW t \in Seq(Bytes), NEW d \in Bytes
    PROVE  /\ \A i \in 1..(Len(t) + 1) : Digits(Append(t, d), i) = Digits(t, i)
           /\ d # "semicolon" =>
                 Digits(Append(t, d), Len(t) + 2) =
                     IF Within(t, Len(t) + 1) /\ d \in HexDigits
                     THEN Append(Digits(t, Len(t) + 1), d) ELSE Digits(t, Len(t) + 1)
           /\ ~Within(t, Len(t) + 1) => Digits(t, Len(t) + 1) = <<>>
<1> DEFINE u == Append(t, d)
           n == Len(t)
<1>1. n \in Nat /\ (\A j \in 1..n : u[j] = t[j]) /\ u[n + 1] = d
  BY Longer
<1>2. \A j \in 1..(n + 1) : Within(u, j) = Within(t, j)
  BY <1>1, PlacesSame
<1>3. \A i \in 1..(n + 1) : DigitPieces(t, i) \in Seq(Seq(HexDigits))
                            /\ Digits(t, i) \in Seq(HexDigits)
  BY DigitTypes
<1> HIDE DEF u, n
<1>4. ASSUME NEW i \in 1..(n + 1) PROVE Digits(u, i) = Digits(t, i)
  <2>1. ASSUME NEW j \in 1..(i - 1) PROVE Held(u, j, i) <=> Held(t, j, i)
    <3>1. j \in 1..n /\ j \in 1..(n + 1) /\ \A k \in j..(i - 1) : k \in 1..n
      BY <1>1
    <3> QED
      BY <1>1, <1>2, <3>1 DEF Held
  <2>2. \A j \in 1..(i - 1) : u[j] = t[j]
    BY <1>1
  <2>3. DigitPieces(u, i) = DigitPieces(t, i)
    BY <2>1, <2>2 DEF DigitPieces
  <2> QED
    BY <2>3 DEF Digits
<1>5. ASSUME d # "semicolon"
      PROVE  Digits(u, n + 2) = IF Within(t, n + 1) /\ d \in HexDigits
                                THEN Append(Digits(t, n + 1), d) ELSE Digits(t, n + 1)
  <2> DEFINE e == IF Within(t, n + 1) /\ d \in HexDigits THEN <<d>> ELSE <<>>
             s == DigitPieces(t, n + 1)
  <2>1. n + 1 \in 1..(n + 1)
    BY <1>1
  <2>2. s \in Seq(Seq(HexDigits)) /\ Digits(t, n + 1) \in Seq(HexDigits)
    BY <1>3, <2>1
  <2>3. e \in Seq(HexDigits)
    OBVIOUS
  <2>4. (n + 2) - 1 = n + 1 /\ (n + 1) - 1 = n
    BY <1>1
  <2>5. ASSUME NEW j \in 1..n PROVE Held(u, j, n + 2) <=> Held(t, j, n + 1)
    <3>1. j \in 1..(n + 1) /\ \A k \in j..(n + 1) : k \in j..n \/ k = n + 1
      BY <1>1
    <3>2. \A k \in j..n : k \in j..(n + 1) /\ u[k] = t[k]
      BY <1>1
    <3>3. u[j] = t[j] /\ Within(u, j) = Within(t, j)
      BY <1>1, <1>2, <3>1
    <3> QED
      BY <1>1, <1>5, <2>4, <3>1, <3>2, <3>3 DEF Held
  <2>6. Held(u, n + 1, n + 2) <=> Within(t, n + 1) /\ d \in HexDigits
    <3>1. \A k \in (n + 1)..(n + 1) : k = n + 1
      BY <1>1
    <3> QED
      BY <1>1, <1>2, <1>5, <2>1, <2>4, <3>1 DEF Held
  <2>7. DigitPieces(u, n + 2) = [j \in 1..(n + 1) |-> IF Held(u, j, n + 2) THEN <<u[j]>> ELSE <<>>]
    BY <2>4 DEF DigitPieces
  <2>8. s = [j \in 1..n |-> IF Held(t, j, n + 1) THEN <<t[j]>> ELSE <<>>]
    BY <2>4 DEF DigitPieces
  <2> HIDE DEF s
  <2>9. Len(s) = n /\ \A j \in 1..n : s[j] = IF Held(t, j, n + 1) THEN <<t[j]>> ELSE <<>>
    BY <1>1, <2>2, <2>8
  <2>10. Append(s, e) = [j \in 1..(n + 1) |-> IF j = n + 1 THEN e ELSE s[j]]
    BY <1>1, <2>2, <2>9
  <2>11. \A j \in 1..(n + 1) : j = n + 1 \/ j \in 1..n
    BY <1>1
  <2>12. DigitPieces(u, n + 2) = Append(s, e)
    <3> DEFINE piece(j) == IF Held(u, j, n + 2) THEN <<u[j]>> ELSE <<>>
    <3>1. ASSUME NEW j \in 1..(n + 1)
          PROVE  piece(j) = IF j = n + 1 THEN e ELSE s[j]
      <4>1. CASE j = n + 1
        BY <1>1, <2>6, <4>1
      <4>2. CASE j # n + 1
        <5>1. j \in 1..n
          BY <2>11, <4>2
        <5> QED
          BY <1>1, <2>5, <2>9, <4>2, <5>1
      <4> QED
        BY <4>1, <4>2
    <3> HIDE DEF piece, e
    <3>2. Append(s, e) = [j \in 1..(n + 1) |-> piece(j)]
      BY <2>10, <3>1
    <3> QED
      BY <2>7, <3>2 DEF piece
  <2>13. Digits(u, n + 2) = Digits(t, n + 1) \o e
    BY <2>2, <2>3, <2>12, FlattenAppend DEF Digits, s
  <2>14. \A w \in Seq(HexDigits) : w \o <<>> = w /\ \A a \in HexDigits : w \o <<a>> = Append(w, a)
    OBVIOUS
  <2> QED
    BY <2>2, <2>13, <2>14
<1>6. ASSUME ~Within(t, n + 1) PROVE Digits(t, n + 1) = <<>>
  <2>1. (n + 1) - 1 = n
    BY <1>1
  <2>2. ASSUME NEW j \in 1..n PROVE ~Held(t, j, n + 1)
    <3> SUFFICES ASSUME Within(t, j) PROVE \E k \in j..n : t[k] = "semicolon"
      BY <2>1 DEF Held
    <3>1. PICK s \in 1..(j - 1) : Opens(t, s) /\ \A k \in (s + 1)..(j - 1) : t[k] # "semicolon"
      BY DEF Within
    <3>2. s \in 1..n
      BY <1>1, <3>1
    <3>3. PICK k \in (s + 1)..n : t[k] = "semicolon"
      BY <1>6, <2>1, <3>1, <3>2 DEF Within
    <3>4. k \in j..n
      BY <1>1, <3>1, <3>3
    <3> QED
      BY <3>3, <3>4
  <2>3. DigitPieces(t, n + 1) = [j \in 1..n |-> <<>>]
    BY <2>1, <2>2 DEF DigitPieces
  <2> QED
    BY <1>1, <2>3, FlattenNothing DEF Digits
<1> QED
  BY <1>4, <1>5, <1>6 DEF u, n

(* The places of the quoted styles. *)
LEMMA QuotedNext ==
    ASSUME NEW t \in Seq(Bytes), NEW d \in Bytes
    PROVE  LET u == Append(t, d)
               n == Len(t)
           IN  /\ Odd(Run(u, "quote", n + 2)) <=> d = "quote" /\ ~Odd(Run(t, "quote", n + 1))
               /\ \A i \in 1..(n + 1) : QuotedMargin(u, i) = QuotedMargin(t, i)
               /\ QuotedMargin(u, n + 2) <=> \/ d = "blank" /\ QuotedMargin(t, n + 1)
                                             \/ d = "newline"
<1> DEFINE u == Append(t, d)
           n == Len(t)
<1>1. n \in Nat /\ (\A j \in 1..n : u[j] = t[j]) /\ u[n + 1] = d
  BY Longer
<1>2. \A c : Run(u, c, n + 2) = IF d = c THEN Run(t, c, n + 1) + 1 ELSE 0
  BY RunNext
<1>3. \A c : \A i \in 1..(n + 1) : Run(t, c, i) \in 0..(i - 1)
  <2> SUFFICES ASSUME NEW c, NEW i \in 1..(n + 1) PROVE Run(t, c, i) \in 0..(i - 1)
    OBVIOUS
  <2>1. i \in Nat \ {0}
    BY <1>1
  <2> QED
    BY <2>1, RunExists
<1>4. \A i \in 1..(n + 1) : Run(u, "blank", i) = Run(t, "blank", i)
  BY RunSame
<1> HIDE DEF u, n
<1>5. Odd(Run(u, "quote", n + 2)) <=> d = "quote" /\ ~Odd(Run(t, "quote", n + 1))
  <2>1. \A k \in Nat : Odd(k + 1) <=> ~Odd(k)
    BY DEF Odd
  <2>2. ~Odd(0)
    BY DEF Odd
  <2>3. Run(t, "quote", n + 1) \in Nat
    BY <1>1, <1>3
  <2> QED
    BY <1>2, <2>1, <2>2, <2>3, Zenon
<1>6. ASSUME NEW i \in 1..(n + 1) PROVE QuotedMargin(u, i) = QuotedMargin(t, i)
  <2>1. PICK b : b = i - 1 - Run(t, "blank", i)
    OBVIOUS
  <2>2. b \in 0..n
    BY <1>1, <1>3, <2>1
  <2>3. b > 0 => u[b] = t[b]
    BY <1>1, <2>2
  <2> QED
    BY <1>4, <2>1, <2>3 DEF QuotedMargin
<1>7. QuotedMargin(u, n + 2) <=> \/ d = "blank" /\ QuotedMargin(t, n + 1)
                                 \/ d = "newline"
  <2>1. PICK k : k = Run(t, "blank", n + 1)
    OBVIOUS
  <2>2. k \in 0..n
    BY <1>1, <1>3, <2>1
  <2>3. PICK i : i = n + 2
    OBVIOUS
  <2>4. PICK i1 : i1 = n + 1
    OBVIOUS
  <2>5. CASE d = "blank"
    <3>1. PICK b : b = n - k
      OBVIOUS
    <3>2. Run(u, "blank", i) = k + 1 /\ i - 1 - (k + 1) = b
      BY <1>1, <1>2, <2>1, <2>2, <2>3, <2>5, <3>1
    <3>3. Run(t, "blank", i1) = k /\ i1 - 1 - k = b
      BY <1>1, <2>1, <2>2, <2>4, <3>1
    <3>4. b > 0 => u[b] = t[b]
      BY <1>1, <2>2, <3>1
    <3>5. QuotedMargin(u, i) = QuotedMargin(t, i1)
      BY <3>2, <3>3, <3>4 DEF QuotedMargin
    <3> QED
      BY <2>3, <2>4, <2>5, <3>5
  <2>6. CASE d # "blank"
    <3>1. i - 1 - Run(u, "blank", i) = i1 /\ i1 > 0
      BY <1>1, <1>2, <2>3, <2>4, <2>6
    <3>2. QuotedMargin(u, i) <=> d = "newline"
      BY <1>1, <2>4, <3>1 DEF QuotedMargin
    <3> QED
      BY <2>3, <2>6, <3>2
  <2> QED
    BY <2>5, <2>6
<1> QED
  BY <1>5, <1>6, <1>7 DEF u, n

LEMMA MeanTypes ==
    ASSUME NEW t \in Seq(Bytes), NEW p, NEW i \in 1..Len(t)
    PROVE  Mean(t, p, i) \in Seq(Value) /\ QuotedMean(t, p, i) \in Seq(Value)
<1>1. t[i] \in Bytes
  OBVIOUS
<1> DEFINE c == t[i]
<1>2. {"newline", "blank", c} \subseteq Value
  BY <1>1 DEF Bytes, Value
<1>3. EscapeMeaning(c) \in {<<>>, <<"newline">>, <<"blank">>, <<c>>}
  BY DEF EscapeMeaning
<1>4. Mean(t, p, i) \in {<<>>, <<"newline">>, <<"blank">>, <<c>>, Character(Digits(t, i))}
  BY <1>3 DEF Mean
<1>5. QuotedMean(t, p, i) \in {<<>>, <<"newline">>, <<c>>}
  BY DEF QuotedMean
<1> HIDE DEF c
<1>6. <<>> \in Seq(Value) /\ \A v \in Value : <<v>> \in Seq(Value)
  OBVIOUS
<1>7. Character(Digits(t, i)) \in Seq(Value)
  <2>1. i \in 1..(Len(t) + 1)
    OBVIOUS
  <2> QED
    BY <2>1, DigitTypes
<1> QED
  BY <1>2, <1>4, <1>5, <1>6, <1>7

(* A byte more adds its own meaning to that of the others. *)
LEMMA PiecesNext ==
    ASSUME NEW t \in Seq(Bytes), NEW d \in Bytes, NEW p
    PROVE  LET u == Append(t, d)
               n == Len(t)
           IN  /\ Pieces(t, p) \in Seq(Seq(Value))
               /\ Pieces(u, p) = Append(Pieces(t, p), Mean(u, p, n + 1))
               /\ QuotedPieces(t, p) \in Seq(Seq(Value))
               /\ QuotedPieces(u, p) = Append(QuotedPieces(t, p), QuotedMean(u, p, n + 1))
               /\ Mean(u, p, n + 1) \in Seq(Value)
               /\ QuotedMean(u, p, n + 1) \in Seq(Value)
<1> DEFINE u == Append(t, d)
           n == Len(t)
<1>1. /\ n \in Nat /\ (\A j \in 1..n : u[j] = t[j]) /\ u[n + 1] = d
      /\ u \in Seq(Bytes) /\ Len(u) = n + 1 /\ Len(t) = n
  BY Longer
<1>2. \A i \in 1..n : Mean(t, p, i) \in Seq(Value) /\ QuotedMean(t, p, i) \in Seq(Value)
  BY MeanTypes
<1>3. \A i \in 1..n : /\ Esc(u, i) = Esc(t, i)
                      /\ Break(u, i) = Break(t, i)
                      /\ Margin(u, i) = Margin(t, i)
                      /\ Within(u, i) = Within(t, i)
                      /\ Digits(u, i) = Digits(t, i)
                      /\ QuotedMargin(u, i) = QuotedMargin(t, i)
                      /\ Run(u, "quote", i) = Run(t, "quote", i)
  <2>1. \A i \in 1..n : i \in 1..(n + 1)
    BY <1>1
  <2> QED
    BY <2>1, PlacesSame, DigitsNext, QuotedNext, RunSame
<1>4. Mean(u, p, n + 1) \in Seq(Value) /\ QuotedMean(u, p, n + 1) \in Seq(Value)
  <2>1. n + 1 \in 1..Len(u)
    BY <1>1
  <2> HIDE DEF u
  <2> QED
    BY <1>1, <2>1, MeanTypes
<1> HIDE DEF u, n
<1>5. \A i \in 1..n : Mean(u, p, i) = Mean(t, p, i)
  BY <1>1, <1>3 DEF Mean
<1>6. \A i \in 1..n : QuotedMean(u, p, i) = QuotedMean(t, p, i)
  BY <1>1, <1>3 DEF QuotedMean
<1>7. Pieces(t, p) \in Seq(Seq(Value)) /\ QuotedPieces(t, p) \in Seq(Seq(Value))
  <2>1. \A f : f = [i \in 1..n |-> Mean(t, p, i)] => f \in Seq(Seq(Value))
    BY <1>1, <1>2
  <2>2. \A f : f = [i \in 1..n |-> QuotedMean(t, p, i)] => f \in Seq(Seq(Value))
    BY <1>1, <1>2
  <2> QED
    BY <1>1, <2>1, <2>2 DEF Pieces, QuotedPieces
<1>8. Pieces(u, p) = Append(Pieces(t, p), Mean(u, p, n + 1))
  BY <1>1, <1>5 DEF Pieces
<1>9. QuotedPieces(u, p) = Append(QuotedPieces(t, p), QuotedMean(u, p, n + 1))
  BY <1>1, <1>6 DEF QuotedPieces
<1> QED
  BY <1>4, <1>7, <1>8, <1>9 DEF u, n

(* The last loop cuts off the spacers at the end and nothing else. *)
LEMMA TrimCuts ==
    ASSUME NEW S, NEW t \in Seq(S)
    PROVE  Trimmed(t) = WithoutTail(t)
<1> DEFINE n == Len(t)
           M == {k \in Nat : k = n \/ (k < n /\ t[n - k] \notin Spacers)}
<1>1. n \in Nat /\ n \in M /\ M \subseteq Nat
  OBVIOUS
<1>2. PICK d \in M : \A k \in M : d <= k
  <2> HIDE DEF M, n
  <2> QED
    BY <1>1, Least
<1>3. PICK m : m = n - d
  OBVIOUS
<1>4. m \in 0..n /\ (m # 0 => t[m] \notin Spacers)
  BY <1>1, <1>2, <1>3
<1>5. ASSUME NEW i \in (m + 1)..n PROVE t[i] \in Spacers
  <2>1. n - i \in Nat /\ n - i < d /\ n - i < n /\ n - (n - i) = i
    BY <1>1, <1>3, <1>4
  <2>2. n - i \notin M
    BY <1>2, <2>1
  <2> QED
    BY <2>1, <2>2
<1> DEFINE kept == {i \in 1..n : \E j \in i..n : t[j] \notin Spacers}
<1>6. kept = 1..m
  BY <1>1, <1>4, <1>5
<1>7. Cardinality(1..m) = m
  <2>1. m \in Nat
    BY <1>1, <1>4
  <2> QED
    BY <2>1, FS_Interval
<1>8. Trimmed(t) = SubSeq(t, 1, m)
  BY <1>6, <1>7 DEF Trimmed
<1>9. \A k \in 0..n : /\ Len(SubSeq(t, 1, k)) = k
                      /\ k # 0 => SubSeq(t, 1, k) # <<>> /\ Last(SubSeq(t, 1, k)) = t[k]
                      /\ k = 0 => SubSeq(t, 1, k) = <<>>
  <2> SUFFICES ASSUME NEW k \in 0..n
               PROVE  /\ Len(SubSeq(t, 1, k)) = k
                      /\ k # 0 => SubSeq(t, 1, k) # <<>> /\ Last(SubSeq(t, 1, k)) = t[k]
                      /\ k = 0 => SubSeq(t, 1, k) = <<>>
    OBVIOUS
  <2> QED
    BY <1>1 DEF Last
<1> DEFINE P(u) == /\ u # <<>> => Last(u) \notin Spacers
                   /\ \A i \in (Len(u) + 1)..n : t[i] \in Spacers
<1> HIDE DEF n, M, kept
<1>10. P(SubSeq(t, 1, m))
  BY <1>4, <1>5, <1>9
<1>11. ASSUME NEW k \in 0..n, P(SubSeq(t, 1, k)) PROVE k = m
  <2>1. (k # 0 => t[k] \notin Spacers) /\ \A i \in (k + 1)..n : t[i] \in Spacers
    BY <1>9, <1>11
  <2>2. ~(k < m)
    BY <1>1, <1>4, <2>1
  <2>3. ~(m < k)
    BY <1>1, <1>4, <1>5, <2>1
  <2> QED
    BY <1>1, <1>4, <2>2, <2>3
<1>12. WithoutTail(t) = CHOOSE u \in {SubSeq(t, 1, k) : k \in 0..n} : P(u)
  BY DEF WithoutTail, n
<1> HIDE DEF P
<1>13. \A u \in {SubSeq(t, 1, k) : k \in 0..n} : P(u) <=> u = SubSeq(t, 1, m)
  BY <1>10, <1>11
<1>14. SubSeq(t, 1, m) \in {SubSeq(t, 1, k) : k \in 0..n}
  BY <1>4
<1>15. WithoutTail(t) = SubSeq(t, 1, m)
  BY <1>12, <1>13, <1>14
<1> QED
  BY <1>8, <1>15

-----------------------------------------------------------------------------
(* The value is what the text means. *)

(* What the flags of the quoted styles say of the next place, and what the  *)
(* code that is being read is.                                              *)
QuotedInv ==
    style \in QuoteStyles /\ pc # "threw" =>
        /\ quote <=> Odd(Run(input, "quote", Len(input) + 1))
        /\ skiping_spaces <=> preserve # 2 /\ QuotedMargin(input, Len(input) + 1)
        /\ quote => ~skiping_spaces
        /\ pc = "done" => quote

DigitsInv ==
    style \in EscapeStyles /\ pc = "scan" /\ lex # "closed" /\ readhex =>
        current_hex_value = Digits(input, Len(input) + 1)

(* The value so far is what the text so far means. *)
AccumInv ==
    /\ pc = "scan" /\ style \in EscapeStyles => accum = FlattenSeq(Pieces(input, preserve))
    /\ pc \in {"done", "broken"} /\ style = "plain" =>
          accum = Trimmed(FlattenSeq(Pieces(input, preserve)))
    /\ pc = "broken" => style = "plain" /\ accum = <<>>
    /\ pc = "done" /\ style = "double" => accum = FlattenSeq(Pieces(input, preserve))
    /\ pc # "threw" /\ style \in QuoteStyles =>
          accum = FlattenSeq(QuotedPieces(input, preserve))

(* Every part of what the flags and the value say of the text. *)
MInv == IInv /\ QuotedInv /\ DigitsInv /\ AccumInv

LEMMA MeansInit == Init => QuotedInv /\ DigitsInv /\ AccumInv
<1> SUFFICES ASSUME Init PROVE QuotedInv /\ DigitsInv /\ AccumInv
  OBVIOUS
<1>1. /\ pc = "scan" /\ input = <<>> /\ accum = <<>> /\ ~quote /\ ~readhex
      /\ skiping_spaces = (style = "plain")
  BY DEF Init
<1>2. Len(input) = 0
  BY <1>1
<1>3. ~Odd(Run(<<>>, "quote", 1)) /\ ~QuotedMargin(<<>>, 1)
  <2>1. \A c : Run(<<>>, c, 1) = 0
    <3> SUFFICES ASSUME NEW c PROVE Run(<<>>, c, 1) = 0
      OBVIOUS
    <3> QED
      BY RunExists
  <2>2. ~Odd(0) /\ ~(1 - 1 - 0 > 0)
    BY DEF Odd
  <2> QED
    BY <2>1, <2>2, Zenon DEF QuotedMargin
<1>4. QuotedInv
  <2>1. Len(input) + 1 = 1
    BY <1>2
  <2>2. style \in QuoteStyles => style # "plain"
    BY DEF QuoteStyles
  <2>3. pc # "done"
    BY <1>1
  <2> QED
    BY <1>1, <1>3, <2>1, <2>2, <2>3, Zenon DEF QuotedInv
<1>5. Pieces(input, preserve) = <<>> /\ QuotedPieces(input, preserve) = <<>>
  BY <1>1 DEF Pieces, QuotedPieces
<1>6. FlattenSeq(<<>>) = <<>>
  BY DEF FlattenSeq
<1> QED
  BY <1>1, <1>4, <1>5, <1>6 DEF DigitsInv, AccumInv

(* The value gets what the next byte means. *)
LEMMA EscapeReads ==
    ASSUME IInv, DigitsInv, AccumInv, NEW c \in Bytes, Read(c),
           style \in EscapeStyles, lex' # "closed", pc' = "scan"
    PROVE  DigitsInv' /\ AccumInv'
<1> DEFINE n == Len(input)
           u == Append(input, c)
           esc == Esc(input, n + 1)
           margin == Margin(input, n + 1)
           within == Within(input, n + 1)
           digits == Digits(input, n + 1)
           mean == Mean(u, preserve, n + 1)
<1>1. /\ input \in Seq(Bytes) /\ n \in Nat /\ pc = "scan" /\ UNCHANGED <<style, preserve>>
      /\ input' = u /\ Len(input') + 1 = n + 2 /\ lex # "closed" /\ style \notin QuoteStyles
      /\ accum \in Seq(Value)
  <2>1. /\ input \in Seq(Bytes) /\ pc = "scan" /\ UNCHANGED <<style, preserve>> /\ input' = u
        /\ accum \in Seq(Value)
    BY DEF IInv, TypeInv, TypeOK, Read, textVars, Value
  <2>2. lex # "closed" /\ style \notin QuoteStyles
    BY DEF Read, Lex, LexDouble, LexPlain, EscapeStyles, QuoteStyles
  <2> QED
    BY <2>1, <2>2
<1>2. /\ escaped \in BOOLEAN /\ readhex \in BOOLEAN /\ skiping_spaces \in BOOLEAN
      /\ escaped <=> esc
      /\ readhex <=> within
      /\ skiping_spaces <=> \/ preserve # 2 /\ margin
                            \/ style = "plain" /\ input = <<>>
      /\ escaped => ~readhex /\ ~skiping_spaces
      /\ readhex => current_hex_value = digits
  BY <1>1 DEF IInv, FlagInv, TypeInv, TypeOK, DigitsInv
<1>3. style = "plain" /\ input = <<>> => c # "blank"
  BY <1>1 DEF IInv, LexInv, Read, Lex, LexPlain
<1>4. mean =
        IF c = "newline" /\ ~esc THEN NewlineKept(preserve)
        ELSE IF preserve # 2 /\ c = "blank" /\ margin THEN <<>>
        ELSE IF within
             THEN IF c = "semicolon" THEN Character(digits) ELSE <<>>
        ELSE IF esc THEN Unescaped(c)
        ELSE IF c \in {"backslash", "quote"} THEN <<>>
        ELSE <<c>>
  <2>1. /\ Within(u, n + 1) = within /\ Margin(u, n + 1) = margin /\ Esc(u, n + 1) = esc
        /\ u[n + 1] = c
    BY <1>1, PlacesSame, Longer
  <2>2. Unescaped(c) = EscapeMeaning(c)
    BY DEF Unescaped, EscapeMeaning
  <2>3. Break(u, n + 1) <=> c = "newline" /\ ~esc
    BY <2>1 DEF Break
  <2>4. Digits(u, n + 1) = digits
    <3>1. n + 1 \in 1..(n + 1)
      BY <1>1
    <3> QED
      BY <1>1, <3>1, DigitsNext
  <2> HIDE DEF n, u, esc, margin, within, digits
  <2> QED
    BY <2>1, <2>2, <2>3, <2>4 DEF Mean, NewlineKept
<1>5. /\ c # "semicolon" =>
           Digits(u, n + 2) = IF within /\ c \in HexDigits THEN Append(digits, c) ELSE digits
      /\ ~within => digits = <<>>
  BY <1>1, DigitsNext
<1>6. /\ accum \o <<>> = accum
      /\ Append(accum, c) = accum \o <<c>>
  <2>1. \A w \in Seq(Value) : w \o <<>> = w /\ \A b \in Value : Append(w, b) = w \o <<b>>
    OBVIOUS
  <2>2. accum \in Seq(Value) /\ c \in Value
    BY <1>1 DEF Value
  <2> QED
    BY <2>1, <2>2
<1>7. /\ accum = FlattenSeq(Pieces(input, preserve))
      /\ Pieces(u, preserve) = Append(Pieces(input, preserve), mean)
      /\ Pieces(input, preserve) \in Seq(Seq(Value)) /\ mean \in Seq(Value)
  BY <1>1, PiecesNext DEF AccumInv
<1>8. FlattenSeq(Pieces(u, preserve)) = accum \o mean
  <2> HIDE DEF mean, u
  <2> QED
    BY <1>7, FlattenAppend
<1>0. c \in HexDigits => c \notin {"quote", "newline", "blank", "x", "semicolon"}
  BY DEF HexDigits
<1> HIDE DEF n, u, esc, margin, within, digits, mean
<1> DEFINE
      Goal == /\ accum' = accum \o mean
              /\ readhex' => current_hex_value' = Digits(u, n + 2)
<1>9. Goal
  <2>1. CASE ReadSkipped(c)
    BY <1>0, <1>2, <1>3, <1>4, <1>5, <1>6, <2>1
    DEF ReadSkipped, Skipped, flagVars
  <2>2. CASE ReadEscaped(c)
    BY <1>2, <1>4, <1>5, <2>2
    DEF ReadEscaped, Skipped
  <2>3. CASE ReadDoubleQuote(c)
    BY <1>0, <1>2, <1>4, <1>5, <1>6, <2>3
    DEF ReadDoubleQuote
  <2>4. CASE ReadNewline(c)
    BY <1>0, <1>2, <1>4, <1>5, <2>4
    DEF ReadNewline
  <2>5. CASE ReadDigit(c)
    <3>1. /\ c \in HexDigits /\ readhex /\ accum' = accum
          /\ current_hex_value' = Append(current_hex_value, c)
      BY <2>5 DEF ReadDigit, InCode
    <3>2. c # "newline" /\ c # "semicolon"
      BY <1>0, <3>1
    <3>3. mean = <<>> /\ Digits(u, n + 2) = Append(digits, c)
      BY <1>2, <1>4, <1>5, <3>1, <3>2
    <3> QED
      BY <1>2, <1>6, <3>1, <3>3
  <2>6. CASE ReadCodeEnd(c)
    BY <1>2, <1>4, <1>5, <1>6, <2>6
    DEF ReadCodeEnd, InCode
  <2>7. CASE ReadBackslash(c)
    BY <1>2, <1>4, <1>5, <1>6, <2>7
    DEF ReadBackslash
  <2>8. CASE ReadOther(c)
    BY <1>2, <1>4, <1>5, <1>6, <2>8
    DEF ReadOther, Skipped
  <2>9. ~ReadQuote(c) /\ ~ReadBadCode(c)
    BY <1>1 DEF ReadQuote, ReadBadCode
  <2> QED
    BY <2>1, <2>2, <2>3, <2>4, <2>5, <2>6, <2>7, <2>8, <2>9 DEF Read
<1>10. DigitsInv'
  BY <1>1, <1>9 DEF DigitsInv
<1>11. AccumInv'
  BY <1>1, <1>8, <1>9 DEF AccumInv
<1> QED
  BY <1>10, <1>11

LEMMA QuotedReads ==
    ASSUME IInv, QuotedInv, AccumInv, NEW c \in Bytes, Read(c), style \in QuoteStyles
    PROVE  QuotedInv' /\ AccumInv'
<1> DEFINE n == Len(input)
           u == Append(input, c)
           odd == Odd(Run(input, "quote", n + 1))
           margin == QuotedMargin(input, n + 1)
           mean == QuotedMean(u, preserve, n + 1)
<1>1. /\ input \in Seq(Bytes) /\ n \in Nat /\ pc = "scan" /\ UNCHANGED <<style, preserve>>
      /\ input' = u /\ Len(input') + 1 = n + 2 /\ style \notin EscapeStyles
      /\ accum \in Seq(Value) /\ ~escaped /\ ~readhex
  <2>1. /\ input \in Seq(Bytes) /\ pc = "scan" /\ UNCHANGED <<style, preserve>>
        /\ style \notin EscapeStyles /\ accum \in Seq(Value)
    BY DEF IInv, TypeInv, TypeOK, Read, textVars, Value, EscapeStyles, QuoteStyles
  <2>2. ~escaped /\ ~readhex
    BY <2>1 DEF IInv, TypeInv, TypeOK
  <2>3. lex' # "closed"
    BY DEF Read, Lex, LexQuotes, QuoteStyles
  <2>4. input' = u
    BY <2>3 DEF Read
  <2> QED
    BY <2>1, <2>2, <2>4
<1>2. /\ quote \in BOOLEAN /\ skiping_spaces \in BOOLEAN
      /\ quote <=> odd
      /\ skiping_spaces <=> preserve # 2 /\ margin
      /\ quote => ~skiping_spaces
  BY <1>1 DEF IInv, TypeInv, TypeOK, QuotedInv
<1>3. /\ Odd(Run(u, "quote", n + 2)) <=> c = "quote" /\ ~odd
      /\ QuotedMargin(u, n + 2) <=> \/ c = "blank" /\ margin
                                    \/ c = "newline"
  BY <1>1, QuotedNext
<1>4. mean =
        IF c = "newline" THEN NewlineKept(preserve)
        ELSE IF preserve # 2 /\ c = "blank" /\ margin THEN <<>>
        ELSE IF c = "quote" /\ ~odd THEN <<>>
        ELSE <<c>>
  <2>1. n + 1 \in 1..(n + 1)
    BY <1>1
  <2>2. QuotedMargin(u, n + 1) = margin /\ Run(u, "quote", n + 1) = Run(input, "quote", n + 1)
        /\ u[n + 1] = c
    BY <1>1, <2>1, QuotedNext, RunSame, Longer
  <2> HIDE DEF n, u, margin
  <2> QED
    BY <2>2 DEF QuotedMean, NewlineKept
<1>5. accum \o <<>> = accum /\ Append(accum, c) = accum \o <<c>>
  BY <1>1
<1>6. /\ accum = FlattenSeq(QuotedPieces(input, preserve))
      /\ QuotedPieces(u, preserve) = Append(QuotedPieces(input, preserve), mean)
      /\ QuotedPieces(input, preserve) \in Seq(Seq(Value)) /\ mean \in Seq(Value)
  BY <1>1, PiecesNext DEF AccumInv
<1>7. FlattenSeq(QuotedPieces(u, preserve)) = accum \o mean
  <2> HIDE DEF mean, u
  <2> QED
    BY <1>6, FlattenAppend
<1> HIDE DEF n, u, odd, margin, mean
<1> DEFINE
      Goal == /\ pc' = "scan"
              /\ accum' = accum \o mean
              /\ quote' <=> Odd(Run(u, "quote", n + 2))
              /\ skiping_spaces' <=> preserve # 2 /\ QuotedMargin(u, n + 2)
              /\ quote' => ~skiping_spaces'
<1>8. Goal
  <2>1. CASE ReadSkipped(c)
    BY <1>1, <1>2, <1>3, <1>4, <1>5, <2>1 DEF ReadSkipped, Skipped, flagVars
  <2>2. CASE ReadNewline(c)
    BY <1>1, <1>2, <1>3, <1>4, <2>2 DEF ReadNewline, SkipAfterNewline
  <2>3. CASE ReadQuote(c)
    BY <1>1, <1>2, <1>3, <1>4, <1>5, <2>3 DEF ReadQuote, QuoteKept
  <2>4. CASE ReadOther(c)
    BY <1>1, <1>2, <1>3, <1>4, <1>5, <2>4 DEF ReadOther, Skipped
  <2>5. ReadSkipped(c) \/ ReadNewline(c) \/ ReadQuote(c) \/ ReadOther(c)
    BY <1>1 DEF Read, ReadEscaped, ReadDoubleQuote, ReadDigit, ReadCodeEnd, ReadBadCode,
                ReadBackslash
  <2> QED
    BY <2>1, <2>2, <2>3, <2>4, <2>5
<1>9. QuotedInv'
  <2>1. pc' # "done"
    BY <1>8
  <2> QED
    BY <1>1, <1>8, <2>1 DEF QuotedInv
<1>10. AccumInv'
  BY <1>1, <1>7, <1>8 DEF AccumInv
<1> QED
  BY <1>9, <1>10

LEMMA MeansStep ==
    ASSUME MInv, MInv => IInv', [Next]_vars
    PROVE  MInv'
<1>1. IInv /\ QuotedInv /\ DigitsInv /\ AccumInv /\ IInv'
  BY DEF MInv
<1>2. style \in EscapeStyles \/ style \in QuoteStyles
  BY <1>1, StylesAssumption DEF IInv, TypeInv, TypeOK, EscapeStyles, QuoteStyles
<1>3. EscapeStyles \cap QuoteStyles = {}
  BY DEF EscapeStyles, QuoteStyles
<1>4. ASSUME NEW c \in Bytes, Read(c)
      PROVE  QuotedInv' /\ DigitsInv' /\ AccumInv'
  <2>1. style' = style /\ preserve' = preserve /\ pc = "scan" /\ pc' \in {"scan", "threw"}
    BY <1>4 DEF Read, textVars, ReadSkipped, ReadEscaped, ReadDoubleQuote, ReadNewline, ReadDigit,
       ReadCodeEnd, ReadBadCode, ReadBackslash, ReadQuote, ReadOther
  <2>2. CASE style \in QuoteStyles
    <3>1. DigitsInv'
      BY <1>3, <2>1, <2>2 DEF DigitsInv
    <3> QED
      BY <1>1, <1>4, <2>2, <3>1, QuotedReads
  <2>3. CASE style \in EscapeStyles
    <3>1. QuotedInv'
      BY <1>3, <2>1, <2>3 DEF QuotedInv
    <3>2. CASE pc' = "threw"
      BY <1>3, <2>1, <2>3, <3>1, <3>2 DEF DigitsInv, AccumInv
    <3>3. CASE pc' = "scan" /\ lex' # "closed"
      BY <1>1, <1>4, <2>3, <3>1, <3>3, EscapeReads
    <3>4. CASE pc' = "scan" /\ lex' = "closed"
      <4>1. input' = input /\ style = "double" /\ c = "quote" /\ lex = "open"
        BY <1>4, <2>3, <3>4 DEF Read, Lex, LexDouble, LexPlain, EscapeStyles, LexQuotes
      <4>2. ~escaped
        BY <1>1, <2>1, <4>1 DEF IInv, LexInv
      <4>3. ReadDoubleQuote(c)
        BY <1>4, <4>1, <4>2 DEF Read, ReadSkipped, Skipped, ReadEscaped, ReadNewline, ReadDigit,
           InCode, HexDigits, ReadCodeEnd, ReadBadCode, ReadBackslash, ReadQuote, ReadOther,
           QuoteStyles
      <4>4. accum' = accum
        BY <4>3 DEF ReadDoubleQuote
      <4>5. DigitsInv'
        BY <3>4 DEF DigitsInv
      <4>6. AccumInv'
        BY <1>1, <1>3, <2>1, <2>3, <3>4, <4>1, <4>4 DEF AccumInv
      <4> QED
        BY <3>1, <4>5, <4>6
    <3> QED
      BY <2>1, <3>2, <3>3, <3>4
  <2> QED
    BY <1>2, <2>2, <2>3
<1>5. ASSUME End
      PROVE  QuotedInv' /\ DigitsInv' /\ AccumInv'
  <2>1. UNCHANGED <<style, preserve, lex, input, quote, skiping_spaces>> /\ pc = "scan"
    BY <1>5 DEF End, textVars, flagVars
  <2>2. pc' # "scan"
    BY <1>5 DEF End
  <2>3. DigitsInv'
    BY <2>2 DEF DigitsInv
  <2>4. CASE style \in QuoteStyles
    <3>1. quote
      BY <1>1, <1>5, <2>1, <2>4 DEF IInv, LexInv, End, Complete, QuoteStyles
    <3>2. style # "plain" /\ style # "double" /\ accum' = accum
      BY <1>5, <2>4 DEF QuoteStyles, End
    <3>3. QuotedInv'
      BY <1>1, <2>1, <2>4, <3>1 DEF QuotedInv
    <3>4. AccumInv'
      <4>1. pc' = "done"
        BY <1>5, <3>1, <3>2 DEF End, Emptied
      <4> QED
        BY <1>1, <2>1, <2>4, <3>2, <4>1 DEF AccumInv
    <3> QED
      BY <2>3, <3>3, <3>4
  <2>5. CASE style \in EscapeStyles
    <3>1. QuotedInv'
      BY <1>3, <2>1, <2>5 DEF QuotedInv
    <3>2. accum' = IF style = "plain" THEN Trimmed(accum) ELSE accum
      BY <1>5 DEF End
    <3>3. accum = FlattenSeq(Pieces(input, preserve))
      BY <1>1, <2>1, <2>5 DEF AccumInv
    <3>4. AccumInv'
      <4>1. pc' = "broken" => style = "plain" /\ Trimmed(accum) = <<>>
        BY <1>5 DEF End, Emptied
      <4>2. style \notin QuoteStyles /\ (style = "double" => style # "plain")
        BY <1>3, <2>5
      <4> QED
        BY <2>1, <2>2, <3>2, <3>3, <4>1, <4>2 DEF AccumInv
    <3> QED
      BY <2>3, <3>1, <3>4
  <2> QED
    BY <1>2, <2>4, <2>5
<1>6. ASSUME UNCHANGED vars
      PROVE  QuotedInv' /\ DigitsInv' /\ AccumInv'
  <2>1. QuotedInv'
    BY <1>1, <1>6 DEF vars, textVars, flagVars, QuotedInv
  <2>2. DigitsInv'
    BY <1>1, <1>6 DEF vars, textVars, flagVars, DigitsInv
  <2>3. AccumInv'
    BY <1>1, <1>6 DEF vars, textVars, flagVars, AccumInv
  <2> QED
    BY <2>1, <2>2, <2>3
<1> QED
  BY <1>1, <1>4, <1>5, <1>6 DEF Next, MInv

THEOREM MeansInductive == Spec => []MInv
<1>1. Init => MInv
  BY InvInit, MeansInit DEF MInv
<1>2. MInv /\ [Next]_vars => MInv'
  <2>1. MInv => IInv
    BY DEF MInv
  <2> QED
    BY <2>1, InvStep, MeansStep
<1> QED
  BY <1>1, <1>2, PTL DEF Spec

(* The value of a plain or double-quoted scalar is what its text means,     *)
(* whatever its length and its mixture of escapes, codes, folded lines,     *)
(* preserved ones and doubled backslashes.                                  *)
THEOREM EscapesCorrect == Spec => []EscapesMean
<1>1. MInv => EscapesMean
  <2>0. MInv /\ pc = "broken" => style = "plain" /\ accum = <<>> /\ style \in EscapeStyles
    BY DEF MInv, AccumInv, EscapeStyles
  <2> SUFFICES ASSUME MInv, pc \in {"done", "broken"}, style \in EscapeStyles
               PROVE  accum = IF style = "plain" THEN WithoutTail(MeaningOfAll) ELSE MeaningOfAll
    BY <2>0 DEF EscapesMean
  <2>1. style \notin QuoteStyles /\ style \in {"plain", "double"} /\ input \in Seq(Bytes)
    BY DEF MInv, IInv, TypeInv, TypeOK, EscapeStyles, QuoteStyles
  <2>2. Body = input
    BY <2>1 DEF Body
  <2>3. \A c, i : RunBefore(c, i) = Run(input, c, i)
    BY <2>2, Zenon DEF RunBefore, Run, IsRun
  <2>4. \A i : IsEscaped(i) <=> Esc(input, i)
    BY <2>3, Zenon DEF IsEscaped, Esc
  <2>5. \A i : IsBreak(i) <=> Break(input, i)
    BY <2>2, <2>4, Zenon DEF IsBreak, Break
  <2>6. \A i : IsIndent(i) <=> preserve # 2 /\ input[i] = "blank" /\ Margin(input, i)
    BY <2>2, <2>3, <2>5, Zenon DEF IsIndent, Margin
  <2>7. \A i : WithinCode(i) <=> Within(input, i)
    BY PlacesInText
  <2>8. \A i : CodeDigits(i) = Digits(input, i)
    <3>1. \A i, j : IsDigitOf(j, i) <=> Held(input, j, i)
      BY <2>2, <2>7, Zenon DEF IsDigitOf, Held
    <3> QED
      BY <2>2, <3>1 DEF CodeDigits, Digits, DigitPieces
  <2>9. \A i : IsMark(i) <=> input[i] \in {"backslash", "quote"}
    BY <2>1, <2>2 DEF IsMark
  <2>10. \A i : Meaning(i) = Mean(input, preserve, i)
    BY <2>2, <2>4, <2>5, <2>6, <2>7, <2>8, <2>9 DEF Meaning, CodeMeaning, Mean
  <2>11. MeaningOfAll = FlattenSeq(Pieces(input, preserve))
    BY <2>2, <2>10 DEF MeaningOfAll, Places, Pieces
  <2>12. CASE style = "plain"
    <3>1. Pieces(input, preserve) \in Seq(Seq(Value))
      <4>1. "quote" \in Bytes
        BY DEF Bytes
      <4> QED
        BY <2>1, <4>1, PiecesNext
    <3>2. FlattenSeq(Pieces(input, preserve)) \in Seq(Value)
      BY <3>1, FlattenAppend
    <3>3. accum = Trimmed(MeaningOfAll)
      BY <2>11, <2>12 DEF MInv, AccumInv
    <3> QED
      BY <2>11, <2>12, <3>2, <3>3, TrimCuts
  <2>13. CASE style = "double"
    <3>1. pc = "done"
      BY <2>0, <2>13
    <3> QED
      BY <2>11, <2>13, <3>1 DEF MInv, AccumInv
  <2> QED
    BY <2>1, <2>12, <2>13
<1> QED
  BY <1>1, MeansInductive, PTL

(* The value of a single-quoted scalar or of a script is its text with      *)
(* every pair of quotes made one, and with its lines folded where the       *)
(* scalar says so: the quote that ends the token is no part of it, however  *)
(* many quotes stand before it.                                             *)
THEOREM QuotesCorrect == Spec => []QuotesMean
<1>1. MInv => QuotesMean
  <2> SUFFICES ASSUME MInv, pc = "done", style \in QuoteStyles
               PROVE  accum = MeaningOfAll
    BY DEF QuotesMean
  <2> DEFINE n == Len(input)
             b == Front(input)
  <2>1. style \notin EscapeStyles /\ input \in Seq(Bytes) /\ n \in Nat
    BY DEF MInv, IInv, TypeInv, TypeOK, EscapeStyles, QuoteStyles
  <2>2. Odd(Run(input, "quote", n + 1)) /\ accum = FlattenSeq(QuotedPieces(input, preserve))
    BY DEF MInv, QuotedInv, AccumInv
  <2>3. n # 0 /\ input[n] = "quote"
    <3>1. n + 1 \in Nat \ {0} /\ (n + 1) - 1 = n
      BY <2>1
    <3> HIDE DEF n
    <3>2. /\ Run(input, "quote", n + 1) \in 0..n
          /\ IsRun(input, "quote", n + 1, Run(input, "quote", n + 1))
      BY <3>1, RunExists
    <3>3. Run(input, "quote", n + 1) # 0
      BY <2>2 DEF Odd
    <3> QED
      BY <2>1, <3>2, <3>3 DEF IsRun
  <2>4. b \in Seq(Bytes) /\ Len(b) = n - 1 /\ input = Append(b, "quote") /\ "quote" \in Bytes
    <3>1. b \in Seq(Bytes) /\ Len(b) = n - 1 /\ \A i \in 1..(n - 1) : b[i] = input[i]
      <4>1. PICK m \in 0..n : m = n - 1
        BY SMTT(30), <2>1, <2>3
      <4>2. b = SubSeq(input, 1, m)
        BY <4>1 DEF Front
      <4> HIDE DEF b
      <4>3. b \in Seq(Bytes)
        BY <2>1, <4>1, <4>2
      <4>4. Len(b) = m
        BY <2>1, <4>1, <4>2
      <4>5. \A i \in 1..m : b[i] = input[i]
        BY <2>1, <4>1, <4>2
      <4> QED
        BY <4>1, <4>3, <4>4, <4>5
    <3>2. "quote" \in Bytes
      BY DEF Bytes
    <3>3. PICK a : a = Append(b, "quote")
      OBVIOUS
    <3> HIDE DEF b
    <3>4. a \in Seq(Bytes) /\ Len(a) = n
      <4>1. PICK m \in Nat : m = Len(b)
        BY <3>1
      <4>2. m + 1 = n
        BY <2>1, <3>1, <4>1
      <4> HIDE DEF n
      <4> QED
        BY <3>1, <3>2, <3>3, <4>1, <4>2
    <3>5. ASSUME NEW i \in 1..n PROVE a[i] = input[i]
      <4>1. CASE i = n
        BY <2>1, <2>3, <3>1, <3>2, <3>3, <4>1
      <4>2. CASE i # n
        <5>1. i \in 1..(n - 1)
          BY <2>1, <4>2
        <5>2. a[i] = b[i]
          BY <2>1, <3>1, <3>2, <3>3, <5>1
        <5> QED
          BY <3>1, <5>1, <5>2
      <4> QED
        BY <4>1, <4>2
    <3>6. a = input
      BY <2>1, <3>4, <3>5
    <3> QED
      BY <3>1, <3>2, <3>3, <3>6
  <2>5. QuotedMean(input, preserve, n) = <<>>
    <3>1. Run(input, "quote", n + 1) = Run(b, "quote", n) + 1
      <4>1. Len(b) + 2 = n + 1 /\ Len(b) + 1 = n
        BY <2>1, <2>4
      <4> HIDE DEF n, b
      <4> QED
        BY <2>4, <4>1, RunNext
    <3>2. Run(input, "quote", n) = Run(b, "quote", n)
      <4>1. n \in 1..(Len(b) + 1)
        BY <2>1, <2>3, <2>4
      <4> HIDE DEF n, b
      <4> QED
        BY <2>4, <4>1, RunSame
    <3>3. Run(b, "quote", n) \in Nat
      <4>1. n \in Nat \ {0}
        BY <2>1, <2>3
      <4> HIDE DEF n, b
      <4> QED
        BY <4>1, RunExists
    <3>4. ~Odd(Run(input, "quote", n))
      <4>1. PICK k \in Nat : k = Run(b, "quote", n)
        BY <3>3
      <4>2. Odd(k + 1) => ~Odd(k)
        BY DEF Odd
      <4> QED
        BY <2>2, <3>1, <3>2, <4>1, <4>2
    <3> QED
      BY <2>3, <3>4 DEF QuotedMean
  <2>6. accum = FlattenSeq(QuotedPieces(b, preserve))
    <3>1. Len(b) + 1 = n
      BY <2>1, <2>4
    <3> HIDE DEF n, b
    <3>2. /\ QuotedPieces(b, preserve) \in Seq(Seq(Value))
          /\ QuotedPieces(input, preserve) = Append(QuotedPieces(b, preserve), <<>>)
      BY <2>4, <2>5, <3>1, PiecesNext
    <3>3. <<>> \in Seq(Value)
      OBVIOUS
    <3>4. /\ FlattenSeq(QuotedPieces(b, preserve)) \in Seq(Value)
          /\ accum = FlattenSeq(QuotedPieces(b, preserve)) \o <<>>
      BY <2>2, <3>2, <3>3, FlattenAppend
    <3>5. \A v \in Seq(Value) : v \o <<>> = v
      OBVIOUS
    <3> QED
      BY <3>4, <3>5
  <2> HIDE DEF b
  <2>7. Body = b
    BY DEF Body, b
  <2>8. \A c, i : RunBefore(c, i) = Run(b, c, i)
    BY <2>7, Zenon DEF RunBefore, Run, IsRun
  <2>9. \A i : ~IsEscaped(i)
    BY <2>1 DEF IsEscaped
  <2>10. \A i : ~WithinCode(i)
    BY <2>9 DEF WithinCode, OpensCode
  <2>11. \A i : IsBreak(i) <=> b[i] = "newline"
    BY <2>7, <2>9 DEF IsBreak
  <2>12. \A i : IsIndent(i) <=> preserve # 2 /\ b[i] = "blank" /\ QuotedMargin(b, i)
    BY <2>7, <2>8, <2>11, Zenon DEF IsIndent, QuotedMargin
  <2>13. \A i : IsMark(i) <=> b[i] = "quote" /\ ~Odd(Run(b, "quote", i))
    BY <2>1, <2>7, <2>8, Zenon DEF IsMark
  <2>14. \A i : Meaning(i) = QuotedMean(b, preserve, i)
    BY <2>7, <2>9, <2>10, <2>11, <2>12, <2>13 DEF Meaning, QuotedMean
  <2>15. MeaningOfAll = FlattenSeq(QuotedPieces(b, preserve))
    BY <2>7, <2>14 DEF MeaningOfAll, Places, QuotedPieces
  <2> QED
    BY <2>6, <2>15
<1> QED
  BY <1>1, MeansInductive, PTL
=============================================================================
