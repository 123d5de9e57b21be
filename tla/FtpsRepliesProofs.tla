-------------------------- MODULE FtpsRepliesProofs --------------------------
(***************************************************************************)
(* What ftpReadResponse makes of the characters that arrive, and what the  *)
(* parsers of SIZE and PASV make of it, for texts of any length over any   *)
(* alphabet, and a buffer of any size that holds a code and what follows   *)
(* it.                                                                     *)
(*                                                                         *)
(* The parsers go over a text character by character, and are recursive    *)
(* functions.  What holds at each of its places is proved from the first   *)
(* one to the next, by the least place at which it would not hold.         *)
(***************************************************************************)
EXTENDS FtpsReplies, FiniteSetTheorems, SequenceTheorems, TLAPS

\* A digit is read as the number it stands for.
LEMMA DigitsDiffer ==
  /\ digitOf \in [Digits -> 0..9]
  /\ \A c, d \in Digits : digitOf[c] = digitOf[d] => c = d
<1>1. \A ch \in Digits : \E d \in 0..9 : Numerals[d + 1] = ch
  BY DEF Digits, Numerals
<1>2. \A ch \in Digits : digitOf[ch] \in 0..9 /\ Numerals[digitOf[ch] + 1] = ch
  BY <1>1 DEF digitOf
<1>3. digitOf = [ch \in Digits |-> digitOf[ch]]
  BY DEF digitOf
<1>4. QED
  BY <1>2, <1>3

LEMMA LastDigit ==
  ASSUME NEW m \in Nat, NEW n \in Nat, NEW z \in 0..9, NEW w \in 0..9, 10 * m + z = 10 * n + w
  PROVE  m = n /\ z = w
<1>1. ~(m < n) /\ ~(n < m)
  OBVIOUS
<1>2. QED
  BY <1>1

Values  == 0..9
Numbers == 0..999
Number(x, y, z) == 100 * x + 10 * y + z

LEMMA ThreeDigits == \A x, y, z \in Values : Number(x, y, z) \in Numbers
BY DEF Values, Number, Numbers

LEMMA SameDigits ==
  ASSUME NEW x \in Values, NEW y \in Values, NEW z \in Values,
         NEW u \in Values, NEW v \in Values, NEW w \in Values,
         Number(x, y, z) = Number(u, v, w)
  PROVE  x = u /\ y = v /\ z = w
<1>1. /\ 10 * x + y \in Nat /\ 10 * u + v \in Nat /\ x \in Nat /\ u \in Nat
      /\ y \in 0..9 /\ z \in 0..9 /\ v \in 0..9 /\ w \in 0..9
  BY DEF Values
<1>2. 10 * (10 * x + y) + z = 10 * (10 * u + v) + w
  BY <1>1 DEF Number
<1>3. 10 * x + y = 10 * u + v /\ z = w
  BY <1>1, <1>2, LastDigit
<1>4. x = u /\ y = v
  BY <1>1, <1>3, LastDigit
<1>5. QED
  BY <1>3, <1>4

\* A text that has a code has one number, and no other code has it.
LEMMA NumbersOfCodes ==
  ASSUME NEW a, NEW b, \A i \in 1..3 : a[i] \in Digits /\ b[i] \in Digits
  PROVE  /\ NumberOf(a) \in 0..999
         /\ NumberOf(a) = NumberOf(b) => \A i \in 1..3 : a[i] = b[i]
<1>1. \A i \in 1..3 : digitOf[a[i]] \in Values /\ digitOf[b[i]] \in Values
  BY DigitsDiffer DEF Values
<1>2. /\ digitOf[a[1]] \in Values /\ digitOf[a[2]] \in Values /\ digitOf[a[3]] \in Values
      /\ digitOf[b[1]] \in Values /\ digitOf[b[2]] \in Values /\ digitOf[b[3]] \in Values
  BY <1>1
<1>3. /\ NumberOf(a) = Number(digitOf[a[1]], digitOf[a[2]], digitOf[a[3]])
      /\ NumberOf(b) = Number(digitOf[b[1]], digitOf[b[2]], digitOf[b[3]])
  BY DEF NumberOf, Number
<1>4. NumberOf(a) \in Numbers
  BY <1>2, <1>3, ThreeDigits
<1>5. ASSUME NumberOf(a) = NumberOf(b) PROVE \A i \in 1..3 : a[i] = b[i]
  <2>1. PICK x \in Values, y \in Values, z \in Values,
             u \in Values, v \in Values, w \in Values :
          /\ x = digitOf[a[1]] /\ y = digitOf[a[2]] /\ z = digitOf[a[3]]
          /\ u = digitOf[b[1]] /\ v = digitOf[b[2]] /\ w = digitOf[b[3]]
    BY <1>2, Zenon
  <2>2. Number(x, y, z) = Number(u, v, w)
    BY <1>3, <1>5, <2>1
  <2>3. x = u /\ y = v /\ z = w
    BY <2>2, SameDigits
  <2>4. /\ digitOf[a[1]] = digitOf[b[1]]
        /\ digitOf[a[2]] = digitOf[b[2]]
        /\ digitOf[a[3]] = digitOf[b[3]]
    BY <2>1, <2>3
  <2>5. \A i \in 1..3 : digitOf[a[i]] = digitOf[b[i]]
    BY <2>4
  <2>6. QED
    BY <2>5, DigitsDiffer
<1>6. QED
  BY <1>4, <1>5 DEF Numbers

-----------------------------------------------------------------------------
\* What the server has sent of a line that begins with its code.
Sent ==
  /\ part \in {"first", "last"} => \A i \in 1..3 : i <= Len(line) => line[i] = code[i]
  /\ part = "first" /\ Len(line) > 3 => line[4] = "-"
  /\ part = "last" /\ Len(line) > 3 => line[4] # "-"

\* What is in the buffer of a line: as much of it as there is room for.
Kept(text, whole) ==
  /\ Len(text) <= Len(whole) /\ (Len(text) < Len(whole) => Len(text) = BufLen - 1)
  /\ \A i \in 1..Len(text) : text[i] = whole[i]

\* What the reader knows of the reply it is in, unless it has mistaken the
\* rest of a torn one for another.
Read ==
  result = Reading /\ torn # "misread" =>
    /\ part # "none"
    /\ multiCode \in {-1, NumberOf(code)}
    /\ part = "inner" /\ torn = "nothing" => multiCode = NumberOf(code)
    /\ IF torn = "line" THEN multiCode = -1 ELSE Kept(buf, line)

\* What a reader that has returned leaves: if it is a reply, in the buffer.
Left ==
  result # Reading /\ torn # "misread" =>
    /\ result >= 0 =>
         /\ part = "none" /\ result = NumberOf(code) /\ torn # "line"
         /\ CodeFirst(buf) /\ Kept(buf, line)
    /\ part # "none" => torn = "line" \/ (torn = "reply" /\ line = <<>>)

RepliesInv == RepliesTypeOK /\ Sent /\ Read /\ Left


-----------------------------------------------------------------------------
LEMMA CodesAreCodes ==
  ASSUME RepliesTypeOK
  PROVE  (\A i \in 1..3 : code[i] \in Digits) /\ NumberOf(code) \in 0..999
<1>1. \A i \in 1..3 : code[i] \in Digits
  BY RepliesAssumption DEF RepliesTypeOK
<1>2. QED
  BY <1>1, NumbersOfCodes

\* The reader sees the code of a line, and the hyphen behind it.
LEMMA KeptCode ==
  ASSUME NEW text \in Seq(TextChars), NEW whole \in Seq(TextChars), Kept(text, whole)
  PROVE  /\ CodeFirst(text) <=> CodeFirst(whole)
         /\ CodeFirst(text) => (Hyphen(text) <=> Hyphen(whole))
         /\ CodeFirst(text) => \A i \in 1..3 : text[i] = whole[i]
<1>1. Len(text) \in Nat /\ Len(whole) \in Nat /\ BufLen \in Nat /\ BufLen > 4
  BY RepliesAssumption
<1>2. Len(text) >= 3 <=> Len(whole) >= 3
  BY <1>1 DEF Kept
<1>3. Len(text) > 3 <=> Len(whole) > 3
  BY <1>1 DEF Kept
<1>4. Len(text) >= 3 => \A i \in 1..3 : text[i] = whole[i]
  BY <1>1 DEF Kept
<1>5. Len(text) > 3 => text[4] = whole[4]
  BY <1>1 DEF Kept
<1>6. QED
  BY <1>2, <1>3, <1>4, <1>5 DEF CodeFirst, Hyphen

LEMMA SameNumber ==
  ASSUME NEW a, NEW b, \A i \in 1..3 : a[i] = b[i] PROVE NumberOf(a) = NumberOf(b)
BY DEF NumberOf

LEMMA NothingKept ==
  ASSUME NEW text, NEW whole, text = <<>>, whole = <<>> PROVE Kept(text, whole)
BY DEF Kept

LEMMA Nothing ==
  ASSUME NEW text, text = <<>>
  PROVE  text \in Seq(TextChars) /\ Len(text) = 0 /\ Len(text) < BufLen
BY RepliesAssumption

\* Whatever the line is, the reader's state keeps its types.
LEMMA LineTyped ==
  ASSUME RepliesTypeOK, takesLineEnd
  PROVE  /\ buf' \in Seq(TextChars) /\ Len(buf') < BufLen
         /\ multiCode' \in -1..999 /\ result' \in Reading..999
<1>1. CodeFirst(buf) => NumberOf(buf) \in 0..999
  <2> SUFFICES ASSUME CodeFirst(buf) PROVE NumberOf(buf) \in 0..999
    OBVIOUS
  <2>1. \A i \in 1..3 : buf[i] \in Digits
    BY DEF CodeFirst
  <2>2. QED
    BY <2>1, NumbersOfCodes
<1>2. <<>> \in Seq(TextChars) /\ Len(<<>>) < BufLen
  BY Nothing
<1>3. /\ multiCode' = -1 \/ multiCode' = multiCode \/ (CodeFirst(buf) /\ multiCode' = NumberOf(buf))
      /\ result' = result \/ (CodeFirst(buf) /\ result' = NumberOf(buf))
      /\ buf' \in {buf, <<>>}
  BY DEF takesLineEnd
<1>4. buf' \in Seq(TextChars) /\ Len(buf') < BufLen
  <2>1. CASE buf' = buf
    BY <2>1 DEF RepliesTypeOK
  <2>2. CASE buf' = <<>>
    BY <1>2, <2>2
  <2>3. QED
    BY <1>3, <2>1, <2>2
<1>5. 0..999 \subseteq -1..999 /\ 0..999 \subseteq Reading..999 /\ -1 \in -1..999
  BY DEF Reading
<1>6. multiCode' \in -1..999
  <2>1. CASE multiCode' = -1
    BY <1>5, <2>1
  <2>2. CASE multiCode' = multiCode
    BY <2>2 DEF RepliesTypeOK
  <2>3. CASE CodeFirst(buf) /\ multiCode' = NumberOf(buf)
    <3>1. multiCode' \in 0..999
      BY <1>1, <2>3, Zenon
    <3>2. QED
      BY <1>5, <3>1
  <2>4. QED
    BY <1>3, <2>1, <2>2, <2>3
<1>7. result' \in Reading..999
  <2>1. CASE result' = result
    BY <2>1 DEF RepliesTypeOK
  <2>2. CASE CodeFirst(buf) /\ result' = NumberOf(buf)
    <3>1. result' \in 0..999
      BY <1>1, <2>2, Zenon
    <3>2. QED
      BY <1>5, <3>1
  <2>3. QED
    BY <1>3, <2>1, <2>2
<1>8. QED
  BY <1>4, <1>6, <1>7

\* What the reader does at the end of a line, told from what the server sent.
LEMMA LineTaken ==
  ASSUME RepliesInv, result = Reading, torn # "misread", Finished, ~Mistaken, takesLineEnd
  PROVE  IF part = "last" /\ torn # "line"
         THEN result' = NumberOf(code) /\ UNCHANGED buf /\ multiCode' = -1 /\ CodeFirst(buf)
         ELSE /\ result' = Reading /\ buf' = <<>>
              /\ torn = "line" => multiCode' = -1
              /\ multiCode' \in {-1, NumberOf(code)}
              /\ part = "first" /\ torn # "line" => multiCode' = NumberOf(code)
              /\ part = "inner" /\ torn = "nothing" => multiCode' = NumberOf(code)
<1>1. /\ part \in {"first", "inner", "last"}
      /\ multiCode \in {-1, NumberOf(code)}
      /\ part = "inner" /\ torn = "nothing" => multiCode = NumberOf(code)
      /\ IF torn = "line" THEN multiCode = -1 ELSE Kept(buf, line)
  BY DEF RepliesInv, RepliesTypeOK, Read
<1>2. buf \in Seq(TextChars) /\ line \in Seq(TextChars) /\ Len(line) \in Nat
  BY DEF RepliesInv, RepliesTypeOK
<1>3. (\A i \in 1..3 : code[i] \in Digits) /\ NumberOf(code) \in 0..999
  BY CodesAreCodes DEF RepliesInv
<1>4. torn # "line" =>
        /\ CodeFirst(buf) <=> CodeFirst(line)
        /\ CodeFirst(buf) => (Hyphen(buf) <=> Hyphen(line))
        /\ CodeFirst(buf) => \A i \in 1..3 : buf[i] = line[i]
  BY <1>1, <1>2, KeptCode
<1>5. ~CodeFirst(buf) => UNCHANGED <<result, multiCode>> /\ buf' = <<>>
  BY DEF takesLineEnd
<1>6. part \in {"first", "last"} /\ torn # "line" => CodeFirst(buf) /\ NumberOf(buf) = NumberOf(code)
  <2> SUFFICES ASSUME part \in {"first", "last"}, torn # "line"
               PROVE  CodeFirst(buf) /\ NumberOf(buf) = NumberOf(code)
    OBVIOUS
  <2>1. Len(line) >= 3
    <3>1. part = "first" => Len(line) > 3
      BY DEF Finished
    <3>2. part = "last" => Len(line) >= 3
      BY DEF Finished
    <3>3. QED
      BY <1>2, <3>1, <3>2
  <2>2. \A i \in 1..3 : line[i] = code[i]
    BY <1>2, <2>1 DEF RepliesInv, Sent
  <2>3. CodeFirst(line)
    BY <1>3, <2>1, <2>2 DEF CodeFirst
  <2>4. \A i \in 1..3 : buf[i] = code[i]
    BY <1>4, <2>2, <2>3
  <2>5. QED
    BY <1>4, <2>3, <2>4, SameNumber
<1>7. CASE torn = "line"
  <2>1. ~CodeFirst(buf)
    BY <1>7 DEF Mistaken
  <2>2. QED
    BY <1>1, <1>5, <1>7, <2>1
<1>8. CASE part = "first" /\ torn # "line"
  <2>1. Hyphen(buf)
    BY <1>2, <1>4, <1>6, <1>8 DEF Finished, RepliesInv, Sent, Hyphen
  <2>2. QED
    BY <1>6, <1>8, <2>1 DEF takesLineEnd
<1>9. CASE part = "last" /\ torn # "line"
  <2>1. ~Hyphen(buf)
    BY <1>2, <1>4, <1>6, <1>9 DEF RepliesInv, Sent, Hyphen
  <2>2. QED
    BY <1>1, <1>6, <1>9, <2>1 DEF takesLineEnd
<1>10. CASE part = "inner" /\ torn # "line" /\ ~CodeFirst(buf)
  BY <1>1, <1>5, <1>10
<1>11. CASE part = "inner" /\ torn # "line" /\ CodeFirst(buf)
  <2>1. multiCode = NumberOf(code) \/ Hyphen(buf)
    BY <1>1, <1>11 DEF Mistaken
  <2>2. \A i \in 1..3 : buf[i] \in Digits
    BY <1>11 DEF CodeFirst
  <2>3. ~Misleading(line) /\ Len(line) >= 3
    BY <1>4, <1>11 DEF Finished, CodeFirst
  <2>4. SubSeq(line, 1, 3) = code <=> \A i \in 1..3 : line[i] = code[i]
    <3>1. SubSeq(line, 1, 3) = [i \in 1..3 |-> line[i]]
      BY <1>2, <2>3, SubSeqProperties
    <3>2. code = [i \in 1..3 |-> code[i]]
      BY RepliesAssumption DEF RepliesInv, RepliesTypeOK
    <3>3. QED
      BY <3>1, <3>2
  <2>5. Hyphen(buf) <=> NumberOf(buf) = NumberOf(code)
    <3>1. Hyphen(buf) <=> \A i \in 1..3 : buf[i] = code[i]
      BY <1>4, <1>11, <2>3, <2>4 DEF Misleading
    <3>2. QED
      BY <1>3, <2>2, <3>1, NumbersOfCodes, SameNumber
  <2>6. CASE Hyphen(buf)
    BY <1>11, <2>5, <2>6 DEF takesLineEnd
  <2>7. CASE ~Hyphen(buf)
    <3>1. multiCode = NumberOf(code) /\ NumberOf(buf) # NumberOf(code) /\ multiCode # -1
      BY <1>3, <2>1, <2>5, <2>7
    <3>2. QED
      BY <1>11, <2>7, <3>1 DEF takesLineEnd
  <2>8. QED
    BY <2>6, <2>7
<1>12. QED
  BY <1>1, <1>7, <1>8, <1>9, <1>10, <1>11


-----------------------------------------------------------------------------
\* What the server sends keeps a line that begins with its code one.
LEMMA CharacterArrives ==
  ASSUME RepliesInv, characterArrives PROVE RepliesInv'
<1>1. PICK ch \in TextChars :
        /\ Allowed(ch)
        /\ line' = Append(line, ch)
        /\ takes(ch)
  BY DEF characterArrives
<1>2. /\ result = Reading /\ part # "none" /\ torn # "misread"
      /\ UNCHANGED <<part, code, draining, torn, multiCode, result>>
  BY <1>1 DEF characterArrives, takes, tearVars
<1>3. /\ buf \in Seq(TextChars) /\ Len(buf) < BufLen /\ Len(buf) \in Nat
      /\ line \in Seq(TextChars) /\ Len(line) \in Nat
      /\ BufLen \in Nat
  BY RepliesAssumption DEF RepliesInv, RepliesTypeOK
<1>4. /\ line' \in Seq(TextChars) /\ Len(line') = Len(line) + 1
      /\ line'[Len(line) + 1] = ch
      /\ \A i \in 1..Len(line) : line'[i] = line[i]
  BY <1>1, <1>3
<1>5. buf' = IF Len(buf) < BufLen - 1 THEN Append(buf, ch) ELSE buf
  BY <1>1 DEF takes
<1>6. buf' \in Seq(TextChars) /\ Len(buf') < BufLen
  BY <1>3, <1>5
<1>7. RepliesTypeOK'
  BY <1>2, <1>4, <1>6 DEF RepliesInv, RepliesTypeOK
<1>8. Sent'
  <2>1. part \in {"first", "last"} /\ Len(line) < 3 => ch = code[Len(line) + 1]
    <3> SUFFICES ASSUME part \in {"first", "last"}, Len(line) < 3 PROVE ch = code[Len(line) + 1]
      OBVIOUS
    <3>1. Len(line) \in Nat
      BY <1>3
    <3>2. part # "inner" /\ ~(Len(line) >= 3)
      BY <3>1
    <3>3. QED
      BY <1>1, <3>2 DEF Allowed
  <2>2. part = "first" /\ Len(line) = 3 => ch = "-"
    BY <1>1 DEF Allowed
  <2>3. part = "last" /\ Len(line) = 3 => ch # "-"
    BY <1>1 DEF Allowed
  <2>4. part \in {"first", "last"} => \A i \in 1..3 : i <= Len(line) + 1 => line'[i] = code[i]
    <3> SUFFICES ASSUME part \in {"first", "last"}, NEW i \in 1..3, i <= Len(line) + 1
                 PROVE  line'[i] = code[i]
      OBVIOUS
    <3>1. CASE i <= Len(line)
      BY <1>3, <1>4, <3>1 DEF RepliesInv, Sent
    <3>2. CASE i = Len(line) + 1
      BY <1>3, <1>4, <2>1, <3>2
    <3>3. QED
      BY <1>3, <3>1, <3>2
  <2>5. Len(line) > 3 => line'[4] = line[4]
    BY <1>3, <1>4
  <2>6. Len(line) = 3 => line'[4] = ch
    BY <1>3, <1>4
  <2>7. Len(line') > 3 => Len(line) > 3 \/ Len(line) = 3
    <3>1. Len(line) \in Nat /\ Len(line') = Len(line) + 1
      BY <1>3, <1>4
    <3>2. \A n \in Nat : n + 1 > 3 => n > 3 \/ n = 3
      OBVIOUS
    <3>3. QED
      BY <3>1, <3>2
  <2>8. part = "first" /\ Len(line') > 3 => line'[4] = "-"
    BY <2>2, <2>5, <2>6, <2>7 DEF RepliesInv, Sent
  <2>9. part = "last" /\ Len(line') > 3 => line'[4] # "-"
    BY <2>3, <2>5, <2>6, <2>7 DEF RepliesInv, Sent
  <2>10. QED
    BY <1>2, <1>4, <2>4, <2>8, <2>9 DEF Sent
<1>9. Read'
  <2>1. torn # "line" => Kept(buf', line')
    <3> SUFFICES ASSUME torn # "line" PROVE Kept(buf', line')
      OBVIOUS
    <3>1. Kept(buf, line)
      BY <1>2 DEF RepliesInv, Read
    <3>2. CASE Len(buf) < BufLen - 1
      <4>1. Len(buf) = Len(line)
        BY <1>3, <3>1, <3>2 DEF Kept
      <4>2. /\ Len(buf') = Len(buf) + 1 /\ buf'[Len(buf) + 1] = ch
            /\ \A i \in 1..Len(buf) : buf'[i] = buf[i]
        BY <1>1, <1>3, <1>5, <3>2
      <4>3. \A i \in 1..Len(buf) : buf'[i] = line'[i]
        BY <1>3, <1>4, <3>1, <4>1, <4>2 DEF Kept
      <4>4. buf'[Len(buf) + 1] = line'[Len(buf) + 1]
        BY <1>4, <4>1, <4>2
      <4>5. \A i \in 1..Len(buf') : i \in 1..Len(buf) \/ i = Len(buf) + 1
        BY <1>3, <4>2
      <4>6. \A i \in 1..Len(buf') : buf'[i] = line'[i]
        BY <4>3, <4>4, <4>5
      <4>7. QED
        BY <1>3, <1>4, <4>1, <4>2, <4>6 DEF Kept
    <3>3. CASE ~(Len(buf) < BufLen - 1)
      <4>1. buf' = buf /\ Len(buf) = BufLen - 1
        BY <1>3, <1>5, <3>3
      <4>2. \A i \in 1..Len(buf) : buf[i] = line'[i]
        BY <1>3, <1>4, <3>1 DEF Kept
      <4>3. Len(buf) <= Len(line')
        BY <1>3, <1>4, <3>1 DEF Kept
      <4>4. QED
        BY <1>3, <1>4, <4>1, <4>2, <4>3 DEF Kept
    <3>4. QED
      BY <3>2, <3>3
  <2>2. NumberOf(code') = NumberOf(code)
    BY <1>2
  <2>3. QED
    BY <1>2, <2>1, <2>2 DEF RepliesInv, Read
<1>10. Left'
  BY <1>2 DEF Left
<1>11. QED
  BY <1>7, <1>8, <1>9, <1>10 DEF RepliesInv


\* A reader that begins with a reply.
LEMMA AnswersBegin ==
  ASSUME buf' = <<>>, multiCode' = -1, result' = Reading, Answers,
         draining' \in BOOLEAN, torn' \in {"nothing", "line", "reply", "misread"}
  PROVE  RepliesInv'
<1>1. part' \in {"first", "last"} /\ code' \in Codes /\ line' = <<>>
  BY DEF Answers
<1>2. RepliesTypeOK'
  BY <1>1, Nothing DEF RepliesTypeOK, Reading
<1>3. Sent'
  BY <1>1, Nothing DEF Sent
<1>4. Kept(buf', line')
  BY <1>1, NothingKept
<1>5. Read' /\ Left'
  BY <1>1, <1>4 DEF Read, Left
<1>6. QED
  BY <1>2, <1>3, <1>5 DEF RepliesInv

\* A line that is mistaken for what it is not.
LEMMA LineIsMistaken ==
  ASSUME RepliesInv, lineEnds, Mistaken PROVE RepliesInv'
<1>1. takesLineEnd /\ torn' = "misread" /\ UNCHANGED draining
  BY DEF lineEnds, CatchesUp
<1>2. /\ part' \in {"first", "inner", "last", "none"}
      /\ part' # "none" => line' = <<>>
      /\ code' \in Codes /\ line' \in Seq(TextChars)
  BY Nothing DEF lineEnds, Answers, RepliesInv, RepliesTypeOK
<1>3. RepliesTypeOK'
  BY <1>1, <1>2, LineTyped DEF RepliesInv, RepliesTypeOK
<1>4. Sent' /\ Read' /\ Left'
  BY <1>1, <1>2, Nothing DEF Sent, Read, Left
<1>5. QED
  BY <1>3, <1>4 DEF RepliesInv

\* The end of a line brings the reply to its end, or the reader to the next line.
LEMMA LineIsTaken ==
  ASSUME RepliesInv, lineEnds, ~Mistaken PROVE RepliesInv'
<1>1. /\ result = Reading /\ part # "none" /\ torn # "misread" /\ Finished /\ takesLineEnd
      /\ UNCHANGED draining
  BY DEF lineEnds
<1>2. IF part = "last" /\ torn # "line"
      THEN result' = NumberOf(code) /\ UNCHANGED buf /\ multiCode' = -1 /\ CodeFirst(buf)
      ELSE /\ result' = Reading /\ buf' = <<>>
           /\ torn = "line" => multiCode' = -1
           /\ multiCode' \in {-1, NumberOf(code)}
           /\ part = "first" /\ torn # "line" => multiCode' = NumberOf(code)
           /\ part = "inner" /\ torn = "nothing" => multiCode' = NumberOf(code)
  BY <1>1, LineTaken
<1>3. /\ NumberOf(code) \in 0..999 /\ NumberOf(code) # Reading
      /\ buf \in Seq(TextChars) /\ Len(buf) < BufLen
      /\ code \in Codes /\ line \in Seq(TextChars) /\ draining \in BOOLEAN
      /\ torn \in {"nothing", "line", "reply"} /\ part \in {"first", "inner", "last"}
  <2>1. RepliesTypeOK
    BY DEF RepliesInv
  <2>2. NumberOf(code) \in 0..999
    BY <2>1, CodesAreCodes
  <2>3. NumberOf(code) # Reading
    BY <2>2 DEF Reading
  <2>4. QED
    BY <1>1, <2>1, <2>2, <2>3 DEF RepliesTypeOK
<1>4. CASE part = "last" /\ torn # "line"
  <2>1. result' = NumberOf(code) /\ UNCHANGED buf /\ multiCode' = -1 /\ CodeFirst(buf)
    BY <1>2, <1>4
  <2>2. part' = "none" /\ UNCHANGED <<code, line, torn, draining>>
    BY <1>1, <1>3, <1>4, <2>1 DEF lineEnds, CatchesUp
  <2>3. RepliesTypeOK'
    BY <1>1, <1>3, <2>2, LineTyped DEF RepliesInv, RepliesTypeOK
  <2>4. NumberOf(code') = NumberOf(code)
    BY <2>2
  <2>5. Kept(buf', line') /\ CodeFirst(buf')
    <3>1. Kept(buf, line)
      BY <1>1, <1>4 DEF RepliesInv, Read
    <3>2. QED
      BY <2>1, <2>2, <3>1
  <2>6. Sent' /\ Read' /\ Left'
    BY <1>3, <1>4, <2>1, <2>2, <2>4, <2>5 DEF Sent, Read, Left
  <2>7. QED
    BY <2>3, <2>6 DEF RepliesInv
<1>5. CASE part = "last" /\ torn = "line"
  <2>1. result' = Reading /\ buf' = <<>> /\ multiCode' = -1
    BY <1>2, <1>5
  <2>2. Answers /\ torn' = "nothing"
    BY <1>5, <2>1 DEF lineEnds, CatchesUp
  <2>3. QED
    BY <1>1, <1>3, <2>1, <2>2, AnswersBegin
<1>6. CASE part # "last"
  <2>1. result' = Reading /\ buf' = <<>>
    BY <1>2, <1>6
  <2>2. /\ part' \in {"inner", "last"} /\ line' = <<>> /\ UNCHANGED code
        /\ torn' = IF torn = "line" THEN "reply" ELSE torn
    BY <1>6 DEF lineEnds, CatchesUp
  <2>3. NumberOf(code') = NumberOf(code)
    BY <2>2
  <2>4. multiCode' \in {-1, NumberOf(code)} /\ (torn' = "nothing" => multiCode' = NumberOf(code))
    BY <1>2, <1>3, <1>6, <2>2
  <2>5. RepliesTypeOK'
    <3>1. buf' \in Seq(TextChars) /\ Len(buf') < BufLen /\ line' \in Seq(TextChars)
      BY <2>1, <2>2, Nothing
    <3>2. NumberOf(code) \in -1..999 /\ -1 \in -1..999
      BY <1>3
    <3>3. multiCode' \in -1..999
      BY <2>4, <3>2
    <3>4. result' \in Reading..999
      BY <2>1 DEF Reading
    <3>5. QED
      BY <1>1, <1>3, <2>2, <3>1, <3>3, <3>4 DEF RepliesTypeOK
  <2>6. Sent'
    BY <2>2, Nothing DEF Sent
  <2>7. torn' # "line"
    BY <1>3, <2>2
  <2>8. Read'
    BY <2>1, <2>2, <2>3, <2>4, <2>7, NothingKept DEF Read
  <2>9. Left'
    BY <2>1 DEF Left
  <2>10. QED
    BY <2>5, <2>6, <2>8, <2>9 DEF RepliesInv
<1>7. QED
  BY <1>3, <1>4, <1>5, <1>6

LEMMA RepliesStart == RepliesInit => RepliesInv
<1> SUFFICES ASSUME RepliesInit PROVE RepliesInv
  OBVIOUS
<1>1. /\ buf = <<>> /\ multiCode = -1 /\ result = -1 /\ part = "none" /\ code \in Codes
      /\ line = <<>> /\ draining = FALSE /\ torn = "nothing"
  BY DEF RepliesInit
<1>2. RepliesTypeOK
  <2>1. buf \in Seq(TextChars) /\ Len(buf) < BufLen /\ line \in Seq(TextChars)
    BY <1>1, Nothing
  <2>2. multiCode \in -1..999 /\ result \in Reading..999
    BY <1>1 DEF Reading
  <2>3. QED
    BY <1>1, <2>1, <2>2 DEF RepliesTypeOK
<1>3. QED
  BY <1>1, <1>2 DEF RepliesInv, Sent, Read, Left, Reading

LEMMA RepliesStep == RepliesInv /\ [RepliesNext]_repliesVars => RepliesInv'
<1> SUFFICES ASSUME RepliesInv, [RepliesNext]_repliesVars PROVE RepliesInv'
  OBVIOUS
<1>0. RepliesTypeOK
  BY DEF RepliesInv
<1>1. CASE ftpSendCommand
  <2>1. /\ buf' = <<>> /\ multiCode' = -1 /\ result' = Reading /\ result # Reading
        /\ draining' = FALSE /\ torn' = torn /\ torn # "misread"
    BY <1>1 DEF ftpSendCommand, ftpReadResponse
  <2>2. CASE part = "none"
    <3>1. Answers
      BY <1>1, <2>2 DEF ftpSendCommand
    <3>2. QED
      BY <1>0, <2>1, <3>1, AnswersBegin DEF RepliesTypeOK
  <2>3. CASE part # "none"
    <3>1. UNCHANGED <<part, code, line>>
      BY <1>1, <2>3 DEF ftpSendCommand, serverVars
    <3>2. torn = "line" \/ (torn = "reply" /\ line = <<>>)
      BY <2>1, <2>3 DEF RepliesInv, Left
    <3>3. RepliesTypeOK'
      <4>1. buf' \in Seq(TextChars) /\ Len(buf') < BufLen
        BY <2>1, Nothing
      <4>2. multiCode' \in -1..999 /\ result' \in Reading..999
        BY <2>1 DEF Reading
      <4>3. QED
        BY <1>0, <2>1, <3>1, <4>1, <4>2 DEF RepliesTypeOK
    <3>4. Sent'
      BY <3>1 DEF RepliesInv, Sent
    <3>5. torn # "line" => Kept(buf', line')
      BY <2>1, <3>1, <3>2, NothingKept
    <3>6. Read'
      BY <2>1, <2>3, <3>1, <3>2, <3>5 DEF Read
    <3>7. Left'
      BY <2>1 DEF Left
    <3>8. QED
      BY <3>3, <3>4, <3>6, <3>7 DEF RepliesInv
  <2>4. QED
    BY <2>2, <2>3
<1>2. CASE drainFinalTransferReply
  <2>1. /\ buf' = <<>> /\ multiCode' = -1 /\ result' = Reading /\ Answers
        /\ draining' = TRUE /\ torn' = torn
    BY <1>2 DEF drainFinalTransferReply, ftpReadResponse
  <2>2. QED
    BY <1>0, <2>1, AnswersBegin DEF RepliesTypeOK
<1>3. CASE characterArrives
  BY <1>3, CharacterArrives
<1>4. CASE lineEnds
  BY <1>4, LineIsMistaken, LineIsTaken
<1>5. CASE readFails \/ disconnect
  <2>1. /\ result' = -1 /\ buf' = <<>> /\ multiCode' = -1
        /\ part' = "none" /\ line' = <<>> /\ torn' = "nothing"
        /\ UNCHANGED <<code, draining>>
    BY <1>5 DEF readFails, disconnect, ConnectionEnds
  <2>2. RepliesTypeOK'
    BY <1>0, <2>1, Nothing DEF RepliesTypeOK, Reading
  <2>3. QED
    BY <2>1, <2>2 DEF RepliesInv, Sent, Read, Left, Reading
<1>6. CASE drainGivesUp
  <2>1. /\ result' = -1 /\ buf' = <<>> /\ multiCode' = -1
        /\ torn' = IF line = <<>> THEN "reply" ELSE "line"
        /\ UNCHANGED <<part, code, line, draining>>
    BY <1>6 DEF drainGivesUp, serverVars
  <2>2. RepliesTypeOK'
    BY <1>0, <2>1, Nothing DEF RepliesTypeOK, Reading
  <2>3. Sent'
    BY <2>1 DEF RepliesInv, Sent
  <2>4. QED
    BY <2>1, <2>2, <2>3 DEF RepliesInv, Read, Left, Reading
<1>7. CASE UNCHANGED repliesVars
  <2>1. UNCHANGED <<buf, multiCode, result, part, code, line, draining, torn>>
    BY <1>7 DEF repliesVars, readerVars, serverVars, tearVars
  <2>2. (Kept(buf, line) => Kept(buf', line')) /\ (CodeFirst(buf) => CodeFirst(buf'))
    BY <2>1
  <2>3. NumberOf(code') = NumberOf(code)
    BY <2>1
  <2>4. QED
    BY <2>1, <2>2, <2>3 DEF RepliesInv, RepliesTypeOK, Sent, Read, Left
<1>8. QED
  BY <1>1, <1>2, <1>3, <1>4, <1>5, <1>6, <1>7 DEF RepliesNext

LEMMA RepliesInvariant == RepliesSpec => []RepliesInv
BY RepliesStart, RepliesStep, PTL DEF RepliesSpec

-----------------------------------------------------------------------------
\* Induction, the way it can be put here: a set of numbers has a least one.
LEMMA LeastElement ==
  ASSUME NEW T \in SUBSET Nat, T # {}
  PROVE  \E least \in T : \A x \in T : least <= x
<1> DEFINE Less == {pair \in Nat \X Nat : pair[1] < pair[2]}
<1>1. IsWellFoundedOn(Less, Nat)
  BY NatLessThanWellFounded DEF OpToRel
<1> HIDE DEF Less
<1>2. PICK least \in T : \A x \in T : <<x, least>> \notin Less
  BY <1>1, WFMin
<1>3. \A x \in T : ~(x < least)
  BY <1>2 DEF Less
<1>4. QED
  BY <1>3

\* What holds at 0 and goes over from each number to the next holds up to n.
LEMMA Climb ==
  ASSUME NEW n \in Nat, NEW T, 0 \in T, \A i \in 1..n : i - 1 \in T => i \in T
  PROVE  \A i \in 0..n : i \in T
<1>1. SUFFICES ASSUME (0..n) \ T # {} PROVE FALSE
  OBVIOUS
<1>2. PICK least \in (0..n) \ T : \A x \in (0..n) \ T : least <= x
  <2>1. (0..n) \ T \in SUBSET Nat
    OBVIOUS
  <2>2. QED
    BY <1>1, <2>1, LeastElement
<1>3. least \in 1..n /\ least - 1 \in 0..n
  BY <1>2
<1>4. least - 1 \in T
  BY <1>2, <1>3
<1>5. QED
  BY <1>2, <1>3, <1>4

\* f begins with base, and step leads from each of its values to the next.
Steps(f, base, step, n) == f[0] = base /\ \A i \in 1..n : f[i] = step[i][f[i - 1]]

\* There is a function that a recursive definition defines.
LEMMA Recursion ==
  ASSUME NEW n \in Nat, NEW V, NEW base \in V, NEW step \in [1..n -> [V -> V]]
  PROVE  \E f \in [0..n -> V] : Steps(f, base, step, n)
<1> DEFINE Good(m, f) == \A i \in 0..m : f[i] = IF i = 0 THEN base ELSE step[i][f[i - 1]]
<1> DEFINE T == {m \in 0..n : \E f \in [0..n -> V] : Good(m, f)}
<1>1. 0 \in T
  <2>1. [i \in 0..n |-> base] \in [0..n -> V] /\ Good(0, [i \in 0..n |-> base])
    OBVIOUS
  <2> HIDE DEF Good
  <2>2. QED
    BY <2>1
<1>2. ASSUME NEW m \in 1..n, m - 1 \in T PROVE m \in T
  <2>1. PICK f \in [0..n -> V] : Good(m - 1, f)
    BY <1>2
  <2> DEFINE g == [f EXCEPT ![m] = step[m][f[m - 1]]]
  <2>2. step[m][f[m - 1]] \in V /\ m - 1 \in 0..n /\ m \in 0..n
    BY <1>2, <2>1
  <2>3. g \in [0..n -> V]
    BY <2>2
  <2>4. Good(m, g)
    BY <2>1, <2>2
  <2>5. QED
    BY <2>2, <2>3, <2>4
<1>3. n \in T
  <2> HIDE DEF T
  <2>1. \A m \in 1..n : m - 1 \in T => m \in T
    BY <1>2
  <2>2. \A m \in 0..n : m \in T
    BY <1>1, <2>1, Climb
  <2>3. QED
    BY <2>2
<1>4. PICK f \in [0..n -> V] : Good(n, f)
  BY <1>3
<1>5. Steps(f, base, step, n)
  BY <1>4 DEF Steps
<1>6. QED
  BY <1>4, <1>5

\* No character is of two kinds.
LEMMA KindsOfCharacters ==
  /\ Blanks \cap Digits = {}
  /\ Blanks \cap {",", ")"} = {}
  /\ Digits \cap {",", ")"} = {}
BY DEF Blanks, Digits

\* What the scan of the reply to SIZE can come to.
ScanPhases == {"before", "digits", "after", "bad"}
SizeScans == [phase : ScanPhases, value : 0..MaxSize]
SizeBegun == [phase |-> "before", value |-> 0]

LEMMA NotMore ==
  ASSUME NEW number \in Nat, NEW digit \in 0..9, NEW max \in Nat, ~(10 * number + digit > max)
  PROVE  10 * number + digit <= max
OBVIOUS

LEMMA DigitOnBoth ==
  ASSUME NEW less \in Nat, NEW more \in Nat, NEW digit \in 0..9, less <= more
  PROVE  10 * less + digit <= 10 * more + digit
OBVIOUS

\* The parser looks ahead of a digit, and sees the overflow it would cause.
LEMMA SizeOverflow ==
  ASSUME NEW number \in 0..MaxSize, NEW digit \in 0..9
  PROVE  sizeOverflows(number, digit) <=> 10 * number + digit > MaxSize
BY RepliesAssumption DEF sizeOverflows

LEMMA SizeTimesTen ==
  ASSUME NEW number \in 0..MaxSize, NEW digit \in 0..9, 10 * number + digit <= MaxSize
  PROVE  TimesTen(number, digit) = 10 * number + digit
BY RepliesAssumption DEF TimesTen

LEMMA SizeCharacterTyped ==
  ASSUME NEW scan \in SizeScans, NEW ch PROVE sizeCharacter(scan, ch) \in SizeScans
<1>1. ASSUME ch \in Digits, ~sizeOverflows(scan.value, digitOf[ch])
      PROVE  TimesTen(scan.value, digitOf[ch]) \in 0..MaxSize
  <2>1. scan.value \in 0..MaxSize /\ digitOf[ch] \in 0..9
    BY <1>1, DigitsDiffer DEF SizeScans
  <2>2. 10 * scan.value + digitOf[ch] <= MaxSize
    BY <1>1, <2>1, SizeOverflow, RepliesAssumption
  <2>3. QED
    BY <2>1, <2>2, SizeTimesTen
<1>2. QED
  BY <1>1 DEF SizeScans, ScanPhases, sizeCharacter

\* The scan of a text is what its characters make of it, one after the other.
LEMMA SizeScanned ==
  ASSUME NEW text, Len(text) \in Nat
  PROVE  /\ sizeScan(text) \in [0..Len(text) -> SizeScans]
         /\ sizeScan(text)[0] = SizeBegun
         /\ \A i \in 1..Len(text) : sizeScan(text)[i] = sizeCharacter(sizeScan(text)[i - 1], text[i])
<1> DEFINE n == Len(text)
           step == [i \in 1..n |-> [scan \in SizeScans |-> sizeCharacter(scan, text[i])]]
<1>1. SizeBegun \in SizeScans /\ step \in [1..n -> [SizeScans -> SizeScans]]
  BY SizeCharacterTyped, RepliesAssumption DEF SizeScans, SizeBegun, ScanPhases
<1>2. PICK f \in [0..n -> SizeScans] : Steps(f, SizeBegun, step, n)
  <2>1. n \in Nat
    OBVIOUS
  <2> HIDE DEF step, n
  <2>2. QED
    BY <1>1, <2>1, Recursion
<1>3. f = [i \in 0..n |-> IF i = 0 THEN SizeBegun ELSE sizeCharacter(f[i - 1], text[i])]
  <2>1. ASSUME NEW i \in 1..n PROVE f[i] = sizeCharacter(f[i - 1], text[i])
    <3>1. f[i - 1] \in SizeScans
      BY <1>2
    <3>2. step[i][f[i - 1]] = sizeCharacter(f[i - 1], text[i])
      BY <3>1
    <3>3. QED
      BY <1>2, <3>2 DEF Steps
  <2> HIDE DEF step
  <2>2. QED
    BY <1>2, <2>1 DEF Steps
<1>4. sizeScan(text) = [i \in 0..n |-> IF i = 0 THEN SizeBegun ELSE sizeCharacter(sizeScan(text)[i - 1], text[i])]
  <2> HIDE DEF step
  <2>1. \E g : g = [i \in 0..n |-> IF i = 0 THEN SizeBegun ELSE sizeCharacter(g[i - 1], text[i])]
    BY <1>3, Zenon
  <2>2. QED
    BY <2>1, Zenon DEF sizeScan, SizeBegun
<1>5. \A i \in 0..n : sizeScan(text)[i] = IF i = 0 THEN SizeBegun ELSE sizeCharacter(sizeScan(text)[i - 1], text[i])
  BY <1>4, Zenon
<1>6. \A i \in 0..n : i \in {j \in 0..n : sizeScan(text)[j] \in SizeScans}
  <2>1. 0 \in {j \in 0..n : sizeScan(text)[j] \in SizeScans}
    BY <1>1, <1>5
  <2>2. ASSUME NEW i \in 1..n, i - 1 \in {j \in 0..n : sizeScan(text)[j] \in SizeScans}
        PROVE  i \in {j \in 0..n : sizeScan(text)[j] \in SizeScans}
    BY <2>2, <1>5, SizeCharacterTyped
  <2>3. QED
    BY <2>1, <2>2, Climb
<1>7. sizeScan(text) \in [0..n -> SizeScans]
  BY <1>4, <1>6
<1>8. QED
  BY <1>5, <1>7

-----------------------------------------------------------------------------
\* D is a set of places at which text has digits.
Places(text, D) == Len(text) \in Nat /\ D \subseteq 1..Len(text) /\ \A i \in D : text[i] \in Digits

\* The number written up to a place is made of the one before it.
LEMMA WrittenAt ==
  ASSUME NEW text, NEW D, Places(text, D)
  PROVE  /\ writtenUpTo(text, D) \in [0..Len(text) -> Nat]
         /\ writtenUpTo(text, D)[0] = 0
         /\ \A i \in 1..Len(text) :
              writtenUpTo(text, D)[i] =
                IF i \in D THEN 10 * writtenUpTo(text, D)[i - 1] + digitOf[text[i]]
                ELSE writtenUpTo(text, D)[i - 1]
<1> DEFINE n == Len(text)
           After(i, number) == IF i \in D THEN 10 * number + digitOf[text[i]] ELSE number
           step == [i \in 1..n |-> [number \in Nat |-> After(i, number)]]
<1>1. n \in Nat /\ \A i \in 1..n : \A number \in Nat : After(i, number) \in Nat
  BY DigitsDiffer DEF Places
<1>2. step \in [1..n -> [Nat -> Nat]]
  BY <1>1
<1>3. PICK f \in [0..n -> Nat] : Steps(f, 0, step, n)
  <2> HIDE DEF step, n
  <2>1. QED
    BY <1>1, <1>2, Recursion
<1>4. f = [i \in 0..n |-> IF i = 0 THEN 0 ELSE After(i, f[i - 1])]
  <2>1. ASSUME NEW i \in 1..n PROVE f[i] = After(i, f[i - 1])
    <3>1. i - 1 \in 0..n /\ f[i - 1] \in Nat
      <4>1. i - 1 \in 0..n
        BY <1>1
      <4> HIDE DEF n
      <4>2. QED
        BY <1>3, <4>1
    <3> HIDE DEF After
    <3>2. step[i][f[i - 1]] = After(i, f[i - 1])
      BY <3>1
    <3>3. QED
      BY <1>3, <3>2 DEF Steps
  <2> HIDE DEF step, After
  <2>2. QED
    BY <1>3, <2>1 DEF Steps
<1>5. writtenUpTo(text, D) = [i \in 0..n |-> IF i = 0 THEN 0 ELSE After(i, writtenUpTo(text, D)[i - 1])]
  <2> HIDE DEF step
  <2>1. \E g : g = [i \in 0..n |-> IF i = 0 THEN 0 ELSE After(i, g[i - 1])]
    BY <1>4, Zenon
  <2>2. QED
    BY <2>1, Zenon DEF writtenUpTo
<1> HIDE DEF step, After
<1>6. \A i \in 0..n : writtenUpTo(text, D)[i] = IF i = 0 THEN 0 ELSE After(i, writtenUpTo(text, D)[i - 1])
  BY <1>5, Zenon
<1>7. \A i \in 0..n : i \in {j \in 0..n : writtenUpTo(text, D)[j] \in Nat}
  <2>1. 0 \in {j \in 0..n : writtenUpTo(text, D)[j] \in Nat}
    BY <1>1, <1>6
  <2>2. ASSUME NEW i \in 1..n, i - 1 \in {j \in 0..n : writtenUpTo(text, D)[j] \in Nat}
        PROVE  i \in {j \in 0..n : writtenUpTo(text, D)[j] \in Nat}
    <3>1. i \in 0..n /\ i # 0 /\ i - 1 \in Nat
      BY <1>1
    <3>2. writtenUpTo(text, D)[i] = After(i, writtenUpTo(text, D)[i - 1])
      BY <1>6, <3>1
    <3>3. After(i, writtenUpTo(text, D)[i - 1]) \in Nat
      BY <1>1, <2>2
    <3>4. QED
      BY <3>1, <3>2, <3>3
  <2>3. QED
    BY <1>1, <2>1, <2>2, Climb
<1>8. writtenUpTo(text, D) \in [0..n -> Nat]
  BY <1>5, <1>7
<1>9. QED
  BY <1>1, <1>6, <1>8 DEF After

LEMMA WrittenTyped ==
  ASSUME NEW text, NEW D, Places(text, D) PROVE Written(text, D) \in Nat
<1>1. Len(text) \in 0..Len(text)
  BY DEF Places
<1>2. QED
  BY <1>1, WrittenAt DEF Written

LEMMA NothingWritten ==
  ASSUME NEW text, Len(text) \in Nat PROVE Written(text, {}) = 0
<1>1. Places(text, {})
  BY DEF Places
<1> DEFINE T == {i \in 0..Len(text) : writtenUpTo(text, {})[i] = 0}
<1>2. 0 \in T /\ \A i \in 1..Len(text) : i - 1 \in T => i \in T
  BY <1>1, WrittenAt
<1>3. \A i \in 0..Len(text) : i \in T
  <2> HIDE DEF T
  <2>1. QED
    BY <1>2, Climb
<1>4. QED
  BY <1>3 DEF Written

\* A digit behind the others.
LEMMA WrittenMore ==
  ASSUME NEW text, NEW D, Places(text, D),
         NEW m \in 1..Len(text), \A i \in D : i < m, text[m] \in Digits
  PROVE  Written(text, D \cup {m}) = 10 * Written(text, D) + digitOf[text[m]]
<1> DEFINE n == Len(text)
           short == writtenUpTo(text, D)
           E == D \cup {m}
           long  == writtenUpTo(text, E)
           digit == digitOf[text[m]]
           T == {i \in 0..n : long[i] = IF i < m THEN short[i] ELSE 10 * short[i] + digit}
<1>1. Places(text, E) /\ n \in Nat
  BY DEF Places
<1> HIDE DEF E
<1>2. /\ short \in [0..n -> Nat] /\ short[0] = 0
      /\ \A i \in 1..n : short[i] = IF i \in D THEN 10 * short[i - 1] + digitOf[text[i]] ELSE short[i - 1]
  BY WrittenAt
<1>3. /\ long[0] = 0
      /\ \A i \in 1..n : long[i] = IF i \in E THEN 10 * long[i - 1] + digitOf[text[i]] ELSE long[i - 1]
  BY <1>1, WrittenAt
<1> HIDE DEF short, long
<1>4. 0 \in T
  BY <1>1, <1>2, <1>3
<1>5. ASSUME NEW i \in 1..n, i - 1 \in T PROVE i \in T
  <2>1. CASE i < m
    BY <1>2, <1>3, <1>5, <2>1 DEF E
  <2>2. CASE i = m
    BY <1>2, <1>3, <1>5, <2>2 DEF E
  <2>3. CASE i > m
    BY <1>2, <1>3, <1>5, <2>3 DEF E
  <2>4. QED
    BY <2>1, <2>2, <2>3
<1>6. \A i \in 0..n : i \in T
  <2> HIDE DEF T, n
  <2>1. QED
    BY <1>1, <1>4, <1>5, Climb
<1>7. long[n] = 10 * short[n] + digit
  BY <1>1, <1>6
<1>8. QED
  BY <1>7 DEF Written, long, short, E

\* More digits never make a smaller number.
LEMMA WrittenGrows ==
  ASSUME NEW text, NEW D, NEW E, Places(text, E), D \subseteq E
  PROVE  Written(text, D) <= Written(text, E)
<1> DEFINE n == Len(text)
           short == writtenUpTo(text, D)
           long  == writtenUpTo(text, E)
           T == {i \in 0..n : short[i] <= long[i]}
<1>1. Places(text, D) /\ n \in Nat
  BY DEF Places
<1>2. /\ short \in [0..n -> Nat] /\ short[0] = 0
      /\ \A i \in 1..n : short[i] = IF i \in D THEN 10 * short[i - 1] + digitOf[text[i]] ELSE short[i - 1]
  BY <1>1, WrittenAt
<1>3. /\ long \in [0..n -> Nat] /\ long[0] = 0
      /\ \A i \in 1..n : long[i] = IF i \in E THEN 10 * long[i - 1] + digitOf[text[i]] ELSE long[i - 1]
  BY WrittenAt
<1>4. \A i \in E : digitOf[text[i]] \in 0..9
  BY DigitsDiffer DEF Places
<1> HIDE DEF short, long
<1>5. 0 \in T
  BY <1>1, <1>2, <1>3
<1>6. ASSUME NEW i \in 1..n, i - 1 \in T PROVE i \in T
  <2>1. i - 1 \in 0..n /\ short[i - 1] \in Nat /\ long[i - 1] \in Nat /\ short[i - 1] <= long[i - 1]
    BY <1>1, <1>2, <1>3, <1>6
  <2>2. CASE i \in D
    <3>1. digitOf[text[i]] \in 0..9
      BY <1>4, <2>2
    <3>2. short[i] = 10 * short[i - 1] + digitOf[text[i]]
      BY <1>2, <2>2
    <3>3. long[i] = 10 * long[i - 1] + digitOf[text[i]]
      BY <1>3, <2>2
    <3>4. short[i] <= long[i]
      BY <2>1, <3>1, <3>2, <3>3, DigitOnBoth
    <3>5. QED
      BY <1>1, <3>4
  <2>3. CASE i \in E \ D
    <3>1. digitOf[text[i]] \in 0..9
      BY <1>4, <2>3
    <3>2. QED
      BY <1>2, <1>3, <2>1, <2>3, <3>1
  <2>4. CASE i \notin E
    BY <1>2, <1>3, <2>1, <2>4
  <2>5. QED
    BY <2>2, <2>3, <2>4
<1>7. \A i \in 0..n : i \in T
  <2> HIDE DEF T, n
  <2>1. QED
    BY <1>1, <1>5, <1>6, Climb
<1>8. QED
  BY <1>1, <1>7 DEF Written, long, short

-----------------------------------------------------------------------------
\* What the reply to SIZE says up to the place m.
SizeDigits(text, m) == DigitsIn(text, 4, m)
BlankBesides(text, m) == \A i \in (4..m) \ SizeDigits(text, m) : text[i] \in Blanks
Unbroken(D) == \A i, k \in D : i..k \subseteq D

\* No size is written in a text that goes on like this.
Hopeless(text, m) ==
  \/ ~BlankBesides(text, m)
  \/ ~Unbroken(SizeDigits(text, m))
  \/ Written(text, SizeDigits(text, m)) > MaxSize

\* What the scan knows of a reply up to the place m.
Seen(scan, text, m) ==
  CASE scan.phase = "before" -> SizeDigits(text, m) = {} /\ BlankBesides(text, m) /\ scan.value = 0
    [] scan.phase = "digits" ->
         /\ m \in SizeDigits(text, m) /\ BlankBesides(text, m) /\ Unbroken(SizeDigits(text, m))
         /\ scan.value = Written(text, SizeDigits(text, m))
    [] scan.phase = "after" ->
         /\ SizeDigits(text, m) # {} /\ m \notin SizeDigits(text, m)
         /\ BlankBesides(text, m) /\ Unbroken(SizeDigits(text, m))
         /\ scan.value = Written(text, SizeDigits(text, m))
    [] scan.phase = "bad" -> Hopeless(text, m)

LEMMA SizePlaces ==
  ASSUME NEW text, Len(text) \in Nat, NEW m \in 3..Len(text)
  PROVE  /\ Places(text, SizeDigits(text, m))
         /\ SizeDigits(text, m) \subseteq 4..m
BY DEF Places, SizeDigits, DigitsIn

\* One place more.
LEMMA SizeGoesOn ==
  ASSUME NEW text, Len(text) \in Nat, NEW m \in 4..Len(text)
  PROVE  SizeDigits(text, m) = SizeDigits(text, m - 1) \cup {i \in {m} : text[m] \in Digits}
BY DEF SizeDigits, DigitsIn

\* No character behind it mends a reply.
LEMMA StaysHopeless ==
  ASSUME NEW text, Len(text) \in Nat, NEW m \in 4..Len(text), Hopeless(text, m - 1)
  PROVE  Hopeless(text, m)
<1> DEFINE D == SizeDigits(text, m - 1)
           E == SizeDigits(text, m)
<1>1. /\ D \subseteq 4..(m - 1) /\ E \subseteq 4..m /\ Places(text, E) /\ Places(text, D)
      /\ E = D \cup {i \in {m} : text[m] \in Digits}
  BY SizePlaces, SizeGoesOn
<1>2. CASE ~BlankBesides(text, m - 1)
  <2>1. PICK i \in (4..(m - 1)) \ D : text[i] \notin Blanks
    BY <1>2 DEF BlankBesides
  <2>2. i \in (4..m) \ E
    BY <1>1, <2>1
  <2>3. QED
    BY <2>1, <2>2 DEF Hopeless, BlankBesides
<1>3. CASE ~Unbroken(D)
  <2>1. PICK i \in D, k \in D : ~(i..k \subseteq D)
    BY <1>3 DEF Unbroken
  <2>2. PICK q \in i..k : q \notin D
    BY <2>1
  <2>3. i \in E /\ k \in E /\ q \notin E
    BY <1>1, <2>1, <2>2
  <2>4. QED
    BY <2>2, <2>3 DEF Hopeless, Unbroken
<1>4. CASE Written(text, D) > MaxSize
  <2>1. Written(text, D) <= Written(text, E)
    BY <1>1, WrittenGrows
  <2>2. Written(text, D) \in Nat /\ Written(text, E) \in Nat
    BY <1>1, WrittenTyped
  <2>3. Written(text, E) > MaxSize
    BY <1>4, <2>1, <2>2, RepliesAssumption
  <2>4. QED
    BY <2>3 DEF Hopeless
<1>5. QED
  BY <1>2, <1>3, <1>4 DEF Hopeless

\* Each character keeps the scan in step with what the reply says.
LEMMA SizeCharacterSeen ==
  ASSUME NEW text, Len(text) \in Nat, NEW m \in 4..Len(text),
         NEW scan \in SizeScans, Seen(scan, text, m - 1)
  PROVE  Seen(sizeCharacter(scan, text[m]), text, m)
<1> DEFINE D == SizeDigits(text, m - 1)
           E == SizeDigits(text, m)
           next == sizeCharacter(scan, text[m])
<1>1. /\ D \subseteq 4..(m - 1) /\ Places(text, E) /\ Places(text, D)
      /\ E = D \cup {i \in {m} : text[m] \in Digits}
  BY SizePlaces, SizeGoesOn
<1>2. text[m] \in Blanks => text[m] \notin Digits
  BY KindsOfCharacters
<1>3. CASE scan.phase = "bad"
  <2>1. next.phase = "bad"
    BY <1>3 DEF sizeCharacter, SizeScans
  <2>2. QED
    BY <1>3, <2>1, StaysHopeless DEF Seen
<1>4. CASE scan.phase # "bad" /\ text[m] \in Blanks
  <2>1. E = D /\ m \notin D
    BY <1>1, <1>2, <1>4
  <2>2. next = [scan EXCEPT !.phase = IF @ = "digits" THEN "after" ELSE @]
    BY <1>2, <1>4 DEF sizeCharacter
  <2>3. BlankBesides(text, m - 1) => BlankBesides(text, m)
    BY <1>4, <2>1 DEF BlankBesides
  <2>4. /\ next.value = scan.value
        /\ scan.phase = "digits" => next.phase = "after"
        /\ scan.phase # "digits" => next.phase = scan.phase
    BY <2>2 DEF SizeScans
  <2>5. QED
    BY <1>4, <2>1, <2>3, <2>4 DEF Seen, SizeScans, ScanPhases
<1>5. CASE scan.phase # "bad" /\ text[m] \notin Blanks \cup Digits
  <2>1. next.phase = "bad"
    BY <1>5 DEF sizeCharacter, SizeScans
  <2>2. m \in (4..m) \ E /\ text[m] \notin Blanks
    BY <1>1, <1>5
  <2>3. Hopeless(text, m)
    BY <2>2 DEF Hopeless, BlankBesides
  <2>4. QED
    BY <2>1, <2>3 DEF Seen
<1>6. CASE scan.phase = "after" /\ text[m] \in Digits
  <2>1. next.phase = "bad"
    BY <1>2, <1>6 DEF sizeCharacter, SizeScans
  <2>2. PICK i \in D : TRUE
    BY <1>6 DEF Seen
  <2>3. i \in E /\ m \in E /\ m - 1 \in i..m /\ m - 1 \notin E
    BY <1>1, <1>6, <2>2 DEF Seen
  <2>4. Hopeless(text, m)
    BY <2>3 DEF Hopeless, Unbroken
  <2>5. QED
    BY <2>1, <2>4 DEF Seen
<1>7. CASE scan.phase \in {"before", "digits"} /\ text[m] \in Digits
  <2>1. /\ E = D \cup {m} /\ \A i \in D : i < m
        /\ text[m] \notin Blanks
    BY <1>1, <1>2, <1>7
  <2>2. BlankBesides(text, m - 1)
    BY <1>7 DEF Seen
  <2>3. scan.value = Written(text, D)
    BY <1>7, NothingWritten DEF Seen
  <2>4. Written(text, E) = 10 * scan.value + digitOf[text[m]]
    BY <1>1, <1>7, <2>1, <2>3, WrittenMore
  <2>5. scan.value \in 0..MaxSize /\ digitOf[text[m]] \in 0..9
    BY <1>7, DigitsDiffer DEF SizeScans
  <2>6. CASE sizeOverflows(scan.value, digitOf[text[m]])
    <3>1. next.phase = "bad"
      BY <1>7, <2>1, <2>6 DEF sizeCharacter, SizeScans
    <3>2. Written(text, E) > MaxSize
      BY <2>4, <2>5, <2>6, SizeOverflow
    <3>3. QED
      BY <3>1, <3>2 DEF Seen, Hopeless
  <2>7. CASE ~sizeOverflows(scan.value, digitOf[text[m]])
    <3>1. 10 * scan.value + digitOf[text[m]] <= MaxSize
      <4>1. ~(10 * scan.value + digitOf[text[m]] > MaxSize)
        BY <2>5, <2>7, SizeOverflow
      <4>2. scan.value \in Nat /\ MaxSize \in Nat
        BY <2>5, RepliesAssumption
      <4>3. QED
        BY <2>5, <4>1, <4>2, NotMore
    <3>2. next.phase = "digits" /\ next.value = Written(text, E)
      BY <1>7, <2>1, <2>4, <2>5, <2>7, <3>1, SizeTimesTen DEF sizeCharacter, SizeScans
    <3>3. BlankBesides(text, m)
      BY <2>1, <2>2 DEF BlankBesides
    <3>4. Unbroken(E)
      <4>1. D = {} \/ (m - 1 \in D /\ Unbroken(D))
        BY <1>7 DEF Seen
      <4>2. ASSUME NEW i \in E, NEW k \in E, NEW q \in i..k PROVE q \in E
        <5>1. CASE k = m
          <6>1. q = m \/ (m - 1 \in D /\ i \in D /\ q \in i..(m - 1))
            BY <1>1, <2>1, <4>1, <4>2, <5>1
          <6>2. QED
            BY <2>1, <4>1, <6>1 DEF Unbroken
        <5>2. CASE k # m
          <6>1. k \in D /\ i \in D
            BY <1>1, <2>1, <4>2, <5>2
          <6>2. QED
            BY <2>1, <4>1, <4>2, <6>1 DEF Unbroken
        <5>3. QED
          BY <5>1, <5>2
      <4>3. QED
        BY <4>2 DEF Unbroken
    <3>5. QED
      BY <2>1, <3>2, <3>3, <3>4 DEF Seen
  <2>8. QED
    BY <2>6, <2>7
<1>8. QED
  BY <1>3, <1>4, <1>5, <1>6, <1>7 DEF SizeScans, ScanPhases

\* parseSizeReplyBytes finds what is written behind the code.
LEMMA SizeParsed ==
  ASSUME NEW S, NEW text \in Seq(S), CodeFirst(text)
  PROVE  parseSizeReplyBytes(text) = SaysSize(text)
<1> DEFINE n == Len(text)
           body == SubSeq(text, 4, n)
           scan == sizeScan(body)
           D == SizeDigits(text, n)
           T == {i \in 0..(n - 3) : Seen(scan[i], text, i + 3)}
<1>1. n \in Nat /\ n >= 3 /\ Len(body) = n - 3 /\ \A i \in 1..(n - 3) : body[i] = text[i + 3]
  <2>1. n \in Nat /\ n >= 3
    BY DEF CodeFirst
  <2>2. n \in Int /\ 4 \in Int /\ \A i \in 4..n : text[i] \in S
    BY <2>1
  <2>3. /\ Len(body) = IF 4 <= n THEN n - 4 + 1 ELSE 0
        /\ \A i \in 1..(n - 4 + 1) : body[i] = text[4 + i - 1]
    BY <2>2, SubSeqProperties
  <2>4. n - 4 + 1 = n - 3 /\ \A i \in 1..(n - 3) : 4 + i - 1 = i + 3
    BY <2>1
  <2>5. QED
    BY <2>1, <2>3, <2>4
<1>2. /\ scan \in [0..(n - 3) -> SizeScans] /\ scan[0] = SizeBegun
      /\ \A i \in 1..(n - 3) : scan[i] = sizeCharacter(scan[i - 1], text[i + 3])
  <2> HIDE DEF body
  <2>1. QED
    BY <1>1, SizeScanned
<1> HIDE DEF scan, body
<1>3. 0 \in T
  <2>1. SizeDigits(text, 3) = {} /\ BlankBesides(text, 3)
    BY DEF SizeDigits, DigitsIn, BlankBesides
  <2>2. QED
    BY <1>1, <1>2, <2>1 DEF Seen, SizeBegun
<1>4. ASSUME NEW i \in 1..(n - 3), i - 1 \in T PROVE i \in T
  <2>1. /\ i + 3 \in 4..n /\ i - 1 \in 0..(n - 3) /\ (i - 1) + 3 = (i + 3) - 1
        /\ scan[i - 1] \in SizeScans
    <3>1. i + 3 \in 4..n /\ i - 1 \in 0..(n - 3) /\ (i - 1) + 3 = (i + 3) - 1
      BY <1>1
    <3>2. QED
      BY <1>2, <3>1
  <2>2. Seen(scan[i - 1], text, (i + 3) - 1)
    BY <1>4, <2>1
  <2>3. Seen(sizeCharacter(scan[i - 1], text[i + 3]), text, i + 3)
    BY <1>1, <2>1, <2>2, SizeCharacterSeen
  <2>4. QED
    BY <1>1, <1>2, <2>3
<1>5. Seen(scan[n - 3], text, n)
  <2>1. n - 3 \in Nat
    BY <1>1
  <2>2. \A i \in 0..(n - 3) : i \in T
    <3> HIDE DEF T
    <3>1. QED
      BY <1>3, <1>4, <2>1, Climb
  <2>3. QED
    BY <1>1, <2>1, <2>2
<1> DEFINE last == scan[n - 3]
<1>6. last \in SizeScans
  BY <1>1, <1>2
<1>7. parseSizeReplyBytes(text) =
        IF last.phase \in {"digits", "after"} THEN Success(last.value) ELSE Failure
  BY <1>1 DEF parseSizeReplyBytes, scan, body
<1>8. SaysSize(text) =
        IF D # {} /\ Unbroken(D) /\ BlankBesides(text, n) /\ Written(text, D) <= MaxSize
        THEN Success(Written(text, D)) ELSE Failure
  BY DEF SaysSize, SizeDigits, Unbroken, BlankBesides
<1> HIDE DEF last, D, n
<1>9. CASE last.phase \in {"digits", "after"}
  <2>1. last.value <= MaxSize
    BY <1>6 DEF SizeScans
  <2>2. QED
    BY <1>5, <1>7, <1>8, <1>9, <2>1 DEF Seen, D, last, n
<1>10. CASE last.phase \notin {"digits", "after"}
  <2>1. last.phase \in {"before", "bad"}
    BY <1>6, <1>10 DEF SizeScans, ScanPhases
  <2>2. Written(text, D) \in Nat
    BY <1>1, SizePlaces, WrittenTyped DEF D, n
  <2>3. ~(D # {} /\ Unbroken(D) /\ BlankBesides(text, n) /\ Written(text, D) <= MaxSize)
    <3>1. CASE last.phase = "before"
      BY <1>5, <3>1 DEF Seen, D, last
    <3>2. CASE last.phase = "bad"
      <4>1. Hopeless(text, n)
        BY <1>5, <3>2 DEF Seen, last
      <4>2. QED
        BY <2>2, <4>1, RepliesAssumption DEF Hopeless, D
    <3>3. QED
      BY <2>1, <3>1, <3>2
  <2>4. QED
    BY <1>7, <1>8, <1>10, <2>3
<1>11. QED
  BY <1>9, <1>10

-----------------------------------------------------------------------------
\* What the scan of the reply to PASV can come to.
PasvPhases == {"open", "done", "bad"}
PasvScans  == [parts : Seq(0..MaxByte), value : 0..MaxByte, digits : BOOLEAN, phase : PasvPhases]
PasvBegun  == [parts |-> <<>>, value |-> 0, digits |-> FALSE, phase |-> "open"]

\* The parser looks ahead of a digit that would make more than a byte.
LEMMA ByteOverflow ==
  ASSUME NEW number \in 0..MaxByte, NEW digit \in 0..9
  PROVE  byteOverflows(number, digit) <=> 10 * number + digit > MaxByte
BY RepliesAssumption DEF byteOverflows

LEMMA PasvCharacterTyped ==
  ASSUME NEW scan \in PasvScans, NEW ch PROVE pasvCharacter(scan, ch) \in PasvScans
<1>1. ASSUME ch \in Digits, ~byteOverflows(scan.value, digitOf[ch])
      PROVE  10 * scan.value + digitOf[ch] \in 0..MaxByte
  <2>1. scan.value \in 0..MaxByte /\ digitOf[ch] \in 0..9
    BY <1>1, DigitsDiffer DEF PasvScans
  <2>2. ~(10 * scan.value + digitOf[ch] > MaxByte)
    BY <1>1, <2>1, ByteOverflow
  <2>3. scan.value \in Nat /\ MaxByte \in Nat
    BY <2>1, RepliesAssumption
  <2>4. 10 * scan.value + digitOf[ch] <= MaxByte
    BY <2>1, <2>2, <2>3, NotMore
  <2>5. 10 * scan.value + digitOf[ch] \in Nat
    BY <2>1, <2>3
  <2>6. QED
    BY <2>3, <2>4, <2>5
<1>2. scan.parts \in Seq(0..MaxByte) /\ scan.value \in 0..MaxByte
      /\ Append(scan.parts, scan.value) \in Seq(0..MaxByte) /\ 0 \in 0..MaxByte
  BY RepliesAssumption DEF PasvScans
<1>3. QED
  BY <1>1, <1>2 DEF PasvScans, PasvPhases, pasvCharacter

\* The scan of a text is what its characters make of it, one after the other.
LEMMA PasvScanned ==
  ASSUME NEW text, Len(text) \in Nat
  PROVE  /\ pasvScan(text) \in [0..Len(text) -> PasvScans]
         /\ pasvScan(text)[0] = PasvBegun
         /\ \A i \in 1..Len(text) : pasvScan(text)[i] = pasvCharacter(pasvScan(text)[i - 1], text[i])
<1> DEFINE n == Len(text)
           step == [i \in 1..n |-> [scan \in PasvScans |-> pasvCharacter(scan, text[i])]]
<1>1. PasvBegun \in PasvScans
  BY RepliesAssumption DEF PasvScans, PasvBegun, PasvPhases
<1>2. step \in [1..n -> [PasvScans -> PasvScans]]
  BY PasvCharacterTyped
<1>3. PICK f \in [0..n -> PasvScans] : Steps(f, PasvBegun, step, n)
  <2>1. n \in Nat
    OBVIOUS
  <2> HIDE DEF step, n
  <2>2. QED
    BY <1>1, <1>2, <2>1, Recursion
<1>4. f = [i \in 0..n |-> IF i = 0 THEN PasvBegun ELSE pasvCharacter(f[i - 1], text[i])]
  <2>1. ASSUME NEW i \in 1..n PROVE f[i] = pasvCharacter(f[i - 1], text[i])
    <3>1. f[i - 1] \in PasvScans
      BY <1>3
    <3>2. step[i][f[i - 1]] = pasvCharacter(f[i - 1], text[i])
      BY <3>1
    <3>3. QED
      BY <1>3, <3>2 DEF Steps
  <2> HIDE DEF step
  <2>2. QED
    BY <1>3, <2>1 DEF Steps
<1>5. pasvScan(text) = [i \in 0..n |-> IF i = 0 THEN PasvBegun ELSE pasvCharacter(pasvScan(text)[i - 1], text[i])]
  <2> HIDE DEF step
  <2>1. \E g : g = [i \in 0..n |-> IF i = 0 THEN PasvBegun ELSE pasvCharacter(g[i - 1], text[i])]
    BY <1>4, Zenon
  <2>2. QED
    BY <2>1, Zenon DEF pasvScan, PasvBegun
<1>6. \A i \in 0..n : pasvScan(text)[i] = IF i = 0 THEN PasvBegun ELSE pasvCharacter(pasvScan(text)[i - 1], text[i])
  BY <1>5, Zenon
<1>7. \A i \in 0..n : i \in {j \in 0..n : pasvScan(text)[j] \in PasvScans}
  <2>1. 0 \in {j \in 0..n : pasvScan(text)[j] \in PasvScans}
    BY <1>1, <1>6
  <2>2. ASSUME NEW i \in 1..n, i - 1 \in {j \in 0..n : pasvScan(text)[j] \in PasvScans}
        PROVE  i \in {j \in 0..n : pasvScan(text)[j] \in PasvScans}
    BY <2>2, <1>6, PasvCharacterTyped
  <2>3. QED
    BY <2>1, <2>2, Climb
<1>8. pasvScan(text) \in [0..n -> PasvScans]
  BY <1>5, <1>7
<1>9. QED
  BY <1>6, <1>8

-----------------------------------------------------------------------------
\* A reply with an opening parenthesis.
Opened(text) == Len(text) \in Nat /\ Openings(text) # {}

LEMMA OpeningIsFirst ==
  ASSUME NEW text, Opened(text)
  PROVE  Opening(text) \in Openings(text) /\ \A i \in Openings(text) : Opening(text) <= i
<1>1. Openings(text) \in SUBSET Nat /\ Openings(text) # {}
  BY DEF Openings, Opened
<1>2. \E least \in Openings(text) : \A i \in Openings(text) : least <= i
  BY <1>1, LeastElement
<1>3. QED
  BY <1>2 DEF Opening, Min

\* The fields that have ended up to the place m.
Count(text, m) == Cardinality(EndsUpTo(text, m))

LEMMA EndsTyped ==
  ASSUME NEW text, Opened(text)
  PROVE  /\ Opening(text) \in 1..Len(text)
         /\ IsFiniteSet(Ends(text))
         /\ \A i \in Ends(text) : i \in 1..Len(text) /\ i > Opening(text)
<1>1. Opening(text) \in 1..Len(text)
  BY OpeningIsFirst DEF Openings
<1>2. \A i \in Ends(text) : i \in 1..Len(text) /\ i > Opening(text)
  <2>1. ASSUME NEW i \in Ends(text) PROVE i \in (Opening(text) + 1)..Len(text)
    BY DEF Ends
  <2>2. Opening(text) \in Nat /\ Len(text) \in Nat /\ Opening(text) >= 1
    BY <1>1 DEF Opened
  <2> HIDE DEF Opened
  <2>3. \A i \in (Opening(text) + 1)..Len(text) : i \in 1..Len(text) /\ i > Opening(text)
    BY <2>2
  <2>4. QED
    BY <2>1, <2>3
<1>3. IsFiniteSet(1..Len(text)) /\ Ends(text) \in SUBSET (1..Len(text))
  BY <1>2, FS_Interval DEF Opened
<1>4. QED
  BY <1>1, <1>2, <1>3, FS_Subset

LEMMA Counted ==
  ASSUME NEW text, Opened(text), NEW m \in Int
  PROVE  IsFiniteSet(EndsUpTo(text, m)) /\ Count(text, m) \in Nat
<1>1. EndsUpTo(text, m) \in SUBSET Ends(text)
  BY DEF EndsUpTo
<1>2. QED
  BY <1>1, EndsTyped, FS_Subset, FS_CardinalityType DEF Count

LEMMA CountStarts ==
  ASSUME NEW text, Opened(text)
  PROVE  Count(text, Opening(text)) = 0
<1>1. EndsUpTo(text, Opening(text)) = {}
  BY EndsTyped DEF EndsUpTo
<1>2. QED
  BY <1>1, FS_EmptySet DEF Count

LEMMA CountGrows ==
  ASSUME NEW text, Opened(text), NEW m \in Int, NEW p \in Int, m <= p
  PROVE  Count(text, m) <= Count(text, p)
<1>1. EndsUpTo(text, m) \in SUBSET EndsUpTo(text, p)
  BY EndsTyped DEF EndsUpTo
<1>2. QED
  BY <1>1, Counted, FS_Subset DEF Count

LEMMA CountStep ==
  ASSUME NEW text, Opened(text), NEW p \in Int
  PROVE  Count(text, p) = Count(text, p - 1) + IF p \in Ends(text) THEN 1 ELSE 0
<1>1. \A i \in Ends(text) : i \in Int
  BY EndsTyped
<1>2. CASE p \in Ends(text)
  <2>1. EndsUpTo(text, p) = EndsUpTo(text, p - 1) \cup {p} /\ p \notin EndsUpTo(text, p - 1)
    <3>1. \A i \in Ends(text) : i <= p <=> i <= p - 1 \/ i = p
      BY <1>1
    <3>2. ~(p <= p - 1) /\ p <= p
      OBVIOUS
    <3>3. QED
      BY <1>2, <3>1, <3>2 DEF EndsUpTo
  <2>2. IsFiniteSet(EndsUpTo(text, p - 1))
    BY Counted
  <2>3. QED
    BY <1>2, <2>1, <2>2, FS_AddElement DEF Count
<1>3. CASE p \notin Ends(text)
  <2>1. EndsUpTo(text, p) = EndsUpTo(text, p - 1)
    BY <1>1, <1>3 DEF EndsUpTo
  <2>2. Count(text, p - 1) \in Nat
    BY Counted
  <2>3. QED
    BY <1>3, <2>1, <2>2 DEF Count
<1>4. QED
  BY <1>2, <1>3

\* The end of a field is known by how many there are up to it.
LEMMA EndOfField ==
  ASSUME NEW text, Opened(text), NEW p \in Ends(text)
  PROVE  Count(text, p) # 0 /\ End(text, Count(text, p)) = p
<1>1. \A i \in Ends(text) : i \in Int /\ Count(text, i) \in Nat
  BY EndsTyped, Counted
<1>2. \A i, k \in Ends(text) : i < k => Count(text, i) < Count(text, k)
  <2>1. ASSUME NEW i \in Ends(text), NEW k \in Ends(text), i < k
        PROVE  Count(text, i) < Count(text, k)
    <3>1. i \in Int /\ k \in Int /\ k - 1 \in Int /\ i <= k - 1
      BY <1>1, <2>1
    <3>2. Count(text, i) <= Count(text, k - 1)
      BY <3>1, CountGrows
    <3>3. Count(text, k) = Count(text, k - 1) + 1
      BY <3>1, CountStep
    <3>4. Count(text, i) \in Nat /\ Count(text, k - 1) \in Nat
      BY <3>1, Counted
    <3>5. QED
      BY <3>2, <3>3, <3>4
  <2>2. QED
    BY <2>1
<1>3. Count(text, p) # 0
  <2>1. p - 1 \in Int /\ p \in Int
    BY <1>1
  <2>2. QED
    BY <2>1, CountStep, Counted
<1>4. \A i \in Ends(text) : Count(text, i) = Count(text, p) => i = p
  BY <1>1, <1>2
<1>5. QED
  BY <1>3, <1>4 DEF End, Count

\* As long as there are fields, each of them has its end.
LEMMA FieldEnds ==
  ASSUME NEW text, Opened(text), NEW k \in Nat, k <= Cardinality(Ends(text)), k # 0
  PROVE  End(text, k) \in Ends(text) /\ Count(text, End(text, k)) = k
<1> DEFINE n == Len(text)
           T == {m \in 0..n : \A j \in 1..Count(text, m) : \E i \in Ends(text) : Count(text, i) = j}
<1>1. n \in Nat
  BY DEF Opened
<1>2. 0 \in T
  <2>1. EndsUpTo(text, 0) = {}
    BY EndsTyped DEF EndsUpTo
  <2>2. Count(text, 0) = 0
    BY <2>1, FS_EmptySet DEF Count
  <2>3. QED
    BY <1>1, <2>2
<1>3. ASSUME NEW m \in 1..n, m - 1 \in T PROVE m \in T
  <2>1. /\ Count(text, m) = Count(text, m - 1) + IF m \in Ends(text) THEN 1 ELSE 0
        /\ Count(text, m) \in Nat /\ Count(text, m - 1) \in Nat
    BY CountStep, Counted
  <2>2. ASSUME NEW j \in 1..Count(text, m) PROVE \E i \in Ends(text) : Count(text, i) = j
    <3>1. CASE j \in 1..Count(text, m - 1)
      BY <1>3, <3>1
    <3>2. CASE j \notin 1..Count(text, m - 1)
      <4>1. m \in Ends(text) /\ j = Count(text, m)
        BY <2>1, <2>2, <3>2
      <4>2. QED
        BY <4>1
    <3>3. QED
      BY <3>1, <3>2
  <2>3. m \in 0..n
    BY <1>1
  <2>4. QED
    BY <2>2, <2>3
<1>4. n \in T
  <2>1. \A m \in 0..n : m \in T
    <3> HIDE DEF T, n
    <3>1. QED
      BY <1>1, <1>2, <1>3, Climb
  <2>2. QED
    BY <1>1, <2>1
<1>5. Ends(text) = EndsUpTo(text, n)
  BY EndsTyped DEF EndsUpTo
<1>6. k \in 1..Count(text, n)
  <2>1. Count(text, n) \in Nat /\ k <= Count(text, n)
    BY <1>1, <1>5, Counted DEF Count
  <2>2. QED
    BY <2>1
<1>7. \E i \in Ends(text) : Count(text, i) = k
  BY <1>4, <1>6
<1>8. QED
  BY <1>7 DEF End, Count

\* The digits of the field that p is in, up to p.
Begun(text, p) == DigitsIn(text, End(text, Count(text, p)) + 1, p)

\* The kth field is a byte, and the parser knows it.
Known(scan, text, k) ==
  Field(text, k) # {} /\ Byte(text, k) <= MaxByte /\ scan.parts[k] = Byte(text, k)

SeenOpen(scan, text, p) ==
  /\ Len(scan.parts) = Count(text, p) /\ Count(text, p) < Parts
  /\ End(text, Count(text, p)) \in Opening(text)..p
  /\ \A k \in 1..Count(text, p) : text[End(text, k)] = "," /\ Known(scan, text, k)
  /\ \A i \in (Opening(text) + 1)..p : i \in Ends(text) \/ text[i] \in Digits \cup Blanks
  /\ scan.digits <=> Begun(text, p) # {}
  /\ scan.value = Written(text, Begun(text, p))

\* What the parser of PASV knows of a reply up to the place p.
SeenPort(scan, text, p) ==
  CASE scan.phase = "open" -> SeenOpen(scan, text, p)
    [] scan.phase = "done" ->
         IF Len(scan.parts) = Parts
         THEN SaysBytes(text) /\ \A k \in 1..Parts : Known(scan, text, k)
         ELSE ~SaysBytes(text)
    [] scan.phase = "bad" -> ~SaysBytes(text)

LEMMA DigitsInPlaces ==
  ASSUME NEW text, Len(text) \in Nat, NEW from \in Nat, from >= 1, NEW to \in Int, to <= Len(text)
  PROVE  Places(text, DigitsIn(text, from, to))
BY DEF Places, DigitsIn

\* A field that has begun behind the ends so far ends later.
LEMMA EndsLater ==
  ASSUME NEW text, Opened(text), NEW p \in Nat, NEW k \in Nat,
         SaysBytes(text), Count(text, p) < k, k <= Parts
  PROVE  /\ End(text, k) \in Ends(text) /\ Count(text, End(text, k)) = k
         /\ End(text, k) > p
<1>1. k <= Cardinality(Ends(text)) /\ k # 0
  <2>1. Cardinality(Ends(text)) \in Nat /\ Count(text, p) \in Nat
    BY EndsTyped, FS_CardinalityType, Counted
  <2>2. Cardinality(Ends(text)) >= Parts /\ Parts \in Nat
    BY RepliesAssumption DEF SaysBytes
  <2>3. QED
    BY <2>1, <2>2
<1>2. End(text, k) \in Ends(text) /\ Count(text, End(text, k)) = k
  BY <1>1, FieldEnds
<1>3. End(text, k) \in Int
  BY <1>2, EndsTyped
<1>4. ~(End(text, k) <= p)
  <2>1. Count(text, p) \in Nat
    BY Counted
  <2>2. ASSUME End(text, k) <= p PROVE k <= Count(text, p)
    BY <1>2, <1>3, <2>2, CountGrows
  <2>3. QED
    BY <2>1, <2>2
<1>5. QED
  BY <1>2, <1>3, <1>4

\* What the reply says of itself up to the place of a character that the
\* parser does not take.
LEMMA NoField ==
  ASSUME NEW text, Opened(text), NEW p \in (Opening(text) + 1)..Len(text),
         p \notin Ends(text), text[p] \notin Digits \cup Blanks, Count(text, p) < Parts
  PROVE  ~SaysBytes(text)
<1>1. SUFFICES ASSUME SaysBytes(text) PROVE FALSE
  OBVIOUS
<1>2. p \in Nat /\ Opening(text) \in Nat /\ Parts \in Nat
  BY EndsTyped, RepliesAssumption DEF Opened
<1>3. End(text, Parts) \in Ends(text) /\ End(text, Parts) > p
  BY <1>1, <1>2, EndsLater
<1>4. End(text, Parts) \in Nat
  BY <1>3, EndsTyped
<1>5. p \in (Opening(text) + 1)..End(text, Parts)
  BY <1>2, <1>3, <1>4
<1>6. QED
  BY <1>1, <1>5 DEF SaysBytes

\* Nor does a field that is too large already end as a byte.
LEMMA NoByte ==
  ASSUME NEW text, Opened(text), NEW p \in (Opening(text) + 1)..Len(text),
         Count(text, p) < Parts, End(text, Count(text, p)) \in Opening(text)..p,
         Written(text, Begun(text, p)) > MaxByte
  PROVE  ~SaysBytes(text)
<1>1. SUFFICES ASSUME SaysBytes(text) PROVE FALSE
  OBVIOUS
<1> DEFINE k == Count(text, p) + 1
<1>2. /\ p \in Nat /\ Opening(text) \in Nat /\ Opening(text) >= 1 /\ Parts \in Nat /\ MaxByte \in Nat
      /\ Count(text, p) \in Nat /\ Len(text) \in Nat
  <2>1. Len(text) \in Nat /\ Opening(text) \in 1..Len(text)
    BY EndsTyped DEF Opened
  <2>2. p \in Nat
    BY <2>1
  <2>3. QED
    BY <2>1, <2>2, Counted, RepliesAssumption
<1>3. k \in Nat /\ k <= Parts /\ k - 1 = Count(text, p) /\ k \in 1..Parts /\ Count(text, p) < k
  BY <1>2
<1> HIDE DEF k
<1>4. End(text, k) \in Ends(text) /\ End(text, k) > p
  BY <1>1, <1>2, <1>3, EndsLater
<1>5. End(text, k) \in 1..Len(text)
  BY <1>4, EndsTyped
<1>6. End(text, k - 1) + 1 \in Nat /\ End(text, k - 1) + 1 >= 1 /\ p <= End(text, k) - 1 /\ p \in Int
      /\ End(text, k) - 1 \in Int /\ End(text, k) - 1 <= Len(text)
  BY <1>2, <1>3, <1>4, <1>5
<1>7. /\ Places(text, Field(text, k))
      /\ Begun(text, p) \subseteq Field(text, k)
  <2>1. Places(text, Field(text, k))
    BY <1>2, <1>6, DigitsInPlaces DEF Field
  <2>2. Begun(text, p) \subseteq Field(text, k)
    BY <1>3, <1>6 DEF Begun, Field, DigitsIn
  <2>3. QED
    BY <2>1, <2>2
<1>8. Written(text, Begun(text, p)) <= Byte(text, k)
  BY <1>7, WrittenGrows DEF Byte
<1>9. Written(text, Begun(text, p)) \in Nat /\ Byte(text, k) \in Nat
  <2>1. Places(text, Begun(text, p))
    BY <1>7 DEF Places
  <2>2. QED
    BY <1>7, <2>1, WrittenTyped DEF Byte
<1>10. Byte(text, k) <= MaxByte
  BY <1>1, <1>3 DEF SaysBytes
<1>11. QED
  BY <1>2, <1>8, <1>9, <1>10

\* What a field has got to with one character more that does not end it.
LEMMA FieldGoesOn ==
  ASSUME NEW text, Opened(text), NEW p \in (Opening(text) + 1)..Len(text),
         End(text, Count(text, p - 1)) \in Opening(text)..(p - 1), p \notin Ends(text)
  PROVE  /\ Count(text, p) = Count(text, p - 1)
         /\ Begun(text, p) = Begun(text, p - 1) \cup {i \in {p} : text[p] \in Digits}
         /\ Begun(text, p - 1) \subseteq 1..(p - 1)
         /\ Places(text, Begun(text, p - 1)) /\ Places(text, Begun(text, p))
<1>1. Opening(text) \in 1..Len(text) /\ Len(text) \in Nat
  BY EndsTyped DEF Opened
<1>2. p \in Nat /\ p - 1 \in Int /\ p \in 1..Len(text)
  BY <1>1
<1>3. Count(text, p) = Count(text, p - 1)
  <2>1. Count(text, p - 1) \in Nat
    BY <1>2, Counted
  <2>2. QED
    BY <1>2, <2>1, CountStep
<1> DEFINE e == End(text, Count(text, p - 1))
<1>4. e \in Nat /\ e >= 1 /\ e <= p - 1
  BY <1>1, <1>2
<1>5. Begun(text, p) = DigitsIn(text, e + 1, p) /\ Begun(text, p - 1) = DigitsIn(text, e + 1, p - 1)
  BY <1>3 DEF Begun
<1> HIDE DEF e
<1>6. \A i : i \in (e + 1)..p <=> i \in (e + 1)..(p - 1) \/ i = p
  BY <1>2, <1>4
<1>7. Begun(text, p) = Begun(text, p - 1) \cup {i \in {p} : text[p] \in Digits}
  BY <1>5, <1>6 DEF DigitsIn
<1>8. Begun(text, p - 1) \subseteq 1..(p - 1)
  BY <1>2, <1>4, <1>5 DEF DigitsIn
<1>9. Places(text, Begun(text, p - 1)) /\ Places(text, Begun(text, p))
  <2>1. e + 1 \in Nat /\ e + 1 >= 1 /\ p - 1 <= Len(text) /\ p <= Len(text)
    BY <1>2, <1>4
  <2>2. QED
    BY <1>1, <1>2, <1>5, <2>1, DigitsInPlaces
<1>10. QED
  BY <1>3, <1>7, <1>8, <1>9

\* Each character keeps the scan in step with what the reply says.
LEMMA PasvCharacterSeen ==
  ASSUME NEW text, Opened(text), NEW p \in (Opening(text) + 1)..Len(text),
         NEW scan \in PasvScans, SeenPort(scan, text, p - 1)
  PROVE  SeenPort(pasvCharacter(scan, text[p]), text, p)
<1> DEFINE k == Count(text, p - 1)
           next == pasvCharacter(scan, text[p])
<1>1. /\ Opening(text) \in Nat /\ Opening(text) >= 1 /\ Len(text) \in Nat
      /\ p \in Nat /\ p - 1 \in Nat /\ p - 1 >= Opening(text) /\ p \in 1..Len(text)
      /\ Parts \in Nat /\ MaxByte \in Nat /\ Parts > 1
  <2>1. Opening(text) \in 1..Len(text) /\ Len(text) \in Nat
    BY EndsTyped DEF Opened
  <2>2. p \in Nat /\ p - 1 \in Nat /\ p - 1 >= Opening(text) /\ p \in 1..Len(text)
    BY <2>1
  <2>3. QED
    BY <2>1, <2>2, RepliesAssumption
<1>2. k \in Nat
  BY <1>1, Counted
<1>3. CASE scan.phase # "open"
  <2>1. next = scan
    BY <1>3 DEF pasvCharacter
  <2>2. QED
    BY <1>3, <2>1 DEF SeenPort, PasvScans, PasvPhases
<1>4. CASE scan.phase = "open"
  <2>1. SeenOpen(scan, text, p - 1)
    BY <1>4 DEF SeenPort
  <2>9. End(text, k) \in Opening(text)..(p - 1)
    BY <2>1 DEF SeenOpen
  <2>10. End(text, k) \in Opening(text)..p
    <3> HIDE DEF k
    <3>1. QED
      BY <1>1, <2>9
  <2>11. Len(scan.parts) = k /\ k < Parts
    BY <2>1 DEF SeenOpen
  <2>12. ASSUME p \in Ends(text) \/ text[p] \in Digits \cup Blanks
         PROVE  \A i \in (Opening(text) + 1)..p : i \in Ends(text) \/ text[i] \in Digits \cup Blanks
    <3>1. \A i \in (Opening(text) + 1)..(p - 1) : i \in Ends(text) \/ text[i] \in Digits \cup Blanks
      BY <2>1 DEF SeenOpen
    <3>2. \A i \in (Opening(text) + 1)..p : i \in (Opening(text) + 1)..(p - 1) \/ i = p
      BY <1>1
    <3>3. QED
      BY <2>12, <3>1, <3>2
  <2>2. scan.value \in 0..MaxByte /\ scan.parts \in Seq(0..MaxByte) /\ scan.digits \in BOOLEAN
    BY DEF PasvScans
  <2>3. p \in Ends(text) <=> text[p] \in {",", ")"}
    BY DEF Ends
  <2>4. CASE text[p] \in Blanks
    <3>1. next = scan
      BY <1>4, <2>4, KindsOfCharacters DEF pasvCharacter
    <3>2. p \notin Ends(text) /\ text[p] \notin Digits
      BY <2>3, <2>4, KindsOfCharacters
    <3>3. Count(text, p) = k /\ Begun(text, p) = Begun(text, p - 1)
      <4>1. /\ Count(text, p) = k
            /\ Begun(text, p) = Begun(text, p - 1) \cup {i \in {p} : text[p] \in Digits}
        BY <2>9, <3>2, FieldGoesOn
      <4>2. {i \in {p} : text[p] \in Digits} = {}
        BY <3>2
      <4>3. QED
        BY <4>1, <4>2
    <3>4. SeenOpen(scan, text, p)
      <4>1. End(text, k) \in Opening(text)..p
        BY <2>10
      <4>2. \A i \in (Opening(text) + 1)..p : i \in Ends(text) \/ text[i] \in Digits \cup Blanks
        BY <2>4, <2>12
      <4>3. QED
        BY <2>1, <3>3, <4>1, <4>2 DEF SeenOpen
    <3>5. QED
      BY <1>4, <3>1, <3>4 DEF SeenPort
  <2>5. CASE text[p] \in Digits
    <3>1. p \notin Ends(text) /\ text[p] \notin Blanks /\ text[p] \notin {",", ")"}
      BY <2>3, <2>5, KindsOfCharacters
    <3> DEFINE D == Begun(text, p - 1)
               number == scan.value
               digit == digitOf[text[p]]
    <3>2. /\ Count(text, p) = k /\ Begun(text, p) = D \cup {p} /\ D \subseteq 1..(p - 1)
          /\ Places(text, D)
      <4>1. /\ Count(text, p) = k
            /\ Begun(text, p) = D \cup {i \in {p} : text[p] \in Digits}
            /\ D \subseteq 1..(p - 1) /\ Places(text, D)
        BY <2>9, <3>1, FieldGoesOn
      <4>2. {i \in {p} : text[p] \in Digits} = {p}
        BY <2>5
      <4>3. QED
        BY <4>1, <4>2
    <3>3. number = Written(text, D)
      BY <2>1 DEF SeenOpen
    <3>4. Written(text, Begun(text, p)) = 10 * number + digit
      <4>1. \A i \in D : i < p
        BY <1>1, <3>2
      <4>2. Written(text, D \cup {p}) = 10 * Written(text, D) + digit
        BY <1>1, <2>5, <3>2, <4>1, WrittenMore
      <4>3. QED
        BY <3>2, <3>3, <4>2
    <3>5. digit \in 0..9 /\ number \in 0..MaxByte
      BY <2>2, <2>5, DigitsDiffer
    <3>6. CASE byteOverflows(number, digit)
      <4>1. next = [scan EXCEPT !.phase = "bad"]
        BY <1>4, <3>1, <3>6 DEF pasvCharacter
      <4>2. next.phase = "bad"
        BY <4>1 DEF PasvScans
      <4>3. Written(text, Begun(text, p)) > MaxByte
        BY <3>4, <3>5, <3>6, ByteOverflow
      <4>4. Count(text, p) < Parts /\ End(text, Count(text, p)) \in Opening(text)..p
        BY <2>10, <2>11, <3>2
      <4>5. ~SaysBytes(text)
        BY <4>3, <4>4, NoByte
      <4>6. QED
        BY <4>2, <4>5 DEF SeenPort
    <3>7. CASE ~byteOverflows(number, digit)
      <4>1. next = [scan EXCEPT !.value = 10 * number + digit, !.digits = TRUE]
        BY <1>4, <2>5, <3>1, <3>7 DEF pasvCharacter
      <4>2. /\ next.phase = "open" /\ next.parts = scan.parts
            /\ next.digits = TRUE /\ next.value = 10 * number + digit
        BY <1>4, <4>1 DEF PasvScans
      <4>3. Begun(text, p) # {}
        BY <3>2
      <4>4. End(text, k) \in Opening(text)..p
        BY <2>10
      <4>5. \A i \in (Opening(text) + 1)..p : i \in Ends(text) \/ text[i] \in Digits \cup Blanks
        BY <2>5, <2>12
      <4> HIDE DEF number, digit
      <4>6. SeenOpen(next, text, p)
        BY <2>1, <3>2, <3>4, <4>2, <4>3, <4>4, <4>5 DEF SeenOpen, Known
      <4>7. QED
        BY <4>2, <4>6 DEF SeenPort
    <3>8. QED
      BY <3>6, <3>7
  <2>6. CASE text[p] \in {",", ")"}
    <3>1. p \in Ends(text) /\ text[p] \notin Blanks /\ text[p] \notin Digits
      BY <2>3, <2>6, KindsOfCharacters
    <3>2. Count(text, p) = k + 1 /\ End(text, k + 1) = p
      BY <1>1, <1>2, <3>1, CountStep, EndOfField
    <3>3. k + 1 \in 1..Parts /\ (k + 1) - 1 = k /\ k < Parts
      <4> HIDE DEF k
      <4>1. QED
        BY <1>1, <1>2, <2>11
    <3>4. Field(text, k + 1) = Begun(text, p - 1)
      BY <1>2, <3>2, <3>3 DEF Field, Begun
    <3>5. CASE ~scan.digits
      <4>1. next = [scan EXCEPT !.phase = "bad"]
        BY <1>4, <3>1, <3>5 DEF pasvCharacter
      <4>2. next.phase = "bad"
        BY <4>1 DEF PasvScans
      <4>3. Field(text, k + 1) = {}
        BY <2>1, <3>4, <3>5 DEF SeenOpen
      <4>4. ~SaysBytes(text)
        BY <3>3, <4>3 DEF SaysBytes
      <4>5. QED
        BY <4>2, <4>4 DEF SeenPort
    <3>6. CASE scan.digits
      <4>1. /\ next.parts = Append(scan.parts, scan.value) /\ next.value = 0 /\ next.digits = FALSE
            /\ next.phase = IF text[p] = ")" \/ Len(scan.parts) + 1 = Parts THEN "done" ELSE "open"
        BY <1>4, <2>6, <3>1, <3>6 DEF pasvCharacter
      <4>2. Len(next.parts) = k + 1 /\ Len(scan.parts) = k
        BY <2>2, <2>11, <4>1
      <4>3. \A j \in 1..k : text[End(text, j)] = "," /\ Known(next, text, j)
        <5>1. \A j \in 1..k : next.parts[j] = scan.parts[j]
          BY <1>2, <2>2, <4>1, <4>2
        <5>2. QED
          BY <2>1, <5>1 DEF SeenOpen, Known
      <4>4. Known(next, text, k + 1)
        <5>1. next.parts[k + 1] = scan.value
          BY <1>2, <2>2, <4>1, <4>2
        <5>2. Field(text, k + 1) # {} /\ scan.value = Byte(text, k + 1)
          BY <2>1, <3>4, <3>6 DEF SeenOpen, Byte
        <5>3. scan.value <= MaxByte
          BY <2>2
        <5>4. QED
          BY <5>1, <5>2, <5>3 DEF Known
      <4>5. \A i \in (Opening(text) + 1)..p : i \in Ends(text) \/ text[i] \in Digits \cup Blanks
        BY <2>12, <3>1
      <4>6. CASE k + 1 = Parts
        <5>1. next.phase = "done" /\ Len(next.parts) = Parts
          BY <4>1, <4>2, <4>6
        <5>2. \A j \in 1..Parts : Known(next, text, j)
          <6> HIDE DEF k
          <6>1. \A j \in 1..Parts : j \in 1..k \/ j = k + 1
            BY <1>2, <4>6
          <6>2. QED
            BY <4>3, <4>4, <6>1
        <5>3. SaysBytes(text)
          <6>1. Cardinality(Ends(text)) >= Parts
            <7>1. EndsUpTo(text, p) \in SUBSET Ends(text)
              BY DEF EndsUpTo
            <7>2. Count(text, p) <= Cardinality(Ends(text))
              BY <7>1, EndsTyped, FS_Subset DEF Count
            <7>3. Cardinality(Ends(text)) \in Nat
              BY EndsTyped, FS_CardinalityType
            <7>4. QED
              BY <1>1, <3>2, <4>6, <7>2, <7>3
          <6>2. \A j \in 1..(Parts - 1) : text[End(text, j)] = ","
            <7> HIDE DEF k
            <7>1. Parts - 1 = k
              BY <1>2, <4>6
            <7>2. QED
              BY <4>3, <7>1
          <6>3. End(text, Parts) = p
            BY <3>2, <4>6
          <6>4. QED
            BY <4>5, <5>2, <6>1, <6>2, <6>3 DEF SaysBytes, Known
        <5>4. QED
          BY <5>1, <5>2, <5>3 DEF SeenPort
      <4>7. CASE k + 1 # Parts /\ text[p] = ")"
        <5>1. next.phase = "done" /\ Len(next.parts) # Parts
          BY <4>1, <4>2, <4>7
        <5>2. k + 1 \in 1..(Parts - 1)
          BY <1>1, <1>2, <3>3, <4>7
        <5>3. text[End(text, k + 1)] # ","
          BY <3>2, <4>7
        <5>4. ~SaysBytes(text)
          BY <5>2, <5>3 DEF SaysBytes
        <5>5. QED
          BY <5>1, <5>4 DEF SeenPort
      <4>8. CASE k + 1 # Parts /\ text[p] = ","
        <5>1. next.phase = "open"
          BY <4>1, <4>2, <4>8
        <5>2. Begun(text, p) = {} /\ Written(text, Begun(text, p)) = 0
          <6>1. Begun(text, p) = {}
            BY <1>1, <3>2 DEF Begun, DigitsIn
          <6>2. QED
            BY <1>1, <6>1, NothingWritten
        <5>3. \A j \in 1..(k + 1) : text[End(text, j)] = "," /\ Known(next, text, j)
          <6> HIDE DEF k
          <6>1. \A j \in 1..(k + 1) : j \in 1..k \/ j = k + 1
            BY <1>2
          <6>2. QED
            BY <3>2, <4>3, <4>4, <4>8, <6>1
        <5>4. p \in Opening(text)..p /\ k + 1 < Parts
          <6> HIDE DEF k
          <6>1. p \in Opening(text)..p
            BY <1>1
          <6>2. k + 1 < Parts
            <7>1. k + 1 # Parts
              BY <4>8
            <7>2. k \in Nat /\ Parts \in Nat /\ k < Parts
              BY <1>1, <1>2, <3>3
            <7>3. QED
              BY <7>1, <7>2
          <6>3. QED
            BY <6>1, <6>2
        <5>5. SeenOpen(next, text, p)
          BY <3>2, <4>1, <4>2, <4>5, <5>2, <5>3, <5>4 DEF SeenOpen
        <5>6. QED
          BY <5>1, <5>5 DEF SeenPort
      <4>9. QED
        BY <2>6, <4>6, <4>7, <4>8
    <3>7. QED
      BY <3>5, <3>6
  <2>7. CASE text[p] \notin Blanks \cup Digits \cup {",", ")"}
    <3>1. next = [scan EXCEPT !.phase = "bad"]
      BY <1>4, <2>7 DEF pasvCharacter
    <3>2. next.phase = "bad"
      BY <3>1 DEF PasvScans
    <3>3. p \notin Ends(text) /\ Count(text, p) = k
      BY <2>1, <2>3, <2>7, FieldGoesOn DEF SeenOpen
    <3>4. ~SaysBytes(text)
      BY <2>1, <2>7, <3>3, NoField DEF SeenOpen
    <3>5. QED
      BY <3>2, <3>4 DEF SeenPort
  <2>8. QED
    BY <2>4, <2>5, <2>6, <2>7
<1>5. QED
  BY <1>3, <1>4

\* The port is 0 only if both of its bytes are.
LEMMA PortIsZero ==
  ASSUME NEW high \in 0..MaxByte, NEW low \in 0..MaxByte
  PROVE  Port(high, low) # 0 <=> high + low > 0
<1>1. MaxByte + 1 \in Nat /\ MaxByte + 1 > 0 /\ high \in Nat /\ low \in Nat
  BY RepliesAssumption
<1>2. CASE high = 0
  BY <1>1, <1>2 DEF Port
<1>3. CASE high > 0
  <2> DEFINE base == MaxByte + 1
  <2>1. base \in Nat /\ base > 0
    BY <1>1
  <2> HIDE DEF base
  <2>2. high * base > 0 /\ high * base \in Nat
    BY <1>1, <1>3, <2>1
  <2>3. high * base + low > 0
    BY <1>1, <2>2
  <2>4. QED
    BY <1>1, <1>3, <2>3 DEF Port, base
<1>4. QED
  BY <1>1, <1>2, <1>3

\* parsePasv finds what is written, or nothing in a text that was cut off.
LEMMA PortParsed ==
  ASSUME NEW S, NEW text \in Seq(S), NEW start \in Seq(S),
         Len(start) <= Len(text), \A i \in 1..Len(start) : start[i] = text[i]
  PROVE  \/ parsePasv(start) = SaysPort(text)
         \/ Len(start) < Len(text) /\ parsePasv(start) = Failure
<1> DEFINE m == Len(start)
           n == Len(text)
           o == Opening(text)
<1>1. m \in Nat /\ n \in Nat /\ m <= n
  OBVIOUS
<1>2. CASE Openings(start) = {}
  <2>1. parsePasv(start) = Failure
    BY <1>2 DEF parsePasv
  <2>2. CASE m = n
    <3>1. Openings(text) = {}
      BY <1>1, <1>2, <2>2 DEF Openings
    <3>2. SaysPort(text) = Failure
      BY <3>1 DEF SaysPort
    <3>3. QED
      BY <2>1, <3>2
  <2>3. CASE m # n
    BY <1>1, <2>1, <2>3
  <2>4. QED
    BY <2>2, <2>3
<1>3. CASE Openings(start) # {}
  <2>1. Opened(start) /\ Opened(text) /\ Openings(start) \subseteq Openings(text)
    <3>1. Openings(start) \subseteq Openings(text)
      BY <1>1 DEF Openings
    <3>2. QED
      BY <1>1, <1>3, <3>1 DEF Opened
  <2>2. Opening(start) = o /\ o \in 1..m
    <3>1. Opening(start) \in Openings(text) /\ Opening(start) \in 1..m
      BY <2>1, OpeningIsFirst DEF Openings
    <3>2. o \in Openings(text) /\ o <= Opening(start)
      BY <2>1, <3>1, OpeningIsFirst
    <3>3. o \in 1..m
      BY <1>1, <3>1, <3>2 DEF Openings
    <3>4. o \in Openings(start)
      BY <3>2, <3>3 DEF Openings
    <3>5. Opening(start) <= o
      BY <2>1, <3>4, OpeningIsFirst
    <3> HIDE DEF o
    <3>6. QED
      BY <1>1, <3>1, <3>2, <3>3, <3>5
  <2> HIDE DEF o
  <2> DEFINE body == SubSeq(start, o + 1, m)
             scan == pasvScan(body)
             T == {i \in 0..(m - o) : SeenPort(scan[i], text, o + i)}
  <2>3. o \in Nat /\ m - o \in Nat /\ o <= n /\ o >= 1
    BY <1>1, <2>2
  <2>4. Len(body) = m - o /\ \A i \in 1..(m - o) : body[i] = text[o + i]
    <3>1. o + 1 \in Int /\ m \in Int /\ \A i \in (o + 1)..m : start[i] \in S
      BY <1>1, <2>3
    <3> HIDE DEF m
    <3>2. /\ Len(body) = IF o + 1 <= m THEN m - (o + 1) + 1 ELSE 0
          /\ \A i \in 1..(m - (o + 1) + 1) : body[i] = start[o + 1 + i - 1]
      BY <3>1, SubSeqProperties
    <3>3. m - (o + 1) + 1 = m - o /\ \A i \in 1..(m - o) : o + 1 + i - 1 = o + i /\ o + i \in 1..m
      BY <1>1, <2>3
    <3> HIDE DEF body
    <3>4. Len(body) = m - o
      BY <1>1, <2>3, <3>2
    <3>5. ASSUME NEW i \in 1..(m - o) PROVE body[i] = text[o + i]
      <4>1. body[i] = start[o + i] /\ o + i \in 1..m
        BY <3>2, <3>3
      <4>2. QED
        BY <4>1 DEF m
    <3>6. QED
      BY <3>4, <3>5
  <2>5. /\ scan \in [0..(m - o) -> PasvScans] /\ scan[0] = PasvBegun
        /\ \A i \in 1..(m - o) : scan[i] = pasvCharacter(scan[i - 1], text[o + i])
    <3> HIDE DEF body, m
    <3>1. QED
      BY <2>3, <2>4, PasvScanned
  <2> HIDE DEF scan, body
  <2>6. 0 \in T
    <3>1. Count(text, o) = 0
      BY <2>1, CountStarts DEF o
    <3>2. End(text, 0) = o /\ Begun(text, o) = {}
      <4>1. End(text, 0) = o
        BY DEF End, o
      <4>2. QED
        BY <2>3, <3>1, <4>1 DEF Begun, DigitsIn
    <3>3. Written(text, Begun(text, o)) = 0
      BY <1>1, <3>2, NothingWritten
    <3>4. o \in o..o /\ 0 < Parts /\ (o + 1)..o = {} /\ 1..0 = {} /\ o + 0 = o /\ 0 \in 0..(m - o)
      BY <1>1, <2>3, RepliesAssumption
    <3>5. SeenOpen(PasvBegun, text, o)
      BY <3>1, <3>2, <3>3, <3>4 DEF SeenOpen, PasvBegun, o
    <3>6. SeenPort(PasvBegun, text, o)
      BY <3>5 DEF SeenPort, PasvBegun
    <3>7. QED
      BY <2>5, <3>4, <3>6
  <2>7. ASSUME NEW i \in 1..(m - o), i - 1 \in T PROVE i \in T
    <3>1. /\ i - 1 \in 0..(m - o) /\ i \in 0..(m - o) /\ o + (i - 1) = (o + i) - 1
          /\ o + i \in (o + 1)..n
      BY <1>1, <2>3
    <3>2. scan[i - 1] \in PasvScans
      BY <2>5, <3>1
    <3>3. SeenPort(scan[i - 1], text, (o + i) - 1)
      BY <2>7, <3>1
    <3>4. SeenPort(pasvCharacter(scan[i - 1], text[o + i]), text, o + i)
      BY <2>1, <3>1, <3>2, <3>3, PasvCharacterSeen DEF o
    <3>5. QED
      BY <2>5, <3>1, <3>4
  <2> DEFINE last == scan[m - o]
  <2>8. SeenPort(last, text, m) /\ last \in PasvScans
    <3>1. \A i \in 0..(m - o) : i \in T
      <4> HIDE DEF T, m
      <4>1. QED
        BY <2>3, <2>6, <2>7, Climb
    <3>2. m - o \in 0..(m - o) /\ o + (m - o) = m
      BY <1>1, <2>3
    <3>3. QED
      BY <2>5, <3>1, <3>2
  <2>9. parsePasv(start) =
          IF /\ last.phase = "done" /\ Len(last.parts) = Parts
             /\ Port(last.parts[Parts - 1], last.parts[Parts]) # 0
          THEN Success(Port(last.parts[Parts - 1], last.parts[Parts])) ELSE Failure
    BY <1>3, <2>2, <2>4 DEF parsePasv, scan, body
  <2> HIDE DEF last, m, n
  <2>10. CASE last.phase = "done" /\ Len(last.parts) = Parts
    <3>1. Parts - 1 \in 1..Parts /\ Parts \in 1..Parts
      BY RepliesAssumption
    <3>2. SaysBytes(text) /\ \A k \in 1..Parts : Known(last, text, k)
      BY <2>8, <2>10 DEF SeenPort
    <3>3. /\ last.parts[Parts - 1] = Byte(text, Parts - 1)
          /\ last.parts[Parts] = Byte(text, Parts)
      BY <3>1, <3>2 DEF Known
    <3>4. last.parts \in Seq(0..MaxByte)
      BY <2>8 DEF PasvScans
    <3>5. last.parts[Parts - 1] \in 0..MaxByte /\ last.parts[Parts] \in 0..MaxByte
      <4> DEFINE parts == last.parts
      <4>1. parts \in Seq(0..MaxByte) /\ Len(parts) = Parts
        BY <2>10, <3>4
      <4> HIDE DEF parts
      <4>2. \A k \in 1..Parts : parts[k] \in 0..MaxByte
        BY <4>1, ElementOfSeq
      <4>3. QED
        BY <3>1, <4>2 DEF parts
    <3>6. Port(Byte(text, Parts - 1), Byte(text, Parts)) # 0
            <=> Byte(text, Parts - 1) + Byte(text, Parts) > 0
      BY <3>3, <3>5, PortIsZero
    <3>7. QED
      BY <2>1, <2>9, <2>10, <3>2, <3>3, <3>6 DEF SaysPort, Opened
  <2>11. CASE last.phase = "bad" \/ (last.phase = "done" /\ Len(last.parts) # Parts)
    <3>1. ~SaysBytes(text)
      BY <2>8, <2>11 DEF SeenPort
    <3>2. QED
      BY <2>9, <2>11, <3>1 DEF SaysPort
  <2>12. CASE last.phase = "open"
    <3>1. parsePasv(start) = Failure
      BY <2>9, <2>12
    <3>2. CASE m = n
      <4>1. Count(text, n) < Parts
        BY <2>8, <2>12, <3>2 DEF SeenPort, SeenOpen
      <4>2. Ends(text) = EndsUpTo(text, n)
        BY <2>1, EndsTyped DEF EndsUpTo, n
      <4>3. Cardinality(Ends(text)) \in Nat
        BY <2>1, EndsTyped, FS_CardinalityType
      <4>4. Cardinality(Ends(text)) < Parts
        BY <4>1, <4>2 DEF Count
      <4>5. ~(Cardinality(Ends(text)) >= Parts)
        BY <4>3, <4>4, RepliesAssumption
      <4>6. ~SaysBytes(text)
        BY <4>5 DEF SaysBytes
      <4>7. QED
        BY <3>1, <4>6 DEF SaysPort
    <3>3. CASE m # n
      <4>1. m < n
        BY <1>1, <3>3
      <4>2. QED
        BY <3>1, <4>1 DEF m, n
    <3>4. QED
      BY <3>2, <3>3
  <2>13. QED
    BY <2>8, <2>10, <2>11, <2>12 DEF PasvScans, PasvPhases
<1>4. QED
  BY <1>2, <1>3

-----------------------------------------------------------------------------
\* The buffer of ftpReadResponse has room for its terminator at every moment,
\* however long a line is.
THEOREM RepliesTyped == RepliesSpec => []RepliesTypeOK
<1>1. RepliesInv => RepliesTypeOK
  BY DEF RepliesInv
<1>2. QED
  BY <1>1, RepliesInvariant, PTL

\* A call of ftpReadResponse returns with the end of a reply and with that
\* reply's code, for replies of any number of lines of any length, and after
\* any tear, as long as no line of a torn reply could be mistaken for a reply.
THEOREM RepliesReadWhole == RepliesSpec => []ReadsWholeReply
<1>1. RepliesInv => ReadsWholeReply
  <2> SUFFICES ASSUME RepliesInv PROVE ReadsWholeReply
    OBVIOUS
  <2>1. result >= 0 => result # Reading
    BY DEF Reading
  <2>2. QED
    BY <2>1 DEF RepliesInv, Read, Left, ReadsWholeReply
<1>2. QED
  BY <1>1, RepliesInvariant, PTL

\* A reply that the buffer has room for is in it as it was sent.
LEMMA WholeReply ==
  ASSUME RepliesInv, result >= 0, torn # "misread", Len(line) < BufLen PROVE buf = line
<1>1. Kept(buf, line)
  BY DEF RepliesInv, Left, Reading
<1>2. buf \in Seq(TextChars) /\ line \in Seq(TextChars)
  BY DEF RepliesInv, RepliesTypeOK
<1>3. Len(buf) = Len(line)
  BY <1>1, <1>2, RepliesAssumption DEF Kept
<1>4. QED
  BY <1>1, <1>2, <1>3, SeqEqual DEF Kept

\* parseSizeReplyBytes finds the size the server wrote, in replies of any
\* length that the buffer has room for and for a size_t of any width, and
\* refuses a number that does not fit it.
THEOREM RepliesGiveTheSize == RepliesSpec => []SizeIsAsWritten
<1>1. RepliesInv => SizeIsAsWritten
  <2> SUFFICES ASSUME RepliesInv, result >= 0, torn # "misread", Len(line) < BufLen
               PROVE  parseSizeReplyBytes(buf) = SaysSize(line)
    BY DEF SizeIsAsWritten
  <2>1. buf \in Seq(TextChars) /\ CodeFirst(buf)
    BY DEF RepliesInv, RepliesTypeOK, Left, Reading
  <2>2. parseSizeReplyBytes(buf) = SaysSize(buf)
    BY <2>1, SizeParsed
  <2>3. buf = line
    BY WholeReply
  <2>4. QED
    BY <2>2, <2>3
<1>2. QED
  BY <1>1, RepliesInvariant, PTL

\* parsePasv finds the port the server wrote, for any number of fields; of a
\* reply that was cut off to fit the buffer it finds that or none, never
\* another port.
THEOREM RepliesGiveThePort == RepliesSpec => []PortIsAsWritten
<1>1. RepliesInv => PortIsAsWritten
  <2> SUFFICES ASSUME RepliesInv, result >= 0, torn # "misread"
               PROVE  \/ parsePasv(buf) = SaysPort(line)
                      \/ Len(line) >= BufLen /\ parsePasv(buf) = Failure
    BY DEF PortIsAsWritten
  <2>1. buf \in Seq(TextChars) /\ line \in Seq(TextChars) /\ Kept(buf, line)
    BY DEF RepliesInv, RepliesTypeOK, Left, Reading
  <2>2. \/ parsePasv(buf) = SaysPort(line)
        \/ Len(buf) < Len(line) /\ parsePasv(buf) = Failure
    BY <2>1, PortParsed DEF Kept
  <2>3. Len(buf) < Len(line) => Len(line) >= BufLen
    BY <2>1, RepliesAssumption DEF Kept
  <2>4. QED
    BY <2>2, <2>3
<1>2. QED
  BY <1>1, RepliesInvariant, PTL
=============================================================================
