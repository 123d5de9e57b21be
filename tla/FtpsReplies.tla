----------------------------- MODULE FtpsReplies -----------------------------
(***************************************************************************)
(* The text of replies: ftpReadResponse, which puts a reply together from  *)
(* the characters that arrive, and the parsers of what SIZE and PASV are   *)
(* answered with.  FtpsControl takes replies whole; this is why it may.    *)
(*                                                                         *)
(* A text is a sequence of characters, each a string of length one.  The   *)
(* server answers with one line                                            *)
(*     code text                                                           *)
(* or with several, the first with a hyphen after the code and the last    *)
(* with the code again.                                                    *)
(*                                                                         *)
(* The drain of a final reply may give up in the middle of it.  Its rest   *)
(* is then the first that the next command reads, and a line of the rest   *)
(* that begins with three digits is mistaken for a reply.                  *)
(***************************************************************************)
EXTENDS Integers, Sequences, FiniteSets, FiniteSetsExt

CONSTANTS
  Codes,         \* codes of the server's replies, as texts
  TextChars,     \* characters its texts are made of
  BufLen,        \* FTPS_REPLY_BUFFER_SIZE
  MaxSize,       \* the largest size_t
  MaxByte,       \* 255
  Parts,         \* fields of the reply to PASV: 6
  MaxText,       \* bound: text after the code of the last line
  MaxTorn,       \* bound: the same, of a reply the drain reads or gave up
  MaxInner       \* bound: characters of the other lines

Digits == {"0", "1", "2", "3", "4", "5", "6", "7", "8", "9"}
Blanks == {" ", "\t"}
LineEnds == {"\n", "\r"}
Numerals == <<"0", "1", "2", "3", "4", "5", "6", "7", "8", "9">>
digitOf == [ch \in Digits |-> CHOOSE d \in 0..9 : Numerals[d + 1] = ch]

ASSUME RepliesAssumption ==
  /\ Codes \subseteq [1..3 -> Digits]
  /\ {MaxSize, MaxByte, MaxText, MaxTorn, MaxInner} \subseteq Nat
  /\ BufLen \in Nat /\ BufLen > 4 /\ Parts \in Nat /\ Parts > 1
  /\ LineEnds \cap TextChars = {}

VARIABLES
  buf,        \* the first pos characters of buf
  multiCode,
  result,     \* what the last call of ftpReadResponse returned, or Reading
  part,       \* the line the server is sending: "first", "inner", "last", or "none"
  code,       \* the code of its reply
  line,       \* what it has sent of that line; of the last line, to its end
  draining,   \* the reader is one whose failure does not end the connection
  torn        \* what such a reader left when it gave up, while the client has not
              \* caught up: a "reply", or one of which a "line" is torn; or
              \* "misread", if the rest was mistaken for a reply

readerVars  == <<buf, multiCode, result>>
serverVars  == <<part, code, line>>
tearVars    == <<draining, torn>>
repliesVars == <<readerVars, serverVars, tearVars>>

Reading == -2
NumberOf(text) == 100 * digitOf[text[1]] + 10 * digitOf[text[2]] + digitOf[text[3]]
CodeFirst(text) == Len(text) >= 3 /\ \A i \in 1..3 : text[i] \in Digits
Hyphen(text)    == Len(text) > 3 /\ text[4] = "-"

\* The types; buf has room for its terminator at every moment.
RepliesTypeOK ==
  /\ buf \in Seq(TextChars) /\ Len(buf) < BufLen
  /\ multiCode \in -1..999
  /\ result \in Reading..999
  /\ part \in {"first", "inner", "last", "none"}
  /\ code \in Codes
  /\ line \in Seq(TextChars)
  /\ draining \in BOOLEAN /\ torn \in {"nothing", "line", "reply", "misread"}

RepliesInit ==
  /\ buf = <<>> /\ multiCode = -1 /\ result = -1
  /\ part = "none" /\ code \in Codes /\ line = <<>>
  /\ draining = FALSE /\ torn = "nothing"

-----------------------------------------------------------------------------
\* The server begins a reply.
Answers == part' \in {"first", "last"} /\ code' \in Codes /\ line' = <<>>

ftpReadResponse == buf' = <<>> /\ multiCode' = -1 /\ result' = Reading

\* A command is sent.  The server begins its reply, or the one to an earlier
\* command if that has not been read, or goes on with what the drain gave up.
ftpSendCommand ==
  /\ result # Reading /\ torn # "misread"
  /\ ftpReadResponse
  /\ IF part = "none" THEN Answers ELSE UNCHANGED serverVars
  /\ draining' = FALSE /\ UNCHANGED torn

\* A transfer has failed early, and the server begins its final reply.  The
\* answer to AUTH TLS is read no differently: whatever becomes of that,
\* connect() goes on with AUTH SSL.
drainFinalTransferReply ==
  /\ result # Reading /\ part = "none" /\ torn = "nothing"
  /\ ftpReadResponse
  /\ Answers
  /\ draining' = TRUE /\ UNCHANGED torn

\* What the server may send next.
Allowed(ch) ==
  CASE part = "inner"                      -> Len(line) < MaxInner
    [] part # "inner" /\ Len(line) < 3     -> ch = code[Len(line) + 1]
    [] part = "first" /\ Len(line) >= 3    -> IF Len(line) = 3 THEN ch = "-" ELSE Len(line) < MaxInner
    [] part = "last" /\ Len(line) >= 3     ->
         /\ Len(line) = 3 => ch # "-"
         /\ Len(line) < 3 + IF draining \/ torn # "nothing" THEN MaxTorn ELSE MaxText

\* Mutant: the terminator is forgotten.
takesOneMore(ch) ==
  /\ buf' = IF Len(buf) < BufLen THEN Append(buf, ch) ELSE buf
  /\ UNCHANGED <<multiCode, result>>

\* What does not fit is dropped.
takes(ch) ==
  /\ buf' = IF Len(buf) < BufLen - 1 THEN Append(buf, ch) ELSE buf
  /\ UNCHANGED <<multiCode, result>>

characterArrives ==
  /\ result = Reading /\ part # "none" /\ torn # "misread"
  /\ \E ch \in TextChars :
       /\ Allowed(ch)
       /\ line' = Append(line, ch)
       /\ takes(ch)
  /\ UNCHANGED <<part, code, tearVars>>

\* What a line inside a reply must not look like: its last line, or the
\* first of another.  RFC 959 has the server pad such a line.  The line may
\* repeat the code with a hyphen, or begin with another code.
Misleading(text) == CodeFirst(text) /\ Hyphen(text) # (SubSeq(text, 1, 3) = code)

Finished ==
  CASE part = "first" -> Len(line) > 3
    [] part = "inner" -> ~Misleading(line)
    [] part = "last"  -> Len(line) >= 3

\* What the reader cannot know for what it is: the rest of a torn line that
\* begins with three digits, or a line with another code inside a reply of
\* which it has not seen the first line.
Mistaken ==
  /\ CodeFirst(buf)
  /\ torn = "line" \/ (part = "inner" /\ multiCode = -1 /\ ~Hyphen(buf))

\* Mutant: any line with a code ends the reply.
takesAnyCode ==
  IF CodeFirst(buf) /\ ~Hyphen(buf)
  THEN result' = NumberOf(buf) /\ multiCode' = -1 /\ UNCHANGED buf
  ELSE /\ buf' = <<>>
       /\ multiCode' = IF CodeFirst(buf) THEN NumberOf(buf) ELSE multiCode
       /\ UNCHANGED result

\* The reader at the end of a line.
takesLineEnd ==
  IF CodeFirst(buf) /\ ~Hyphen(buf) /\ multiCode \in {-1, NumberOf(buf)}
  THEN result' = NumberOf(buf) /\ multiCode' = -1 /\ UNCHANGED buf
  ELSE /\ buf' = <<>>
       /\ multiCode' = IF CodeFirst(buf) /\ Hyphen(buf) THEN NumberOf(buf) ELSE multiCode
       /\ UNCHANGED result

CatchesUp(left) == torn' = IF Mistaken THEN "misread" ELSE left

\* "\r" and "\n" arrive, of which the reader ignores the first.  Behind the
\* rest of a torn reply comes the one to the command.
lineEnds ==
  /\ result = Reading /\ part # "none" /\ torn # "misread"
  /\ Finished
  /\ takesLineEnd
  /\ CASE part # "last" ->
            /\ part' \in {"inner", "last"} /\ line' = <<>> /\ UNCHANGED code
            /\ CatchesUp(IF torn = "line" THEN "reply" ELSE torn)
       [] part = "last" /\ torn # "nothing" /\ result' = Reading ->
            Answers /\ CatchesUp("nothing")
       [] OTHER -> part' = "none" /\ UNCHANGED <<code, line>> /\ CatchesUp(torn)
  /\ UNCHANGED draining

ConnectionEnds ==
  /\ result' = -1 /\ buf' = <<>> /\ multiCode' = -1
  /\ part' = "none" /\ line' = <<>> /\ torn' = "nothing"
  /\ UNCHANGED <<code, draining>>

\* Nothing arrives in time, or the connection fails.  The caller of a command
\* hangs up, but for that of AUTH TLS.
readFails == result = Reading /\ ~draining /\ torn # "misread" /\ ConnectionEnds

\* A client that has mistaken a rest is out of step until its session ends;
\* FtpsControl has what its calls make of it.
disconnect == torn = "misread" /\ ConnectionEnds

\* The drain does not: the rest of the reply arrives later.
drainGivesUp ==
  /\ result = Reading /\ draining
  /\ result' = -1 /\ buf' = <<>> /\ multiCode' = -1
  /\ torn' = IF line = <<>> THEN "reply" ELSE "line"
  /\ UNCHANGED <<serverVars, draining>>

RepliesNext ==
  \/ ftpSendCommand \/ drainFinalTransferReply
  \/ characterArrives \/ lineEnds \/ readFails \/ drainGivesUp \/ disconnect

RepliesSpec == RepliesInit /\ [][RepliesNext]_repliesVars

-----------------------------------------------------------------------------
(***************************************************************************)
(* The parsers                                                             *)
(***************************************************************************)
Failure == [ok |-> FALSE, value |-> 0]
Success(number) == [ok |-> TRUE, value |-> number]

\* One digit more, in the width of size_t.
TimesTen(number, digit) == (10 * number + digit) % (MaxSize + 1)

\* Mutant: without the digit that is added.
sizeOverflowsLate(number, digit) == number > MaxSize \div 10

sizeOverflows(number, digit) == number > (MaxSize - digit) \div 10

\* blanks digits blanks: phase is "before", "digits", "after", or "bad".
sizeCharacter(scan, ch) ==
  CASE scan.phase # "bad" /\ ch \in Blanks ->
         [scan EXCEPT !.phase = IF @ = "digits" THEN "after" ELSE @]
    [] scan.phase \in {"before", "digits"} /\ ch \in Digits
         /\ ~sizeOverflows(scan.value, digitOf[ch]) ->
         [phase |-> "digits", value |-> TimesTen(scan.value, digitOf[ch])]
    [] OTHER -> [scan EXCEPT !.phase = "bad"]

\* What the scan of a text has come to after each of its characters.
sizeScan(text) ==
  LET scan[i \in 0..Len(text)] ==
        IF i = 0 THEN [phase |-> "before", value |-> 0]
        ELSE sizeCharacter(scan[i - 1], text[i])
  IN  scan

parseSizeReplyBytes(reply) ==
  LET body == IF CodeFirst(reply) THEN SubSeq(reply, 4, Len(reply)) ELSE reply
      last == sizeScan(body)[Len(body)]
  IN  IF last.phase \in {"digits", "after"} THEN Success(last.value) ELSE Failure

\* Mutant: the last digit is not looked at.
byteOverflowsLate(number, digit) == number > MaxByte \div 10

byteOverflows(number, digit) ==
  number > MaxByte \div 10 \/ (number = MaxByte \div 10 /\ digit > MaxByte % 10)

\* parts are the fields that are complete; digits says whether the next one
\* has begun; phase is "open", "done" or "bad".
pasvCharacter(scan, ch) ==
  CASE scan.phase # "open" -> scan
    [] scan.phase = "open" /\ ch \in Blanks -> scan
    [] scan.phase = "open" /\ ch \in Digits /\ ~byteOverflows(scan.value, digitOf[ch]) ->
         [scan EXCEPT !.value = 10 * @ + digitOf[ch], !.digits = TRUE]
    [] scan.phase = "open" /\ ch \in {",", ")"} /\ scan.digits ->
         [parts  |-> Append(scan.parts, scan.value), value |-> 0, digits |-> FALSE,
          phase  |-> IF ch = ")" \/ Len(scan.parts) + 1 = Parts THEN "done" ELSE "open"]
    [] OTHER -> [scan EXCEPT !.phase = "bad"]

pasvScan(text) ==
  LET scan[i \in 0..Len(text)] ==
        IF i = 0 THEN [parts |-> <<>>, value |-> 0, digits |-> FALSE, phase |-> "open"]
        ELSE pasvCharacter(scan[i - 1], text[i])
  IN  scan

Openings(text) == {i \in 1..Len(text) : text[i] = "("}
Opening(text)  == Min(Openings(text))
Port(high, low) == high * (MaxByte + 1) + low

\* The port, from the last two fields.
parsePasv(response) ==
  LET fields == SubSeq(response, Opening(response) + 1, Len(response))
      last   == pasvScan(fields)[Len(fields)]
      port   == Port(last.parts[Parts - 1], last.parts[Parts])
  IN  IF Openings(response) # {} /\ last.phase = "done" /\ Len(last.parts) = Parts /\ port # 0
      THEN Success(port) ELSE Failure

-----------------------------------------------------------------------------
(***************************************************************************)
(* What the replies say                                                    *)
(***************************************************************************)

\* The number written in the digits of text at the places D, and what of it
\* is written up to each place.
writtenUpTo(text, D) ==
  LET number[i \in 0..Len(text)] ==
        IF i = 0 THEN 0
        ELSE IF i \in D THEN 10 * number[i - 1] + digitOf[text[i]]
        ELSE number[i - 1]
  IN  number

Written(text, D) == writtenUpTo(text, D)[Len(text)]

DigitsIn(text, from, to) == {i \in from..to : text[i] \in Digits}

\* After the code one unbroken number, small enough, and blanks.
SaysSize(text) ==
  LET D == DigitsIn(text, 4, Len(text))
  IN  IF /\ D # {} /\ \A i, k \in D : i..k \subseteq D
         /\ \A i \in (4..Len(text)) \ D : text[i] \in Blanks
         /\ Written(text, D) <= MaxSize
      THEN Success(Written(text, D)) ELSE Failure

\* The fields that end behind the first parenthesis, the kth up to End(text, k).
Ends(text)        == {i \in (Opening(text) + 1)..Len(text) : text[i] \in {",", ")"}}
EndsUpTo(text, m) == {i \in Ends(text) : i <= m}
End(text, k) ==
  IF k = 0 THEN Opening(text) ELSE CHOOSE i \in Ends(text) : Cardinality(EndsUpTo(text, i)) = k
Field(text, k) == DigitsIn(text, End(text, k - 1) + 1, End(text, k) - 1)
Byte(text, k)  == Written(text, Field(text, k))

\* They are Parts bytes, all but the last one ended by a comma.
SaysBytes(text) ==
  /\ Cardinality(Ends(text)) >= Parts
  /\ \A k \in 1..(Parts - 1) : text[End(text, k)] = ","
  /\ \A i \in (Opening(text) + 1)..End(text, Parts) :
       i \in Ends(text) \/ text[i] \in Digits \cup Blanks
  /\ \A k \in 1..Parts : Field(text, k) # {} /\ Byte(text, k) <= MaxByte

SaysPort(text) ==
  IF Openings(text) # {} /\ SaysBytes(text) /\ Byte(text, Parts - 1) + Byte(text, Parts) > 0
  THEN Success(Port(Byte(text, Parts - 1), Byte(text, Parts))) ELSE Failure

-----------------------------------------------------------------------------
\* A call of ftpReadResponse returns with the end of a reply, no line earlier
\* and no line later, and with that reply's code, whether the reply has one
\* line or many, and also when what it reads first is what the drain has left:
\* as long as no line of a torn reply could be mistaken for one of its own.
ReadsWholeReply ==
  torn # "misread" =>
    /\ result = Reading => part # "none"
    /\ result >= 0 => part = "none" /\ result = NumberOf(code)

\* What the review of the code holds for fixed: that after the drain, whatever
\* it has left, the next reply the client takes is one the server has sent.
DrainKeepsInStep == result >= 0 => part = "none" /\ result = NumberOf(code)

\* The size the parser finds is the one the server wrote, and a number that
\* does not fit size_t is refused; the reply must fit the buffer.
SizeIsAsWritten ==
  result >= 0 /\ torn # "misread" /\ Len(line) < BufLen =>
    parseSizeReplyBytes(buf) = SaysSize(line)

\* The port the parser finds is the one the server wrote, and if the reply
\* was cut off to fit the buffer it is that or none.
PortIsAsWritten ==
  result >= 0 /\ torn # "misread" =>
    \/ parsePasv(buf) = SaysPort(line)
    \/ Len(line) >= BufLen /\ parsePasv(buf) = Failure
=============================================================================
