----------------------- MODULE FtpsConversationProofs -----------------------
(***************************************************************************)
(* The conversation on the control channel stays in step: whatever calls   *)
(* are made, every phase finds unread exactly the replies it is going to   *)
(* read, for as long as no final reply was given up.                       *)
(***************************************************************************)
EXTENDS FtpsRefinementProofs

\* The phases that begin with nothing unread.
AuthPhases  == {"auth-ssl", "control-tls", "tls-refused"}
Quiet(phase) == phase \notin {"banner"} \cup AuthPhases \cup DataPhases

Conversation == late \in Nat /\ InStep

-----------------------------------------------------------------------------
(***************************************************************************)
(* Replies                                                                 *)
(***************************************************************************)
LEMMA AnswersAreReplies ==
  ASSUME NEW tag \in Tags, NEW r \in Answers[tag]
  PROVE  r \in Reply /\ r # Lost
<1>1. r \in Reply
  BY AnswersAssumption
<1>2. r.code \in 100..599
  BY <1>1 DEF Reply
<1>3. Lost.code = -1
  BY DEF Lost
<1>4. QED
  BY <1>1, <1>2, <1>3

LEMMA LostCode == Lost.code = -1
BY DEF Lost

\* Reading when one reply is on its way.
LEMMA ReadOne ==
  ASSUME NEW tag \in Tags, peer = "up", NEW got \in ReadResponse(<<tag>>)
  PROVE  \/ /\ got.reply = Lost
            /\ tag \notin TransferVerbs => got.rest \in {<<tag>>, <<>>, <<"TORN">>}
         \/ /\ got.reply \in Answers[tag]
            /\ got.rest = IF Preliminary(got.reply) /\ tag \in TransferVerbs THEN <<"FINAL">> ELSE <<>>
<1>1. Head(<<tag>>) = tag /\ Tail(<<tag>>) = <<>> /\ <<tag>> # <<>>
  OBVIOUS
<1>2. <<"FINAL">> \o <<>> = <<"FINAL">> /\ <<"TORN">> \o <<>> = <<"TORN">>
  OBVIOUS
<1>3. ASSUME NEW r
      PROVE  Rest(<<tag>>, r) = IF Preliminary(r) /\ tag \in TransferVerbs THEN <<"FINAL">> ELSE <<>>
  BY <1>1, <1>2 DEF Rest
<1>4. QED
  BY <1>1, <1>2, <1>3, ReadCases

\* Sending a command when nothing is on its way.
LEMMA SendWhenQuiet ==
  ASSUME NEW verb \in Verbs, owed = <<>>, peer = "up", NEW got \in SendCommand(verb)
  PROVE  \/ /\ got.reply = Lost
            /\ verb \notin TransferVerbs => got.rest \in {<<>>, <<verb>>, <<"TORN">>}
         \/ /\ got.reply \in Answers[verb]
            /\ got.rest = IF Preliminary(got.reply) /\ verb \in TransferVerbs THEN <<"FINAL">> ELSE <<>>
<1>1. Append(owed, verb) = <<verb>>
  OBVIOUS
<1>2. CASE got = [reply |-> Lost, rest |-> owed]
  BY <1>2
<1>3. CASE got \in ReadResponse(<<verb>>)
  BY <1>3, ReadOne DEF Tags
<1>4. QED
  BY <1>1, <1>2, <1>3 DEF SendCommand

-----------------------------------------------------------------------------
(***************************************************************************)
(* Moves                                                                   *)
(***************************************************************************)
LEMMA Expectations ==
  /\ pc = "banner" => expected = {<<"BANNER">>}
  /\ pc \in AuthPhases => expected = {<<>>, <<"TORN">>, <<"AUTH TLS">>, <<"AUTH SSL">>}
  /\ pc \in DataPhases => expected = {<<"FINAL">>, <<"ABORT">>}
  /\ Quiet(pc) => expected = {<<>>}
BY DEF Quiet, expected, AuthPhases, DataPhases

LEMMA NextExpectations ==
  /\ pc' = "banner" => expected' = {<<"BANNER">>}
  /\ pc' \in AuthPhases => expected' = {<<>>, <<"TORN">>, <<"AUTH TLS">>, <<"AUTH SSL">>}
  /\ pc' \in DataPhases => expected' = {<<"FINAL">>, <<"ABORT">>}
  /\ Quiet(pc)' => expected' = {<<>>}
BY DEF Quiet, expected, AuthPhases, DataPhases

LEMMA QuietExpected ==
  /\ Quiet(pc) => expected = {<<>>}
  /\ Quiet(pc)' => expected' = {<<>>}
BY Expectations, NextExpectations

\* The connection is closed.
LEMMA DisconnectedInStep ==
  ASSUME Conversation, Disconnected PROVE Conversation'
BY DEF Conversation, InStep, Disconnected

\* Nothing is said, and the phases expect the same.
LEMMA SilentInStep ==
  ASSUME Conversation, UNCHANGED replyVars, Quiet(pc), Quiet(pc)' PROVE Conversation'
<1>1. UNCHANGED <<owed, peer, late>>
  BY DEF replyVars
<1>2. QED
  BY <1>1, QuietExpected DEF Conversation, InStep

\* A command whose reply is final is answered.
LEMMA AnsweredInStep ==
  ASSUME Conversation, Quiet(pc), Quiet(pc)', NEW verb \in Verbs,
         NEW got \in SendCommand(verb), got.reply # Lost, Heard(got),
         verb \in TransferVerbs /\ late = 0 /\ peer = "up" => ~Preliminary(got.reply)
  PROVE  Conversation'
<1> SUFFICES ASSUME late = 0, peer = "up" PROVE Conversation'
  BY DEF Conversation, InStep, Heard
<1>1. owed = <<>>
  BY QuietExpected DEF Conversation, InStep
<1>2. /\ got.reply \in Answers[verb]
      /\ got.rest = IF Preliminary(got.reply) /\ verb \in TransferVerbs THEN <<"FINAL">> ELSE <<>>
  BY <1>1, SendWhenQuiet
<1>3. owed' = <<>>
  BY <1>2 DEF Heard
<1>4. QED
  BY <1>3, QuietExpected DEF Conversation, InStep, Heard

\* The connection is closed, or nothing is said.
LEMMA ClosedOrSilentInStep ==
  ASSUME Conversation, Quiet(pc), Quiet(pc)', Disconnected \/ UNCHANGED replyVars
  PROVE  Conversation'
BY DisconnectedInStep, SilentInStep

LEMMA HangUpInStep ==
  ASSUME Conversation, HangUp PROVE Conversation'
BY DisconnectedInStep DEF HangUp

LEMMA FailuresInStep ==
  ASSUME Conversation, NEW e, failAndDisconnect(e) \/ connectFails(e) PROVE Conversation'
BY HangUpInStep DEF failAndDisconnect, connectFails

-----------------------------------------------------------------------------
(***************************************************************************)
(* The calls                                                               *)
(***************************************************************************)
LEMMA EntersQuiet ==
  ASSUME pc = "idle", pc' \in {"idle", "tcp-open", "exchange", "quit", "pasv"}
  PROVE  Quiet(pc) /\ Quiet(pc)'
BY DEF Quiet, AuthPhases, DataPhases

LEMMA EnterConnectInStep ==
  ASSUME Conversation, pc = "idle", NEW cfg, NEW closed, enterConnect(cfg, closed)
  PROVE  Conversation'
<1>1. pc' \in {"idle", "tcp-open"}
  BY DEF enterConnect, Goto, Return
<1>2. Disconnected \/ UNCHANGED replyVars
  BY DEF enterConnect, HangUp
<1>3. QED
  BY <1>1, <1>2, EntersQuiet, ClosedOrSilentInStep

LEMMA ReconnectInStep ==
  ASSUME Conversation, pc = "idle", reconnect PROVE Conversation'
<1>1. CASE UNCHANGED replyVars /\ pc' = "idle"
  BY <1>1, EntersQuiet, ClosedOrSilentInStep
<1>2. CASE enterConnect(fresh, TRUE)
  BY <1>2, EnterConnectInStep
<1>3. QED
  BY <1>1, <1>2 DEF reconnect, Return

LEMMA CallInStep ==
  ASSUME Conversation, Call PROVE Conversation'
<1>1. CASE begin
  <2>1. pc = "idle" /\ pc' = "idle" /\ (Disconnected \/ UNCHANGED replyVars)
    BY <1>1 DEF begin, Enter, Return
  <2>2. QED
    BY <2>1, EntersQuiet, ClosedOrSilentInStep
<1>2. CASE callQuit
  <2>1. pc = "idle" /\ pc' \in {"idle", "quit"} /\ (Disconnected \/ UNCHANGED replyVars)
    BY <1>2 DEF callQuit, Enter, Goto, Return, HangUp
  <2>2. QED
    BY <2>1, EntersQuiet, ClosedOrSilentInStep
<1>3. CASE setReconnectBetweenStores
  BY <1>3, EntersQuiet, ClosedOrSilentInStep DEF setReconnectBetweenStores
<1>4. CASE callConnect
  <2>1. pc = "idle"
    BY <1>4 DEF callConnect, Enter
  <2>2. CASE begun
    BY <1>4, <2>1, <2>2, EnterConnectInStep DEF callConnect
  <2>3. CASE ~begun
    <3>1. pc' = "idle" /\ UNCHANGED replyVars
      BY <1>4, <2>3 DEF callConnect, Return
    <3>2. QED
      BY <2>1, <3>1, EntersQuiet, ClosedOrSilentInStep
  <2>4. QED
    BY <2>2, <2>3
<1>5. CASE callReconnect
  <2>1. pc = "idle"
    BY <1>5 DEF callReconnect, Enter
  <2>2. CASE begun
    BY <1>5, <2>1, <2>2, ReconnectInStep DEF callReconnect
  <2>3. CASE ~begun
    <3>1. pc' = "idle" /\ UNCHANGED replyVars
      BY <1>5, <2>3 DEF callReconnect, Return
    <3>2. QED
      BY <2>1, <3>1, EntersQuiet, ClosedOrSilentInStep
  <2>4. QED
    BY <2>2, <2>3
<1>6. ASSUME NEW call, NEW badArgument, callExchange(call, badArgument) PROVE Conversation'
  <2>1. pc = "idle" /\ pc' \in {"idle", "exchange"} /\ UNCHANGED replyVars
    BY <1>6 DEF callExchange, Enter, Goto, Return
  <2>2. QED
    BY <2>1, EntersQuiet, ClosedOrSilentInStep
<1>7. CASE callStore
  <2>1. pc = "idle"
    BY <1>7 DEF callStore, Enter
  <2>2. CASE Ready /\ reconnectBetweenStores /\ storesSinceConnect > 0
    BY <1>7, <2>1, <2>2, ReconnectInStep DEF callStore
  <2>3. CASE ~(Ready /\ reconnectBetweenStores /\ storesSinceConnect > 0)
    <3>1. pc' \in {"idle", "pasv"} /\ UNCHANGED replyVars
      BY <1>7, <2>3 DEF callStore, storeArguments, Goto, Return
    <3>2. QED
      BY <2>1, <3>1, EntersQuiet, ClosedOrSilentInStep
  <2>4. QED
    BY <2>2, <2>3
<1>8. ASSUME NEW call, NEW badArgument, callDownload(call, badArgument) PROVE Conversation'
  <2>1. pc = "idle" /\ pc' \in {"idle", "pasv"} /\ UNCHANGED replyVars
    BY <1>8 DEF callDownload, Enter, Goto, Return
  <2>2. QED
    BY <2>1, EntersQuiet, ClosedOrSilentInStep
<1>9. QED
  BY <1>1, <1>2, <1>3, <1>4, <1>5, <1>6, <1>7, <1>8 DEF Call

-----------------------------------------------------------------------------
(***************************************************************************)
(* The steps of connect()                                                  *)
(***************************************************************************)
\* What is to be shown of a step on a connection the server still serves.
LEMMA InStepSuffices ==
  ASSUME Conversation, UNCHANGED <<peer, late>>, late = 0 /\ peer = "up" => owed' \in expected'
  PROVE  Conversation'
BY DEF Conversation, InStep

LEMMA ConnectTcpOpenInStep ==
  ASSUME Conversation, connectTcpOpen PROVE Conversation'
<1>1. CASE Greeted /\ pc' = "banner"
  <2>1. expected' = {<<"BANNER">>}
    BY <1>1, NextExpectations
  <2>2. QED
    BY <1>1, <2>1 DEF Greeted, Conversation, InStep
<1>2. CASE UNCHANGED replyVars /\ pc' = "idle"
  <2>1. Quiet(pc) /\ Quiet(pc)'
    BY <1>2 DEF connectTcpOpen, ConnectStep, Quiet, AuthPhases, DataPhases
  <2>2. QED
    BY <1>2, <2>1, SilentInStep
<1>3. QED
  BY <1>1, <1>2 DEF connectTcpOpen, Goto, Return

LEMMA ConnectBannerInStep ==
  ASSUME Conversation, connectBanner PROVE Conversation'
<1>1. pc = "banner"
  BY DEF connectBanner, ConnectStep
<1>2. PICK got \in ReadResponse(owed) :
        IF got.reply.code = 220
        THEN Heard(got) /\ Goto("auth-tls") /\ UNCHANGED <<transportVars, connected, uploads, stale>>
        ELSE connectFails("BannerReadFailed")
  BY DEF connectBanner
<1>3. CASE connectFails("BannerReadFailed")
  BY <1>3, FailuresInStep
<1>4. CASE got.reply.code = 220 /\ Heard(got) /\ pc' = "auth-tls"
  <2>1. UNCHANGED <<peer, late>> /\ owed' = got.rest
    BY <1>4 DEF Heard
  <2>2. ASSUME late = 0, peer = "up" PROVE owed' \in expected'
    <3>1. expected = {<<"BANNER">>} /\ expected' = {<<>>}
      BY <1>1, <1>4 DEF expected, DataPhases
    <3>2. owed = <<"BANNER">>
      BY <2>2, <3>1 DEF Conversation, InStep
    <3>3. got.reply # Lost
      BY <1>4 DEF Lost
    <3>4. got.rest = <<>>
      BY <1>2, <2>2, <3>2, <3>3, ReadOne DEF Tags, TransferVerbs
    <3>5. QED
      BY <2>1, <3>1, <3>4
  <2>3. QED
    BY <2>1, <2>2, InStepSuffices
<1>5. QED
  BY <1>2, <1>3, <1>4 DEF Goto

\* Sending a command when the reply to an earlier one is still on its way.
LEMMA SendBehindOne ==
  ASSUME NEW tag \in Tags \ TransferVerbs, NEW verb \in Verbs, owed = <<tag>>, peer = "up",
         NEW got \in SendCommand(verb), got.reply # Lost
  PROVE  got.rest = <<verb>>
<1> DEFINE queue == Append(owed, verb)
<1>1. Head(queue) = tag /\ Tail(queue) = <<verb>> /\ queue # <<>>
  <2>1. owed \in Seq(Tags) /\ verb \in Tags /\ owed # <<>>
    BY DEF Tags
  <2>2. Head(owed) = tag /\ Append(Tail(owed), verb) = <<verb>>
    OBVIOUS
  <2>3. queue # <<>>
    BY <2>1, AppendProperties
  <2>4. /\ Head(queue) = IF owed = <<>> THEN verb ELSE Head(owed)
        /\ Tail(queue) = IF owed = <<>> THEN <<>> ELSE Append(Tail(owed), verb)
    BY <2>1, HeadTailAppend
  <2> HIDE DEF queue
  <2>5. QED
    BY <2>1, <2>2, <2>3, <2>4
<1>2. got \in ReadResponse(queue)
  <2> HIDE DEF queue
  <2>1. (IF peer = "up" THEN queue ELSE owed) = queue
    OBVIOUS
  <2>2. SendCommand(verb) = {[reply |-> Lost, rest |-> owed]} \cup ReadResponse(queue)
    BY <2>1 DEF SendCommand, queue
  <2>3. QED
    BY <2>2
<1> HIDE DEF queue
<1>3. got.rest = Rest(queue, got.reply)
  BY <1>1, <1>2, ReadCases
<1>4. QED
  BY <1>1, <1>3 DEF Rest

\* The replies that an exchange of AUTH may leave unread.
LEMMA AuthLeaves ==
  ASSUME Conversation, pc \in {"auth-tls", "auth-ssl"}, late = 0, peer = "up",
         NEW got \in SendCommand(IF pc = "auth-tls" THEN "AUTH TLS" ELSE "AUTH SSL"),
         pc = "auth-ssl" => got.reply # Lost
  PROVE  got.rest \in {<<>>, <<"TORN">>, <<"AUTH TLS">>, <<"AUTH SSL">>}
<1>1. CASE pc = "auth-tls"
  <2>1. owed = <<>>
    BY <1>1 DEF Conversation, InStep, expected, DataPhases
  <2>2. got \in SendCommand("AUTH TLS")
    BY <1>1
  <2>3. CASE got.reply = Lost
    <3>1. got.rest \in {<<>>, <<"TORN">>, <<"AUTH TLS">>}
      BY <2>1, <2>2, <2>3, SendWhenQuiet, AnswersAreReplies DEF Verbs, Tags, TransferVerbs
    <3>2. QED
      BY <3>1
  <2>4. CASE got.reply # Lost
    BY <2>1, <2>2, <2>4, SendWhenQuiet DEF Verbs, TransferVerbs
  <2>5. QED
    BY <2>3, <2>4
<1>2. CASE pc = "auth-ssl"
  <2>1. owed \in {<<>>, <<"TORN">>, <<"AUTH TLS">>, <<"AUTH SSL">>}
    BY <1>2, Expectations DEF Conversation, InStep, AuthPhases
  <2>2. got \in SendCommand("AUTH SSL") /\ got.reply # Lost
    BY <1>2
  <2>3. CASE owed = <<>>
    BY <2>2, <2>3, SendWhenQuiet DEF Verbs, TransferVerbs
  <2>4. ASSUME NEW tag \in {"TORN", "AUTH TLS", "AUTH SSL"}, owed = <<tag>>
        PROVE  got.rest \in {<<>>, <<"TORN">>, <<"AUTH TLS">>, <<"AUTH SSL">>}
    <3>1. got.rest = <<"AUTH SSL">>
      BY <2>2, <2>4, SendBehindOne DEF Tags, Verbs, TransferVerbs
    <3>2. QED
      BY <3>1
  <2>5. QED
    BY <2>1, <2>3, <2>4
<1>3. QED
  BY <1>1, <1>2

\* A command of the login sequence is answered as it wants, or connect() fails.
LEMMA ExchangeOutcome ==
  ASSUME NEW phase, NEW verb, NEW after, NEW e, DOMAIN after \subseteq Nat,
         connectExchange(phase, verb, after, e)
  PROVE  \/ connectFails(e)
         \/ \E got \in SendCommand(verb) :
              /\ got.reply # Lost
              /\ Heard(got)
              /\ \E c \in DOMAIN after : pc' = after[c]
<1>1. PICK got \in SendCommand(verb) :
        IF got.reply.code \in DOMAIN after THEN Heard(got) /\ pc' = after[got.reply.code]
        ELSE connectFails(e)
  BY DEF connectExchange, Goto
<1>2. CASE got.reply.code \in DOMAIN after
  <2>1. Lost.code \notin Nat
    BY LostCode
  <2>2. QED
    BY <1>1, <1>2, <2>1
<1>3. QED
  BY <1>1, <1>2

LEMMA ConnectAuthInStep ==
  ASSUME Conversation, connectAuthTls \/ connectAuthSsl PROVE Conversation'
<1>1. ASSUME NEW got, Heard(got), pc' \in AuthPhases,
             late = 0 /\ peer = "up" => got.rest \in {<<>>, <<"TORN">>, <<"AUTH TLS">>, <<"AUTH SSL">>}
      PROVE  Conversation'
  <2>1. expected' = {<<>>, <<"TORN">>, <<"AUTH TLS">>, <<"AUTH SSL">>}
    BY <1>1, NextExpectations
  <2>2. QED
    BY <1>1, <2>1, InStepSuffices DEF Heard
<1>2. CASE connectAuthTls
  <2>1. pc = "auth-tls"
    BY <1>2 DEF connectAuthTls, ConnectStep
  <2>2. PICK got \in SendCommand("AUTH TLS") : Heard(got) /\ pc' \in {"control-tls", "auth-ssl"}
    BY <1>2 DEF connectAuthTls, Goto
  <2>3. late = 0 /\ peer = "up" => got.rest \in {<<>>, <<"TORN">>, <<"AUTH TLS">>, <<"AUTH SSL">>}
    BY <2>1, <2>2, AuthLeaves
  <2>4. QED
    BY <1>1, <2>2, <2>3 DEF AuthPhases
<1>3. CASE connectAuthSsl
  <2>1. pc = "auth-ssl"
    BY <1>3 DEF connectAuthSsl, connectExchange, ConnectStep
  <2>2. CASE connectFails("AuthTlsRejected")
    BY <2>2, FailuresInStep
  <2>3. ASSUME NEW verb, verb = "AUTH SSL", NEW got \in SendCommand(verb),
               got.reply # Lost, Heard(got), pc' = "control-tls"
        PROVE  Conversation'
    <3>1. got \in SendCommand(IF pc = "auth-tls" THEN "AUTH TLS" ELSE "AUTH SSL")
      BY <2>1, <2>3
    <3>2. late = 0 /\ peer = "up" => got.rest \in {<<>>, <<"TORN">>, <<"AUTH TLS">>, <<"AUTH SSL">>}
      BY <2>1, <2>3, <3>1, AuthLeaves
    <3>3. QED
      BY <1>1, <2>3, <3>2 DEF AuthPhases
  <2>4. QED
    <3> DEFINE after == [c \in {234} |-> "control-tls"]
    <3>1. connectExchange("auth-ssl", "AUTH SSL", after, "AuthTlsRejected")
      BY <1>3 DEF connectAuthSsl
    <3>2. DOMAIN after \subseteq Nat /\ \A c \in DOMAIN after : after[c] = "control-tls"
      OBVIOUS
    <3> HIDE DEF after
    <3>3. QED
      BY <2>2, <2>3, <3>1, <3>2, ExchangeOutcome
<1>4. QED
  BY <1>2, <1>3

LEMMA ConnectControlTlsInStep ==
  ASSUME Conversation, connectControlTls PROVE Conversation'
<1>1. pc = "control-tls" /\ UNCHANGED <<owed, peer, late>>
  BY DEF connectControlTls, ConnectStep, replyVars
<1>2. CASE owed = <<>> /\ pc' = "pbsz"
  <2>1. expected' = {<<>>}
    BY <1>2 DEF expected, DataPhases
  <2>2. QED
    BY <1>1, <1>2, <2>1, InStepSuffices
<1>3. CASE pc' = "tls-refused"
  <2>1. expected' = expected
    BY <1>1, <1>3 DEF expected
  <2>2. QED
    BY <1>1, <2>1 DEF Conversation, InStep
<1>4. QED
  BY <1>2, <1>3 DEF connectControlTls, Goto

LEMMA ConnectExchangeInStep ==
  ASSUME Conversation, NEW phase, NEW verb \in Verbs \ TransferVerbs, NEW after, NEW e,
         DOMAIN after \subseteq Nat, phase \in {"pbsz", "prot-p", "user", "pass"},
         \A c \in DOMAIN after : after[c] \in {"prot-p", "user", "pass", "type-i"},
         connectExchange(phase, verb, after, e)
  PROVE  Conversation'
<1>1. CASE connectFails(e)
  BY <1>1, FailuresInStep
<1>2. ASSUME NEW got \in SendCommand(verb), got.reply # Lost, Heard(got),
             NEW c \in DOMAIN after, pc' = after[c]
      PROVE  Conversation'
  <2>1. pc = phase
    BY DEF connectExchange, ConnectStep
  <2>2. Quiet(pc) /\ Quiet(pc)'
    BY <1>2, <2>1 DEF Quiet, AuthPhases, DataPhases
  <2>3. QED
    BY <1>2, <2>2, AnsweredInStep
<1>3. QED
  BY <1>1, <1>2, ExchangeOutcome

LEMMA ConnectLoginInStep ==
  ASSUME Conversation, connectPbsz \/ connectProtP \/ connectUser \/ connectPass
  PROVE  Conversation'
<1>1. {"PBSZ", "PROT", "USER", "PASS"} \subseteq Verbs \ TransferVerbs
  BY DEF Verbs, TransferVerbs
<1>2. CASE connectPbsz
  BY <1>1, <1>2, ConnectExchangeInStep DEF connectPbsz
<1>3. CASE connectProtP
  BY <1>1, <1>3, ConnectExchangeInStep DEF connectProtP
<1>4. CASE connectUser
  BY <1>1, <1>4, ConnectExchangeInStep DEF connectUser
<1>5. CASE connectPass
  BY <1>1, <1>5, ConnectExchangeInStep DEF connectPass
<1>6. QED
  BY <1>2, <1>3, <1>4, <1>5

LEMMA ConnectTypeIInStep ==
  ASSUME Conversation, connectTypeI PROVE Conversation'
<1>1. pc = "type-i"
  BY DEF connectTypeI, ConnectStep
<1>2. PICK got \in SendCommand("TYPE") :
        \/ got.reply.code = 200 /\ Heard(got) /\ pc' \in {"idle", "pasv"}
        \/ connectFails("TypeRejected")
  BY DEF connectTypeI, Return
<1>3. CASE connectFails("TypeRejected")
  BY <1>3, FailuresInStep
<1>4. CASE got.reply.code = 200 /\ Heard(got) /\ pc' \in {"idle", "pasv"}
  <2>1. got.reply # Lost
    BY <1>4, LostCode
  <2>2. Quiet(pc) /\ Quiet(pc)'
    BY <1>1, <1>4 DEF Quiet, AuthPhases, DataPhases
  <2>3. "TYPE" \in Verbs \ TransferVerbs
    BY DEF Verbs, TransferVerbs
  <2>4. QED
    BY <1>2, <1>4, <2>1, <2>2, <2>3, AnsweredInStep
<1>5. QED
  BY <1>2, <1>3, <1>4

-----------------------------------------------------------------------------
(***************************************************************************)
(* The commands and the transfers                                          *)
(***************************************************************************)
LEMMA ExchangeInStep ==
  ASSUME Conversation, NEW call, NEW phase \in {"exchange", "rename-to"},
         NEW verb \in Verbs \ TransferVerbs, NEW accepted,
         NEW next \in {"idle", "rename-to"}, NEW refusal,
         exchange(call, phase, verb, accepted, next, refusal)
  PROVE  Conversation'
<1>1. pc = phase
  BY DEF exchange
<1>2. PICK got \in SendCommand(verb) :
        IF got.reply = Lost THEN failAndDisconnect("ConnectionFailed")
        ELSE Heard(got) /\ pc' \in {"idle", next}
  <2>1. PICK got \in SendCommand(verb) :
          IF got.reply = Lost THEN failAndDisconnect("ConnectionFailed")
          ELSE /\ Heard(got)
               /\ CASE got.reply \notin accepted                    -> Return(FALSE, refusal)
                    [] got.reply \in accepted /\ next = "idle"      -> Return(TRUE, "None")
                    [] got.reply \in accepted /\ next # "idle"      -> Goto(next)
    BY DEF exchange
  <2>2. QED
    BY <2>1 DEF Return, Goto
<1>3. CASE failAndDisconnect("ConnectionFailed")
  BY <1>3, FailuresInStep
<1>4. CASE got.reply # Lost /\ Heard(got) /\ pc' \in {"idle", next}
  <2>1. Quiet(pc) /\ Quiet(pc)'
    BY <1>1, <1>4 DEF Quiet, AuthPhases, DataPhases
  <2>2. QED
    BY <1>4, <2>1, AnsweredInStep
<1>5. QED
  BY <1>2, <1>3, <1>4

LEMMA ExchangesInStep ==
  ASSUME Conversation,
         mkd \/ size \/ dele \/ rmd \/ renameFrom \/ renameTo \/ isControlAlive
  PROVE  Conversation'
<1>1. {"MKD", "SIZE", "DELE", "RMD", "RNFR", "RNTO", "NOOP"} \subseteq Verbs \ TransferVerbs
  BY DEF Verbs, TransferVerbs
<1>2. QED
  BY <1>1, ExchangeInStep DEF mkd, size, dele, rmd, renameFrom, renameTo, isControlAlive

LEMMA PasvInStep ==
  ASSUME Conversation, pasv PROVE Conversation'
<1>1. pc = "pasv"
  BY DEF pasv, TransferStep
<1>2. PICK got \in SendCommand("PASV") :
        IF got.reply = Lost THEN failAndDisconnect("ConnectionFailed")
        ELSE Heard(got) /\ pc' \in {"idle", "data-open"}
  BY DEF pasv, Return, Goto
<1>3. CASE failAndDisconnect("ConnectionFailed")
  BY <1>3, FailuresInStep
<1>4. CASE got.reply # Lost /\ Heard(got) /\ pc' \in {"idle", "data-open"}
  <2>1. Quiet(pc) /\ Quiet(pc)'
    BY <1>1, <1>4 DEF Quiet, AuthPhases, DataPhases
  <2>2. "PASV" \in Verbs \ TransferVerbs
    BY DEF Verbs, TransferVerbs
  <2>3. QED
    BY <1>4, <2>1, <2>2, AnsweredInStep
<1>5. QED
  BY <1>2, <1>3, <1>4

LEMMA TransferCommandInStep ==
  ASSUME Conversation, StandardAnswers, NEW phase \in {"command", "list"},
         NEW verb \in TransferVerbs, NEW refusal, transferCommand(phase, verb, refusal)
  PROVE  Conversation'
<1>1. pc = phase
  BY DEF transferCommand, TransferStep
<1>2. PICK got \in SendCommand(verb) :
        \/ failAndDisconnect("ConnectionFailed")
        \/ /\ got.reply # Lost
           /\ Heard(got)
           /\ IF got.reply.code \in {125, 150} THEN pc' = "data-tls" ELSE pc' \in {"list", "idle"}
  <2>1. PICK got \in SendCommand(verb) :
          \/ failAndDisconnect("ConnectionFailed")
          \/ got.reply.code \in {125, 150} /\ Heard(got) /\ pc' = "data-tls"
          \/ /\ got.reply # Lost /\ got.reply.code \notin {125, 150}
             /\ Heard(got) /\ pc' \in {"list", "idle"}
    BY DEF transferCommand, Return, Goto
  <2>2. got.reply.code \in {125, 150} => got.reply # Lost
    BY LostCode
  <2>3. QED
    BY <2>1, <2>2
<1>3. CASE failAndDisconnect("ConnectionFailed")
  BY <1>3, FailuresInStep
<1>4. CASE got.reply # Lost /\ Heard(got) /\ got.reply.code \in {125, 150} /\ pc' = "data-tls"
  <2>1. ASSUME late = 0, peer = "up" PROVE owed' \in expected'
    <3>1. owed = <<>>
      BY <1>1, <2>1, Expectations DEF Conversation, InStep, Quiet, AuthPhases, DataPhases
    <3>2. got.rest = IF Preliminary(got.reply) THEN <<"FINAL">> ELSE <<>>
      BY <1>4, <2>1, <3>1, SendWhenQuiet DEF TransferVerbs, Verbs
    <3>3. Preliminary(got.reply)
      BY <1>4 DEF Preliminary
    <3>4. QED
      BY <1>4, <3>2, <3>3, NextExpectations DEF Heard, DataPhases
  <2>2. QED
    BY <1>4, <2>1, InStepSuffices DEF Heard
<1>5. CASE got.reply # Lost /\ Heard(got) /\ got.reply.code \notin {125, 150} /\ pc' \in {"list", "idle"}
  <2>1. Quiet(pc) /\ Quiet(pc)'
    BY <1>1, <1>5 DEF Quiet, AuthPhases, DataPhases
  <2>2. verb \in Verbs
    BY DEF TransferVerbs, Verbs
  <2>3. ASSUME late = 0, peer = "up" PROVE ~Preliminary(got.reply)
    <3>1. owed = <<>>
      BY <2>1, <2>3, QuietExpected DEF Conversation, InStep
    <3>2. got.reply \in Answers[verb]
      BY <1>5, <2>2, <2>3, <3>1, SendWhenQuiet
    <3>3. QED
      BY <1>5, <3>2 DEF StandardAnswers
  <2>4. QED
    BY <1>5, <2>1, <2>2, <2>3, AnsweredInStep
<1>6. QED
  BY <1>2, <1>3, <1>4, <1>5

\* While data is moved, the reply that ends the transfer waits or changes.
LEMMA MovingInStep ==
  ASSUME Conversation, pc \in DataPhases, pc' \in DataPhases,
         UNCHANGED replyVars \/ ServerAborts
  PROVE  Conversation'
<1>1. UNCHANGED <<peer, late>> /\ (owed' = owed \/ owed' = <<"ABORT">>)
  BY DEF replyVars, ServerAborts
<1>2. late = 0 /\ peer = "up" => owed' \in expected'
  BY <1>1, Expectations, NextExpectations DEF Conversation, InStep
<1>3. QED
  BY <1>1, <1>2, InStepSuffices

LEMMA DataInStep ==
  ASSUME Conversation, transferTls \/ bufferFull \/ moveData \/ endOfData \/ dataError
  PROVE  Conversation'
<1> USE DEF TransferStep, Goto, LeaveData, DataPhases
<1>1. CASE transferTls
  BY <1>1, MovingInStep DEF transferTls
<1>2. CASE bufferFull
  BY <1>2, MovingInStep DEF bufferFull
<1>3. CASE moveData
  BY <1>3, MovingInStep DEF moveData
<1>4. CASE endOfData
  BY <1>4, MovingInStep DEF endOfData
<1>5. CASE dataError
  BY <1>5, MovingInStep DEF dataError
<1>6. QED
  BY <1>1, <1>2, <1>3, <1>4, <1>5

\* The reply that ends a transfer is its last.
LEMMA LastReply ==
  ASSUME Conversation, pc \in DataPhases, late = 0, peer = "up",
         NEW got \in ReadResponse(owed), got.reply # Lost
  PROVE  got.rest = <<>>
<1>1. PICK tag \in {"FINAL", "ABORT"} : owed = <<tag>>
  BY Expectations DEF Conversation, InStep
<1>2. tag \in Tags \ TransferVerbs
  BY DEF Tags, TransferVerbs
<1>3. QED
  BY <1>1, <1>2, ReadOne

LEMMA DrainInStep ==
  ASSUME Conversation, drain PROVE Conversation'
<1>1. pc \in DataPhases
  BY DEF drain, TransferStep, DataPhases
<1>2. expected' = {<<>>}
  BY NextExpectations DEF drain, Return, Quiet, AuthPhases, DataPhases
<1>3. PICK got \in ReadResponse(owed) :
        /\ owed' = got.rest
        /\ late' = IF got.reply = Lost /\ got.rest # <<>> THEN late + 1 ELSE late
        /\ UNCHANGED peer
  BY DEF drain, drainFinalTransferReply
<1>4. late \in Nat
  BY DEF Conversation
<1>5. late' \in Nat
  BY <1>3, <1>4
<1>6. ASSUME late' = 0, peer' = "up" PROVE owed' = <<>>
  <2>1. late = 0 /\ peer = "up"
    BY <1>3, <1>4, <1>6
  <2>2. CASE got.reply = Lost
    BY <1>3, <1>4, <1>6, <2>2
  <2>3. CASE got.reply # Lost
    BY <1>1, <1>3, <2>1, <2>3, LastReply
  <2>4. QED
    BY <2>2, <2>3
<1>7. QED
  BY <1>2, <1>5, <1>6 DEF Conversation, InStep

LEMMA FinalReplyInStep ==
  ASSUME Conversation, finalReply PROVE Conversation'
<1>1. pc \in DataPhases
  BY DEF finalReply, TransferStep, DataPhases
<1>2. PICK got \in ReadResponse(owed) :
        IF got.reply = Lost THEN failAndDisconnect("ConnectionFailed")
        ELSE Heard(got) /\ pc' = "idle"
  BY DEF finalReply, Return
<1>3. CASE failAndDisconnect("ConnectionFailed")
  BY <1>3, FailuresInStep
<1>4. CASE got.reply # Lost /\ Heard(got) /\ pc' = "idle"
  <2>1. expected' = {<<>>}
    BY <1>4, NextExpectations DEF Quiet, AuthPhases, DataPhases
  <2>2. late = 0 /\ peer = "up" => owed' \in expected'
    BY <1>1, <1>4, <2>1, LastReply DEF Heard
  <2>3. QED
    BY <1>4, <2>2, InStepSuffices DEF Heard
<1>5. QED
  BY <1>2, <1>3, <1>4

LEMMA StepInStep ==
  ASSUME Conversation, StandardAnswers, Step PROVE Conversation'
<1>1. CASE quit
  BY <1>1, HangUpInStep DEF quit
<1>2. CASE connectTcpOpen \/ connectBanner \/ connectAuthTls \/ connectAuthSsl
           \/ connectControlTls
  BY <1>2, ConnectTcpOpenInStep, ConnectBannerInStep, ConnectAuthInStep,
     ConnectControlTlsInStep
<1>3. CASE connectTlsRefused
  BY <1>3, FailuresInStep DEF connectTlsRefused
<1>4. CASE connectPbsz \/ connectProtP \/ connectUser \/ connectPass \/ connectTypeI
  BY <1>4, ConnectLoginInStep, ConnectTypeIInStep
<1>5. CASE mkd \/ size \/ dele \/ rmd \/ renameFrom \/ renameTo \/ isControlAlive
  BY <1>5, ExchangesInStep
<1>6. CASE pasv
  BY <1>6, PasvInStep
<1>7. CASE dataOpen
  <2>1. Quiet(pc) /\ Quiet(pc)'
    BY <1>7 DEF dataOpen, TransferStep, Goto, Return, Quiet, AuthPhases, DataPhases
  <2>2. QED
    BY <1>7, <2>1, SilentInStep DEF dataOpen
<1>8. CASE command \/ listCommand
  <2>1. verbOf(op) \in TransferVerbs /\ "LIST" \in TransferVerbs
    BY DEF verbOf, TransferVerbs
  <2>2. QED
    BY <1>8, <2>1, TransferCommandInStep DEF command, listCommand
<1>9. CASE transferTls \/ bufferFull \/ moveData \/ endOfData \/ dataError
  BY <1>9, DataInStep
<1>10. CASE drain \/ finalReply
  BY <1>10, DrainInStep, FinalReplyInStep
<1>11. QED
  BY <1>1, <1>2, <1>3, <1>4, <1>5, <1>6, <1>7, <1>8, <1>9, <1>10 DEF Step

-----------------------------------------------------------------------------
(***************************************************************************)
(* The invariant                                                           *)
(***************************************************************************)
LEMMA ConversationStart == Init => Conversation
BY DEF Init, ControlInit, Conversation, InStep

LEMMA ConversationStep ==
  ASSUME StandardAnswers PROVE Conversation /\ [Next]_vars => Conversation'
<1> SUFFICES ASSUME Conversation, [Next]_vars PROVE Conversation'
  OBVIOUS
<1>1. CASE Call
  BY <1>1, CallInStep
<1>2. CASE Step
  BY <1>2, StepInStep
<1>3. CASE serverLeaves
  BY <1>3 DEF serverLeaves, ServerLeaves, Conversation, InStep
<1>4. CASE UNCHANGED vars
  <2>1. UNCHANGED <<owed, peer, late, pc>>
    BY <1>4 DEF vars, replyVars
  <2>2. expected' = expected
    BY <2>1 DEF expected
  <2>3. QED
    BY <2>1, <2>2 DEF Conversation, InStep
<1>5. QED
  BY <1>1, <1>2, <1>3, <1>4 DEF Next

\* Every phase of every call finds unread exactly the replies it is going to
\* read: no failure of a call, whatever the server refuses or breaks off,
\* leaves a reply behind for the next, until a final reply is given up.
THEOREM ClientStaysInStep ==
  ASSUME StandardAnswers PROVE Spec => []InStep
<1>1. Conversation => InStep
  BY DEF Conversation
<1>2. Spec => []Conversation
  BY ConversationStart, ConversationStep, PTL DEF Spec
<1>3. QED
  BY <1>1, <1>2, PTL
=============================================================================
