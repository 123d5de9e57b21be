------------------------ MODULE FtpsRefinementProofs ------------------------
(***************************************************************************)
(* The contracts of the client.  Towards its transport: it drives it as    *)
(* FtpsTransport allows a caller to.  Towards itself: every variable of    *)
(* FtpsClient keeps its type.  Towards its application: it implements      *)
(* FtpsSession, and every channel it protects is protected with the peer   *)
(* the application trusts, as long as a malformed fingerprint does not     *)
(* happen to begin with that of a certificate: see                         *)
(* ReconnectUsesCachedConfiguration for what happens when it does.         *)
(***************************************************************************)
EXTENDS FtpsClientProofs, SequenceTheorems


-----------------------------------------------------------------------------
(***************************************************************************)
(* The configuration: only begin, connect and the two reconnects touch it  *)
(***************************************************************************)
ConfigTyped ==
  /\ active \in ActiveConfig
  /\ pin \in Pins
  /\ agreed \in Certs \cup {NoCa}

LEMMA ConfigStays ==
  ASSUME ConfigTyped, UNCHANGED configVars PROVE ConfigTyped'
BY DEF ConfigTyped, configVars

\* What a configuration may leave in the active one.
LEMMA ActivatedTyped ==
  ASSUME active \in ActiveConfig, NEW cfg, cfg.mode \in TrustModes,
         cfg.fault \in Faults, cfg.fault = "none" => cfg.trust \in Certs
  PROVE  activated(cfg) \in ActiveConfig
<1>1. Blank \in ActiveConfig /\ [Blank EXCEPT !.host = TRUE] \in ActiveConfig
  BY DEF Blank, ActiveConfig, TrustModes
<1>2. [host |-> TRUE, login |-> TRUE, mode |-> cfg.mode, ca |-> NoCa] \in ActiveConfig
  BY DEF ActiveConfig
<1>3. CASE cfg.fault \in EarlyFaults \cup {"malformed"}
  BY <1>3 DEF activated, EarlyFaults
<1>4. CASE cfg.fault \in LongFaults
  BY <1>1, <1>2, <1>4 DEF activated, EarlyFaults, LongFaults
<1>5. CASE cfg.fault = "none"
  <2>1. activated(cfg) = [host |-> TRUE, login |-> TRUE, mode |-> cfg.mode,
                          ca |-> IF cfg.mode = "ImportedCert" THEN cfg.trust ELSE NoCa]
    BY <1>5 DEF activated, EarlyFaults
  <2>2. QED
    BY <1>5, <2>1 DEF ActiveConfig
<1>6. QED
  BY <1>3, <1>4, <1>5 DEF Faults

LEMMA EnterConnectConfig ==
  ASSUME ConfigTyped, NEW cfg, NEW closed \in BOOLEAN,
         cfg.mode \in TrustModes, cfg.fault \in Faults, cfg.trust \in Pins,
         cfg.fault = "none" => cfg.trust \in Certs,
         ~closed /\ cfg.fault # "malformed" => cfg.trust \in Certs,
         enterConnect(cfg, closed)
  PROVE  ConfigTyped'
<1>1. active' \in ActiveConfig
  BY ActivatedTyped DEF enterConnect, ConfigTyped
<1>2. pin' \in Pins
  BY DEF enterConnect, ConfigTyped, Pins
<1>3. agreed' \in Certs \cup {NoCa}
  BY DEF enterConnect, ConfigTyped, LongFaults
<1>4. QED
  BY <1>1, <1>2, <1>3 DEF ConfigTyped

LEMMA ReconnectConfig ==
  ASSUME ConfigTyped, reconnect PROVE ConfigTyped'
<1>1. CASE UNCHANGED configVars
  BY <1>1, ConfigStays
<1>2. CASE enterConnect(fresh, TRUE)
  <2>1. fresh.mode \in TrustModes /\ fresh.trust \in Pins
    BY DEF fresh, ConfigTyped, ActiveConfig
  <2>2. fresh.fault \in Faults /\ (fresh.fault = "none" => fresh.trust \in Certs)
    BY DEF fresh, Faults, EarlyFaults
  <2>3. QED
    BY <1>2, <2>1, <2>2, EnterConnectConfig
<1>3. QED
  BY <1>1, <1>2 DEF reconnect

LEMMA ConfigStep ==
  ASSUME ConfigTyped, [Next]_vars PROVE ConfigTyped'
<1>1. CASE begin
  <2>1. UNCHANGED configVars \/ (active' = Blank /\ pin' = NoPin /\ agreed' = NoCa)
        \/ UNCHANGED <<configVars, connected>>
    BY <1>1 DEF begin
  <2>2. Blank \in ActiveConfig
    BY DEF Blank, ActiveConfig, TrustModes
  <2>3. QED
    BY <2>1, <2>2, ConfigStays DEF ConfigTyped, Pins
<1>2. CASE callConnect
  <2>1. CASE \E cfg \in Configs : enterConnect(cfg, FALSE)
    <3>1. PICK cfg \in Configs : enterConnect(cfg, FALSE)
      BY <2>1
    <3>2. WellFormed(cfg)
      BY ConfigsAssumption
    <3>3. QED
      BY <3>1, <3>2, EnterConnectConfig DEF WellFormed, Config
  <2>2. CASE UNCHANGED configVars
    BY <2>2, ConfigStays
  <2>3. QED
    BY <1>2, <2>1, <2>2 DEF callConnect
<1>3. CASE callReconnect \/ callStore
  BY <1>3, ReconnectConfig, ConfigStays DEF callReconnect, callStore
<1>4. CASE callQuit \/ setReconnectBetweenStores
           \/ \E call, badArgument : callExchange(call, badArgument) \/ callDownload(call, badArgument)
  BY <1>4, ConfigStays DEF callQuit, setReconnectBetweenStores, callExchange, callDownload
<1>5. CASE Step
  <2>1. CASE quit
    BY <2>1, ConfigStays DEF quit
  <2>2. CASE connectTcpOpen \/ connectBanner \/ connectAuthTls \/ connectAuthSsl
             \/ connectControlTls \/ connectTlsRefused \/ connectPbsz \/ connectProtP
             \/ connectUser \/ connectPass \/ connectTypeI
    <3>1. \E phase : ConnectStep(phase)
      BY <2>2 DEF connectTcpOpen, connectBanner, connectAuthTls, connectAuthSsl,
         connectControlTls, connectTlsRefused, connectPbsz, connectProtP, connectUser,
         connectPass, connectTypeI, connectExchange
    <3>2. QED
      BY <3>1, ConfigStays DEF ConnectStep
  <2>3. CASE mkd \/ size \/ dele \/ rmd \/ renameFrom \/ renameTo \/ isControlAlive
    BY <2>3, ConfigStays DEF mkd, size, dele, rmd, renameFrom, renameTo, isControlAlive, exchange
  <2>4. CASE pasv \/ dataOpen \/ command \/ listCommand \/ transferTls
             \/ bufferFull \/ moveData \/ endOfData \/ dataError \/ drain \/ finalReply
    <3>1. \E phase : TransferStep(phase)
      BY <2>4 DEF pasv, dataOpen, command, listCommand, transferCommand, transferTls,
         bufferFull, moveData, endOfData, dataError, drain, finalReply
    <3>2. QED
      BY <3>1, ConfigStays DEF TransferStep
  <2>5. QED
    BY <1>5, <2>1, <2>2, <2>3, <2>4 DEF Step
<1>6. CASE serverLeaves \/ UNCHANGED vars
  BY <1>6, ConfigStays DEF serverLeaves, vars
<1>7. QED
  BY <1>1, <1>2, <1>3, <1>4, <1>5, <1>6 DEF Next, Call

-----------------------------------------------------------------------------
(***************************************************************************)
(* The transport: every step of the client is one legal call, or none      *)
(***************************************************************************)
Drives == [TransportNext]_transportVars

LEMMA DrivesByClosing ==
  ASSUME closeAll \/ closeData \/ UNCHANGED transportVars PROVE Drives
BY DEF Drives, TransportNext

LEMMA DrivesByHangUp ==
  ASSUME NEW e, HangUp \/ failAndDisconnect(e) \/ connectFails(e) PROVE Drives
BY DrivesByClosing DEF HangUp, failAndDisconnect, connectFails

LEMMA DrivesByCall ==
  ASSUME Call PROVE Drives
<1>1. CASE begin
  BY <1>1 DEF begin, Drives, TransportNext
<1>2. ASSUME NEW cfg, NEW closed, enterConnect(cfg, closed) PROVE Drives
  BY <1>2, DrivesByHangUp, DrivesByClosing DEF enterConnect
<1>3. CASE callQuit
  BY <1>3, DrivesByHangUp, DrivesByClosing DEF callQuit
<1>4. CASE setReconnectBetweenStores
  BY <1>4, DrivesByClosing DEF setReconnectBetweenStores
<1>5. CASE callConnect
  BY <1>2, <1>5, DrivesByClosing DEF callConnect
<1>6. CASE callReconnect \/ callStore
  BY <1>2, <1>6, DrivesByClosing DEF callReconnect, callStore, reconnect
<1>7. CASE \E call, badArgument : callExchange(call, badArgument) \/ callDownload(call, badArgument)
  BY <1>7, DrivesByClosing DEF callExchange, callDownload
<1>8. QED
  BY <1>1, <1>3, <1>4, <1>5, <1>6, <1>7 DEF Call

\* What the client asks of a handshake is a proper request.
LEMMA SessionTlsTyped ==
  ASSUME ConfigTyped PROVE sessionTls \in TlsConfig
BY DEF ConfigTyped, sessionTls, TlsConfig, ActiveConfig, Pins

LEMMA DrivesByConnecting ==
  ASSUME ConfigTyped,
         connectTcpOpen \/ connectBanner \/ connectAuthTls \/ connectAuthSsl
         \/ connectControlTls \/ connectTlsRefused \/ connectPbsz \/ connectProtP
         \/ connectUser \/ connectPass \/ connectTypeI
  PROVE  Drives
<1>1. CASE connectTcpOpen
  BY <1>1 DEF connectTcpOpen, Drives, TransportNext
<1>2. CASE connectControlTls
  BY <1>2, SessionTlsTyped DEF connectControlTls, Drives, TransportNext
<1>3. CASE connectBanner \/ connectAuthTls \/ connectTlsRefused \/ connectTypeI
  BY <1>3, DrivesByHangUp, DrivesByClosing
  DEF connectBanner, connectAuthTls, connectTlsRefused, connectTypeI
<1>4. ASSUME NEW phase, NEW verb, NEW after, NEW e, connectExchange(phase, verb, after, e)
      PROVE  Drives
  BY <1>4, DrivesByHangUp, DrivesByClosing DEF connectExchange
<1>5. CASE connectAuthSsl \/ connectPbsz \/ connectProtP \/ connectUser \/ connectPass
  BY <1>4, <1>5 DEF connectAuthSsl, connectPbsz, connectProtP, connectUser, connectPass
<1>6. QED
  BY <1>1, <1>2, <1>3, <1>5

LEMMA DrivesByTransfer ==
  ASSUME Staged, ConfigTyped,
         pasv \/ dataOpen \/ command \/ listCommand \/ transferTls
         \/ bufferFull \/ moveData \/ endOfData \/ dataError \/ drain \/ finalReply
  PROVE  Drives
<1>1. CASE dataOpen
  BY <1>1 DEF dataOpen, Drives, TransportNext
<1>2. CASE transferTls
  <2>1. dataTls = NoTls
    BY <1>2 DEF transferTls, TransferStep, Staged, DataStaged, PlainDataPhases
  <2>2. QED
    BY <1>2, <2>1, SessionTlsTyped DEF transferTls, Drives, TransportNext
<1>3. CASE pasv \/ finalReply
  BY <1>3, DrivesByHangUp, DrivesByClosing DEF pasv, finalReply
<1>4. CASE command \/ listCommand
  <2>1. PICK phase, verb, refusal : transferCommand(phase, verb, refusal)
    BY <1>4 DEF command, listCommand
  <2>2. closeData \/ UNCHANGED transportVars \/ failAndDisconnect("ConnectionFailed")
    BY <2>1 DEF transferCommand
  <2>3. QED
    BY <2>2, DrivesByHangUp, DrivesByClosing
<1>5. CASE bufferFull \/ moveData \/ endOfData \/ dataError \/ drain
  BY <1>5, DrivesByClosing DEF bufferFull, moveData, endOfData, dataError, drain, LeaveData
<1>6. QED
  BY <1>1, <1>2, <1>3, <1>4, <1>5

LEMMA DrivesStep ==
  ASSUME Staged, ConfigTyped, [Next]_vars PROVE Drives
<1>1. CASE quit
  BY <1>1, DrivesByHangUp DEF quit
<1>2. CASE mkd \/ size \/ dele \/ rmd \/ renameFrom \/ renameTo \/ isControlAlive
  <2>1. ASSUME NEW call, NEW phase, NEW verb, NEW accepted, NEW next, NEW refusal,
               exchange(call, phase, verb, accepted, next, refusal)
        PROVE  Drives
    BY <2>1, DrivesByHangUp, DrivesByClosing DEF exchange
  <2>2. QED
    BY <1>2, <2>1 DEF mkd, size, dele, rmd, renameFrom, renameTo, isControlAlive
<1>3. CASE serverLeaves \/ UNCHANGED vars
  BY <1>3, DrivesByClosing DEF serverLeaves, vars
<1>4. QED
  BY <1>1, <1>2, <1>3, DrivesByCall, DrivesByConnecting, DrivesByTransfer DEF Next, Step

LEMMA ConfigStart == Init => ConfigTyped
BY DEF Init, ConfigTyped, Blank, ActiveConfig, TrustModes, Pins

\* Whatever the application calls, the transport sees a legal caller: one TCP
\* connect, one handshake or one teardown at a time, and never a second
\* handshake on a data connection, which would lose the first wrapper.
THEOREM ClientDrivesTransport == Spec => TransportSpec
<1>1. Init => ConfigTyped /\ Staged /\ TransportInit
  BY ConfigStart, StagedStart DEF Init
<1>2. ConfigTyped /\ Staged /\ [Next]_vars => ConfigTyped' /\ Staged'
  BY ConfigStep, StagedStep
<1>3. ConfigTyped /\ Staged /\ [Next]_vars => [TransportNext]_transportVars
  BY DrivesStep DEF Drives
<1>4. QED
  BY <1>1, <1>2, <1>3, PTL DEF Spec, TransportSpec

\* Nothing leaks in any phase of any call, not only between two calls.
THEOREM ClientLeaksNothing == Spec => [](NoLeak /\ FlagsAgree)
BY ClientDrivesTransport, TransportLeaksNothing, TransportFlagsAgree, PTL

-----------------------------------------------------------------------------
(***************************************************************************)
(* The conversation                                                        *)
(***************************************************************************)
\* What reading a reply comes to: the reply, or none, and then all of it is
\* still unread, or a part that is skipped or taken for a reply.
LEMMA ReadCases ==
  ASSUME NEW queue, NEW got \in ReadResponse(queue)
  PROVE  \/ /\ queue # <<>> /\ got.reply \in Answers[Head(queue)]
            /\ got.rest = Rest(queue, got.reply)
         \/ got.reply = Lost /\ peer # "up" /\ got.rest = <<>>
         \/ got.reply = Lost /\ peer = "up" /\ got.rest = queue
         \/ /\ got.reply = Lost /\ peer = "up" /\ queue # <<>>
            /\ \E r \in Answers[Head(queue)] :
                 got.rest \in {Rest(queue, r), <<"TORN">> \o Rest(queue, r)}
<1> DEFINE replies == IF queue = <<>> THEN {} ELSE Answers[Head(queue)]
           parted  == {Rest(queue, r) : r \in replies}
           missed  == {queue} \cup parted \cup {<<"TORN">> \o rest : rest \in parted}
<1>1. CASE \E r \in replies : got = [reply |-> r, rest |-> Rest(queue, r)]
  BY <1>1
<1>2. CASE \E rest \in IF peer = "up" THEN missed ELSE {<<>>} : got = [reply |-> Lost, rest |-> rest]
  <2>1. PICK rest \in IF peer = "up" THEN missed ELSE {<<>>} : got = [reply |-> Lost, rest |-> rest]
    BY <1>2
  <2>2. got.reply = Lost /\ got.rest = rest
    BY <2>1
  <2>3. CASE peer # "up"
    BY <2>1, <2>2, <2>3
  <2>4. CASE peer = "up"
    <3>1. rest = queue \/ rest \in parted \/ \E part \in parted : rest = <<"TORN">> \o part
      BY <2>1, <2>4
    <3>2. QED
      BY <2>2, <2>4, <3>1
  <2>5. QED
    BY <2>3, <2>4
<1>3. QED
  BY <1>1, <1>2 DEF ReadResponse

\* What is unread after a reply was read is made of what was unread before,
\* but for the reply that ends a transfer and what is left of a torn one.
LEMMA ReadTyped ==
  ASSUME NEW S, {"FINAL", "TORN"} \subseteq S, NEW queue \in Seq(S), NEW got \in ReadResponse(queue)
  PROVE  got.rest \in Seq(S)
<1>1. <<>> \in Seq(S) /\ <<"FINAL">> \in Seq(S) /\ <<"TORN">> \in Seq(S)
  OBVIOUS
<1>2. ASSUME queue # <<>>, NEW r PROVE Rest(queue, r) \in Seq(S)
  <2>1. Tail(queue) \in Seq(S)
    BY <1>2
  <2>2. <<"FINAL">> \o Tail(queue) \in Seq(S)
    BY <1>1, <2>1, ConcatProperties
  <2>3. QED
    BY <2>1, <2>2 DEF Rest
<1>3. ASSUME queue # <<>>, NEW r PROVE <<"TORN">> \o Rest(queue, r) \in Seq(S)
  BY <1>1, <1>2, <1>3, ConcatProperties
<1>4. QED
  BY <1>1, <1>2, <1>3, ReadCases

LEMMA SendTyped ==
  ASSUME NEW S, {"FINAL", "TORN"} \subseteq S, owed \in Seq(S), NEW verb \in S, NEW got \in SendCommand(verb)
  PROVE  got.rest \in Seq(S)
<1> DEFINE queue == IF peer = "up" THEN Append(owed, verb) ELSE owed
<1>1. queue \in Seq(S)
  BY AppendProperties
<1> HIDE DEF queue
<1>2. CASE got = [reply |-> Lost, rest |-> owed]
  BY <1>2
<1>3. CASE got \in ReadResponse(queue)
  BY <1>1, <1>3, ReadTyped
<1>4. SendCommand(verb) = {[reply |-> Lost, rest |-> owed]} \cup ReadResponse(queue)
  BY DEF SendCommand, queue
<1>5. QED
  BY <1>2, <1>3, <1>4

\* What a step does to the conversation.
Says == \/ Disconnected
        \/ Greeted
        \/ UNCHANGED replyVars
        \/ ServerAborts
        \/ \E verb \in Verbs : \E got \in SendCommand(verb) : Heard(got)
        \/ \E got \in ReadResponse(owed) : Heard(got)

LEMMA SaysTyped ==
  ASSUME ControlTypeOK, Says PROVE ControlTypeOK'
<1>1. owed \in Seq(Tags) /\ late \in Nat /\ peer \in {"up", "down"}
  BY DEF ControlTypeOK
<1>2. <<>> \in Seq(Tags) /\ <<"BANNER">> \in Seq(Tags) /\ <<"ABORT">> \in Seq(Tags)
  BY DEF Tags
<1>3. CASE Disconnected \/ Greeted \/ UNCHANGED replyVars
  <2>1. CASE Disconnected
    BY <1>2, <2>1 DEF Disconnected, ControlTypeOK
  <2>2. CASE Greeted
    BY <1>2, <2>2 DEF Greeted, ControlTypeOK
  <2>3. CASE UNCHANGED replyVars
    BY <1>1, <2>3 DEF replyVars, ControlTypeOK
  <2>4. QED
    BY <1>3, <2>1, <2>2, <2>3
<1>4. CASE ServerAborts
  BY <1>1, <1>2, <1>4 DEF ServerAborts, ControlTypeOK
<1>5. ASSUME NEW got, got.rest \in Seq(Tags), Heard(got) PROVE ControlTypeOK'
  BY <1>1, <1>5 DEF Heard, ControlTypeOK
<1>6. {"FINAL", "TORN"} \subseteq Tags /\ Verbs \subseteq Tags
  BY DEF Tags
<1>7. QED
  BY <1>1, <1>3, <1>4, <1>5, <1>6, ReadTyped, SendTyped DEF Says

LEMMA HangUpSays ==
  ASSUME NEW e, HangUp \/ failAndDisconnect(e) \/ connectFails(e) PROVE Says
BY DEF HangUp, failAndDisconnect, connectFails, Says

LEMMA CallSays ==
  ASSUME Call PROVE Says
<1>1. CASE begin
  BY <1>1 DEF begin, Says
<1>2. ASSUME NEW cfg, NEW closed, enterConnect(cfg, closed) PROVE Says
  BY <1>2, HangUpSays DEF enterConnect, Says
<1>3. CASE callQuit \/ setReconnectBetweenStores
  BY <1>3, HangUpSays DEF callQuit, setReconnectBetweenStores, Says
<1>4. CASE callConnect
  BY <1>2, <1>4 DEF callConnect, Says
<1>5. CASE callReconnect \/ callStore
  BY <1>2, <1>5 DEF callReconnect, callStore, reconnect, Says
<1>6. CASE \E call, badArgument : callExchange(call, badArgument) \/ callDownload(call, badArgument)
  BY <1>6 DEF callExchange, callDownload, Says
<1>7. QED
  BY <1>1, <1>3, <1>4, <1>5, <1>6 DEF Call

LEMMA ConnectSays ==
  ASSUME connectTcpOpen \/ connectBanner \/ connectAuthTls \/ connectAuthSsl
         \/ connectControlTls \/ connectTlsRefused \/ connectPbsz \/ connectProtP
         \/ connectUser \/ connectPass \/ connectTypeI
  PROVE  Says
<1>1. CASE connectTcpOpen \/ connectControlTls
  BY <1>1 DEF connectTcpOpen, connectControlTls, Says
<1>2. CASE connectBanner \/ connectTlsRefused
  BY <1>2, HangUpSays DEF connectBanner, connectTlsRefused, Says
<1>3. CASE connectAuthTls
  <2>1. "AUTH TLS" \in Verbs
    BY DEF Verbs
  <2>2. QED
    BY <1>3, <2>1 DEF connectAuthTls, Says
<1>4. CASE connectTypeI
  <2>1. "TYPE" \in Verbs
    BY DEF Verbs
  <2>2. QED
    BY <1>4, <2>1, HangUpSays DEF connectTypeI, Says
<1>5. ASSUME NEW phase, NEW verb \in Verbs, NEW after, NEW e, connectExchange(phase, verb, after, e)
      PROVE  Says
  BY <1>5, HangUpSays DEF connectExchange, Says
<1>6. CASE connectAuthSsl \/ connectPbsz \/ connectProtP \/ connectUser \/ connectPass
  <2>1. {"AUTH SSL", "PBSZ", "PROT", "USER", "PASS"} \subseteq Verbs
    BY DEF Verbs
  <2>2. QED
    BY <1>5, <1>6, <2>1 DEF connectAuthSsl, connectPbsz, connectProtP, connectUser, connectPass
<1>7. QED
  BY <1>1, <1>2, <1>3, <1>4, <1>6

LEMMA ExchangeSays ==
  ASSUME mkd \/ size \/ dele \/ rmd \/ renameFrom \/ renameTo \/ isControlAlive
  PROVE  Says
<1>1. ASSUME NEW call, NEW phase, NEW verb \in Verbs, NEW accepted, NEW next, NEW refusal,
             exchange(call, phase, verb, accepted, next, refusal)
      PROVE  Says
  BY <1>1, HangUpSays DEF exchange, Says
<1>2. {"MKD", "SIZE", "DELE", "RMD", "RNFR", "RNTO", "NOOP"} \subseteq Verbs
  BY DEF Verbs
<1>3. QED
  BY <1>1, <1>2 DEF mkd, size, dele, rmd, renameFrom, renameTo, isControlAlive

LEMMA TransferSays ==
  ASSUME pasv \/ dataOpen \/ command \/ listCommand \/ transferTls
         \/ bufferFull \/ moveData \/ endOfData \/ dataError \/ finalReply
  PROVE  Says
<1>1. CASE pasv
  <2>1. "PASV" \in Verbs
    BY DEF Verbs
  <2>2. QED
    BY <1>1, <2>1, HangUpSays DEF pasv, Says
<1>2. CASE command \/ listCommand
  <2>1. PICK verb \in Verbs : \E phase, refusal : transferCommand(phase, verb, refusal)
    <3>1. verbOf(op) \in Verbs /\ "LIST" \in Verbs
      BY DEF verbOf, Verbs
    <3>2. CASE command
      BY <3>1, <3>2 DEF command
    <3>3. CASE listCommand
      BY <3>1, <3>3 DEF listCommand
    <3>4. QED
      BY <1>2, <3>2, <3>3
  <2>2. failAndDisconnect("ConnectionFailed") \/ \E got \in SendCommand(verb) : Heard(got)
    BY <2>1 DEF transferCommand
  <2>3. QED
    BY <2>2, HangUpSays DEF Says
<1>3. CASE dataOpen \/ transferTls \/ bufferFull \/ moveData \/ endOfData \/ dataError
  BY <1>3 DEF dataOpen, transferTls, bufferFull, moveData, endOfData, dataError, Says
<1>4. CASE finalReply
  BY <1>4, HangUpSays DEF finalReply, Says
<1>5. QED
  BY <1>1, <1>2, <1>3, <1>4

LEMMA DrainTyped ==
  ASSUME ControlTypeOK, drain PROVE ControlTypeOK'
<1>1. owed \in Seq(Tags) /\ late \in Nat /\ peer \in {"up", "down"}
  BY DEF ControlTypeOK
<1>2. PICK got \in ReadResponse(owed) :
        owed' = got.rest /\ late' \in {late, late + 1} /\ UNCHANGED peer
  BY DEF drain, drainFinalTransferReply
<1>3. got.rest \in Seq(Tags)
  BY <1>1, <1>2, ReadTyped DEF Tags
<1>4. QED
  BY <1>1, <1>2, <1>3 DEF ControlTypeOK

LEMMA ServerLeavesTyped ==
  ASSUME ControlTypeOK, serverLeaves PROVE ControlTypeOK'
<1>1. owed \in Seq(Tags) /\ late \in Nat /\ "BYE" \in Tags
  BY DEF ControlTypeOK, Tags
<1>2. Append(owed, "BYE") \in Seq(Tags) /\ <<"BYE">> \in Seq(Tags) /\ <<>> \in Seq(Tags)
  BY <1>1, AppendProperties
<1>3. QED
  BY <1>1, <1>2 DEF serverLeaves, ServerLeaves, ControlTypeOK

LEMMA ControlStep ==
  ASSUME ControlTypeOK, [Next]_vars PROVE ControlTypeOK'
<1>1. CASE Call
  BY <1>1, CallSays, SaysTyped
<1>2. CASE quit
  BY <1>2, HangUpSays, SaysTyped DEF quit
<1>3. CASE UNCHANGED vars
  BY <1>3, SaysTyped DEF vars, Says
<1>4. QED
  BY <1>1, <1>2, <1>3, ConnectSays, ExchangeSays, TransferSays, SaysTyped, DrainTyped,
     ServerLeavesTyped DEF Next, Step

-----------------------------------------------------------------------------
(***************************************************************************)
(* The call                                                                *)
(***************************************************************************)

\* What a call leaves behind.
OutcomeTyped == ok \in BOOLEAN /\ lastError \in FtpsError

LEMMA GotoTyped ==
  ASSUME OutcomeTyped, NEW phase, Goto(phase) PROVE OutcomeTyped'
BY DEF OutcomeTyped, Goto

LEMMA ReturnTyped ==
  ASSUME NEW value \in BOOLEAN, NEW error \in FtpsError, Return(value, error)
  PROVE  OutcomeTyped'
BY DEF OutcomeTyped, Return

LEMMA FailureTyped ==
  ASSUME NEW error \in FtpsError,
         failAndDisconnect(error) \/ connectFails(error) \/ Return(FALSE, error)
  PROVE  OutcomeTyped'
BY ReturnTyped, Zenon DEF failAndDisconnect, connectFails

LEMMA EnterConnectOutcome ==
  ASSUME OutcomeTyped, NEW cfg, NEW closed, enterConnect(cfg, closed) PROVE OutcomeTyped'
<1>1. faultError(cfg.fault) \in FtpsError
  BY DEF faultError, FtpsError
<1>2. Goto("tcp-open") \/ Return(FALSE, faultError(cfg.fault))
  BY DEF enterConnect
<1>3. QED
  BY <1>1, <1>2, GotoTyped, FailureTyped

LEMMA CallOutcome ==
  ASSUME OutcomeTyped, Call PROVE OutcomeTyped'
<1>1. {"None", "NetworkNotInitialized", "ConnectionFailed", "TransferFailed", "ListFailed",
       "DirectoryCreateFailed", "SizeQueryFailed", "DeleteFailed", "DirectoryRemoveFailed",
       "RenameFailed"} \subseteq FtpsError
  BY DEF FtpsError
<1>2. CASE begin
  BY <1>1, <1>2, ReturnTyped DEF begin
<1>3. CASE callQuit
  <2>1. (IF begun THEN lastError ELSE "None") \in FtpsError
    BY <1>1 DEF OutcomeTyped
  <2>2. Goto("quit") \/ Return(TRUE, IF begun THEN lastError ELSE "None")
    BY <1>3 DEF callQuit
  <2>3. QED
    BY <2>1, <2>2, GotoTyped, ReturnTyped
<1>4. CASE setReconnectBetweenStores
  BY <1>4 DEF setReconnectBetweenStores, OutcomeTyped
<1>5. CASE reconnect
  BY <1>1, <1>5, FailureTyped, EnterConnectOutcome DEF reconnect
<1>6. CASE callConnect \/ callReconnect
  BY <1>1, <1>5, <1>6, FailureTyped, EnterConnectOutcome DEF callConnect, callReconnect
<1>7. CASE callStore
  BY <1>1, <1>5, <1>7, FailureTyped, GotoTyped DEF callStore, storeArguments
<1>8. ASSUME NEW call, NEW badArgument \in FtpsError, callExchange(call, badArgument)
      PROVE  OutcomeTyped'
  <2>1. Return(FALSE, "ConnectionFailed") \/ Return(FALSE, badArgument) \/ Goto("exchange")
    BY <1>8 DEF callExchange
  <2>2. QED
    BY <1>1, <1>8, <2>1, FailureTyped, GotoTyped
<1>9. ASSUME NEW call, NEW badArgument \in FtpsError, callDownload(call, badArgument)
      PROVE  OutcomeTyped'
  <2>1. ~Ready \/ (Ready /\ ~argOk') \/ (Ready /\ argOk')
    OBVIOUS
  <2>2. Return(FALSE, "ConnectionFailed") \/ Return(FALSE, badArgument) \/ Goto("pasv")
    BY <1>9, <2>1 DEF callDownload
  <2>3. QED
    BY <1>1, <1>9, <2>2, FailureTyped, GotoTyped
<1>10. QED
  BY <1>1, <1>2, <1>3, <1>4, <1>6, <1>7, <1>8, <1>9 DEF Call

LEMMA ConnectOutcome ==
  ASSUME OutcomeTyped,
         connectTcpOpen \/ connectBanner \/ connectAuthTls \/ connectAuthSsl
         \/ connectControlTls \/ connectTlsRefused \/ connectPbsz \/ connectProtP
         \/ connectUser \/ connectPass \/ connectTypeI
  PROVE  OutcomeTyped'
<1>1. {"None", "ConnectionFailed", "BannerReadFailed", "AuthTlsRejected", "PbszRejected",
       "ProtPRejected", "LoginRejected", "TypeRejected", "CertValidationFailed",
       "ControlTlsHandshakeFailed", "TransferFailed"} \subseteq FtpsError
  BY DEF FtpsError
<1>2. CASE connectTcpOpen
  BY <1>1, <1>2, GotoTyped, FailureTyped DEF connectTcpOpen
<1>3. CASE connectBanner
  BY <1>1, <1>3, GotoTyped, FailureTyped DEF connectBanner
<1>4. CASE connectAuthTls \/ connectControlTls
  BY <1>4, GotoTyped DEF connectAuthTls, connectControlTls
<1>5. CASE connectTlsRefused
  BY <1>1, <1>5, FailureTyped DEF connectTlsRefused
<1>6. ASSUME NEW phase, NEW verb, NEW after, NEW e \in FtpsError,
             connectExchange(phase, verb, after, e)
      PROVE  OutcomeTyped'
  BY <1>6, GotoTyped, FailureTyped DEF connectExchange
<1>7. CASE connectAuthSsl \/ connectPbsz \/ connectProtP \/ connectUser \/ connectPass
  BY <1>1, <1>6, <1>7 DEF connectAuthSsl, connectPbsz, connectProtP, connectUser, connectPass
<1>8. CASE connectTypeI
  <2>1. \/ connectFails("TypeRejected")
        \/ Return(TRUE, "None")
        \/ lastError' = "None" /\ UNCHANGED ok
        \/ Return(FALSE, "TransferFailed")
    BY <1>8 DEF connectTypeI
  <2>2. CASE lastError' = "None" /\ UNCHANGED ok
    BY <1>1, <2>2 DEF OutcomeTyped
  <2>3. QED
    BY <1>1, <2>1, <2>2, ReturnTyped, FailureTyped
<1>9. QED
  BY <1>2, <1>3, <1>4, <1>5, <1>7, <1>8

LEMMA ExchangeOutcomes ==
  ASSUME OutcomeTyped,
         mkd \/ size \/ dele \/ rmd \/ renameFrom \/ renameTo \/ isControlAlive
  PROVE  OutcomeTyped'
<1>1. {"None", "ConnectionFailed", "DirectoryCreateFailed", "SizeQueryFailed", "DeleteFailed",
       "DirectoryRemoveFailed", "RenameFailed", "TransferFailed"} \subseteq FtpsError
  BY DEF FtpsError
<1>2. ASSUME NEW call, NEW phase, NEW verb, NEW accepted, NEW next, NEW refusal \in FtpsError,
             exchange(call, phase, verb, accepted, next, refusal)
      PROVE  OutcomeTyped'
  <2>1. \/ failAndDisconnect("ConnectionFailed")
        \/ Return(FALSE, refusal)
        \/ Return(TRUE, "None")
        \/ Goto(next)
    BY <1>2 DEF exchange
  <2>2. QED
    BY <1>1, <1>2, <2>1, ReturnTyped, FailureTyped, GotoTyped
<1>3. QED
  BY <1>1, <1>2 DEF mkd, size, dele, rmd, renameFrom, renameTo, isControlAlive

LEMMA TransferOutcome ==
  ASSUME OutcomeTyped, failure \in FtpsError,
         pasv \/ dataOpen \/ command \/ listCommand \/ transferTls
         \/ bufferFull \/ moveData \/ endOfData \/ dataError \/ drain \/ finalReply
  PROVE  OutcomeTyped'
<1>1. {"None", "ConnectionFailed", "PassiveModeRejected", "PasvParseFailed",
       "DataConnectionFailed", "TransferFailed", "ListFailed", "FinalReplyFailed"}
        \subseteq FtpsError
  BY DEF FtpsError
<1>2. CASE pasv
  <2>1. \/ failAndDisconnect("ConnectionFailed")
        \/ Return(FALSE, "PassiveModeRejected")
        \/ Return(FALSE, "PasvParseFailed")
        \/ Goto("data-open")
    BY <1>2 DEF pasv
  <2>2. QED
    BY <1>1, <2>1, FailureTyped, GotoTyped
<1>3. CASE dataOpen
  BY <1>1, <1>3, FailureTyped, GotoTyped DEF dataOpen
<1>4. ASSUME NEW phase, NEW verb, NEW refusal \in FtpsError, transferCommand(phase, verb, refusal)
      PROVE  OutcomeTyped'
  <2>1. \/ failAndDisconnect("ConnectionFailed")
        \/ Goto("data-tls") \/ Goto("list")
        \/ Return(FALSE, refusal)
    BY <1>4 DEF transferCommand
  <2>2. QED
    BY <1>1, <1>4, <2>1, FailureTyped, GotoTyped
<1>5. CASE command
  BY <1>1, <1>4, <1>5 DEF command
<1>6. CASE listCommand
  BY <1>1, <1>4, <1>6 DEF listCommand
<1>7. CASE transferTls
  BY <1>7, GotoTyped DEF transferTls
<1>8. CASE bufferFull \/ moveData \/ endOfData \/ dataError
  BY <1>8, GotoTyped DEF bufferFull, moveData, endOfData, dataError, LeaveData
<1>9. CASE drain
  BY <1>9, FailureTyped DEF drain
<1>10. CASE finalReply
  <2>1. failAndDisconnect("ConnectionFailed") \/ Return(TRUE, "None") \/ Return(FALSE, "FinalReplyFailed")
    <3>1. PICK got \in ReadResponse(owed) :
            \/ failAndDisconnect("ConnectionFailed")
            \/ Return(Complete(got.reply), IF Complete(got.reply) THEN "None" ELSE "FinalReplyFailed")
      BY <1>10 DEF finalReply
    <3>2. Complete(got.reply) \in BOOLEAN
      BY DEF Complete
    <3>3. QED
      BY <3>1, <3>2, Zenon DEF Return
  <2>2. QED
    BY <1>1, <2>1, ReturnTyped, FailureTyped
<1>11. QED
  BY <1>2, <1>3, <1>5, <1>6, <1>7, <1>8, <1>9, <1>10

LEMMA OutcomeStep ==
  ASSUME OutcomeTyped, failure \in FtpsError, [Next]_vars PROVE OutcomeTyped'
<1>1. CASE quit
  <2>1. PICK value : Return(value = 221, IF value = 221 THEN "None" ELSE "QuitFailed")
    BY <1>1 DEF quit
  <2>2. (IF value = 221 THEN "None" ELSE "QuitFailed") \in FtpsError
    BY DEF FtpsError
  <2>3. (value = 221) \in BOOLEAN
    OBVIOUS
  <2>4. QED
    BY <2>1, <2>2, <2>3, ReturnTyped
<1>2. CASE serverLeaves \/ UNCHANGED vars
  BY <1>2 DEF serverLeaves, vars, OutcomeTyped
<1>3. QED
  BY <1>1, <1>2, CallOutcome, ConnectOutcome, ExchangeOutcomes, TransferOutcome DEF Next, Step

\* The arguments of the call and its progress.
ProgressTyped ==
  /\ total \in 0..MaxLength
  /\ room \in 0..(MaxLength + 1)
  /\ moved \in 0..MaxLength
  /\ failure \in FtpsError

FlagsTyped == {argOk, stale, cutShort} \subseteq BOOLEAN

LEMMA EnterTyped ==
  ASSUME NEW call \in Calls, NEW valid \in BOOLEAN, NEW length \in 0..MaxLength,
         NEW size_ \in 0..(MaxLength + 1), Enter(call, valid, length, size_)
  PROVE  ProgressTyped' /\ FlagsTyped' /\ op' \in Calls
<1>1. MaxLength \in Nat
  BY BoundsAssumption
<1>2. ProgressTyped'
  BY <1>1 DEF Enter, ProgressTyped, FtpsError
<1>3. FlagsTyped'
  BY Zenon DEF Enter, FlagsTyped
<1>4. QED
  BY <1>2, <1>3 DEF Enter

LEMMA CallEnters ==
  ASSUME Call, ~setReconnectBetweenStores
  PROVE  \E call \in Calls, valid \in BOOLEAN, length \in 0..MaxLength,
            size_ \in 0..(MaxLength + 1) : Enter(call, valid, length, size_)
<1>1. MaxLength \in Nat /\ 0 \in 0..MaxLength /\ 0 \in 0..(MaxLength + 1)
      /\ 1..(MaxLength + 1) \subseteq 0..(MaxLength + 1)
  BY BoundsAssumption
<1>2. ASSUME NEW call \in {"begin", "quit", "connect", "reconnect"}, Enter(call, TRUE, 0, 0)
      PROVE  \E c \in Calls, valid \in BOOLEAN, length \in 0..MaxLength,
                size_ \in 0..(MaxLength + 1) : Enter(c, valid, length, size_)
  <2>1. call \in Calls /\ TRUE \in BOOLEAN
    BY DEF Calls
  <2>2. QED
    BY <1>1, <1>2, <2>1, Zenon
<1>3. CASE begin \/ callQuit \/ callConnect \/ callReconnect
  BY <1>2, <1>3 DEF begin, callQuit, callConnect, callReconnect
<1>4. ASSUME NEW call \in Exchanges, NEW badArgument, callExchange(call, badArgument)
      PROVE  \E c \in Calls, valid \in BOOLEAN, length \in 0..MaxLength,
                size_ \in 0..(MaxLength + 1) : Enter(c, valid, length, size_)
  <2>1. PICK valid \in BOOLEAN : Enter(call, valid, 0, 0)
    BY <1>4, Zenon DEF callExchange
  <2>2. call \in Calls
    BY DEF Calls, Commands
  <2>3. QED
    BY <1>1, <2>1, <2>2, Zenon
<1>5. ASSUME NEW call \in {"retrieve", "list"}, NEW badArgument, callDownload(call, badArgument)
      PROVE  \E c \in Calls, valid \in BOOLEAN, length \in 0..MaxLength,
                size_ \in 0..(MaxLength + 1) : Enter(c, valid, length, size_)
  <2>1. PICK valid \in BOOLEAN, length \in 0..MaxLength, size_ \in 1..(MaxLength + 1) :
          Enter(call, valid, length, size_)
    BY <1>5, Zenon DEF callDownload
  <2>2. call \in Calls /\ size_ \in 0..(MaxLength + 1)
    BY <1>1 DEF Calls, Commands, Transfers
  <2>3. QED
    BY <2>1, <2>2, Zenon
<1>6. CASE callStore
  <2>1. PICK valid \in BOOLEAN, length \in 0..MaxLength : Enter("store", valid, length, 0)
    BY <1>6, Zenon DEF callStore
  <2>2. "store" \in Calls
    BY DEF Calls, Commands, Transfers
  <2>3. QED
    BY <1>1, <2>1, <2>2, Zenon
<1>7. {"mkd", "size", "dele", "rmd", "rename", "isControlAlive"} = Exchanges
  BY DEF Exchanges
<1>8. QED
  BY <1>3, <1>4, <1>5, <1>6, <1>7 DEF Call

\* The other steps leave the arguments alone.
LEMMA StepKeepsArguments ==
  ASSUME Step \/ serverLeaves \/ setReconnectBetweenStores \/ UNCHANGED vars
  PROVE  UNCHANGED <<op, argOk, total, room>>
<1>1. CASE serverLeaves \/ setReconnectBetweenStores \/ UNCHANGED vars
  BY <1>1 DEF serverLeaves, setReconnectBetweenStores, vars, callVars
<1>2. CASE quit
  BY <1>2 DEF quit
<1>3. CASE connectTcpOpen \/ connectBanner \/ connectAuthTls \/ connectAuthSsl
           \/ connectControlTls \/ connectTlsRefused \/ connectPbsz \/ connectProtP
           \/ connectUser \/ connectPass \/ connectTypeI
  <2>1. \E phase : ConnectStep(phase)
    BY <1>3 DEF connectTcpOpen, connectBanner, connectAuthTls, connectAuthSsl,
       connectControlTls, connectTlsRefused, connectPbsz, connectProtP, connectUser,
       connectPass, connectTypeI, connectExchange
  <2>2. QED
    BY <2>1 DEF ConnectStep
<1>4. CASE mkd \/ size \/ dele \/ rmd \/ renameFrom \/ renameTo \/ isControlAlive
  BY <1>4 DEF mkd, size, dele, rmd, renameFrom, renameTo, isControlAlive, exchange
<1>5. CASE pasv \/ dataOpen \/ command \/ listCommand \/ transferTls
           \/ bufferFull \/ moveData \/ endOfData \/ dataError \/ drain \/ finalReply
  <2>1. \E phase : TransferStep(phase)
    BY <1>5 DEF pasv, dataOpen, command, listCommand, transferCommand, transferTls,
       bufferFull, moveData, endOfData, dataError, drain, finalReply
  <2>2. QED
    BY <2>1 DEF TransferStep
<1>6. QED
  BY <1>1, <1>2, <1>3, <1>4, <1>5 DEF Step

\* Only a transfer moves bytes, and never more than there are.
LEMMA StepMoves ==
  ASSUME ProgressTyped, Step \/ serverLeaves \/ setReconnectBetweenStores \/ UNCHANGED vars
  PROVE  moved' \in 0..MaxLength /\ failure' \in FtpsError
<1>1. MaxLength \in Nat /\ moved \in 0..MaxLength /\ total \in 0..MaxLength
      /\ 0 \in 0..MaxLength /\ failure \in FtpsError
  BY BoundsAssumption DEF ProgressTyped
<1>2. {"TransferFailed", "ListFailed", "SessionReuseRequired", "DataTlsHandshakeFailed"}
        \subseteq FtpsError
  BY DEF FtpsError
<1>3. CASE UNCHANGED <<moved, failure>>
  BY <1>1, <1>3
<1>4. CASE serverLeaves \/ setReconnectBetweenStores \/ UNCHANGED vars
  BY <1>3, <1>4 DEF serverLeaves, setReconnectBetweenStores, vars, callVars
<1>5. CASE quit
  BY <1>3, <1>5 DEF quit
<1>6. CASE connectTcpOpen \/ connectBanner \/ connectAuthTls \/ connectAuthSsl
           \/ connectControlTls \/ connectTlsRefused \/ connectPbsz \/ connectProtP
           \/ connectUser \/ connectPass \/ connectTypeI
  <2>1. \E phase : ConnectStep(phase)
    BY <1>6 DEF connectTcpOpen, connectBanner, connectAuthTls, connectAuthSsl,
       connectControlTls, connectTlsRefused, connectPbsz, connectProtP, connectUser,
       connectPass, connectTypeI, connectExchange
  <2>2. QED
    BY <1>3, <2>1 DEF ConnectStep
<1>7. CASE mkd \/ size \/ dele \/ rmd \/ renameFrom \/ renameTo \/ isControlAlive
  BY <1>3, <1>7 DEF mkd, size, dele, rmd, renameFrom, renameTo, isControlAlive, exchange
<1>8. CASE pasv \/ dataOpen \/ command \/ listCommand \/ drain
  BY <1>3, <1>8 DEF pasv, dataOpen, command, listCommand, transferCommand, drain
<1>9. CASE transferTls
  BY <1>1, <1>2, <1>9 DEF transferTls
<1>10. CASE bufferFull \/ endOfData \/ dataError
  BY <1>1, <1>2, <1>10 DEF bufferFull, endOfData, dataError, LeaveData, transferError
<1>11. CASE moveData
  <2>1. PICK n \in 1..(total - moved) : moved' = moved + n
    BY <1>11 DEF moveData
  <2>2. failure' = failure
    BY <1>11 DEF moveData
  <2>3. QED
    BY <1>1, <2>1, <2>2
<1>12. CASE finalReply
  BY <1>1, <1>12 DEF finalReply
<1>13. QED
  BY <1>4, <1>5, <1>6, <1>7, <1>8, <1>9, <1>10, <1>11, <1>12 DEF Step

LEMMA StepStale ==
  ASSUME stale \in BOOLEAN, Step \/ serverLeaves \/ setReconnectBetweenStores \/ UNCHANGED vars
  PROVE  stale' \in BOOLEAN
<1>1. CASE MarkStale \/ UNCHANGED stale
  BY <1>1, Zenon DEF MarkStale
<1>2. CASE serverLeaves \/ setReconnectBetweenStores \/ UNCHANGED vars
  BY <1>1, <1>2 DEF serverLeaves, setReconnectBetweenStores, vars, callVars
<1>3. CASE quit
  BY <1>1, <1>3 DEF quit
<1>4. CASE connectTcpOpen \/ connectBanner \/ connectAuthTls \/ connectControlTls
           \/ connectTlsRefused \/ connectTypeI
  BY <1>1, <1>4 DEF connectTcpOpen, connectBanner, connectAuthTls, connectControlTls,
     connectTlsRefused, connectTypeI, connectFails
<1>5. CASE connectAuthSsl \/ connectPbsz \/ connectProtP \/ connectUser \/ connectPass
  BY <1>1, <1>5 DEF connectAuthSsl, connectPbsz, connectProtP, connectUser, connectPass,
     connectExchange, connectFails
<1>6. CASE mkd \/ size \/ dele \/ rmd \/ renameFrom \/ renameTo \/ isControlAlive
  BY <1>1, <1>6 DEF mkd, size, dele, rmd, renameFrom, renameTo, isControlAlive, exchange
<1>7. CASE pasv \/ dataOpen \/ command \/ listCommand \/ transferTls
           \/ bufferFull \/ moveData \/ endOfData \/ dataError \/ drain \/ finalReply
  BY <1>1, <1>7 DEF pasv, dataOpen, command, listCommand, transferCommand, transferTls,
     bufferFull, moveData, endOfData, dataError, drain, finalReply, LeaveData
<1>8. QED
  BY <1>2, <1>3, <1>4, <1>5, <1>6, <1>7 DEF Step

\* Only the end of a download can be taken for one too early.
LEMMA StepCutShort ==
  ASSUME Step \/ serverLeaves \/ setReconnectBetweenStores \/ UNCHANGED vars
  PROVE  UNCHANGED cutShort \/ (endOfData /\ cutShort' = TRUE)
<1>1. CASE serverLeaves \/ setReconnectBetweenStores \/ UNCHANGED vars
  BY <1>1 DEF serverLeaves, setReconnectBetweenStores, vars, callVars
<1>2. CASE quit
  BY <1>2 DEF quit
<1>3. CASE connectTcpOpen \/ connectBanner \/ connectAuthTls \/ connectAuthSsl
           \/ connectControlTls \/ connectTlsRefused \/ connectPbsz \/ connectProtP
           \/ connectUser \/ connectPass \/ connectTypeI
  <2>1. \E phase : ConnectStep(phase)
    BY <1>3 DEF connectTcpOpen, connectBanner, connectAuthTls, connectAuthSsl,
       connectControlTls, connectTlsRefused, connectPbsz, connectProtP, connectUser,
       connectPass, connectTypeI, connectExchange
  <2>2. QED
    BY <2>1 DEF ConnectStep
<1>4. CASE mkd \/ size \/ dele \/ rmd \/ renameFrom \/ renameTo \/ isControlAlive
  BY <1>4 DEF mkd, size, dele, rmd, renameFrom, renameTo, isControlAlive, exchange
<1>5. CASE pasv \/ dataOpen \/ command \/ listCommand \/ transferTls \/ bufferFull
           \/ moveData \/ dataError \/ drain \/ finalReply
  BY <1>5 DEF pasv, dataOpen, command, listCommand, transferCommand, transferTls,
     bufferFull, moveData, dataError, drain, finalReply
<1>6. CASE endOfData
  BY <1>6 DEF endOfData
<1>7. QED
  BY <1>1, <1>2, <1>3, <1>4, <1>5, <1>6 DEF Step

ArgumentsTyped == ProgressTyped /\ FlagsTyped /\ op \in Calls

LEMMA ArgumentsStep ==
  ASSUME ArgumentsTyped, [Next]_vars PROVE ArgumentsTyped'
<1>1. CASE Call /\ ~setReconnectBetweenStores
  <2>1. PICK call \in Calls, valid \in BOOLEAN, length \in 0..MaxLength,
             size_ \in 0..(MaxLength + 1) : Enter(call, valid, length, size_)
    BY <1>1, CallEnters
  <2>2. QED
    BY <2>1, EnterTyped DEF ArgumentsTyped
<1>2. CASE Step \/ serverLeaves \/ setReconnectBetweenStores \/ UNCHANGED vars
  <2>1. UNCHANGED <<op, argOk, total, room>>
    BY <1>2, StepKeepsArguments
  <2>2. moved' \in 0..MaxLength /\ failure' \in FtpsError
    BY <1>2, StepMoves DEF ArgumentsTyped
  <2>3. stale' \in BOOLEAN
    BY <1>2, StepStale DEF ArgumentsTyped, FlagsTyped
  <2>4. argOk' \in BOOLEAN
    BY <2>1 DEF ArgumentsTyped, FlagsTyped
  <2>5. cutShort' \in BOOLEAN
    BY <1>2, StepCutShort DEF ArgumentsTyped, FlagsTyped
  <2>6. QED
    BY <2>1, <2>2, <2>3, <2>4, <2>5 DEF ArgumentsTyped, ProgressTyped, FlagsTyped
<1>3. QED
  BY <1>1, <1>2 DEF Next

-----------------------------------------------------------------------------
(***************************************************************************)
(* The session                                                             *)
(***************************************************************************)
SwitchesTyped == begun \in BOOLEAN /\ connected \in BOOLEAN /\ reconnectBetweenStores \in BOOLEAN
CountersTyped == storesSinceConnect \in Nat /\ uploads \in Nat

LEMMA CallSwitches ==
  ASSUME SwitchesTyped, Call PROVE SwitchesTyped'
<1> USE DEF SwitchesTyped
<1>1. ASSUME UNCHANGED <<begun, reconnectBetweenStores>>, connected' = FALSE \/ UNCHANGED connected
      PROVE  SwitchesTyped'
  BY <1>1, Zenon
<1>2. CASE begin
  BY <1>2, Zenon DEF begin
<1>3. CASE callQuit
  BY <1>1, <1>3 DEF callQuit
<1>4. CASE setReconnectBetweenStores
  BY <1>4, Zenon DEF setReconnectBetweenStores, sessionVars
<1>5. ASSUME NEW cfg, NEW closed, enterConnect(cfg, closed)
      PROVE  connected' = FALSE \/ UNCHANGED connected
  BY <1>5 DEF enterConnect
<1>6. CASE callConnect
  BY <1>1, <1>5, <1>6 DEF callConnect
<1>7. CASE callReconnect \/ callStore
  BY <1>1, <1>5, <1>7 DEF callReconnect, callStore, reconnect, sessionVars
<1>8. CASE \E call, badArgument : callExchange(call, badArgument) \/ callDownload(call, badArgument)
  BY <1>1, <1>8 DEF callExchange, callDownload, sessionVars
<1>9. QED
  BY <1>2, <1>3, <1>4, <1>6, <1>7, <1>8 DEF Call

LEMMA StepSwitches ==
  ASSUME SwitchesTyped, Step \/ serverLeaves \/ UNCHANGED vars PROVE SwitchesTyped'
<1>1. ASSUME UNCHANGED <<begun, reconnectBetweenStores>>,
             connected' = FALSE \/ connected' = TRUE \/ UNCHANGED connected
      PROVE  SwitchesTyped'
  BY <1>1, Zenon DEF SwitchesTyped
<1>2. CASE serverLeaves \/ UNCHANGED vars
  BY <1>1, <1>2 DEF serverLeaves, vars, sessionVars
<1>3. CASE quit
  BY <1>1, <1>3 DEF quit
<1>4. CASE connectTcpOpen \/ connectBanner \/ connectAuthTls \/ connectControlTls
           \/ connectTlsRefused \/ connectTypeI
  BY <1>1, <1>4 DEF connectTcpOpen, connectBanner, connectAuthTls, connectControlTls,
     connectTlsRefused, connectTypeI, connectFails, ConnectStep
<1>5. CASE connectAuthSsl \/ connectPbsz \/ connectProtP \/ connectUser \/ connectPass
  BY <1>1, <1>5 DEF connectAuthSsl, connectPbsz, connectProtP, connectUser, connectPass,
     connectExchange, connectFails, ConnectStep
<1>6. CASE mkd \/ size \/ dele \/ rmd \/ renameFrom \/ renameTo \/ isControlAlive
  BY <1>1, <1>6 DEF mkd, size, dele, rmd, renameFrom, renameTo, isControlAlive, exchange,
     failAndDisconnect, sessionVars
<1>7. CASE pasv \/ dataOpen \/ command \/ listCommand
  BY <1>1, <1>7 DEF pasv, dataOpen, command, listCommand, transferCommand, TransferStep,
     failAndDisconnect, sessionVars
<1>8. CASE transferTls \/ bufferFull \/ moveData \/ endOfData \/ dataError \/ drain
  BY <1>1, <1>8 DEF transferTls, bufferFull, moveData, endOfData, dataError, drain,
     LeaveData, TransferStep, sessionVars
<1>9. CASE finalReply
  BY <1>1, <1>9 DEF finalReply, TransferStep, failAndDisconnect
<1>10. QED
  BY <1>2, <1>3, <1>4, <1>5, <1>6, <1>7, <1>8, <1>9 DEF Step

\* Uploads are counted one at a time, and counts are reset to zero.
LEMMA CountersStep ==
  ASSUME CountersTyped, [Next]_vars PROVE CountersTyped'
<1>1. ASSUME storesSinceConnect' \in {storesSinceConnect, storesSinceConnect + 1, 0},
             uploads' \in {uploads, uploads + 1, 0}
      PROVE  CountersTyped'
  BY <1>1 DEF CountersTyped
<1>2. CASE begin \/ callQuit \/ setReconnectBetweenStores
  BY <1>1, <1>2 DEF begin, callQuit, setReconnectBetweenStores, HangUp, sessionVars
<1>3. ASSUME NEW cfg, NEW closed, enterConnect(cfg, closed) PROVE CountersTyped'
  BY <1>1, <1>3 DEF enterConnect, HangUp
<1>4. CASE callConnect
  BY <1>1, <1>3, <1>4 DEF callConnect
<1>5. CASE callReconnect \/ callStore
  BY <1>1, <1>3, <1>5 DEF callReconnect, callStore, reconnect, sessionVars
<1>6. CASE \E call, badArgument : callExchange(call, badArgument) \/ callDownload(call, badArgument)
  BY <1>1, <1>6 DEF callExchange, callDownload, sessionVars
<1>7. CASE serverLeaves \/ UNCHANGED vars
  BY <1>1, <1>7 DEF serverLeaves, vars, sessionVars
<1>8. CASE quit
  BY <1>1, <1>8 DEF quit, HangUp
<1>9. CASE connectTcpOpen \/ connectBanner \/ connectAuthTls \/ connectControlTls
           \/ connectTlsRefused \/ connectTypeI
  BY <1>1, <1>9 DEF connectTcpOpen, connectBanner, connectAuthTls, connectControlTls,
     connectTlsRefused, connectTypeI, connectFails, ConnectStep, HangUp
<1>10. CASE connectAuthSsl \/ connectPbsz \/ connectProtP \/ connectUser \/ connectPass
  BY <1>1, <1>10 DEF connectAuthSsl, connectPbsz, connectProtP, connectUser, connectPass,
     connectExchange, connectFails, ConnectStep, HangUp
<1>11. CASE mkd \/ size \/ dele \/ rmd \/ renameFrom \/ renameTo \/ isControlAlive
  BY <1>1, <1>11 DEF mkd, size, dele, rmd, renameFrom, renameTo, isControlAlive, exchange,
     failAndDisconnect, sessionVars, HangUp
<1>12. CASE pasv \/ dataOpen \/ command \/ listCommand
  BY <1>1, <1>12 DEF pasv, dataOpen, command, listCommand, transferCommand,
     failAndDisconnect, sessionVars, HangUp
<1>13. CASE transferTls \/ bufferFull \/ moveData \/ endOfData \/ dataError \/ drain
  BY <1>1, <1>13 DEF transferTls, bufferFull, moveData, endOfData, dataError, drain,
     LeaveData, sessionVars
<1>14. CASE finalReply
  <2>1. \/ failAndDisconnect("ConnectionFailed")
        \/ \E counted \in {0, 1} : /\ storesSinceConnect' = storesSinceConnect + counted
                                 /\ uploads' = uploads + counted
    BY <1>14 DEF finalReply
  <2>2. CASE failAndDisconnect("ConnectionFailed")
    BY <1>1, <2>2 DEF failAndDisconnect, HangUp
  <2>3. ASSUME NEW counted \in {0, 1}, storesSinceConnect' = storesSinceConnect + counted,
               uploads' = uploads + counted
        PROVE  CountersTyped'
    BY <2>3 DEF CountersTyped
  <2>4. QED
    BY <2>1, <2>2, <2>3
<1>15. QED
  BY <1>2, <1>4, <1>5, <1>6, <1>7, <1>8, <1>9, <1>10, <1>11, <1>12, <1>13, <1>14
  DEF Next, Call, Step

-----------------------------------------------------------------------------
(***************************************************************************)
(* The type invariant                                                      *)
(***************************************************************************)
Typed == ConfigTyped /\ ControlTypeOK /\ OutcomeTyped /\ ArgumentsTyped
         /\ SwitchesTyped /\ CountersTyped

LEMMA TypedStart == Init => Typed
<1> SUFFICES ASSUME Init PROVE Typed
  OBVIOUS
<1>1. ConfigTyped
  BY ConfigStart
<1>2. ControlTypeOK
  BY DEF Init, ControlInit, ControlTypeOK
<1>3. OutcomeTyped
  BY Zenon DEF Init, OutcomeTyped, FtpsError
<1>4. ArgumentsTyped
  <2>1. ProgressTyped
    BY BoundsAssumption DEF Init, ProgressTyped, FtpsError
  <2>2. FlagsTyped
    BY Zenon DEF Init, FlagsTyped
  <2>3. QED
    BY <2>1, <2>2 DEF Init, ArgumentsTyped, Calls
<1>5. SwitchesTyped
  BY Zenon DEF Init, SwitchesTyped
<1>6. CountersTyped
  BY DEF Init, CountersTyped
<1>7. QED
  BY <1>1, <1>2, <1>3, <1>4, <1>5, <1>6 DEF Typed

LEMMA TypedStep == Typed /\ [Next]_vars => Typed'
<1> SUFFICES ASSUME Typed, [Next]_vars PROVE Typed'
  OBVIOUS
<1>1. failure \in FtpsError
  BY DEF Typed, ArgumentsTyped, ProgressTyped
<1>2. SwitchesTyped'
  BY CallSwitches, StepSwitches DEF Typed, Next
<1>3. QED
  BY <1>1, <1>2, ConfigStep, ControlStep, OutcomeStep, ArgumentsStep, CountersStep DEF Typed

\* Every variable of the client keeps its type: in particular the error a call
\* returns is one of the vocabulary, whichever way the call fails, and no
\* transfer moves more bytes than a file has.
THEOREM ClientTyped == Spec => []TypeOK
<1>1. Typed /\ Staged /\ TransportTypeOK => TypeOK
  BY Zenon DEF TypeOK, Typed, ConfigTyped, OutcomeTyped, ArgumentsTyped, ProgressTyped,
     FlagsTyped, SwitchesTyped, CountersTyped, Staged
<1>2. Spec => []Typed
  BY TypedStart, TypedStep, PTL DEF Spec
<1>3. Spec => []TransportTypeOK
  BY ClientDrivesTransport, TransportTyped, PTL
<1>4. QED
  BY <1>1, <1>2, <1>3, ClientStaged, PTL

-----------------------------------------------------------------------------
(***************************************************************************)
(* The session                                                             *)
(***************************************************************************)
HonestConfigs == \A cfg \in Configs : cfg.fault = "malformed" => cfg.trust \notin Certs

\* Who protects the channels, and whom the settings for the next one accept.
Trusting ==
  /\ controlTls \in {agreed, NoTls}
  /\ dataTls \in {agreed, NoTls}
  /\ pin \in Certs => pin = agreed
  /\ active.ca # NoCa => active.ca = agreed

\* A step that keeps the trust and that the abstract session allows.
Simulates == Trusting' /\ (Session!Next \/ UNCHANGED Session!sessionState)

\* Whatever the handshake and the pin let through is the agreed certificate.
LEMMA AcceptedIsAgreed ==
  ASSUME Trusting, NEW cert \in Certs, handshakeAccepts(sessionTls, cert),
         completePinnedFingerprintCheck(sessionTls, cert)
  PROVE  cert = agreed
<1>1. CASE sessionTls.pin = NoPin
  <2>1. cert = sessionTls.ca
    BY <1>1 DEF handshakeAccepts
  <2>2. cert = active.ca /\ active.ca # NoCa
    BY <2>1, TransportAssumption DEF sessionTls
  <2>3. QED
    BY <2>2 DEF Trusting
<1>2. CASE sessionTls.pin # NoPin
  <2>1. cert = sessionTls.pin
    BY <1>2 DEF completePinnedFingerprintCheck
  <2>2. cert = pin
    BY <1>2, <2>1 DEF sessionTls
  <2>3. QED
    BY <2>2 DEF Trusting
<1>3. QED
  BY <1>1, <1>2

-----------------------------------------------------------------------------
(***************************************************************************)
(* Moves                                                                   *)
(***************************************************************************)

\* The session stays as it is.
LEMMA StillSimulates ==
  ASSUME Trusting, UNCHANGED <<controlSocket, controlTls, dataSocket, dataTls, configVars>>,
         controlSocket => UNCHANGED connected
  PROVE  Simulates
<1>1. UNCHANGED <<controlSocket, controlTls, dataSocket, dataTls, active, pin, agreed>>
  BY DEF configVars
<1>2. Trusting'
  BY <1>1 DEF Trusting
<1>3. session' = session
  <2>1. CASE controlSocket
    BY <1>1, <2>1 DEF session
  <2>2. CASE ~controlSocket
    BY <1>1, <2>2 DEF session
  <2>3. QED
    BY <2>1, <2>2
<1>4. data' = data
  BY <1>1 DEF data
<1>5. QED
  BY <1>1, <1>2, <1>3, <1>4 DEF Simulates, Session!sessionState

\* Everything is closed.
LEMMA ClosedSimulates ==
  ASSUME Trusting', Owned', ~controlSocket', ~dataSocket'
  PROVE  Simulates
<1>1. controlTls' = NoTls /\ dataTls' = NoTls
  BY DEF Owned, FlagsAgree
<1>2. session' = "closed" /\ data' = "none"
  BY DEF session, data
<1>3. QED
  BY <1>1, <1>2 DEF Simulates, Session!Next, Session!Close, Session!NoData

LEMMA HangUpSimulates ==
  ASSUME Staged, Trusting, HangUp, UNCHANGED configVars PROVE Simulates
<1>1. Owned' /\ ~controlSocket' /\ ~dataSocket'
  BY HangUpCloses DEF Staged
<1>2. controlTls' = NoTls /\ dataTls' = NoTls
  BY <1>1 DEF Owned, FlagsAgree
<1>3. Trusting'
  BY <1>2 DEF Trusting, configVars
<1>4. QED
  BY <1>1, <1>3, ClosedSimulates

\* The data channel is closed, if there is one.
LEMMA DataGoneSimulates ==
  ASSUME Trusting, UNCHANGED <<controlSocket, controlTls, connected, configVars>>,
         dataTls # NoTls => dataSocket, ~dataSocket', dataTls' = NoTls
  PROVE  Simulates
<1>1. UNCHANGED <<controlSocket, controlTls, connected, active, pin, agreed>>
  BY DEF configVars
<1>2. Trusting'
  BY <1>1 DEF Trusting
<1>3. session' = session
  BY <1>1 DEF session
<1>4. data' = "none"
  BY DEF data
<1>5. CASE dataSocket
  <2>1. data # "none"
    BY <1>5 DEF data
  <2>2. QED
    BY <1>1, <1>2, <1>3, <1>4, <2>1 DEF Simulates, Session!Next, Session!DataClose, Session!NoData
<1>6. CASE ~dataSocket
  <2>1. data = "none" /\ dataTls' = dataTls
    BY <1>6 DEF data
  <2>2. QED
    BY <1>1, <1>2, <1>3, <1>4, <2>1 DEF Simulates, Session!sessionState
<1>7. QED
  BY <1>5, <1>6

-----------------------------------------------------------------------------
(***************************************************************************)
(* The calls                                                               *)
(***************************************************************************)
LEMMA BeginSimulates ==
  ASSUME Staged, Trusting, begin PROVE Simulates
<1>1. CASE UNCHANGED <<transportVars, configVars, connected>>
  BY <1>1, StillSimulates DEF transportVars, controlVars, dataVars
<1>2. CASE renewTransport
  <2>1. Owned' /\ ~controlSocket' /\ ~dataSocket'
    BY <1>2, RenewTransportOwned DEF Staged, renewTransport, ReleaseData, ReleaseControl
  <2>2. controlTls' = NoTls /\ dataTls' = NoTls
    BY <2>1 DEF Owned, FlagsAgree
  <2>3. \/ UNCHANGED <<active, pin, agreed>>
        \/ active' = Blank /\ pin' = NoPin
    BY <1>2 DEF begin, configVars
  <2>4. Trusting'
    BY <2>2, <2>3, TransportAssumption DEF Trusting, Blank
  <2>5. QED
    BY <2>1, <2>4, ClosedSimulates
<1>3. QED
  BY <1>1, <1>2 DEF begin

LEMMA CallQuitSimulates ==
  ASSUME Staged, Trusting, callQuit PROVE Simulates
<1>1. CASE Ready
  BY <1>1, StillSimulates DEF callQuit, Ready, transportVars, controlVars, dataVars
<1>2. CASE begun /\ ~connected
  BY <1>2, HangUpSimulates DEF callQuit
<1>3. CASE ~begun
  <2>1. ~controlSocket
    BY <1>3 DEF callQuit, Enter, Staged, ControlStaged
  <2>2. QED
    BY <1>3, <2>1, StillSimulates DEF callQuit, transportVars, controlVars, dataVars
<1>4. QED
  BY <1>1, <1>2, <1>3 DEF Ready

\* A configuration that connect() is given, or the one that reconnect()
\* rebuilds.
LEMMA EnterConnectSimulates ==
  ASSUME Staged, Trusting, NEW cfg, NEW closed \in BOOLEAN, enterConnect(cfg, closed),
         cfg.fault \in Faults,
         ~closed => (cfg.fault = "malformed" => cfg.trust \notin Certs),
         closed => cfg = fresh /\ active.mode # "ImportedCert"
  PROVE  Simulates
<1>1. CASE ~closed /\ cfg.fault \in LongFaults \cup {"none"}
  <2>1. HangUp /\ agreed' = cfg.trust
    BY <1>1 DEF enterConnect
  <2>2. Owned' /\ ~controlSocket' /\ ~dataSocket'
    BY <2>1, HangUpCloses DEF Staged
  <2>3. controlTls' = NoTls /\ dataTls' = NoTls
    BY <2>2 DEF Owned, FlagsAgree
  <2>4. pin' \in {cfg.trust, NoPin}
    BY <1>1 DEF enterConnect, EarlyFaults, LongFaults
  <2>5. active'.ca \in {cfg.trust, NoCa}
    BY <1>1 DEF enterConnect, activated, Blank, EarlyFaults, LongFaults
  <2>6. Trusting'
    BY <2>1, <2>3, <2>4, <2>5, TransportAssumption DEF Trusting
  <2>7. QED
    BY <2>2, <2>6, ClosedSimulates
<1>2. CASE ~closed /\ cfg.fault \notin LongFaults \cup {"none"}
  <2>1. UNCHANGED <<transportVars, connected, agreed>>
    BY <1>2 DEF enterConnect
  <2>2. UNCHANGED active
    BY <1>2 DEF enterConnect, activated, Faults, EarlyFaults, LongFaults
  <2>3. pin' \in Certs => pin' = agreed
    BY <1>2, TransportAssumption DEF Trusting, enterConnect, Faults
  <2>4. UNCHANGED <<controlSocket, controlTls, dataSocket, dataTls>>
    BY <2>1 DEF transportVars, controlVars, dataVars
  <2>5. Trusting'
    BY <2>1, <2>2, <2>3, <2>4 DEF Trusting
  <2>6. QED
    BY <2>1, <2>4, <2>5 DEF Simulates, Session!sessionState, session, data
<1>3. CASE closed
  <2>1. HangUp /\ UNCHANGED agreed
    BY <1>3 DEF enterConnect
  <2>2. Owned' /\ ~controlSocket' /\ ~dataSocket'
    BY <2>1, HangUpCloses DEF Staged
  <2>3. controlTls' = NoTls /\ dataTls' = NoTls
    BY <2>2 DEF Owned, FlagsAgree
  <2>4. pin' \in {pin, NoPin}
    BY <1>3 DEF enterConnect, fresh
  <2>5. active'.ca \in {active.ca, NoCa}
    <3>1. active' = activated(cfg) /\ cfg.mode # "ImportedCert" /\ cfg.fault \in {"user", "none", "malformed"}
      BY <1>3 DEF enterConnect, fresh
    <3>2. CASE cfg.fault \in {"user", "malformed"}
      BY <3>1, <3>2 DEF activated, EarlyFaults
    <3>3. CASE cfg.fault = "none"
      BY <3>1, <3>3 DEF activated, EarlyFaults
    <3>4. QED
      BY <3>1, <3>2, <3>3
  <2>6. Trusting'
    BY <2>1, <2>3, <2>4, <2>5, TransportAssumption DEF Trusting
  <2>7. QED
    BY <2>2, <2>6, ClosedSimulates
<1>4. QED
  BY <1>1, <1>2, <1>3

LEMMA FreshFault == fresh.fault \in Faults
BY DEF fresh, Faults, EarlyFaults

LEMMA CallConnectSimulates ==
  ASSUME HonestConfigs, Staged, Trusting, callConnect PROVE Simulates
<1>1. CASE begun
  <2>1. PICK cfg \in Configs : enterConnect(cfg, FALSE)
    BY <1>1 DEF callConnect
  <2>2. cfg.fault \in Faults
    BY ConfigsAssumption DEF WellFormed, Config
  <2>3. cfg.fault = "malformed" => cfg.trust \notin Certs
    BY DEF HonestConfigs
  <2>4. QED
    BY <2>1, <2>2, <2>3, EnterConnectSimulates
<1>2. CASE ~begun
  BY <1>2, StillSimulates DEF callConnect, transportVars, controlVars, dataVars
<1>3. QED
  BY <1>1, <1>2

LEMMA ReconnectSimulates ==
  ASSUME Staged, Trusting, reconnect PROVE Simulates
<1>1. CASE active.mode = "ImportedCert" \/ ~active.host
  BY <1>1, StillSimulates DEF reconnect, transportVars, controlVars, dataVars, sessionVars
<1>2. CASE ~(active.mode = "ImportedCert" \/ ~active.host)
  <2>1. enterConnect(fresh, TRUE)
    BY <1>2 DEF reconnect
  <2>2. QED
    BY <1>2, <2>1, FreshFault, EnterConnectSimulates
<1>3. QED
  BY <1>1, <1>2

LEMMA CallsSimulate ==
  ASSUME HonestConfigs, Staged, Trusting, Call PROVE Simulates
<1> USE DEF transportVars, controlVars, dataVars, sessionVars
<1>1. CASE begin \/ callQuit \/ callConnect
  BY <1>1, BeginSimulates, CallQuitSimulates, CallConnectSimulates
<1>2. CASE setReconnectBetweenStores
  BY <1>2, StillSimulates DEF setReconnectBetweenStores
<1>3. CASE callReconnect
  BY <1>3, ReconnectSimulates, StillSimulates DEF callReconnect
<1>4. ASSUME NEW call, NEW badArgument, callExchange(call, badArgument) PROVE Simulates
  BY <1>4, StillSimulates DEF callExchange
<1>5. CASE callStore
  BY <1>5, ReconnectSimulates, StillSimulates DEF callStore
<1>6. ASSUME NEW call, NEW badArgument, callDownload(call, badArgument) PROVE Simulates
  BY <1>6, StillSimulates DEF callDownload
<1>7. QED
  BY <1>1, <1>2, <1>3, <1>4, <1>5, <1>6 DEF Call

-----------------------------------------------------------------------------
(***************************************************************************)
(* The steps of connect()                                                  *)
(***************************************************************************)
LEMMA ConnectFailsSimulates ==
  ASSUME Staged, Trusting, NEW e, connectFails(e), UNCHANGED configVars PROVE Simulates
BY HangUpSimulates DEF connectFails

LEMMA ConnectExchangeSimulates ==
  ASSUME Staged, Trusting, NEW phase, NEW verb, NEW after, NEW e,
         connectExchange(phase, verb, after, e)
  PROVE  Simulates
<1>1. UNCHANGED configVars
  BY DEF connectExchange, ConnectStep
<1>2. CASE connectFails(e)
  BY <1>1, <1>2, ConnectFailsSimulates
<1>3. CASE UNCHANGED <<transportVars, connected>>
  BY <1>1, <1>3, StillSimulates DEF transportVars, controlVars, dataVars
<1>4. QED
  BY <1>2, <1>3 DEF connectExchange

LEMMA ConnectTcpOpenSimulates ==
  ASSUME Staged, Trusting, connectTcpOpen PROVE Simulates
<1>1. /\ UNCHANGED <<connected, active, pin, agreed>>
      /\ ~controlSocket /\ ~dataSocket /\ controlTls = NoTls /\ dataTls = NoTls
  BY DEF connectTcpOpen, ConnectStep, configVars, Staged, Owned, FlagsAgree, ControlStaged,
     DataStaged, PlainDataPhases
<1>2. ~dataSocket' /\ dataTls' = NoTls /\ controlTls' = NoTls
  BY DEF connectTcpOpen, connectControl, ReleaseData
<1>3. Trusting'
  BY <1>1, <1>2 DEF Trusting
<1>4. data = "none" /\ data' = "none" /\ session = "closed"
  BY <1>1, <1>2 DEF data, session
<1>5. CASE controlSocket'
  <2>1. session' = "plain"
    BY <1>2, <1>5 DEF session
  <2>2. QED
    BY <1>1, <1>2, <1>3, <1>4, <2>1 DEF Simulates, Session!Next, Session!Open
<1>6. CASE ~controlSocket'
  <2>1. session' = "closed"
    BY <1>6 DEF session
  <2>2. QED
    BY <1>1, <1>2, <1>3, <1>4, <2>1 DEF Simulates, Session!sessionState
<1>7. QED
  BY <1>5, <1>6

LEMMA ConnectControlTlsSimulates ==
  ASSUME Staged, Trusting, connectControlTls PROVE Simulates
<1>1. /\ UNCHANGED <<connected, active, pin, agreed>>
      /\ controlSocket /\ controlTls = NoTls /\ ~connected /\ ~dataSocket /\ dataTls = NoTls
  BY DEF connectControlTls, ConnectStep, configVars, Staged, Owned, FlagsAgree,
     ControlStaged, DataStaged, ConnectPhases, ClearPhases, PlainDataPhases
<1>2. UNCHANGED <<dataSocket, dataTls>>
  BY UpgradeControlLeaves DEF connectControlTls
<1>3. session = "plain" /\ UNCHANGED data
  BY <1>1, <1>2 DEF session, data
<1>4. CASE upgradeControlToTls(sessionTls, TRUE)
  <2>1. PICK cert \in Certs : controlTlsEstablished(sessionTls, cert)
    BY <1>4 DEF upgradeControlToTls
  <2>2. cert = agreed /\ controlTls' = cert /\ UNCHANGED controlSocket
    BY <2>1, AcceptedIsAgreed DEF controlTlsEstablished
  <2>3. cert # NoTls
    BY TransportAssumption
  <2>4. session' = "protected"
    BY <1>1, <2>2, <2>3 DEF session
  <2>5. Trusting'
    BY <1>1, <1>2, <2>2 DEF Trusting
  <2>6. QED
    BY <1>1, <1>2, <1>3, <2>2, <2>4, <2>5 DEF Simulates, Session!Next, Session!Protect
<1>5. CASE upgradeControlToTls(sessionTls, FALSE)
  <2>1. CASE UNCHANGED controlSocket /\ controlTls' = NoTls
    <3>1. UNCHANGED session
      BY <1>1, <2>1 DEF session
    <3>2. Trusting'
      BY <1>1, <1>2, <2>1 DEF Trusting
    <3>3. QED
      BY <1>1, <1>2, <1>3, <2>1, <3>1, <3>2 DEF Simulates, Session!sessionState
  <2>2. CASE ReleaseControl
    <3>1. controlTls' = NoTls /\ session' = "closed" /\ data' = "none"
      BY <1>1, <1>2, <2>2 DEF ReleaseControl, session, data
    <3>2. Trusting'
      BY <1>1, <1>2, <3>1 DEF Trusting
    <3>3. QED
      BY <1>1, <1>2, <3>1, <3>2 DEF Simulates, Session!Next, Session!Close, Session!NoData
  <2>3. QED
    BY <1>1, <1>5, <2>1, <2>2 DEF upgradeControlToTls, controlTlsUnavailable,
       controlTlsRefused, controlTlsMismatch
<1>6. QED
  BY <1>4, <1>5 DEF connectControlTls

LEMMA ConnectTypeISimulates ==
  ASSUME Staged, Trusting, connectTypeI PROVE Simulates
<1>1. UNCHANGED configVars /\ pc = "type-i"
  BY DEF connectTypeI, ConnectStep
<1>2. CASE connectFails("TypeRejected")
  BY <1>1, <1>2, ConnectFailsSimulates
<1>3. CASE connected' = TRUE /\ UNCHANGED transportVars
  <2>1. controlSocket /\ controlTls # NoTls /\ ~connected /\ dataTls = NoTls
    BY <1>1 DEF Staged, Owned, FlagsAgree, ControlStaged, DataStaged, ConnectPhases,
       LoginPhases, PlainDataPhases
  <2>2. UNCHANGED <<controlSocket, controlTls, dataSocket, dataTls, active, pin, agreed>>
    BY <1>1, <1>3 DEF transportVars, controlVars, dataVars, configVars
  <2>3. session = "protected" /\ session' = "open" /\ UNCHANGED data
    BY <1>3, <2>1, <2>2 DEF session, data
  <2>4. Trusting'
    BY <2>2 DEF Trusting
  <2>5. QED
    BY <2>2, <2>3, <2>4 DEF Simulates, Session!Next, Session!LogIn
<1>4. QED
  BY <1>2, <1>3 DEF connectTypeI

LEMMA ConnectStepsSimulate ==
  ASSUME Staged, Trusting,
         \/ connectTcpOpen \/ connectBanner \/ connectAuthTls \/ connectAuthSsl
         \/ connectControlTls \/ connectTlsRefused
         \/ connectPbsz \/ connectProtP \/ connectUser \/ connectPass \/ connectTypeI
  PROVE  Simulates
<1> USE DEF transportVars, controlVars, dataVars, ConnectStep
<1>1. CASE connectTcpOpen \/ connectControlTls \/ connectTypeI
  BY <1>1, ConnectTcpOpenSimulates, ConnectControlTlsSimulates, ConnectTypeISimulates
<1>2. CASE connectBanner
  <2>1. UNCHANGED configVars
    BY <1>2 DEF connectBanner
  <2>2. connectFails("BannerReadFailed") \/ UNCHANGED <<transportVars, connected>>
    BY <1>2 DEF connectBanner
  <2>3. QED
    BY <2>1, <2>2, ConnectFailsSimulates, StillSimulates
<1>3. CASE connectAuthTls
  BY <1>3, StillSimulates DEF connectAuthTls
<1>4. CASE connectTlsRefused
  BY <1>4, ConnectFailsSimulates DEF connectTlsRefused
<1>5. CASE connectAuthSsl \/ connectPbsz \/ connectProtP \/ connectUser \/ connectPass
  BY <1>5, ConnectExchangeSimulates
  DEF connectAuthSsl, connectPbsz, connectProtP, connectUser, connectPass
<1>6. QED
  BY <1>1, <1>2, <1>3, <1>4, <1>5

-----------------------------------------------------------------------------
(***************************************************************************)
(* Commands and transfers                                                  *)
(***************************************************************************)
LEMMA ExchangeSimulates ==
  ASSUME Staged, Trusting, NEW call, NEW phase, NEW verb, NEW accepted, NEW next, NEW refusal,
         exchange(call, phase, verb, accepted, next, refusal)
  PROVE  Simulates
<1>1. UNCHANGED configVars
  BY DEF exchange
<1>2. HangUp \/ UNCHANGED <<transportVars, connected>>
  BY DEF exchange, failAndDisconnect, sessionVars
<1>3. QED
  BY <1>1, <1>2, HangUpSimulates, StillSimulates DEF transportVars, controlVars, dataVars

LEMMA DataOpenSimulates ==
  ASSUME Staged, Trusting, dataOpen PROVE Simulates
<1>1. UNCHANGED <<controlSocket, controlTls, connected, active, pin, agreed>> /\ dataTls' = NoTls
  BY DEF dataOpen, TransferStep, openDataChannel, controlVars, configVars, sessionVars
<1>2. controlSocket /\ controlTls # NoTls /\ connected /\ ~dataSocket /\ dataTls = NoTls
  BY DEF dataOpen, TransferStep, Staged, Owned, FlagsAgree, ControlStaged, DataStaged,
     CommandPhases, PlainDataPhases
<1>3. session = "open" /\ session' = "open" /\ data = "none"
  BY <1>1, <1>2 DEF session, data
<1>4. Trusting'
  BY <1>1 DEF Trusting
<1>5. CASE dataSocket'
  <2>1. data' = "plain"
    BY <1>1, <1>5 DEF data
  <2>2. QED
    BY <1>1, <1>2, <1>3, <1>4, <2>1 DEF Simulates, Session!Next, Session!DataOpen
<1>6. CASE ~dataSocket'
  <2>1. data' = "none"
    BY <1>6 DEF data
  <2>2. QED
    BY <1>1, <1>2, <1>3, <1>4, <2>1 DEF Simulates, Session!sessionState
<1>7. QED
  BY <1>5, <1>6

\* Closing the data channel, as a failure or at the end of the data.
LEMMA CloseDataSimulates ==
  ASSUME Staged, Trusting, closeData, UNCHANGED <<configVars, connected>> PROVE Simulates
<1>1. UNCHANGED <<controlSocket, controlTls>> /\ ~dataSocket' /\ dataTls' = NoTls
  BY DEF closeData, ReleaseData, controlVars
<1>2. dataTls # NoTls => dataSocket
  BY DEF Staged, Owned, FlagsAgree
<1>3. QED
  BY <1>1, <1>2, DataGoneSimulates

LEMMA TransferCommandSimulates ==
  ASSUME Staged, Trusting, NEW phase, NEW verb, NEW refusal,
         transferCommand(phase, verb, refusal)
  PROVE  Simulates
<1>1. UNCHANGED configVars
  BY DEF transferCommand, TransferStep
<1>2. \/ HangUp
      \/ UNCHANGED <<transportVars, connected>>
      \/ closeData /\ UNCHANGED connected
  BY DEF transferCommand, failAndDisconnect, sessionVars
<1>3. QED
  BY <1>1, <1>2, HangUpSimulates, StillSimulates, CloseDataSimulates
  DEF transportVars, controlVars, dataVars

LEMMA TransferTlsSimulates ==
  ASSUME Staged, Trusting, transferTls PROVE Simulates
<1>1. UNCHANGED <<connected, active, pin, agreed>> /\ UNCHANGED configVars
  BY DEF transferTls, TransferStep, configVars, sessionVars
<1>2. dataSocket /\ dataConnected /\ dataTls = NoTls /\ Owned
  BY DEF transferTls, TransferStep, Staged, Owned, FlagsAgree, DataStaged, PlainDataPhases
<1>3. UNCHANGED <<controlSocket, controlTls>>
  BY DEF transferTls, upgradeDataToTls, controlVars
<1>4. CASE upgradeDataToTls(sessionTls, TRUE)
  <2>1. PICK cert \in Certs : /\ handshakeAccepts(sessionTls, cert)
                              /\ completePinnedFingerprintCheck(sessionTls, cert)
                              /\ dataTls' = cert
                              /\ UNCHANGED dataSocket
    BY <1>2, <1>4 DEF upgradeDataToTls
  <2>2. dataTls' = agreed /\ dataTls' # NoTls
    BY <2>1, AcceptedIsAgreed, TransportAssumption
  <2>3. data = "plain" /\ data' = "protected"
    BY <1>2, <2>1, <2>2 DEF data
  <2>4. UNCHANGED session
    BY <1>1, <1>3 DEF session
  <2>5. Trusting'
    BY <1>1, <1>3, <2>2 DEF Trusting
  <2>6. QED
    BY <1>1, <1>3, <2>2, <2>3, <2>4, <2>5 DEF Simulates, Session!Next, Session!DataProtect
<1>5. CASE upgradeDataToTls(sessionTls, FALSE)
  <2>1. ~dataSocket' /\ dataTls' = NoTls
    BY <1>2, <1>5 DEF upgradeDataToTls, ReleaseData
  <2>2. QED
    BY <1>1, <1>2, <1>3, <2>1, DataGoneSimulates
<1>6. QED
  BY <1>4, <1>5 DEF transferTls

LEMMA TransferStepsSimulate ==
  ASSUME Staged, Trusting,
         \/ pasv \/ dataOpen \/ command \/ listCommand \/ transferTls
         \/ bufferFull \/ moveData \/ endOfData \/ dataError \/ drain \/ finalReply
  PROVE  Simulates
<1>1. CASE dataOpen \/ command \/ listCommand \/ transferTls
  BY <1>1, DataOpenSimulates, TransferCommandSimulates, TransferTlsSimulates
  DEF command, listCommand
<1>2. CASE bufferFull \/ endOfData \/ dataError
  BY <1>2, CloseDataSimulates
  DEF bufferFull, endOfData, dataError, LeaveData, TransferStep, sessionVars
<1>3. CASE pasv \/ finalReply
  <2>1. UNCHANGED configVars
    BY <1>3 DEF pasv, finalReply, TransferStep
  <2>2. HangUp \/ UNCHANGED <<transportVars, connected>>
    BY <1>3 DEF pasv, finalReply, failAndDisconnect, sessionVars
  <2>3. QED
    BY <2>1, <2>2, HangUpSimulates, StillSimulates DEF transportVars, controlVars, dataVars
<1>4. CASE moveData \/ drain
  BY <1>4, StillSimulates
  DEF moveData, drain, TransferStep, transportVars, controlVars, dataVars, sessionVars
<1>5. QED
  BY <1>1, <1>2, <1>3, <1>4

-----------------------------------------------------------------------------
(***************************************************************************)
(* The refinement                                                          *)
(***************************************************************************)
LEMMA StepsSimulate ==
  ASSUME Staged, Trusting, Step PROVE Simulates
<1>1. CASE quit
  BY <1>1, HangUpSimulates DEF quit
<1>2. CASE \/ connectTcpOpen \/ connectBanner \/ connectAuthTls \/ connectAuthSsl
           \/ connectControlTls \/ connectTlsRefused
           \/ connectPbsz \/ connectProtP \/ connectUser \/ connectPass \/ connectTypeI
  BY <1>2, ConnectStepsSimulate
<1>3. CASE mkd \/ size \/ dele \/ rmd \/ renameFrom \/ renameTo \/ isControlAlive
  BY <1>3, ExchangeSimulates DEF mkd, size, dele, rmd, renameFrom, renameTo, isControlAlive
<1>4. CASE \/ pasv \/ dataOpen \/ command \/ listCommand \/ transferTls
           \/ bufferFull \/ moveData \/ endOfData \/ dataError \/ drain \/ finalReply
  BY <1>4, TransferStepsSimulate
<1>5. QED
  BY <1>1, <1>2, <1>3, <1>4 DEF Step

LEMMA NextSimulates ==
  ASSUME HonestConfigs, Staged, Trusting, [Next]_vars PROVE Simulates
<1>1. CASE Call
  BY <1>1, CallsSimulate
<1>2. CASE Step
  BY <1>2, StepsSimulate
<1>3. CASE serverLeaves
  BY <1>3, StillSimulates DEF serverLeaves, transportVars, controlVars, dataVars, sessionVars
<1>4. CASE UNCHANGED vars
  BY <1>4, StillSimulates DEF vars, transportVars, controlVars, dataVars, sessionVars
<1>5. QED
  BY <1>1, <1>2, <1>3, <1>4 DEF Next

LEMMA TrustingStart == Init => Trusting
BY TransportAssumption DEF Init, TransportInit, Trusting, Blank

LEMMA SessionStart == Init => Session!Init
BY DEF Init, TransportInit, Session!Init, session, data

\* Whatever configurations were refused in between, both channels are only
\* ever protected with the certificate that connect() was last told to trust.
THEOREM ClientTrustsItsPeer ==
  ASSUME HonestConfigs PROVE Spec => []TrustedPeers
<1>1. Trusting => TrustedPeers
  BY DEF Trusting, TrustedPeers
<1>2. Staged /\ Trusting /\ [Next]_vars => Trusting'
  BY NextSimulates DEF Simulates
<1>3. QED
  BY <1>1, <1>2, TrustingStart, ClientStaged, PTL DEF Spec

\* The client implements the abstract session: it starts where a session
\* starts, and each of its steps is a step of a session or none.
THEOREM ClientImplementsSession ==
  ASSUME HonestConfigs PROVE Spec => ImplementsSession
<1>1. Staged /\ Trusting /\ [Next]_vars
        => Trusting' /\ [Session!Next]_(Session!sessionState)
  BY NextSimulates DEF Simulates
<1>2. QED
  BY <1>1, TrustingStart, SessionStart, ClientStaged, PTL
  DEF Spec, ImplementsSession, Session!Spec

-----------------------------------------------------------------------------
(***************************************************************************)
(* What the abstract session guarantees, and the client inherits           *)
(***************************************************************************)
LEMMA ConfinedStep ==
  Session!Confined /\ [Session!Next]_(Session!sessionState) => Session!Confined'
<1> SUFFICES ASSUME Session!Confined, [Session!Next]_(Session!sessionState)
             PROVE  Session!Confined'
  OBVIOUS
<1> USE DEF Session!Confined
<1>1. CASE Session!Close
  BY <1>1 DEF Session!Close, Session!NoData
<1>2. CASE Session!Open
  BY <1>2 DEF Session!Open
<1>3. CASE Session!Protect
  BY <1>3 DEF Session!Protect
<1>4. CASE Session!LogIn
  BY <1>4 DEF Session!LogIn
<1>5. CASE Session!DataOpen
  BY <1>5 DEF Session!DataOpen
<1>6. CASE Session!DataProtect
  BY <1>6 DEF Session!DataProtect
<1>7. CASE Session!DataClose
  BY <1>7 DEF Session!DataClose, Session!NoData
<1>8. CASE UNCHANGED Session!sessionState
  BY <1>8 DEF Session!sessionState
<1>9. QED
  BY <1>1, <1>2, <1>3, <1>4, <1>5, <1>6, <1>7, <1>8 DEF Session!Next

\* The abstract session lets data flow only when it is logged in, and both its
\* channels are protected with the one peer the application trusts.
THEOREM SessionConfined == ImplementsSession => []Session!Confined
<1>1. Session!Init => Session!Confined
  BY DEF Session!Init, Session!Confined
<1>2. QED
  BY <1>1, ConfinedStep, PTL DEF ImplementsSession, Session!Spec

\* Data flows only in a session of the client that is logged in, on channels
\* protected with the peer that protects the session.
THEOREM ClientIsConfined ==
  ASSUME HonestConfigs PROVE Spec => []Session!Confined
BY ClientImplementsSession, SessionConfined, PTL
=============================================================================
