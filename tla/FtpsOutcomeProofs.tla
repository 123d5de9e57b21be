-------------------------- MODULE FtpsOutcomeProofs --------------------------
(***************************************************************************)
(* What a call says when it returns is true: an error that ends the        *)
(* session is returned exactly by the calls that closed it, a download     *)
(* reported as a success is complete, and a success is that of the call's  *)
(* own commands.  And a call gets nearer to its return with every step.    *)
(***************************************************************************)
EXTENDS FtpsConversationProofs

-----------------------------------------------------------------------------
(***************************************************************************)
(* The call in progress and the phase it is in                             *)
(***************************************************************************)
ExchangePhases == {"exchange", "rename-to"}

\* A phase belongs to a call that has it, on a host that was configured, and
\* no failure that waits for its drain is one that ends the session.
Called ==
  /\ connected => active.host
  /\ pc \in ConnectPhases => active.host /\ op \in {"connect", "reconnect", "store"}
  /\ pc = "quit" => op = "quit"
  /\ pc \in TransferPhases => op \in Transfers
  /\ pc \in ExchangePhases => op \in Exchanges
  /\ pc = "drain" => ~ftpsIsSessionDead(failure)

\* A call goes on in the phases it has, or returns.
LEMMA StaysCalled ==
  ASSUME Called, UNCHANGED <<active, op>>, connected' => connected \/ active.host,
         pc' = "drain" => ~ftpsIsSessionDead(failure'),
         \/ pc' = "idle"
         \/ pc \in ConnectPhases /\ pc' \in ConnectPhases
         \/ pc \in TransferPhases /\ pc' \in TransferPhases
         \/ pc' \in ExchangePhases /\ op \in Exchanges
         \/ pc' = "pasv" /\ op = "store"
  PROVE  Called'
BY DEF Called, ExchangePhases, ConnectPhases, TransferPhases, DataPhases, Transfers

\* A call begins.
LEMMA EntersCalled ==
  ASSUME Called, connected' => active'.host,
         \/ pc' = "idle"
         \/ pc' = "tcp-open" /\ active'.host /\ op' \in {"connect", "reconnect", "store"}
         \/ pc' = "quit" /\ op' = "quit"
         \/ pc' = "pasv" /\ op' \in Transfers
         \/ pc' = "exchange" /\ op' \in Exchanges
  PROVE  Called'
BY DEF Called, ExchangePhases, ConnectPhases, TransferPhases, DataPhases

LEMMA EnterConnectCalled ==
  ASSUME Called, NEW cfg, NEW closed, cfg.fault \in Faults, enterConnect(cfg, closed)
  PROVE  /\ connected' => active'.host
         /\ pc' = "idle" \/ (pc' = "tcp-open" /\ active'.host)
<1>1. CASE cfg.fault \in EarlyFaults \cup {"malformed"}
  <2>1. active' = active
    BY <1>1 DEF enterConnect, activated, EarlyFaults
  <2>2. connected' = FALSE \/ UNCHANGED connected
    BY DEF enterConnect
  <2>3. pc' = "idle"
    BY <1>1 DEF enterConnect, EarlyFaults, Return
  <2>4. QED
    BY <2>1, <2>2, <2>3 DEF Called
<1>2. CASE cfg.fault \in LongFaults
  BY <1>2 DEF enterConnect, LongFaults, Return
<1>3. CASE cfg.fault = "none"
  <2>1. activated(cfg).host
    BY <1>3 DEF activated, EarlyFaults
  <2>2. QED
    BY <1>3, <2>1 DEF enterConnect, Goto
<1>4. QED
  BY <1>1, <1>2, <1>3 DEF Faults

LEMMA ReconnectCalled ==
  ASSUME Called, reconnect
  PROVE  /\ connected' => active'.host
         /\ pc' = "idle" \/ (pc' = "tcp-open" /\ active'.host)
<1>1. CASE Return(FALSE, "ConnectionFailed") /\ UNCHANGED <<configVars, sessionVars>>
  BY <1>1 DEF Return, configVars, sessionVars, Called
<1>2. CASE enterConnect(fresh, TRUE)
  BY <1>2, FreshFault, EnterConnectCalled
<1>3. QED
  BY <1>1, <1>2 DEF reconnect

LEMMA CallCalled ==
  ASSUME Called, Call PROVE Called'
<1>1. CASE begin
  <2>1. pc' = "idle" /\ (connected' => active'.host)
    BY <1>1 DEF begin, Return, configVars, Called
  <2>2. QED
    BY <2>1, EntersCalled
<1>2. CASE callQuit
  <2>1. pc' \in {"idle", "quit"} /\ op' = "quit" /\ UNCHANGED active
        /\ (connected' = FALSE \/ UNCHANGED connected)
    BY <1>2 DEF callQuit, Enter, Goto, Return, configVars
  <2>2. QED
    BY <2>1, EntersCalled DEF Called
<1>3. CASE setReconnectBetweenStores
  BY <1>3, EntersCalled DEF setReconnectBetweenStores, Called, configVars, sessionVars
<1>4. CASE callConnect
  <2>1. op' = "connect"
    BY <1>4 DEF callConnect, Enter
  <2>2. CASE begun
    <3>1. PICK cfg \in Configs : enterConnect(cfg, FALSE)
      BY <1>4, <2>2 DEF callConnect
    <3>2. cfg.fault \in Faults
      BY ConfigsAssumption DEF WellFormed, Config
    <3>3. QED
      BY <2>1, <3>1, <3>2, EnterConnectCalled, EntersCalled
  <2>3. CASE ~begun
    <3>1. pc' = "idle" /\ UNCHANGED <<active, connected>>
      BY <1>4, <2>3 DEF callConnect, Return, configVars
    <3>2. QED
      BY <3>1, EntersCalled DEF Called
  <2>4. QED
    BY <2>2, <2>3
<1>5. CASE callReconnect
  <2>1. op' = "reconnect"
    BY <1>5 DEF callReconnect, Enter
  <2>2. CASE begun
    BY <1>5, <2>1, <2>2, ReconnectCalled, EntersCalled DEF callReconnect
  <2>3. CASE ~begun
    <3>1. pc' = "idle" /\ UNCHANGED <<active, connected>>
      BY <1>5, <2>3 DEF callReconnect, Return, configVars, sessionVars
    <3>2. QED
      BY <3>1, EntersCalled DEF Called
  <2>4. QED
    BY <2>2, <2>3
<1>6. ASSUME NEW call \in Exchanges, NEW badArgument, callExchange(call, badArgument)
      PROVE  Called'
  <2>1. pc' \in {"idle", "exchange"} /\ op' = call /\ UNCHANGED <<active, connected>>
    BY <1>6 DEF callExchange, Enter, Goto, Return, configVars, sessionVars
  <2>2. QED
    BY <2>1, EntersCalled DEF Called
<1>7. CASE callStore
  <2>1. op' = "store"
    BY <1>7 DEF callStore, Enter
  <2>2. CASE Ready /\ reconnectBetweenStores /\ storesSinceConnect > 0
    BY <1>7, <2>1, <2>2, ReconnectCalled, EntersCalled DEF callStore
  <2>3. CASE ~(Ready /\ reconnectBetweenStores /\ storesSinceConnect > 0)
    <3>1. pc' \in {"idle", "pasv"} /\ UNCHANGED <<active, connected>>
      BY <1>7, <2>3 DEF callStore, storeArguments, Goto, Return, configVars, sessionVars
    <3>2. QED
      BY <2>1, <3>1, EntersCalled DEF Called, Transfers
  <2>4. QED
    BY <2>2, <2>3
<1>8. ASSUME NEW call \in Transfers, NEW badArgument, callDownload(call, badArgument)
      PROVE  Called'
  <2>1. pc' \in {"idle", "pasv"} /\ op' = call /\ UNCHANGED <<active, connected>>
    BY <1>8 DEF callDownload, Enter, Goto, Return, configVars, sessionVars
  <2>2. QED
    BY <2>1, EntersCalled DEF Called
<1>9. QED
  BY <1>1, <1>2, <1>3, <1>4, <1>5, <1>6, <1>7, <1>8 DEF Call, Exchanges, Transfers

\* The steps keep the configuration, the arguments and begun.
LEMMA StepKeepsConfig ==
  ASSUME Step PROVE UNCHANGED <<configVars, op, argOk, total, room, begun, reconnectBetweenStores>>
<1>1. UNCHANGED <<op, argOk, total, room>>
  BY StepKeepsArguments
<1>2. CASE quit
  BY <1>1, <1>2 DEF quit
<1>3. CASE connectTcpOpen \/ connectBanner \/ connectAuthTls \/ connectAuthSsl
           \/ connectControlTls \/ connectTlsRefused \/ connectPbsz \/ connectProtP
           \/ connectUser \/ connectPass \/ connectTypeI
  <2>1. \E phase : ConnectStep(phase)
    BY <1>3 DEF connectTcpOpen, connectBanner, connectAuthTls, connectAuthSsl,
       connectControlTls, connectTlsRefused, connectPbsz, connectProtP, connectUser,
       connectPass, connectTypeI, connectExchange
  <2>2. QED
    BY <1>1, <2>1 DEF ConnectStep
<1>4. CASE mkd \/ size \/ dele \/ rmd \/ renameFrom \/ renameTo \/ isControlAlive
  BY <1>1, <1>4 DEF mkd, size, dele, rmd, renameFrom, renameTo, isControlAlive, exchange
<1>5. CASE pasv \/ dataOpen \/ command \/ listCommand \/ transferTls
           \/ bufferFull \/ moveData \/ endOfData \/ dataError \/ drain \/ finalReply
  <2>1. \E phase : TransferStep(phase)
    BY <1>5 DEF pasv, dataOpen, command, listCommand, transferCommand, transferTls,
       bufferFull, moveData, endOfData, dataError, drain, finalReply
  <2>2. QED
    BY <1>1, <2>1 DEF TransferStep
<1>6. QED
  BY <1>2, <1>3, <1>4, <1>5 DEF Step

\* Between two calls there is no step of a call.
LEMMA NoStepWhenIdle == Idle => ~Step
BY DEF Idle, Step, quit, connectTcpOpen, connectBanner, connectAuthTls, connectAuthSsl,
   connectControlTls, connectTlsRefused, connectPbsz, connectProtP, connectUser, connectPass,
   connectTypeI, connectExchange, ConnectStep, mkd, size, dele, rmd, renameFrom, renameTo,
   isControlAlive, exchange, pasv, dataOpen, command, listCommand, transferCommand,
   transferTls, bufferFull, moveData, endOfData, dataError, drain, finalReply, TransferStep

-----------------------------------------------------------------------------
(***************************************************************************)
(* How a call ends                                                         *)
(***************************************************************************)

\* A call that returns success leaves a session; one that fails leaves one
\* exactly when its error is not one of those that end a session.
Ends ==
  pc' = "idle" => IF ok' THEN connected' ELSE ftpsIsSessionDead(lastError') <=> ~connected'

\* The other steps of a call.
Goes(phases) == pc' \in phases /\ UNCHANGED connected

LEMMA SessionLost ==
  ASSUME NEW e, ftpsIsSessionDead(e), failAndDisconnect(e) \/ (connectFails(e) /\ ~connected)
  PROVE  Ends /\ pc' = "idle" /\ ~connected'
BY DEF Ends, failAndDisconnect, connectFails, Return

LEMMA CallRefused ==
  ASSUME NEW e, ~ftpsIsSessionDead(e), connected', Return(FALSE, e)
  PROVE  Ends /\ pc' = "idle"
BY DEF Ends, Return

LEMMA CallSucceeds ==
  ASSUME connected', Return(TRUE, "None") PROVE Ends /\ pc' = "idle"
BY DEF Ends, Return

\* A step of connect() fails, or leads to another phase of connect().
LEMMA LoginEnds ==
  ASSUME Staged, Called,
         connectTcpOpen \/ connectBanner \/ connectAuthTls \/ connectAuthSsl
         \/ connectControlTls \/ connectTlsRefused \/ connectPbsz \/ connectProtP
         \/ connectUser \/ connectPass
  PROVE  /\ pc \in ConnectPhases
         /\ Ends
         /\ ~connected'
         /\ pc' \in ConnectPhases \cup {"idle"}
         /\ pc' = "idle" => ~ok'
<1> DEFINE Dead == {"ConnectionFailed", "BannerReadFailed", "AuthTlsRejected", "PbszRejected",
                    "ProtPRejected", "LoginRejected", "CertValidationFailed",
                    "ControlTlsHandshakeFailed"}
<1>1. \A e \in Dead : ftpsIsSessionDead(e)
  BY DEF ftpsIsSessionDead
<1>2. ASSUME NEW phase \in ConnectPhases, ConnectStep(phase) PROVE pc \in ConnectPhases /\ ~connected
  BY <1>2 DEF ConnectStep, Staged, ControlStaged
<1>3. ASSUME ~connected, NEW e \in Dead, connectFails(e)
      PROVE  Ends /\ ~connected' /\ pc' = "idle" /\ ~ok'
  <2>1. ftpsIsSessionDead(e)
    BY <1>1, <1>3
  <2>2. QED
    BY <1>3, <2>1, SessionLost DEF connectFails, Return
<1>4. ASSUME ~connected, NEW phase \in ConnectPhases, pc' = phase, UNCHANGED connected
      PROVE  Ends /\ ~connected' /\ pc' \in ConnectPhases /\ pc' # "idle"
  BY <1>4 DEF Ends, ConnectPhases
<1>5. CASE connectTcpOpen
  <2>1. ConnectStep("tcp-open") /\ "tcp-open" \in ConnectPhases /\ "banner" \in ConnectPhases
    BY <1>5 DEF connectTcpOpen, ConnectPhases
  <2>2. UNCHANGED connected /\ (pc' = "banner" \/ Return(FALSE, "ConnectionFailed"))
    BY <1>5 DEF connectTcpOpen, Goto
  <2>3. CASE Return(FALSE, "ConnectionFailed")
    BY <1>1, <1>2, <2>1, <2>2, <2>3 DEF Ends, Return
  <2>4. QED
    BY <1>2, <1>4, <2>1, <2>2, <2>3
<1>6. CASE connectBanner
  <2>1. ConnectStep("banner") /\ {"banner", "auth-tls"} \subseteq ConnectPhases
    BY <1>6 DEF connectBanner, ConnectPhases
  <2>2. connectFails("BannerReadFailed") \/ (pc' = "auth-tls" /\ UNCHANGED connected)
    BY <1>6 DEF connectBanner, Goto
  <2>3. QED
    BY <1>2, <1>3, <1>4, <2>1, <2>2
<1>7. CASE connectAuthTls
  <2>1. ConnectStep("auth-tls") /\ {"auth-tls", "auth-ssl", "control-tls"} \subseteq ConnectPhases
    BY <1>7 DEF connectAuthTls, ConnectPhases
  <2>2. UNCHANGED connected /\ pc' \in {"auth-ssl", "control-tls"}
    BY <1>7 DEF connectAuthTls, Goto
  <2>3. QED
    BY <1>2, <1>4, <2>1, <2>2
<1>8. CASE connectControlTls
  <2>1. ConnectStep("control-tls") /\ {"control-tls", "pbsz", "tls-refused"} \subseteq ConnectPhases
    BY <1>8 DEF connectControlTls, ConnectPhases
  <2>2. UNCHANGED connected /\ pc' \in {"pbsz", "tls-refused"}
    BY <1>8 DEF connectControlTls, Goto
  <2>3. QED
    BY <1>2, <1>4, <2>1, <2>2
<1>9. CASE connectTlsRefused
  <2>1. ConnectStep("tls-refused") /\ "tls-refused" \in ConnectPhases
    BY <1>9 DEF connectTlsRefused, ConnectPhases
  <2>2. \E e \in Dead : connectFails(e)
    BY <1>9 DEF connectTlsRefused
  <2>3. QED
    BY <1>2, <1>3, <2>1, <2>2
<1>10. ASSUME NEW phase \in ConnectPhases, NEW verb, NEW after, NEW e \in Dead,
              \A c \in DOMAIN after : after[c] \in ConnectPhases,
              connectExchange(phase, verb, after, e)
       PROVE  /\ pc \in ConnectPhases /\ Ends /\ ~connected'
              /\ pc' \in ConnectPhases \cup {"idle"} /\ (pc' = "idle" => ~ok')
  <2>1. ConnectStep(phase)
    BY <1>10 DEF connectExchange
  <2>2. connectFails(e) \/ (UNCHANGED connected /\ pc' \in ConnectPhases)
    BY <1>10 DEF connectExchange, Goto
  <2>3. QED
    BY <1>2, <1>3, <1>4, <1>10, <2>1, <2>2
<1>11. {"auth-ssl", "control-tls", "pbsz", "prot-p", "user", "pass", "type-i"} \subseteq ConnectPhases
  BY DEF ConnectPhases
<1>12. CASE connectAuthSsl
  <2> DEFINE after == [c \in {234} |-> "control-tls"]
  <2>1. connectExchange("auth-ssl", "AUTH SSL", after, "AuthTlsRejected")
    BY <1>12 DEF connectAuthSsl
  <2>2. \A c \in DOMAIN after : after[c] \in ConnectPhases
    BY <1>11
  <2> HIDE DEF after
  <2>3. QED
    BY <1>10, <1>11, <2>1, <2>2
<1>13. CASE connectPbsz
  BY <1>10, <1>11, <1>13 DEF connectPbsz
<1>14. CASE connectProtP
  BY <1>10, <1>11, <1>14 DEF connectProtP
<1>15. CASE connectUser
  BY <1>10, <1>11, <1>15 DEF connectUser
<1>16. CASE connectPass
  BY <1>10, <1>11, <1>16 DEF connectPass
<1>17. QED
  BY <1>5, <1>6, <1>7, <1>8, <1>9, <1>12, <1>13, <1>14, <1>15, <1>16

\* The last step of connect(): the session is over, or open.
LEMMA TypeIEnds ==
  ASSUME Staged, connectTypeI
  PROVE  /\ pc = "type-i"
         /\ Ends
         /\ \/ pc' = "idle" /\ ok' /\ connected' /\ op # "store"
            \/ pc' = "pasv" /\ connected' /\ op = "store"
            \/ pc' = "idle" /\ ~ok'
<1>1. pc = "type-i" /\ ~connected
  BY DEF connectTypeI, ConnectStep, Staged, ControlStaged, ConnectPhases
<1>2. \/ connectFails("TypeRejected")
      \/ connected' = TRUE /\ op # "store" /\ Return(TRUE, "None")
      \/ connected' = TRUE /\ op = "store" /\ pc' = "pasv"
      \/ connected' = TRUE /\ Return(FALSE, "TransferFailed")
  BY DEF connectTypeI
<1>3. CASE connectFails("TypeRejected")
  <2>1. ftpsIsSessionDead("TypeRejected")
    BY DEF ftpsIsSessionDead
  <2>2. QED
    BY <1>1, <1>3, <2>1, SessionLost DEF connectFails, Return
<1>4. CASE connected' = TRUE /\ op # "store" /\ Return(TRUE, "None")
  BY <1>1, <1>4, CallSucceeds DEF Return
<1>5. CASE connected' = TRUE /\ op = "store" /\ pc' = "pasv"
  BY <1>1, <1>5 DEF Ends
<1>6. CASE connected' = TRUE /\ Return(FALSE, "TransferFailed")
  <2>1. ~ftpsIsSessionDead("TransferFailed")
    BY DEF ftpsIsSessionDead
  <2>2. QED
    BY <1>1, <1>6, <2>1, CallRefused DEF Return
<1>7. QED
  BY <1>2, <1>3, <1>4, <1>5, <1>6

\* A command: refused or done on a session that goes on, or the session is lost.
LEMMA ExchangeEnds ==
  ASSUME Staged, mkd \/ size \/ dele \/ rmd \/ renameFrom \/ renameTo \/ isControlAlive
  PROVE  /\ pc \in ExchangePhases /\ op \in Exchanges /\ connected
         /\ Ends
         /\ pc' \in ExchangePhases \cup {"idle"}
<1> DEFINE Refusals == {"DirectoryCreateFailed", "SizeQueryFailed", "DeleteFailed",
                        "DirectoryRemoveFailed", "RenameFailed", "TransferFailed"}
<1>1. \A e \in Refusals : ~ftpsIsSessionDead(e)
  BY DEF ftpsIsSessionDead
<1>2. ASSUME NEW call \in Exchanges, NEW phase \in ExchangePhases, NEW verb, NEW accepted,
             NEW next \in {"idle", "rename-to"}, NEW refusal \in Refusals,
             exchange(call, phase, verb, accepted, next, refusal)
      PROVE  /\ pc \in ExchangePhases /\ op \in Exchanges /\ connected
             /\ Ends
             /\ pc' \in ExchangePhases \cup {"idle"}
  <2>1. pc = phase /\ op = call
    BY <1>2 DEF exchange
  <2>2. connected
    BY <2>1 DEF Staged, ControlStaged, ExchangePhases, CommandPhases
  <2>3. \/ failAndDisconnect("ConnectionFailed")
        \/ UNCHANGED connected /\ Return(FALSE, refusal)
        \/ UNCHANGED connected /\ Return(TRUE, "None")
        \/ next # "idle" /\ Goto(next)
    BY <1>2 DEF exchange, sessionVars
  <2>4. CASE failAndDisconnect("ConnectionFailed")
    <3>1. ftpsIsSessionDead("ConnectionFailed")
      BY DEF ftpsIsSessionDead
    <3>2. QED
      BY <2>1, <2>2, <2>4, <3>1, SessionLost
  <2>5. CASE UNCHANGED connected /\ Return(FALSE, refusal)
    BY <1>1, <2>1, <2>2, <2>5, CallRefused
  <2>6. CASE UNCHANGED connected /\ Return(TRUE, "None")
    BY <2>1, <2>2, <2>6, CallSucceeds
  <2>7. CASE next # "idle" /\ Goto(next)
    BY <2>1, <2>2, <2>7 DEF Ends, Goto, ExchangePhases
  <2>8. QED
    BY <2>3, <2>4, <2>5, <2>6, <2>7
<1>3. Exchanges = {"mkd", "size", "dele", "rmd", "rename", "isControlAlive"}
      /\ ExchangePhases = {"exchange", "rename-to"}
  BY DEF Exchanges, ExchangePhases
<1>4. CASE mkd
  BY <1>2, <1>3, <1>4 DEF mkd
<1>5. CASE size
  BY <1>2, <1>3, <1>5 DEF size
<1>6. CASE dele
  BY <1>2, <1>3, <1>6 DEF dele
<1>7. CASE rmd
  BY <1>2, <1>3, <1>7 DEF rmd
<1>8. CASE renameFrom
  BY <1>2, <1>3, <1>8 DEF renameFrom
<1>9. CASE renameTo
  BY <1>2, <1>3, <1>9 DEF renameTo
<1>10. CASE isControlAlive
  BY <1>2, <1>3, <1>10 DEF isControlAlive
<1>11. QED
  BY <1>4, <1>5, <1>6, <1>7, <1>8, <1>9, <1>10

\* A transfer goes on to another of its phases, fails on a session that goes
\* on, or loses the session.
LEMMA TransferEnds ==
  ASSUME Staged, Called,
         pasv \/ dataOpen \/ command \/ listCommand \/ transferTls
         \/ bufferFull \/ moveData \/ endOfData \/ dataError \/ drain \/ finalReply
  PROVE  /\ pc \in TransferPhases /\ connected
         /\ Ends
         /\ pc' \in TransferPhases \cup {"idle"}
         /\ pc' = "drain" => ~ftpsIsSessionDead(failure')
<1> DEFINE Refusals == {"PassiveModeRejected", "PasvParseFailed", "DataConnectionFailed",
                        "TransferFailed", "ListFailed", "DataTlsHandshakeFailed",
                        "SessionReuseRequired", "FinalReplyFailed"}
           Result == /\ Ends
                     /\ pc' \in TransferPhases \cup {"idle"}
                     /\ pc' = "drain" => ~ftpsIsSessionDead(failure')
<1>1. \A e \in Refusals : ~ftpsIsSessionDead(e)
  BY DEF ftpsIsSessionDead
<1>2. pc \in TransferPhases /\ connected
  <2>1. PICK phase \in TransferPhases : TransferStep(phase)
    BY DEF pasv, dataOpen, command, listCommand, transferCommand, transferTls, bufferFull,
       moveData, endOfData, dataError, drain, finalReply, TransferPhases, DataPhases
  <2>2. QED
    BY <2>1, TransferReady DEF Ready
<1>3. ASSUME failAndDisconnect("ConnectionFailed") PROVE Result
  <2>1. ftpsIsSessionDead("ConnectionFailed")
    BY DEF ftpsIsSessionDead
  <2>2. QED
    BY <1>3, <2>1, SessionLost
<1>4. ASSUME UNCHANGED connected, NEW e \in Refusals, Return(FALSE, e) PROVE Result
  BY <1>1, <1>2, <1>4, CallRefused
<1>5. ASSUME NEW phase \in TransferPhases, Goto(phase),
             phase = "drain" => failure' \in Refusals
      PROVE  Result
  BY <1>1, <1>5 DEF Ends, Goto, TransferPhases, DataPhases
<1>6. {"pasv", "data-open", "command", "list", "data-tls", "data", "final", "drain"} \subseteq TransferPhases
  BY DEF TransferPhases, DataPhases
<1> SUFFICES Result
  BY <1>2
<1> HIDE DEF Result
<1>7. CASE pasv
  <2>1. \/ failAndDisconnect("ConnectionFailed")
        \/ UNCHANGED connected /\ Return(FALSE, "PassiveModeRejected")
        \/ UNCHANGED connected /\ Return(FALSE, "PasvParseFailed")
        \/ Goto("data-open")
    BY <1>7 DEF pasv, sessionVars
  <2>2. QED
    BY <1>3, <1>4, <1>5, <1>6, <2>1
<1>8. CASE dataOpen
  <2>1. UNCHANGED connected /\ (Goto("command") \/ Return(FALSE, "DataConnectionFailed"))
    BY <1>8 DEF dataOpen, sessionVars
  <2>2. QED
    BY <1>4, <1>5, <1>6, <2>1
<1>9. ASSUME NEW phase, NEW verb, NEW refusal \in Refusals, transferCommand(phase, verb, refusal)
      PROVE  Result
  <2>1. \/ failAndDisconnect("ConnectionFailed")
        \/ Goto("data-tls") \/ Goto("list")
        \/ UNCHANGED connected /\ Return(FALSE, refusal)
    BY <1>9 DEF transferCommand, sessionVars
  <2>2. QED
    BY <1>3, <1>4, <1>5, <1>6, <1>9, <2>1
<1>10. CASE command \/ listCommand
  BY <1>9, <1>10 DEF command, listCommand
<1>11. CASE transferTls
  <2>1. \/ Goto("data")
        \/ Goto("drain") /\ failure' \in {"SessionReuseRequired", "DataTlsHandshakeFailed"}
    BY <1>11 DEF transferTls
  <2>2. QED
    BY <1>5, <1>6, <2>1
<1>12. CASE bufferFull \/ dataError
  <2>1. Goto("drain") /\ failure' = transferError
    BY <1>12 DEF bufferFull, dataError, LeaveData
  <2>2. transferError \in Refusals
    BY DEF transferError
  <2>3. QED
    BY <1>5, <1>6, <2>1, <2>2
<1>13. CASE moveData
  BY <1>5, <1>6, <1>13 DEF moveData
<1>14. CASE endOfData
  BY <1>5, <1>6, <1>14 DEF endOfData, LeaveData
<1>15. CASE drain
  <2>1. pc = "drain" /\ UNCHANGED connected /\ Return(FALSE, failure)
    BY <1>15 DEF drain, TransferStep, sessionVars
  <2>2. ~ftpsIsSessionDead(failure)
    BY <2>1 DEF Called
  <2>3. QED
    BY <1>2, <2>1, <2>2, CallRefused DEF Result
<1>16. CASE finalReply
  <2>1. PICK got \in ReadResponse(owed) :
          \/ failAndDisconnect("ConnectionFailed")
          \/ /\ UNCHANGED connected
             /\ Return(Complete(got.reply), IF Complete(got.reply) THEN "None" ELSE "FinalReplyFailed")
    BY <1>16 DEF finalReply
  <2>2. CASE UNCHANGED connected /\ Complete(got.reply) /\ Return(TRUE, "None")
    BY <1>2, <2>2, CallSucceeds DEF Result
  <2>3. CASE UNCHANGED connected /\ ~Complete(got.reply) /\ Return(FALSE, "FinalReplyFailed")
    BY <1>4, <2>3
  <2>4. Complete(got.reply) \in BOOLEAN
    BY DEF Complete
  <2>5. QED
    BY <1>3, <2>1, <2>2, <2>3, <2>4, Zenon DEF Return
<1>17. QED
  BY <1>7, <1>8, <1>10, <1>11, <1>12, <1>13, <1>14, <1>15, <1>16

\* Every step of a call but quit's ends it rightly.
LEMMA StepEnds ==
  ASSUME Staged, Called, Step, ~quit PROVE Ends
BY LoginEnds, TypeIEnds, ExchangeEnds, TransferEnds DEF Step

LEMMA StepCalled ==
  ASSUME Staged, Called, Step PROVE Called'
<1>1. UNCHANGED <<active, op>>
  BY StepKeepsConfig DEF configVars
<1>2. CASE quit
  <2>1. connected' = FALSE /\ pc' = "idle"
    BY <1>2 DEF quit, Return
  <2>2. QED
    BY <1>1, <2>1, StaysCalled
<1>3. CASE connectTcpOpen \/ connectBanner \/ connectAuthTls \/ connectAuthSsl
           \/ connectControlTls \/ connectTlsRefused \/ connectPbsz \/ connectProtP
           \/ connectUser \/ connectPass
  <2>1. pc \in ConnectPhases /\ ~connected' /\ pc' \in ConnectPhases \cup {"idle"}
    BY <1>3, LoginEnds
  <2>2. pc' # "drain"
    BY <2>1 DEF ConnectPhases
  <2>3. QED
    BY <1>1, <2>1, <2>2, StaysCalled
<1>4. CASE connectTypeI
  <2>1. pc = "type-i" /\ (pc' = "idle" \/ (pc' = "pasv" /\ op = "store"))
    BY <1>4, TypeIEnds
  <2>2. active.host
    BY <2>1 DEF Called, ConnectPhases
  <2>3. QED
    BY <1>1, <2>1, <2>2, StaysCalled
<1>5. CASE mkd \/ size \/ dele \/ rmd \/ renameFrom \/ renameTo \/ isControlAlive
  <2>1. op \in Exchanges /\ connected /\ pc' \in ExchangePhases \cup {"idle"}
    BY <1>5, ExchangeEnds
  <2>2. pc' # "drain"
    BY <2>1 DEF ExchangePhases
  <2>3. QED
    BY <1>1, <2>1, <2>2, StaysCalled
<1>6. CASE pasv \/ dataOpen \/ command \/ listCommand \/ transferTls
           \/ bufferFull \/ moveData \/ endOfData \/ dataError \/ drain \/ finalReply
  <2>1. /\ pc \in TransferPhases /\ connected /\ pc' \in TransferPhases \cup {"idle"}
        /\ pc' = "drain" => ~ftpsIsSessionDead(failure')
    BY <1>6, TransferEnds
  <2>2. QED
    BY <1>1, <2>1, StaysCalled
<1>7. QED
  BY <1>2, <1>3, <1>4, <1>5, <1>6 DEF Step

LEMMA CalledStart == Init => Called
BY DEF Init, Called, ConnectPhases, TransferPhases, DataPhases, ExchangePhases

LEMMA CalledStep == Staged /\ Called /\ [Next]_vars => Called'
<1> SUFFICES ASSUME Staged, Called, [Next]_vars PROVE Called'
  OBVIOUS
<1>1. CASE Call
  BY <1>1, CallCalled
<1>2. CASE Step
  BY <1>2, StepCalled
<1>3. CASE serverLeaves \/ UNCHANGED vars
  <2>1. UNCHANGED <<connected, active, op, pc, failure>>
    BY <1>3 DEF serverLeaves, vars, configVars, sessionVars, callVars
  <2>2. QED
    BY <2>1 DEF Called
<1>4. QED
  BY <1>1, <1>2, <1>3 DEF Next

\* Each phase belongs to a call that has it.
LEMMA ClientCalled == Spec => []Called
BY CalledStart, CalledStep, ClientStaged, PTL DEF Spec

-----------------------------------------------------------------------------
(***************************************************************************)
(* Verdicts                                                                *)
(***************************************************************************)

\* A command that failed left a session, unless its error says it is over.
Alive == Idle /\ ~ok /\ op \in Commands => ftpsIsSessionDead(lastError) \/ connected

\* A command whose error says that the session is over left none.
Judged == Idle /\ ~ok /\ op \in Commands /\ begun /\ ftpsIsSessionDead(lastError) => ~connected

\* A call that succeeded left a session.
Opened == Idle /\ ok /\ op \notin {"begin", "quit"} => connected /\ begun

Verdicts == Alive /\ Opened /\ (active.mode = "Fingerprint" => Judged)

\* A call that has begun, or that is no command.
LEMMA NoVerdictYet ==
  ASSUME pc' # "idle" \/ (op' \notin Commands /\ (ok' => op' \in {"begin", "quit"}))
  PROVE  Alive' /\ Opened' /\ Judged'
BY DEF Alive, Opened, Judged, Idle

\* A command that cannot be begun, or is refused for its arguments.
LEMMA RefusedAtOnce ==
  ASSUME UNCHANGED <<connected, begun>>,
         \/ ~Ready /\ Return(FALSE, "ConnectionFailed")
         \/ Ready /\ \E e : ~ftpsIsSessionDead(e) /\ Return(FALSE, e)
  PROVE  Alive' /\ Opened' /\ Judged'
<1>1. ftpsIsSessionDead("ConnectionFailed")
  BY DEF ftpsIsSessionDead
<1>2. CASE ~Ready /\ Return(FALSE, "ConnectionFailed")
  BY <1>1, <1>2 DEF Alive, Opened, Judged, Idle, Ready, Return
<1>3. ASSUME Ready, NEW e, ~ftpsIsSessionDead(e), Return(FALSE, e)
      PROVE  Alive' /\ Opened' /\ Judged'
  BY <1>3 DEF Alive, Opened, Judged, Idle, Ready, Return
<1>4. QED
  BY <1>2, <1>3

LEMMA RefusalsAreNotDead ==
  \A e \in {"DirectoryCreateFailed", "SizeQueryFailed", "DeleteFailed", "DirectoryRemoveFailed",
            "RenameFailed", "TransferFailed", "ListFailed"} : ~ftpsIsSessionDead(e)
BY DEF ftpsIsSessionDead

LEMMA ExchangeEntered ==
  ASSUME NEW call, NEW badArgument, ~ftpsIsSessionDead(badArgument), callExchange(call, badArgument)
  PROVE  Alive' /\ Opened' /\ Judged'
<1>1. UNCHANGED <<connected, begun>>
  BY DEF callExchange, sessionVars
<1>2. \/ ~Ready /\ Return(FALSE, "ConnectionFailed")
      \/ Ready /\ Return(FALSE, badArgument)
      \/ Goto("exchange")
  BY DEF callExchange
<1>3. QED
  BY <1>1, <1>2, RefusedAtOnce, NoVerdictYet DEF Goto

LEMMA DownloadEntered ==
  ASSUME NEW call, NEW badArgument, ~ftpsIsSessionDead(badArgument), callDownload(call, badArgument)
  PROVE  Alive' /\ Opened' /\ Judged'
<1>1. UNCHANGED <<connected, begun>>
  BY DEF callDownload, sessionVars
<1>2. \/ ~Ready /\ Return(FALSE, "ConnectionFailed")
      \/ Ready /\ Return(FALSE, badArgument)
      \/ Goto("pasv")
  <2>1. ~Ready \/ (Ready /\ ~argOk') \/ (Ready /\ argOk')
    OBVIOUS
  <2>2. QED
    BY <2>1 DEF callDownload
<1>3. QED
  BY <1>1, <1>2, RefusedAtOnce, NoVerdictYet DEF Goto

\* What reconnect comes to before it uses the network.  It leaves the session
\* as it is only when it is refused, to a client that trusts a root or has no
\* host.
LEMMA ReconnectEntered ==
  ASSUME reconnect
  PROVE  \/ pc' = "tcp-open"
         \/ /\ pc' = "idle" /\ ~ok' /\ ftpsIsSessionDead(lastError')
            /\ \/ ~connected'
               \/ UNCHANGED <<connected, active>> /\ (active.mode = "ImportedCert" \/ ~active.host)
<1>1. CASE (active.mode = "ImportedCert" \/ ~active.host) /\ Return(FALSE, "ConnectionFailed")
           /\ UNCHANGED <<configVars, sessionVars>>
  BY <1>1 DEF Return, configVars, sessionVars, ftpsIsSessionDead
<1>2. CASE enterConnect(fresh, TRUE)
  <2>1. connected' = FALSE
    BY <1>2 DEF enterConnect
  <2>2. CASE fresh.fault = "none"
    BY <1>2, <2>2 DEF enterConnect, Goto
  <2>3. CASE fresh.fault # "none"
    <3>1. fresh.fault \in {"user", "malformed"}
      BY <2>3 DEF fresh
    <3>2. ftpsIsSessionDead(faultError(fresh.fault))
      BY <3>1 DEF faultError, ftpsIsSessionDead
    <3>3. QED
      BY <1>2, <2>1, <2>3, <3>2 DEF enterConnect, Return
  <2>4. QED
    BY <2>2, <2>3
<1>3. QED
  BY <1>1, <1>2 DEF reconnect

LEMMA StoreEntered ==
  ASSUME Called, callStore
  PROVE  /\ Alive' /\ Opened'
         /\ ~reconnectBetweenStores \/ active'.mode = "Fingerprint" => Judged'
<1>1. CASE Ready /\ reconnectBetweenStores /\ storesSinceConnect > 0
  <2>1. reconnect
    BY <1>1 DEF callStore
  <2>2. connected /\ active.host
    BY <1>1 DEF Ready, Called
  <2>3. \/ pc' = "tcp-open"
        \/ /\ pc' = "idle" /\ ~ok' /\ ftpsIsSessionDead(lastError')
           /\ ~connected' \/ active'.mode # "Fingerprint"
    BY <2>1, <2>2, ReconnectEntered
  <2>4. QED
    BY <1>1, <2>3 DEF Alive, Opened, Judged, Idle
<1>2. CASE ~(Ready /\ reconnectBetweenStores /\ storesSinceConnect > 0)
  <2>1. UNCHANGED <<connected, begun>>
    BY <1>2 DEF callStore, sessionVars
  <2>2. \/ ~Ready /\ Return(FALSE, "ConnectionFailed")
        \/ Ready /\ Return(FALSE, "TransferFailed")
        \/ Goto("pasv")
    BY <1>2 DEF callStore, storeArguments
  <2>3. QED
    BY <2>1, <2>2, RefusalsAreNotDead, RefusedAtOnce, NoVerdictYet DEF Goto
<1>3. QED
  BY <1>1, <1>2

LEMMA EnterConnectFails ==
  ASSUME NEW cfg, NEW closed, enterConnect(cfg, closed)
  PROVE  pc' = "tcp-open" \/ ~ok'
BY DEF enterConnect, Goto, Return

\* begin, quit, connect and reconnect are no commands.
LEMMA OthersEntered ==
  ASSUME begin \/ callQuit \/ callConnect \/ callReconnect
  PROVE  Alive' /\ Opened' /\ Judged'
<1>1. {"begin", "quit", "connect", "reconnect"} \cap Commands = {}
  BY DEF Commands, Exchanges, Transfers
<1>2. CASE begin \/ callQuit
  <2>1. op' \in {"begin", "quit"}
    BY <1>2 DEF begin, callQuit, Enter
  <2>2. QED
    BY <1>1, <2>1, NoVerdictYet
<1>3. CASE callConnect
  <2>1. op' = "connect"
    BY <1>3 DEF callConnect, Enter
  <2>2. pc' = "tcp-open" \/ ~ok'
    BY <1>3, EnterConnectFails DEF callConnect, Return
  <2>3. QED
    BY <1>1, <2>1, <2>2, NoVerdictYet
<1>4. CASE callReconnect
  <2>1. op' = "reconnect"
    BY <1>4 DEF callReconnect, Enter
  <2>2. pc' = "tcp-open" \/ ~ok'
    BY <1>4, ReconnectEntered DEF callReconnect, Return
  <2>3. QED
    BY <1>1, <2>1, <2>2, NoVerdictYet
<1>5. QED
  BY <1>2, <1>3, <1>4

\* Whatever the client does, but for a store() that is to reconnect first, its
\* verdicts stay true.
LEMMA NextVerdicts ==
  ASSUME Staged, Called, Alive, Opened, [Next]_vars
  PROVE  /\ Alive' /\ Opened'
         /\ Judged /\ ~callStore => Judged'
<1>1. CASE begin \/ callQuit \/ callConnect \/ callReconnect
  BY <1>1, OthersEntered
<1>2. CASE setReconnectBetweenStores \/ serverLeaves \/ UNCHANGED vars
  <2>1. UNCHANGED <<pc, ok, op, lastError, connected, begun>>
    BY <1>2 DEF setReconnectBetweenStores, serverLeaves, vars, sessionVars
  <2>2. QED
    BY <2>1 DEF Alive, Opened, Judged, Idle
<1>3. CASE callExchange("mkd", "DirectoryCreateFailed") \/ callExchange("size", "SizeQueryFailed")
           \/ callExchange("dele", "DeleteFailed") \/ callExchange("rmd", "DirectoryRemoveFailed")
           \/ callExchange("rename", "RenameFailed")
           \/ callExchange("isControlAlive", "TransferFailed")
  BY <1>3, RefusalsAreNotDead, ExchangeEntered
<1>4. CASE callDownload("retrieve", "TransferFailed") \/ callDownload("list", "ListFailed")
  BY <1>4, RefusalsAreNotDead, DownloadEntered
<1>5. CASE callStore
  BY <1>5, StoreEntered
<1>6. CASE quit
  <2>1. op = "quit" /\ op' = op
    BY <1>6, StepKeepsConfig DEF quit, Called, Step
  <2>2. op' \notin Commands
    BY <2>1 DEF Commands, Exchanges, Transfers
  <2>3. QED
    BY <2>1, <2>2, NoVerdictYet
<1>7. CASE Step /\ ~quit
  <2>1. Ends
    BY <1>7, StepEnds
  <2>2. UNCHANGED begun
    BY <1>7, StepKeepsConfig
  <2>3. begun
    <3>1. pc # "idle"
      BY <1>7, LoginEnds, TypeIEnds, ExchangeEnds, TransferEnds
      DEF Step, ConnectPhases, ExchangePhases, TransferPhases, DataPhases
    <3>2. QED
      BY <3>1 DEF Staged, ControlStaged
  <2>4. QED
    BY <2>1, <2>2, <2>3 DEF Ends, Alive, Opened, Judged, Idle
<1>8. QED
  BY <1>1, <1>2, <1>3, <1>4, <1>5, <1>6, <1>7 DEF Next, Call

\* A command keeps the mode of the session's configuration.
LEMMA VerdictsStep == Staged /\ Called /\ Verdicts /\ [Next]_vars => Verdicts'
<1> SUFFICES ASSUME Staged, Called, Verdicts, [Next]_vars PROVE Verdicts'
  OBVIOUS
<1>1. Alive' /\ Opened'
  BY NextVerdicts DEF Verdicts
<1>2. ASSUME active'.mode = "Fingerprint" PROVE Judged'
  <2>1. CASE callStore
    BY <1>2, <2>1, StoreEntered
  <2>2. CASE begin \/ callQuit \/ callConnect \/ callReconnect
    BY <2>2, OthersEntered
  <2>3. CASE ~callStore /\ ~(begin \/ callQuit \/ callConnect \/ callReconnect)
    <3>1. UNCHANGED active
      BY <2>3, StepKeepsConfig DEF Next, Call, setReconnectBetweenStores, callExchange,
         callDownload, serverLeaves, vars, configVars
    <3>2. QED
      BY <1>2, <2>3, <3>1, NextVerdicts DEF Verdicts
  <2>4. QED
    BY <2>1, <2>2, <2>3
<1>3. QED
  BY <1>1, <1>2 DEF Verdicts

LEMMA VerdictsStart == Init => Verdicts
BY DEF Init, Verdicts, Alive, Opened, Judged, Idle, Commands, Exchanges, Transfers

LEMMA ClientVerdicts == Spec => []Verdicts
BY VerdictsStart, VerdictsStep, ClientCalled, ClientStaged, PTL DEF Spec

\* After a failed command on a session with a pinned fingerprint the error is
\* one that ends the session exactly when the client has disconnected.
THEOREM ClientJudgesItsSession == Spec => []VerdictMatchesSession
<1>1. Verdicts => VerdictMatchesSession
  BY DEF Verdicts, Alive, Judged, VerdictMatchesSession
<1>2. QED
  BY <1>1, ClientVerdicts, PTL

\* A transfer that may be retried failed on a session that goes on, without a
\* data channel, and with nothing left unread unless a final reply was given up.
THEOREM ClientRetriesOnUsableSession ==
  ASSUME StandardAnswers PROVE Spec => []RetriableMeansUsable
<1>1. Verdicts /\ Staged /\ InStep => RetriableMeansUsable
  <2> SUFFICES ASSUME Verdicts, Staged, InStep, Idle, ~ok, op \in Transfers,
                      ftpsIsTransferRetriable(lastError, lastNsapiError)
               PROVE  connected /\ ~dataSocket /\ (late = 0 /\ peer = "up" => owed = <<>>)
    BY DEF RetriableMeansUsable
  <2>1. ~ftpsIsSessionDead(lastError)
    BY DEF ftpsIsTransferRetriable, ftpsIsSessionDead
  <2>2. connected
    BY <2>1 DEF Verdicts, Alive, Commands
  <2>3. ~dataSocket
    BY DEF Staged, DataStaged, Idle, PlainDataPhases
  <2>4. expected = {<<>>}
    BY Expectations DEF Idle, Quiet, AuthPhases, DataPhases
  <2>5. QED
    BY <2>2, <2>3, <2>4 DEF InStep
<1>2. QED
  BY <1>1, ClientVerdicts, ClientStaged, ClientStaysInStep, PTL

-----------------------------------------------------------------------------
(***************************************************************************)
(* Downloads                                                               *)
(***************************************************************************)

\* What may be unread of a queue after the server has left, and: one of the
\* queues is what the server has still to say, or had when it left.
Left(queue) == {queue, <<>>, Append(queue, "BYE"), <<"BYE">>}

Holds(queues) ==
  IF peer = "up" THEN owed \in queues ELSE \E queue \in queues : owed \in Left(queue)

LEMMA HoldsStays ==
  ASSUME NEW queues, Holds(queues), UNCHANGED replyVars PROVE Holds(queues)'
BY DEF Holds, replyVars

LEMMA HoldsParting ==
  ASSUME NEW queues, Holds(queues), ServerLeaves PROVE Holds(queues)'
<1>1. owed \in queues /\ peer' = "down" /\ owed' \in Left(owed)
  BY DEF Holds, ServerLeaves, Left
<1>2. QED
  BY <1>1 DEF Holds

LEMMA HoldsNew ==
  ASSUME NEW queues, owed' \in queues PROVE Holds(queues)'
BY DEF Holds, Left

\* A reply and the goodbye after it.
LEMMA LastWords ==
  ASSUME NEW tag \in Tags
  PROVE  /\ Append(<<tag>>, "BYE") # <<>>
         /\ Head(Append(<<tag>>, "BYE")) = tag
         /\ Tail(Append(<<tag>>, "BYE")) = <<"BYE">>
<1> DEFINE queue == <<tag>>
<1>1. queue \in Seq(Tags) /\ "BYE" \in Tags /\ queue # <<>>
  BY DEF Tags
<1>2. Head(queue) = tag /\ Tail(queue) = <<>> /\ Append(Tail(queue), "BYE") = <<"BYE">>
  OBVIOUS
<1> HIDE DEF queue
<1>3. Append(queue, "BYE") # <<>>
  BY <1>1, AppendProperties
<1>4. /\ Head(Append(queue, "BYE")) = IF queue = <<>> THEN "BYE" ELSE Head(queue)
      /\ Tail(Append(queue, "BYE")) = IF queue = <<>> THEN <<>> ELSE Append(Tail(queue), "BYE")
  BY <1>1, HeadTailAppend
<1>5. QED
  BY <1>1, <1>2, <1>3, <1>4 DEF queue

\* The reply of a transfer that was given up is not taken for a confirmation.
LEMMA AbortIsHeard ==
  ASSUME Holds({<<"ABORT">>}), NEW got \in ReadResponse(owed), got.reply # Lost
  PROVE  ~Complete(got.reply)
<1> DEFINE both == Append(<<"ABORT">>, "BYE")
<1>1. owed \in {<<"ABORT">>, <<>>, both, <<"BYE">>}
  BY DEF Holds, Left
<1>2. Head(both) = "ABORT"
  BY LastWords DEF Tags
<1> HIDE DEF both
<1>3. owed # <<>> /\ got.reply \in Answers[Head(owed)]
  BY ReadCases
<1>4. Head(owed) \in {"ABORT", "BYE"}
  <2>1. Head(<<"ABORT">>) = "ABORT" /\ Head(<<"BYE">>) = "BYE"
    OBVIOUS
  <2>2. QED
    BY <1>1, <1>2, <1>3, <2>1
<1>5. CASE Head(owed) = "ABORT"
  BY <1>3, <1>5, AnswersAssumption
<1>6. CASE Head(owed) = "BYE"
  <2>1. got.reply.code >= 400 /\ got.reply \in Reply
    BY <1>3, <1>6, AnswersAssumption, AnswersAreReplies DEF Tags
  <2>2. got.reply.code \notin {226, 250}
    BY <2>1 DEF Reply
  <2>3. QED
    BY <2>2 DEF Complete
<1>7. QED
  BY <1>4, <1>5, <1>6

\* While data is moved the reply that ends the transfer is on its way, and a
\* download that has read the end of its data is complete, or was given up by
\* the server, who says so, or saw an end that the server knows nothing of.
Delivering ==
  /\ pc \in DataPhases /\ ~stale => Holds({<<"FINAL">>, <<"ABORT">>})
  /\ pc = "final" /\ ~stale /\ ~cutShort /\ op # "store" => moved = total \/ Holds({<<"ABORT">>})
  /\ DownloadIsWhole

\* Steps that have nothing to do with a download.
LEMMA NoDownload ==
  ASSUME pc' \notin DataPhases,
         pc' = "idle" /\ ok' => op' \notin {"retrieve", "list"}
  PROVE  Delivering'
BY DEF Delivering, DownloadIsWhole, Idle, DataPhases

\* A call that returns at once returns success only if it is begin or quit.
LEMMA CallOpens ==
  ASSUME Call, ~setReconnectBetweenStores
  PROVE  /\ pc' \in {"idle", "tcp-open", "quit", "exchange", "pasv"}
         /\ ~stale'
         /\ pc' = "idle" /\ ok' => op' \in {"begin", "quit"}
<1>1. ASSUME NEW call, NEW v, NEW l, NEW s, Enter(call, v, l, s) PROVE ~stale'
  BY <1>1 DEF Enter
<1>2. CASE begin
  BY <1>2 DEF begin, Enter, Return
<1>3. CASE callQuit
  BY <1>3 DEF callQuit, Enter, Goto, Return
<1>4. ASSUME NEW cfg, NEW closed, enterConnect(cfg, closed)
      PROVE  pc' = "tcp-open" \/ (pc' = "idle" /\ ~ok')
  BY <1>4 DEF enterConnect, Goto, Return
<1>5. CASE callConnect
  BY <1>1, <1>4, <1>5 DEF callConnect, Return
<1>6. CASE callReconnect \/ callStore
  <2>1. ~stale'
    BY <1>1, <1>6 DEF callReconnect, callStore
  <2>2. pc' \in {"tcp-open", "pasv"} \/ (pc' = "idle" /\ ~ok')
    BY <1>4, <1>6 DEF callReconnect, callStore, reconnect, storeArguments, Goto, Return
  <2>3. QED
    BY <2>1, <2>2
<1>7. ASSUME NEW call, NEW badArgument, callExchange(call, badArgument)
      PROVE  pc' = "exchange" \/ (pc' = "idle" /\ ~ok')
  BY <1>7 DEF callExchange, Goto, Return
<1>8. ASSUME NEW call, NEW badArgument, callDownload(call, badArgument)
      PROVE  pc' = "pasv" \/ (pc' = "idle" /\ ~ok')
  <2>1. ~Ready \/ (Ready /\ ~argOk') \/ (Ready /\ argOk')
    OBVIOUS
  <2>2. QED
    BY <1>8, <2>1 DEF callDownload, Goto, Return
<1>9. ASSUME NEW call, NEW badArgument,
             callExchange(call, badArgument) \/ callDownload(call, badArgument)
      PROVE  ~stale'
  BY <1>1, <1>9 DEF callExchange, callDownload
<1>10. QED
  BY <1>2, <1>3, <1>5, <1>6, <1>7, <1>8, <1>9 DEF Call

\* The transfer command is accepted: if nothing else was unread, the reply that
\* ends the transfer is now the only one on its way.
LEMMA AcceptedHolds ==
  ASSUME NEW verb \in TransferVerbs, NEW got \in SendCommand(verb), owed = <<>>,
         got.reply.code \in {125, 150}, Heard(got)
  PROVE  owed' = <<"FINAL">>
<1>1. got.reply # Lost
  BY LostCode
<1>2. peer = "up"
  BY <1>1, ReadCases DEF SendCommand
<1>3. got.rest = IF Preliminary(got.reply) THEN <<"FINAL">> ELSE <<>>
  BY <1>1, <1>2, SendWhenQuiet DEF TransferVerbs, Verbs
<1>4. QED
  BY <1>3 DEF Heard, Preliminary

\* Between two phases of the data channel nothing is read.
LEMMA DataDelivers ==
  ASSUME Called, Delivering, transferTls \/ bufferFull \/ moveData \/ endOfData \/ dataError
  PROVE  Delivering'
<1> DEFINE Final == {<<"FINAL">>, <<"ABORT">>}
<1>1. pc \in DataPhases /\ pc' \in DataPhases /\ pc # "final" /\ UNCHANGED <<stale, op, total>>
      /\ (~endOfData => pc' # "final")
  BY DEF transferTls, bufferFull, moveData, endOfData, dataError, LeaveData, TransferStep,
     Goto, DataPhases
<1>2. DownloadIsWhole'
  BY <1>1 DEF DownloadIsWhole, Idle, DataPhases
<1>3. UNCHANGED replyVars \/ (endOfData /\ ServerAborts)
  BY DEF transferTls, bufferFull, moveData, endOfData, dataError
<1>4. ~stale' => Holds(Final)'
  <2>1. CASE UNCHANGED replyVars
    BY <1>1, <2>1, HoldsStays DEF Delivering
  <2>2. CASE ServerAborts
    BY <2>2, HoldsNew DEF ServerAborts
  <2>3. QED
    BY <1>3, <2>1, <2>2
<1>5. endOfData => moved' = total' \/ Holds({<<"ABORT">>})' \/ cutShort'
  <2>1. ASSUME endOfData
        PROVE  moved' = moved /\ total' = total /\ (moved = total \/ ServerAborts \/ cutShort')
    BY <2>1 DEF endOfData, LeaveData, TransferStep
  <2>2. ServerAborts => Holds({<<"ABORT">>})'
    BY HoldsNew DEF ServerAborts
  <2>3. QED
    BY <2>1, <2>2
<1>6. QED
  BY <1>1, <1>2, <1>4, <1>5 DEF Delivering

LEMMA CommandDelivers ==
  ASSUME Called, Delivering, NEW phase \in {"command", "list"}, NEW verb \in TransferVerbs,
         NEW refusal, transferCommand(phase, verb, refusal)
  PROVE  Delivering'
<1>1. stale' = (stale \/ owed # <<>>) /\ UNCHANGED <<op, total>>
  BY DEF transferCommand, TransferStep, MarkStale
<1>2. PICK got \in SendCommand(verb) :
        \/ pc' = "idle" /\ ~ok'
        \/ pc' = "list"
        \/ pc' = "data-tls" /\ got.reply.code \in {125, 150} /\ Heard(got)
  BY DEF transferCommand, failAndDisconnect, Return, Goto
<1>3. CASE (pc' = "idle" /\ ~ok') \/ pc' = "list"
  BY <1>3, NoDownload DEF DataPhases
<1>4. CASE pc' = "data-tls" /\ got.reply.code \in {125, 150} /\ Heard(got)
  <2>1. ~stale' => owed' = <<"FINAL">>
    BY <1>1, <1>4, AcceptedHolds
  <2>2. ~stale' => Holds({<<"FINAL">>, <<"ABORT">>})'
    BY <2>1, HoldsNew
  <2>3. QED
    BY <1>4, <2>2 DEF Delivering, DownloadIsWhole, Idle
<1>5. QED
  BY <1>2, <1>3, <1>4

LEMMA FinalReplyDelivers ==
  ASSUME Called, Delivering, finalReply PROVE Delivering'
<1>1. pc = "final" /\ pc' = "idle" /\ UNCHANGED <<stale, cutShort, op, total>>
  BY DEF finalReply, TransferStep, failAndDisconnect, Return
<1>2. PICK got \in ReadResponse(owed) :
        /\ moved' = IF op = "store" \/ Complete(got.reply) THEN moved ELSE 0
        /\ ok' => got.reply # Lost /\ Complete(got.reply)
  <2>1. PICK got \in ReadResponse(owed) :
          /\ moved' = IF op = "store" \/ Complete(got.reply) THEN moved ELSE 0
          /\ \/ failAndDisconnect("ConnectionFailed")
             \/ /\ got.reply # Lost
                /\ Return(Complete(got.reply), IF Complete(got.reply) THEN "None" ELSE "FinalReplyFailed")
    BY DEF finalReply
  <2>2. QED
    BY <2>1 DEF failAndDisconnect, Return
<1>3. ASSUME ok', ~stale', ~cutShort', op' \in {"retrieve", "list"} PROVE moved' = total'
  <2>1. moved' = moved /\ got.reply # Lost /\ Complete(got.reply)
    BY <1>2, <1>3
  <2>2. moved = total \/ Holds({<<"ABORT">>})
    BY <1>1, <1>3 DEF Delivering
  <2>3. QED
    BY <1>1, <1>2, <2>1, <2>2, AbortIsHeard
<1>4. QED
  BY <1>1, <1>3 DEF Delivering, DownloadIsWhole, Idle, DataPhases

LEMMA StepDelivers ==
  ASSUME Staged, Called, Delivering, Step PROVE Delivering'
<1>1. UNCHANGED op
  BY StepKeepsConfig
<1>2. CASE quit
  <2>1. op = "quit" /\ pc' = "idle"
    BY <1>2 DEF quit, Called, Return
  <2>2. QED
    BY <1>1, <2>1, NoDownload DEF DataPhases
<1>3. CASE connectTcpOpen \/ connectBanner \/ connectAuthTls \/ connectAuthSsl
           \/ connectControlTls \/ connectTlsRefused \/ connectPbsz \/ connectProtP
           \/ connectUser \/ connectPass \/ connectTypeI
  <2>1. pc \in ConnectPhases /\ pc' \in ConnectPhases \cup {"idle", "pasv"}
    BY <1>3, LoginEnds, TypeIEnds DEF ConnectPhases
  <2>2. op' \notin {"retrieve", "list"} /\ pc' \notin DataPhases
    BY <1>1, <2>1 DEF Called, ConnectPhases, DataPhases
  <2>3. QED
    BY <2>2, NoDownload
<1>4. CASE mkd \/ size \/ dele \/ rmd \/ renameFrom \/ renameTo \/ isControlAlive
  <2>1. op \in Exchanges /\ pc' \in ExchangePhases \cup {"idle"}
    BY <1>4, ExchangeEnds
  <2>2. op' \notin {"retrieve", "list"} /\ pc' \notin DataPhases
    BY <1>1, <2>1 DEF Exchanges, ExchangePhases, DataPhases
  <2>3. QED
    BY <2>2, NoDownload
<1>5. CASE pasv
  <2>1. pc' = "data-open" \/ (pc' = "idle" /\ ~ok')
    BY <1>5 DEF pasv, failAndDisconnect, Return, Goto
  <2>2. QED
    BY <2>1, NoDownload DEF DataPhases
<1>6. CASE dataOpen
  <2>1. pc' = "command" \/ (pc' = "idle" /\ ~ok')
    BY <1>6 DEF dataOpen, Return, Goto
  <2>2. QED
    BY <2>1, NoDownload DEF DataPhases
<1>7. CASE command \/ listCommand
  <2>1. verbOf(op) \in TransferVerbs /\ "LIST" \in TransferVerbs
    BY DEF verbOf, TransferVerbs
  <2>2. QED
    BY <1>7, <2>1, CommandDelivers DEF command, listCommand
<1>8. CASE transferTls \/ bufferFull \/ moveData \/ endOfData \/ dataError
  BY <1>8, DataDelivers
<1>9. CASE drain
  BY <1>9, NoDownload DEF drain, Return, DataPhases
<1>10. CASE finalReply
  BY <1>10, FinalReplyDelivers
<1>11. QED
  BY <1>2, <1>3, <1>4, <1>5, <1>6, <1>7, <1>8, <1>9, <1>10 DEF Step

LEMMA DeliveringStart == Init => Delivering
BY DEF Init, Delivering, DownloadIsWhole, DataPhases

LEMMA DeliveringStep == Staged /\ Called /\ Delivering /\ [Next]_vars => Delivering'
<1> SUFFICES ASSUME Staged, Called, Delivering, [Next]_vars PROVE Delivering'
  OBVIOUS
<1>1. CASE Call /\ ~setReconnectBetweenStores
  BY <1>1, CallOpens, NoDownload DEF DataPhases
<1>2. CASE Step
  BY <1>2, StepDelivers
<1>3. CASE setReconnectBetweenStores \/ serverLeaves \/ UNCHANGED vars
  <2>1. UNCHANGED <<pc, ok, op, stale, cutShort, moved, total>>
    BY <1>3 DEF setReconnectBetweenStores, serverLeaves, vars, callVars
  <2>2. UNCHANGED replyVars \/ ServerLeaves
    BY <1>3 DEF setReconnectBetweenStores, serverLeaves, vars
  <2>3. \A queues \in {{<<"FINAL">>, <<"ABORT">>}, {<<"ABORT">>}} : Holds(queues) => Holds(queues)'
    BY <2>2, HoldsStays, HoldsParting
  <2>4. QED
    BY <2>1, <2>3 DEF Delivering, DownloadIsWhole, Idle
<1>4. QED
  BY <1>1, <1>2, <1>3 DEF Next

\* A download that succeeds on the replies to its own commands is complete,
\* also if the server gave it up and closed the data channel without an error,
\* unless a read reported no data while the server had bytes to send: what
\* becomes of those, the run of RetrievedIsWhole shows.
THEOREM ClientDownloadsWhole == Spec => []DownloadIsWhole
<1>1. Delivering => DownloadIsWhole
  BY DEF Delivering
<1>2. QED
  BY <1>1, DeliveringStart, DeliveringStep, ClientStaged, ClientCalled, PTL DEF Spec

-----------------------------------------------------------------------------
(***************************************************************************)
(* What is unread                                                          *)
(***************************************************************************)

\* What a server may have said last.
Gone == {<<>>, <<"BYE">>}

\* After the server has left, what is unread is what the phase expects, or what
\* was left of that, or the goodbye, until a final reply is given up.
Departed == late = 0 /\ peer = "down" => \E queue \in expected : owed \in Left(queue)

\* What the steps of a call in progress do to the conversation.
Speaks ==
  \/ Disconnected
  \/ Greeted
  \/ UNCHANGED replyVars /\ Quiet(pc) /\ Quiet(pc)'
  \/ UNCHANGED replyVars /\ pc \in DataPhases /\ pc' \in DataPhases
  \/ UNCHANGED replyVars /\ pc = "control-tls" /\ (pc' = "tls-refused" \/ peer = "up")
  \/ ServerAborts /\ pc' \in DataPhases
  \/ \E verb \in Verbs : \E got \in SendCommand(verb) :
       Heard(got) /\ (got.reply # Lost \/ pc = "auth-tls")
  \/ \E got \in ReadResponse(owed) : Heard(got)

LEMMA ClosingSpeaks ==
  ASSUME NEW e, HangUp \/ failAndDisconnect(e) \/ connectFails(e) PROVE Speaks
BY DEF HangUp, failAndDisconnect, connectFails, Speaks

LEMMA SendingSpeaks ==
  ASSUME NEW verb \in Verbs, NEW got \in SendCommand(verb), Heard(got),
         got.reply # Lost \/ pc = "auth-tls"
  PROVE  Speaks
BY DEF Speaks

LEMMA ConnectSpeaks ==
  ASSUME connectTcpOpen \/ connectBanner \/ connectAuthTls \/ connectAuthSsl
         \/ connectControlTls \/ connectTlsRefused \/ connectPbsz \/ connectProtP
         \/ connectUser \/ connectPass \/ connectTypeI
  PROVE  Speaks
<1>1. CASE connectTcpOpen
  <2>1. Greeted \/ (UNCHANGED replyVars /\ pc = "tcp-open" /\ pc' = "idle")
    BY <1>1 DEF connectTcpOpen, ConnectStep, Return
  <2>2. QED
    BY <2>1 DEF Speaks, Quiet, AuthPhases, DataPhases
<1>2. CASE connectBanner \/ connectTlsRefused
  BY <1>2, ClosingSpeaks DEF connectBanner, connectTlsRefused, Speaks
<1>3. CASE connectAuthTls
  <2>1. "AUTH TLS" \in Verbs /\ pc = "auth-tls"
    BY <1>3 DEF Verbs, connectAuthTls, ConnectStep
  <2>2. QED
    BY <1>3, <2>1, SendingSpeaks DEF connectAuthTls
<1>4. CASE connectControlTls
  <2>1. UNCHANGED replyVars /\ pc = "control-tls" /\ (pc' = "tls-refused" \/ peer = "up")
    BY <1>4 DEF connectControlTls, ConnectStep, Goto
  <2>2. QED
    BY <2>1 DEF Speaks
<1>5. CASE connectTypeI
  <2>1. "TYPE" \in Verbs
    BY DEF Verbs
  <2>2. PICK got \in SendCommand("TYPE") :
          (got.reply.code = 200 /\ Heard(got)) \/ connectFails("TypeRejected")
    BY <1>5 DEF connectTypeI
  <2>3. got.reply.code = 200 => got.reply # Lost
    BY LostCode
  <2>4. QED
    BY <2>1, <2>2, <2>3, SendingSpeaks, ClosingSpeaks
<1>6. ASSUME NEW phase, NEW verb \in Verbs, NEW after, NEW e,
             DOMAIN after \subseteq Nat, connectExchange(phase, verb, after, e)
      PROVE  Speaks
  BY <1>6, ExchangeOutcome, SendingSpeaks, ClosingSpeaks
<1>7. {"AUTH SSL", "PBSZ", "PROT", "USER", "PASS"} \subseteq Verbs
  BY DEF Verbs
<1>8. CASE connectAuthSsl
  <2> DEFINE after == [c \in {234} |-> "control-tls"]
  <2>1. connectExchange("auth-ssl", "AUTH SSL", after, "AuthTlsRejected")
    BY <1>8 DEF connectAuthSsl
  <2>2. DOMAIN after \subseteq Nat
    OBVIOUS
  <2> HIDE DEF after
  <2>3. QED
    BY <1>6, <1>7, <2>1, <2>2
<1>9. CASE connectPbsz
  <2> DEFINE after == [c \in {200} |-> "prot-p"]
  <2>1. connectExchange("pbsz", "PBSZ", after, "PbszRejected")
    BY <1>9 DEF connectPbsz
  <2>2. DOMAIN after \subseteq Nat
    OBVIOUS
  <2> HIDE DEF after
  <2>3. QED
    BY <1>6, <1>7, <2>1, <2>2
<1>10. CASE connectProtP
  <2> DEFINE after == [c \in {200} |-> "user"]
  <2>1. connectExchange("prot-p", "PROT", after, "ProtPRejected")
    BY <1>10 DEF connectProtP
  <2>2. DOMAIN after \subseteq Nat
    OBVIOUS
  <2> HIDE DEF after
  <2>3. QED
    BY <1>6, <1>7, <2>1, <2>2
<1>11. CASE connectUser
  <2> DEFINE after == [c \in {331, 230, 232} |-> IF c = 331 THEN "pass" ELSE "type-i"]
  <2>1. connectExchange("user", "USER", after, "LoginRejected")
    BY <1>11 DEF connectUser
  <2>2. DOMAIN after \subseteq Nat
    OBVIOUS
  <2> HIDE DEF after
  <2>3. QED
    BY <1>6, <1>7, <2>1, <2>2
<1>12. CASE connectPass
  <2> DEFINE after == [c \in {230, 232} |-> "type-i"]
  <2>1. connectExchange("pass", "PASS", after, "LoginRejected")
    BY <1>12 DEF connectPass
  <2>2. DOMAIN after \subseteq Nat
    OBVIOUS
  <2> HIDE DEF after
  <2>3. QED
    BY <1>6, <1>7, <2>1, <2>2
<1>13. QED
  BY <1>1, <1>2, <1>3, <1>4, <1>5, <1>8, <1>9, <1>10, <1>11, <1>12

LEMMA CommandsSpeak ==
  ASSUME mkd \/ size \/ dele \/ rmd \/ renameFrom \/ renameTo \/ isControlAlive
  PROVE  Speaks
<1>1. ASSUME NEW call, NEW phase, NEW verb \in Verbs, NEW accepted, NEW next,
             NEW refusal, exchange(call, phase, verb, accepted, next, refusal)
      PROVE  Speaks
  BY <1>1, ClosingSpeaks, SendingSpeaks DEF exchange
<1>2. {"MKD", "SIZE", "DELE", "RMD", "RNFR", "RNTO", "NOOP"} \subseteq Verbs
  BY DEF Verbs
<1>3. QED
  BY <1>1, <1>2 DEF mkd, size, dele, rmd, renameFrom, renameTo, isControlAlive

LEMMA TransfersSpeak ==
  ASSUME pasv \/ dataOpen \/ command \/ listCommand \/ transferTls
         \/ bufferFull \/ moveData \/ endOfData \/ dataError \/ finalReply
  PROVE  Speaks
<1>1. CASE pasv
  <2>1. "PASV" \in Verbs
    BY DEF Verbs
  <2>2. QED
    BY <1>1, <2>1, ClosingSpeaks, SendingSpeaks DEF pasv
<1>2. CASE command \/ listCommand
  <2>1. PICK verb \in Verbs : \E phase, refusal : transferCommand(phase, verb, refusal)
    <3>1. verbOf(op) \in Verbs /\ "LIST" \in Verbs
      BY DEF verbOf, Verbs
    <3>2. CASE command
      BY <3>1, <3>2 DEF command
    <3>3. CASE listCommand
      BY <3>1, <3>3 DEF listCommand
    <3>4. QED
      BY <1>2, <3>2, <3>3
  <2>2. PICK got \in SendCommand(verb) :
          failAndDisconnect("ConnectionFailed")
          \/ (Heard(got) /\ (got.reply.code \in {125, 150} \/ got.reply # Lost))
    BY <2>1 DEF transferCommand
  <2>3. got.reply.code \in {125, 150} => got.reply # Lost
    BY LostCode
  <2>4. QED
    BY <2>2, <2>3, ClosingSpeaks, SendingSpeaks
<1>3. CASE dataOpen
  <2>1. UNCHANGED replyVars /\ pc = "data-open" /\ pc' \in {"idle", "command"}
    BY <1>3 DEF dataOpen, TransferStep, Goto, Return
  <2>2. QED
    BY <2>1 DEF Speaks, Quiet, AuthPhases, DataPhases
<1>4. CASE transferTls \/ bufferFull \/ moveData \/ endOfData \/ dataError
  <2>1. pc \in DataPhases /\ pc' \in DataPhases
    BY <1>4 DEF transferTls, bufferFull, moveData, endOfData, dataError, LeaveData,
       TransferStep, Goto, DataPhases
  <2>2. UNCHANGED replyVars \/ ServerAborts
    BY <1>4 DEF transferTls, bufferFull, moveData, endOfData, dataError
  <2>3. QED
    BY <2>1, <2>2 DEF Speaks
<1>5. CASE finalReply
  BY <1>5, ClosingSpeaks DEF finalReply, Speaks
<1>6. QED
  BY <1>1, <1>2, <1>3, <1>4, <1>5

LEMMA StepSpeaks ==
  ASSUME Step PROVE drain \/ Speaks
BY ConnectSpeaks, CommandsSpeak, TransfersSpeak, ClosingSpeaks DEF Step, quit

\* A call that begins closes the connection or says nothing.
LEMMA CallSpeaks ==
  ASSUME Call PROVE Speaks
<1>1. Disconnected \/ UNCHANGED replyVars
  <2>1. ASSUME NEW cfg, NEW closed, enterConnect(cfg, closed)
        PROVE  Disconnected \/ UNCHANGED replyVars
    BY <2>1 DEF enterConnect, HangUp
  <2>2. QED
    BY <2>1 DEF Call, begin, callQuit, setReconnectBetweenStores, callConnect, callReconnect,
       reconnect, callStore, callExchange, callDownload, HangUp
<1>2. CASE setReconnectBetweenStores
  BY <1>2 DEF setReconnectBetweenStores, Speaks, Quiet, AuthPhases, DataPhases
<1>3. CASE ~setReconnectBetweenStores
  <2>1. pc = "idle"
    BY <1>3, CallEnters DEF Enter
  <2>2. Quiet(pc) /\ Quiet(pc)'
    BY <1>3, <2>1, CallOpens DEF Quiet, AuthPhases, DataPhases
  <2>3. QED
    BY <1>1, <2>2 DEF Speaks
<1>4. QED
  BY <1>2, <1>3

LEMMA ExpectedTags ==
  /\ \A queue \in expected : \E tag \in Tags \ TransferVerbs : queue \in {<<>>, <<tag>>}
  /\ \E queue \in expected : TRUE
  /\ \E queue \in expected' : TRUE
<1>1. {"BANNER", "TORN", "AUTH TLS", "AUTH SSL", "FINAL", "ABORT"} \subseteq Tags \ TransferVerbs
  BY DEF Tags, Verbs, TransferVerbs
<1>2. \A phase : phase = "banner" \/ phase \in AuthPhases \/ phase \in DataPhases \/ Quiet(phase)
  BY DEF Quiet
<1>3. expected \in {{<<"BANNER">>}, {<<>>, <<"TORN">>, <<"AUTH TLS">>, <<"AUTH SSL">>},
                    {<<"FINAL">>, <<"ABORT">>}, {<<>>}}
  BY <1>2, Expectations
<1>4. expected' \in {{<<"BANNER">>}, {<<>>, <<"TORN">>, <<"AUTH TLS">>, <<"AUTH SSL">>},
                     {<<"FINAL">>, <<"ABORT">>}, {<<>>}}
  <2>1. Quiet(pc)' <=> Quiet(pc')
    BY DEF Quiet
  <2>2. QED
    BY <1>2, <2>1, NextExpectations
<1>5. \A queue \in expected : queue \in {<<>>, <<"BANNER">>, <<"TORN">>, <<"AUTH TLS">>,
                                         <<"AUTH SSL">>, <<"FINAL">>, <<"ABORT">>}
  BY <1>3
<1>6. QED
  BY <1>1, <1>3, <1>4, <1>5

\* A departed server that has said goodbye has nothing else to be read.
LEMMA GoneReads ==
  ASSUME owed \in Gone, peer # "up", NEW got \in ReadResponse(owed)
  PROVE  /\ got.rest \in Gone
         /\ got.reply # Lost => got.reply \in Answers["BYE"]
<1>1. <<"BYE">> # <<>> /\ Head(<<"BYE">>) = "BYE" /\ Tail(<<"BYE">>) = <<>>
  OBVIOUS
<1>2. CASE got.reply = Lost /\ got.rest = <<>>
  BY <1>2 DEF Gone
<1>3. CASE owed # <<>> /\ got.reply \in Answers[Head(owed)] /\ got.rest = Rest(owed, got.reply)
  <2>1. owed = <<"BYE">>
    BY <1>3 DEF Gone
  <2>2. "BYE" \notin TransferVerbs
    BY DEF TransferVerbs
  <2>3. QED
    BY <1>1, <1>3, <2>1, <2>2 DEF Gone, Rest
<1>4. QED
  BY <1>2, <1>3, ReadCases

\* After a read nothing but the goodbye is left of what a departed server said.
LEMMA PartingRead ==
  ASSUME Departed, late = 0, peer = "down", NEW got \in ReadResponse(owed)
  PROVE  got.rest \in Gone
<1>1. PICK queue \in expected : owed \in Left(queue)
  BY DEF Departed
<1>2. PICK tag \in Tags \ TransferVerbs : queue \in {<<>>, <<tag>>}
  BY <1>1, ExpectedTags
<1> DEFINE both == Append(<<tag>>, "BYE")
<1>3. Append(<<>>, "BYE") = <<"BYE">>
  OBVIOUS
<1>4. owed \in Gone \/ owed = <<tag>> \/ owed = both
  BY <1>1, <1>2, <1>3 DEF Left, Gone
<1>5. /\ Head(<<tag>>) = tag /\ Tail(<<tag>>) = <<>>
      /\ Head(both) = tag /\ Tail(both) = <<"BYE">>
  BY LastWords
<1> HIDE DEF both
<1>6. CASE owed = <<tag>> \/ owed = both
  <2>1. got.rest = <<>> \/ got.rest = Rest(owed, got.reply)
    BY ReadCases
  <2>2. Rest(owed, got.reply) = Tail(owed)
    BY <1>5, <1>6 DEF Rest
  <2>3. Tail(owed) \in Gone
    BY <1>5, <1>6 DEF Gone
  <2>4. QED
    BY <2>1, <2>2, <2>3 DEF Gone
<1>7. QED
  BY <1>4, <1>6, GoneReads

\* Sending to a departed server.
LEMMA PartingSend ==
  ASSUME Departed, late = 0, peer = "down", NEW verb, NEW got \in SendCommand(verb)
  PROVE  got.rest \in Gone \/ (got.reply = Lost /\ got.rest = owed)
BY PartingRead DEF SendCommand

LEMMA DepartedNow ==
  ASSUME late' = 0 /\ peer' = "down" => owed' \in Gone PROVE Departed'
<1>1. \A queue : Gone \subseteq Left(queue)
  BY DEF Gone, Left
<1>2. QED
  BY <1>1, ExpectedTags DEF Departed


\* Sending with the server gone, by the steps that go on after it.
LEMMA SendDeparts ==
  ASSUME Departed, NEW verb, NEW got \in SendCommand(verb), Heard(got),
         got.reply # Lost \/ pc = "auth-tls"
  PROVE  Departed'
<1> SUFFICES ASSUME late = 0, peer = "down" PROVE Departed'
  BY DepartedNow DEF Heard
<1>1. CASE got.rest \in Gone
  BY <1>1, DepartedNow DEF Heard
<1>2. CASE pc = "auth-tls" /\ got.rest = owed
  <2>1. expected = {<<>>}
    BY <1>2, QuietExpected DEF Quiet, AuthPhases, DataPhases
  <2>2. Append(<<>>, "BYE") = <<"BYE">>
    OBVIOUS
  <2>3. owed \in Gone
    BY <2>1, <2>2 DEF Departed, Left, Gone
  <2>4. QED
    BY <1>2, <2>3, DepartedNow DEF Heard
<1>3. QED
  BY <1>1, <1>2, PartingSend

LEMMA SpeaksDeparted ==
  ASSUME Departed, Speaks PROVE Departed'
<1>1. CASE Disconnected \/ Greeted
  BY <1>1, DepartedNow DEF Disconnected, Greeted, Gone
<1>2. CASE UNCHANGED replyVars /\ expected' = expected
  BY <1>2 DEF Departed, replyVars
<1>3. CASE ServerAborts /\ pc' \in DataPhases
  <2>1. owed' = <<"ABORT">> /\ <<"ABORT">> \in expected'
    BY <1>3, NextExpectations DEF ServerAborts
  <2>2. QED
    BY <2>1 DEF Departed, Left
<1>4. CASE \E got \in ReadResponse(owed) : Heard(got)
  BY <1>4, PartingRead, DepartedNow DEF Heard
<1>5. CASE UNCHANGED replyVars /\ peer = "up"
  BY <1>5 DEF Departed, replyVars
<1>6. \/ Quiet(pc) /\ Quiet(pc)'
      \/ pc \in DataPhases /\ pc' \in DataPhases
      \/ pc = "control-tls" /\ pc' = "tls-refused"
      => expected' = expected
  BY Expectations, NextExpectations DEF AuthPhases
<1>7. QED
  BY <1>1, <1>2, <1>3, <1>4, <1>5, <1>6, SendDeparts DEF Speaks

LEMMA DepartedStep ==
  ASSUME Conversation, Departed, [Next]_vars PROVE Departed'
<1>1. CASE Call
  BY <1>1, CallSpeaks, SpeaksDeparted
<1>2. CASE Step /\ ~drain
  BY <1>2, StepSpeaks, SpeaksDeparted
<1>3. CASE drain
  <2>1. PICK got \in ReadResponse(owed) :
          /\ owed' = got.rest
          /\ late' = IF got.reply = Lost /\ got.rest # <<>> THEN late + 1 ELSE late
          /\ UNCHANGED peer
    BY <1>3 DEF drain, drainFinalTransferReply
  <2>2. late' = 0 => late = 0
    BY <2>1 DEF Conversation
  <2>3. QED
    BY <2>1, <2>2, PartingRead, DepartedNow
<1>4. CASE serverLeaves
  <2>1. peer = "up" /\ owed' \in Left(owed) /\ UNCHANGED <<pc, late>>
    BY <1>4 DEF serverLeaves, ServerLeaves, Left
  <2>2. late = 0 => owed \in expected
    BY <2>1 DEF Conversation, InStep
  <2>3. expected' = expected
    BY <2>1 DEF expected
  <2>4. QED
    BY <2>1, <2>2, <2>3 DEF Departed
<1>5. CASE UNCHANGED vars
  BY <1>5 DEF vars, replyVars, Departed, expected
<1>6. QED
  BY <1>1, <1>2, <1>3, <1>4, <1>5 DEF Next

-----------------------------------------------------------------------------
(***************************************************************************)
(* Whose reply a success is                                                *)
(***************************************************************************)
Settled == Conversation /\ Departed /\ peer \in {"up", "down"}
Fresh == late = 0 => ~stale

\* A call that has read the reply to an earlier command is on its way to
\* failure: it tries the other form of AUTH or of a listing in vain, or its
\* handshake cannot succeed.
StaleFails ==
  /\ late = 0 /\ stale =>
       \/ pc = "idle" /\ ~ok
       \/ pc \in {"auth-ssl", "list"} /\ peer = "down" /\ owed \in Gone
       \/ pc = "control-tls" /\ (peer = "down" \/ owed # <<>>)
       \/ pc = "tls-refused"
  /\ pc \in {"tcp-open", "quit"} => ~stale

LEMMA FreshPhase ==
  ASSUME StaleFails, pc \notin {"idle", "auth-ssl", "list", "control-tls", "tls-refused"}
  PROVE  Fresh
BY DEF StaleFails, Fresh

LEMMA FreshNext ==
  ASSUME Fresh', pc' \notin {"tcp-open", "quit"} PROVE StaleFails'
BY DEF StaleFails, Fresh

LEMMA FailedNext ==
  ASSUME pc' = "idle", ~ok' PROVE StaleFails'
BY DEF StaleFails

LEMMA FailuresFail ==
  ASSUME NEW e, failAndDisconnect(e) \/ connectFails(e) \/ Return(FALSE, e) PROVE StaleFails'
BY FailedNext DEF failAndDisconnect, connectFails, Return

\* On a phase that begins with nothing unread, a reply to an earlier command
\* can only be the goodbye.
LEMMA QuietSend ==
  ASSUME StaleFails, Settled, Quiet(pc), pc # "idle", late = 0,
         NEW verb, NEW got \in SendCommand(verb)
  PROVE  \/ owed = <<>> /\ ~stale
         \/ /\ peer = "down" /\ got.rest \in Gone
            /\ got.reply # Lost => got.reply \in Answers["BYE"]
<1>1. expected = {<<>>}
  BY QuietExpected
<1>2. stale => pc = "list" /\ peer = "down"
  BY DEF StaleFails, Quiet, AuthPhases
<1>3. CASE peer = "up"
  BY <1>1, <1>2, <1>3 DEF Settled, Conversation, InStep
<1>4. CASE peer # "up"
  <2>1. CASE owed = <<>> /\ ~stale
    BY <2>1
  <2>2. CASE owed \in Gone /\ peer = "down"
    <3>1. SendCommand(verb) = {[reply |-> Lost, rest |-> owed]} \cup ReadResponse(owed)
      BY <1>4 DEF SendCommand
    <3>2. QED
      BY <2>2, <3>1, GoneReads
  <2>3. peer = "down" => owed \in Gone
    <3>1. Append(<<>>, "BYE") = <<"BYE">>
      OBVIOUS
    <3>2. QED
      BY <1>1, <3>1 DEF Settled, Departed, Left, Gone
  <2>4. QED
    BY <1>4, <2>1, <2>2, <2>3 DEF Settled
<1>5. QED
  BY <1>3, <1>4

\* A reply that is not the goodbye is then the answer to the command.
LEMMA OwnReply ==
  ASSUME OrderlyAnswers, StaleFails, Settled, Quiet(pc), pc # "idle",
         NEW verb, NEW got \in SendCommand(verb), got.reply # Lost, got.reply.code # 421,
         Heard(got), MarkStale
  PROVE  Fresh'
<1> SUFFICES ASSUME late = 0 PROVE ~stale'
  BY DEF Fresh, Heard
<1>1. owed = <<>> /\ ~stale
  BY QuietSend DEF OrderlyAnswers
<1>2. QED
  BY <1>1 DEF MarkStale

\* A command of one exchange.
LEMMA ExchangeIsOwn ==
  ASSUME OrderlyAnswers, StaleFails, Settled, NEW call, NEW phase \in {"exchange", "rename-to"},
         NEW verb, NEW accepted, \A r \in accepted : r.code # 421,
         NEW next \in {"idle", "rename-to"}, NEW refusal,
         exchange(call, phase, verb, accepted, next, refusal)
  PROVE  StaleFails'
<1>1. pc = phase /\ MarkStale
  BY DEF exchange
<1>2. Quiet(pc) /\ pc # "idle"
  BY <1>1 DEF Quiet, AuthPhases, DataPhases
<1>3. PICK got \in SendCommand(verb) :
        \/ \E e : failAndDisconnect(e) \/ Return(FALSE, e)
        \/ got.reply # Lost /\ got.reply \in accepted /\ Heard(got) /\ pc' = next
  BY DEF exchange, Return, Goto
<1>4. CASE \E e : failAndDisconnect(e) \/ Return(FALSE, e)
  BY <1>4, FailuresFail
<1>5. CASE got.reply # Lost /\ got.reply \in accepted /\ Heard(got) /\ pc' = next
  <2>1. Fresh'
    BY <1>1, <1>2, <1>5, OwnReply
  <2>2. QED
    BY <1>5, <2>1, FreshNext
<1>6. QED
  BY <1>3, <1>4, <1>5

LEMMA ExchangesAreOwn ==
  ASSUME OrderlyAnswers, StaleFails, Settled,
         mkd \/ size \/ dele \/ rmd \/ renameFrom \/ renameTo \/ isControlAlive
  PROVE  StaleFails'
<1>1. \A codes \in {{257, 250, 521}, {550}, {213}, {250}, {350}, {200}} :
        \A r \in Coded(codes) : r.code # 421
  BY DEF Coded
<1>2. CASE mkd
  BY <1>1, <1>2, ExchangeIsOwn DEF mkd
<1>3. CASE size
  BY <1>1, <1>3, ExchangeIsOwn DEF size
<1>4. CASE dele
  BY <1>1, <1>4, ExchangeIsOwn DEF dele
<1>5. CASE rmd
  BY <1>1, <1>5, ExchangeIsOwn DEF rmd
<1>6. CASE renameFrom
  BY <1>1, <1>6, ExchangeIsOwn DEF renameFrom
<1>7. CASE renameTo
  BY <1>1, <1>7, ExchangeIsOwn DEF renameTo
<1>8. CASE isControlAlive
  BY <1>1, <1>8, ExchangeIsOwn DEF isControlAlive
<1>9. QED
  BY <1>2, <1>3, <1>4, <1>5, <1>6, <1>7, <1>8

\* A command of the login.
LEMMA LoginIsOwn ==
  ASSUME OrderlyAnswers, StaleFails, Settled,
         NEW phase \in {"pbsz", "prot-p", "user", "pass"}, NEW verb, NEW after, NEW e,
         DOMAIN after \subseteq Nat, 421 \notin DOMAIN after,
         \A c \in DOMAIN after : after[c] \in {"prot-p", "user", "pass", "type-i"},
         connectExchange(phase, verb, after, e)
  PROVE  StaleFails'
<1>1. pc = phase
  BY DEF connectExchange, ConnectStep
<1>2. Quiet(pc) /\ pc # "idle"
  BY <1>1 DEF Quiet, AuthPhases, DataPhases
<1>3. PICK got \in SendCommand(verb) :
        \/ connectFails(e)
        \/ /\ got.reply.code \in DOMAIN after /\ Heard(got) /\ MarkStale
           /\ pc' = after[got.reply.code]
  BY DEF connectExchange, Goto
<1>4. CASE connectFails(e)
  BY <1>4, FailuresFail
<1>5. CASE /\ got.reply.code \in DOMAIN after /\ Heard(got) /\ MarkStale
           /\ pc' = after[got.reply.code]
  <2>1. got.reply.code # -1 /\ got.reply.code # 421
    BY <1>5
  <2>2. got.reply # Lost
    BY <2>1, LostCode
  <2>3. Fresh'
    BY <1>2, <1>5, <2>1, <2>2, OwnReply
  <2>4. QED
    BY <1>5, <2>3, FreshNext
<1>6. QED
  BY <1>3, <1>4, <1>5

LEMMA LoginsAreOwn ==
  ASSUME OrderlyAnswers, StaleFails, Settled,
         connectPbsz \/ connectProtP \/ connectUser \/ connectPass
  PROVE  StaleFails'
<1>1. CASE connectPbsz
  <2> DEFINE after == [c \in {200} |-> "prot-p"]
  <2>1. connectExchange("pbsz", "PBSZ", after, "PbszRejected")
    BY <1>1 DEF connectPbsz
  <2>2. DOMAIN after \subseteq Nat /\ 421 \notin DOMAIN after
    OBVIOUS
  <2>3. \A c \in DOMAIN after : after[c] = "prot-p"
    OBVIOUS
  <2> HIDE DEF after
  <2>4. QED
    BY <2>1, <2>2, <2>3, LoginIsOwn
<1>2. CASE connectProtP
  <2> DEFINE after == [c \in {200} |-> "user"]
  <2>1. connectExchange("prot-p", "PROT", after, "ProtPRejected")
    BY <1>2 DEF connectProtP
  <2>2. DOMAIN after \subseteq Nat /\ 421 \notin DOMAIN after
    OBVIOUS
  <2>3. \A c \in DOMAIN after : after[c] = "user"
    OBVIOUS
  <2> HIDE DEF after
  <2>4. QED
    BY <2>1, <2>2, <2>3, LoginIsOwn
<1>3. CASE connectUser
  <2> DEFINE after == [c \in {331, 230, 232} |-> IF c = 331 THEN "pass" ELSE "type-i"]
  <2>1. connectExchange("user", "USER", after, "LoginRejected")
    BY <1>3 DEF connectUser
  <2>2. DOMAIN after \subseteq Nat /\ 421 \notin DOMAIN after
    OBVIOUS
  <2>3. \A c \in DOMAIN after : after[c] \in {"pass", "type-i"}
    OBVIOUS
  <2> HIDE DEF after
  <2>4. QED
    BY <2>1, <2>2, <2>3, LoginIsOwn
<1>4. CASE connectPass
  <2> DEFINE after == [c \in {230, 232} |-> "type-i"]
  <2>1. connectExchange("pass", "PASS", after, "LoginRejected")
    BY <1>4 DEF connectPass
  <2>2. DOMAIN after \subseteq Nat /\ 421 \notin DOMAIN after
    OBVIOUS
  <2>3. \A c \in DOMAIN after : after[c] = "type-i"
    OBVIOUS
  <2> HIDE DEF after
  <2>4. QED
    BY <2>1, <2>2, <2>3, LoginIsOwn
<1>5. QED
  BY <1>1, <1>2, <1>3, <1>4


\* AUTH TLS, and AUTH SSL when that was refused or got no answer.
LEMMA AuthTlsIsOwn ==
  ASSUME OrderlyAnswers, StaleFails, Settled, connectAuthTls PROVE StaleFails'
<1> DEFINE verb == "AUTH TLS"
<1>1. pc = "auth-tls" /\ MarkStale
  BY DEF connectAuthTls, ConnectStep
<1>2. PICK got \in SendCommand(verb) :
        Heard(got) /\ Goto(IF got.reply.code = 234 THEN "control-tls" ELSE "auth-ssl")
  BY DEF connectAuthTls
<1> HIDE DEF verb
<1>3. Quiet(pc) /\ pc # "idle"
  BY <1>1 DEF Quiet, AuthPhases, DataPhases
<1>4. ASSUME late = 0, stale' PROVE pc' = "auth-ssl" /\ peer' = "down" /\ owed' \in Gone
  <2>1. ~(owed = <<>> /\ ~stale)
    BY <1>1, <1>4 DEF MarkStale
  <2>2. peer = "down" /\ got.rest \in Gone /\ (got.reply # Lost => got.reply \in Answers["BYE"])
    BY <1>3, <1>4, <2>1, QuietSend
  <2>3. got.reply.code \in {421, -1}
    BY <2>2, LostCode DEF OrderlyAnswers
  <2>4. QED
    BY <1>2, <2>2, <2>3 DEF Heard, Goto
<1>5. pc' \in {"control-tls", "auth-ssl"} /\ UNCHANGED late
  BY <1>2 DEF Heard, Goto
<1>6. QED
  BY <1>4, <1>5 DEF StaleFails

LEMMA AuthSslIsOwn ==
  ASSUME OrderlyAnswers, StaleFails, Settled, connectAuthSsl PROVE StaleFails'
<1> DEFINE after == [c \in {234} |-> "control-tls"]
<1> DEFINE verb == "AUTH SSL"
<1>1. pc = "auth-ssl"
  BY DEF connectAuthSsl, connectExchange, ConnectStep
<1>2. connectExchange("auth-ssl", verb, after, "AuthTlsRejected")
  BY DEF connectAuthSsl
<1>3. DOMAIN after = {234} /\ after[234] = "control-tls"
  OBVIOUS
<1>4. verb \in Verbs /\ <<verb>> # <<>>
      /\ \A tag \in {"TORN", "AUTH TLS", "AUTH SSL"} : tag \in Tags \ TransferVerbs
  BY DEF Tags, Verbs, TransferVerbs
<1> HIDE DEF after, verb
<1>5. PICK got \in SendCommand(verb) :
        \/ connectFails("AuthTlsRejected")
        \/ /\ got.reply.code = 234 /\ Heard(got) /\ MarkStale
           /\ pc' = "control-tls"
  <2>1. PICK got \in SendCommand(verb) :
          \/ connectFails("AuthTlsRejected")
          \/ /\ got.reply.code \in DOMAIN after /\ Heard(got) /\ MarkStale
             /\ pc' = after[got.reply.code]
    BY <1>2 DEF connectExchange, Goto
  <2>2. QED
    BY <1>3, <2>1
<1>6. CASE connectFails("AuthTlsRejected")
  BY <1>6, FailuresFail
<1>7. CASE got.reply.code = 234 /\ Heard(got) /\ MarkStale /\ pc' = "control-tls"
  <2> SUFFICES ASSUME late = 0, stale', peer = "up" PROVE owed' # <<>>
    BY <1>7 DEF StaleFails, Heard, Settled
  <2>1. owed # <<>>
    BY <1>1, <1>7 DEF StaleFails, MarkStale
  <2>2. got.reply # Lost
    BY <1>7, LostCode
  <2>3. PICK tag \in {"TORN", "AUTH TLS", "AUTH SSL"} : owed = <<tag>>
    BY <1>1, <2>1, Expectations DEF Settled, Conversation, InStep, AuthPhases
  <2>4. got.rest = <<verb>>
    BY <1>4, <2>2, <2>3, SendBehindOne
  <2>5. QED
    BY <1>4, <1>7, <2>4 DEF Heard
<1>8. QED
  BY <1>5, <1>6, <1>7

LEMMA ConnectIsOwn ==
  ASSUME OrderlyAnswers, StaleFails, Settled,
         connectTcpOpen \/ connectBanner \/ connectControlTls \/ connectTlsRefused \/ connectTypeI
  PROVE  StaleFails'
<1>1. CASE connectTcpOpen
  <2>1. ~stale' /\ pc' \in {"banner", "idle"}
    BY <1>1 DEF connectTcpOpen, ConnectStep, StaleFails, Goto, Return
  <2>2. QED
    BY <2>1, FreshNext DEF Fresh
<1>2. CASE connectBanner
  <2>1. CASE connectFails("BannerReadFailed")
    BY <2>1, FailuresFail
  <2>2. CASE UNCHANGED <<late, stale>> /\ pc' = "auth-tls"
    <3>1. Fresh
      BY <1>2, FreshPhase DEF connectBanner, ConnectStep
    <3>2. Fresh'
      BY <2>2, <3>1 DEF Fresh
    <3>3. QED
      BY <2>2, <3>2, FreshNext
  <2>3. QED
    BY <1>2, <2>1, <2>2 DEF connectBanner, Heard, Goto
<1>3. CASE connectControlTls
  <2>1. pc = "control-tls" /\ UNCHANGED <<late, stale>>
    BY <1>3 DEF connectControlTls, ConnectStep, replyVars
  <2>2. CASE owed = <<>> /\ peer = "up" /\ pc' = "pbsz"
    <3>1. Fresh'
      BY <2>1, <2>2 DEF StaleFails, Fresh
    <3>2. QED
      BY <2>2, <3>1, FreshNext
  <2>3. CASE pc' = "tls-refused"
    BY <2>3 DEF StaleFails
  <2>4. QED
    BY <1>3, <2>2, <2>3 DEF connectControlTls, Goto
<1>4. CASE connectTlsRefused
  BY <1>4, FailuresFail DEF connectTlsRefused
<1>5. CASE connectTypeI
  <2>1. Quiet(pc) /\ pc # "idle"
    BY <1>5 DEF connectTypeI, ConnectStep, Quiet, AuthPhases, DataPhases
  <2>2. PICK got \in SendCommand("TYPE") :
          \/ connectFails("TypeRejected")
          \/ got.reply.code = 200 /\ Heard(got) /\ MarkStale /\ pc' \in {"idle", "pasv"}
    BY <1>5 DEF connectTypeI, Return
  <2>3. CASE connectFails("TypeRejected")
    BY <2>3, FailuresFail
  <2>4. CASE got.reply.code = 200 /\ Heard(got) /\ MarkStale /\ pc' \in {"idle", "pasv"}
    <3>1. got.reply # Lost
      BY <2>4, LostCode
    <3>2. Fresh'
      BY <2>1, <2>4, <3>1, OwnReply
    <3>3. QED
      BY <2>4, <3>2, FreshNext
  <2>5. QED
    BY <2>2, <2>3, <2>4
<1>6. QED
  BY <1>1, <1>2, <1>3, <1>4, <1>5

\* The commands of a transfer.
LEMMA TransferCommandIsOwn ==
  ASSUME OrderlyAnswers, StaleFails, Settled, NEW phase \in {"command", "list"}, NEW verb,
         NEW refusal, verb = "MLSD" => phase = "command", transferCommand(phase, verb, refusal)
  PROVE  StaleFails'
<1>1. pc = phase /\ MarkStale
  BY DEF transferCommand, TransferStep
<1>2. Quiet(pc) /\ pc # "idle"
  BY <1>1 DEF Quiet, AuthPhases, DataPhases
<1>3. PICK got \in SendCommand(verb) :
        \/ \E e : failAndDisconnect(e) \/ Return(FALSE, e)
        \/ got.reply.code \in {125, 150} /\ Heard(got) /\ pc' = "data-tls"
        \/ Heard(got) /\ pc' = "list"
  BY DEF transferCommand, Goto
<1>4. CASE \E e : failAndDisconnect(e) \/ Return(FALSE, e)
  BY <1>4, FailuresFail
<1>5. CASE got.reply.code \in {125, 150} /\ Heard(got) /\ pc' = "data-tls"
  <2>1. got.reply # Lost
    BY <1>5, LostCode
  <2>2. Fresh'
    BY <1>1, <1>2, <1>5, <2>1, OwnReply
  <2>3. QED
    BY <1>5, <2>2, FreshNext
<1>6. CASE Heard(got) /\ pc' = "list"
  <2> SUFFICES ASSUME late = 0, stale' PROVE peer = "down" /\ got.rest \in Gone
    BY <1>6 DEF StaleFails, Heard
  <2>1. ~(owed = <<>> /\ ~stale)
    BY <1>1 DEF MarkStale
  <2>2. QED
    BY <1>2, <2>1, QuietSend
<1>7. QED
  BY <1>3, <1>4, <1>5, <1>6

LEMMA TransferIsOwn ==
  ASSUME OrderlyAnswers, StaleFails, Settled,
         pasv \/ dataOpen \/ command \/ listCommand \/ transferTls
         \/ bufferFull \/ moveData \/ endOfData \/ dataError \/ drain \/ finalReply
  PROVE  StaleFails'
<1>1. CASE pasv
  <2>1. Quiet(pc) /\ pc # "idle" /\ MarkStale
    BY <1>1 DEF pasv, TransferStep, Quiet, AuthPhases, DataPhases
  <2>2. PICK got \in SendCommand("PASV") :
          \/ \E e : failAndDisconnect(e) \/ Return(FALSE, e)
          \/ got.reply # Lost /\ got.reply.code = 227 /\ Heard(got) /\ pc' = "data-open"
    BY <1>1 DEF pasv, Goto
  <2>3. CASE \E e : failAndDisconnect(e) \/ Return(FALSE, e)
    BY <2>3, FailuresFail
  <2>4. CASE got.reply # Lost /\ got.reply.code = 227 /\ Heard(got) /\ pc' = "data-open"
    <3>1. Fresh'
      BY <2>1, <2>4, OwnReply
    <3>2. QED
      BY <2>4, <3>1, FreshNext
  <2>5. QED
    BY <2>2, <2>3, <2>4
<1>2. CASE command \/ listCommand
  <2>1. "LIST" # "MLSD"
    OBVIOUS
  <2>2. QED
    BY <1>2, <2>1, TransferCommandIsOwn DEF command, listCommand
<1>3. CASE drain
  BY <1>3, FailuresFail DEF drain
<1>4. CASE dataOpen \/ transferTls \/ bufferFull \/ moveData \/ endOfData \/ dataError
  <2>1. Fresh
    BY <1>4, FreshPhase
       DEF dataOpen, transferTls, bufferFull, moveData, endOfData, dataError, TransferStep
  <2>2. UNCHANGED <<stale, late>> /\ pc' \notin {"tcp-open", "quit"}
    BY <1>4 DEF dataOpen, transferTls, bufferFull, moveData, endOfData, dataError, LeaveData,
       Goto, Return, ServerAborts, replyVars
  <2>3. QED
    BY <2>1, <2>2, FreshNext DEF Fresh
<1>5. CASE finalReply
  <2>1. Fresh /\ UNCHANGED stale
    BY <1>5, FreshPhase DEF finalReply, TransferStep
  <2>2. CASE failAndDisconnect("ConnectionFailed")
    BY <2>2, FailuresFail
  <2>3. CASE UNCHANGED late /\ pc' = "idle"
    BY <2>1, <2>3, FreshNext DEF Fresh
  <2>4. QED
    BY <1>5, <2>2, <2>3 DEF finalReply, Heard, Return
<1>6. QED
  BY <1>1, <1>2, <1>3, <1>4, <1>5

\* What answers QUIT besides its own reply can only be the goodbye.
LEMMA QuitIsOwn ==
  ASSUME OrderlyAnswers, StaleFails, Settled, quit PROVE StaleFails'
<1>1. pc = "quit" /\ pc' = "idle" /\ UNCHANGED late /\ MarkStale
  BY DEF quit, HangUp, Disconnected, Return
<1>2. PICK got \in SendCommand("QUIT") : ok' = (got.reply.code = 221)
  BY DEF quit, Return
<1>3. ASSUME late = 0, stale' PROVE got.reply.code # 221
  <2>1. Quiet(pc) /\ pc # "idle"
    BY <1>1 DEF Quiet, AuthPhases, DataPhases
  <2>2. ~(owed = <<>> /\ ~stale)
    BY <1>1, <1>3 DEF MarkStale
  <2>3. got.reply = Lost \/ got.reply \in Answers["BYE"]
    BY <1>2, <1>3, <2>1, <2>2, QuietSend
  <2>4. QED
    BY <2>3, LostCode DEF OrderlyAnswers
<1>4. QED
  BY <1>1, <1>2, <1>3 DEF StaleFails

LEMMA StaleFailsStep ==
  ASSUME OrderlyAnswers
  PROVE  StaleFails /\ Settled /\ [Next]_vars => StaleFails'
<1> SUFFICES ASSUME StaleFails, Settled, [Next]_vars PROVE StaleFails'
  OBVIOUS
<1>1. CASE Call /\ ~setReconnectBetweenStores
  BY <1>1, CallOpens DEF StaleFails
<1>2. CASE Step
  BY <1>2, QuitIsOwn, ConnectIsOwn, AuthTlsIsOwn, AuthSslIsOwn, LoginsAreOwn, ExchangesAreOwn,
     TransferIsOwn DEF Step
<1>3. CASE setReconnectBetweenStores \/ UNCHANGED vars
  BY <1>3 DEF setReconnectBetweenStores, vars, callVars, replyVars, StaleFails
<1>4. CASE serverLeaves
  BY <1>4 DEF serverLeaves, ServerLeaves, callVars, StaleFails
<1>5. QED
  BY <1>1, <1>2, <1>3, <1>4 DEF Next

\* As long as no final reply was given up, a call that succeeds succeeded on
\* the replies to its own commands, also if AUTH or a listing was tried twice.
THEOREM ClientSucceedsOnItsOwn ==
  ASSUME StandardAnswers, OrderlyAnswers PROVE Spec => []SuccessIsOwn
<1>1. StaleFails => SuccessIsOwn
  BY DEF StaleFails, SuccessIsOwn, Idle
<1>2. Init => StaleFails /\ Departed
  <2>1. Init => Departed
    <3>1. owed \in Gone => Departed
      BY ExpectedTags DEF Departed, Left, Gone
    <3>2. QED
      BY <3>1 DEF Init, ControlInit, Gone
  <2>2. QED
    BY <2>1 DEF Init, ControlInit, StaleFails
<1>3. Spec => []Conversation
  BY ConversationStart, ConversationStep, PTL DEF Spec
<1>4. Spec => []Departed
  BY <1>2, <1>3, DepartedStep, PTL DEF Spec
<1>5. TypeOK => peer \in {"up", "down"}
  BY DEF TypeOK, ControlTypeOK
<1>6. Spec => []Settled
  BY <1>3, <1>4, <1>5, ClientTyped, PTL DEF Settled
<1>7. Spec => []StaleFails
  BY <1>2, <1>6, StaleFailsStep, PTL DEF Spec
<1>8. QED
  BY <1>1, <1>7, PTL


-----------------------------------------------------------------------------
(***************************************************************************)
(* What a failed transfer has sent                                         *)
(***************************************************************************)
Unopened == {"DataConnectionFailed", "DataTlsHandshakeFailed"}

\* Until its data channel is protected a transfer has moved nothing, and the
\* errors that say it got no further are not those of a broken one.
Untouched ==
  /\ pc \in ConnectPhases \cup {"pasv", "data-open", "command", "list", "data-tls"} => moved = 0
  /\ pc = "drain" /\ failure \in Unopened => moved = 0
  /\ Idle /\ ~ok /\ op \in Transfers /\ lastError \in Unopened => moved = 0

LEMMA NothingMoved ==
  ASSUME moved' = 0 PROVE Untouched'
BY DEF Untouched

LEMMA EnterMovesNothing ==
  ASSUME Call, ~setReconnectBetweenStores PROVE moved' = 0
<1>1. ASSUME NEW call, NEW v, NEW l, NEW s, Enter(call, v, l, s) PROVE moved' = 0
  BY <1>1 DEF Enter
<1>2. QED
  BY <1>1, CallEnters

LEMMA StepUntouched ==
  ASSUME Staged, Called, Untouched, Step PROVE Untouched'
<1>1. CASE quit
  <2>1. pc' = "idle" /\ op' = "quit"
    BY <1>1, StepKeepsConfig DEF quit, Called, Return
  <2>2. QED
    BY <2>1 DEF Untouched, Transfers, ConnectPhases
<1>2. CASE connectTcpOpen \/ connectBanner \/ connectAuthTls \/ connectAuthSsl
           \/ connectControlTls \/ connectTlsRefused \/ connectPbsz \/ connectProtP
           \/ connectUser \/ connectPass \/ connectTypeI
  <2>1. pc \in ConnectPhases
    BY <1>2, LoginEnds, TypeIEnds DEF ConnectPhases
  <2>2. UNCHANGED moved
    BY <1>2 DEF connectTcpOpen, connectBanner, connectAuthTls, connectAuthSsl,
       connectControlTls, connectTlsRefused, connectPbsz, connectProtP, connectUser,
       connectPass, connectTypeI, connectExchange, ConnectStep
  <2>3. QED
    BY <2>1, <2>2, NothingMoved DEF Untouched
<1>3. CASE mkd \/ size \/ dele \/ rmd \/ renameFrom \/ renameTo \/ isControlAlive
  <2>1. op \in Exchanges /\ pc' \in ExchangePhases \cup {"idle"} /\ UNCHANGED op
    BY <1>3, ExchangeEnds, StepKeepsConfig
  <2>2. QED
    BY <2>1 DEF Untouched, Exchanges, Transfers, ExchangePhases, ConnectPhases
<1>4. CASE pasv \/ dataOpen \/ command \/ listCommand \/ transferTls
  <2>1. pc \in {"pasv", "data-open", "command", "list", "data-tls"} /\ UNCHANGED moved
    BY <1>4 DEF pasv, dataOpen, command, listCommand, transferTls, transferCommand, TransferStep
  <2>2. QED
    BY <2>1, NothingMoved DEF Untouched
<1>5. CASE bufferFull \/ dataError
  BY <1>5 DEF bufferFull, dataError, LeaveData, Goto, transferError, Untouched, Unopened,
     Idle, ConnectPhases
<1>6. CASE moveData \/ endOfData
  BY <1>6 DEF moveData, endOfData, LeaveData, Goto, Untouched, Idle, ConnectPhases
<1>7. CASE drain
  BY <1>7 DEF drain, TransferStep, Return, Untouched, ConnectPhases
<1>8. CASE finalReply
  BY <1>8 DEF finalReply, failAndDisconnect, Return, Untouched, Unopened, ConnectPhases
<1>9. QED
  BY <1>1, <1>2, <1>3, <1>4, <1>5, <1>6, <1>7, <1>8 DEF Step

LEMMA UntouchedStep == Staged /\ Called /\ Untouched /\ [Next]_vars => Untouched'
<1> SUFFICES ASSUME Staged, Called, Untouched, [Next]_vars PROVE Untouched'
  OBVIOUS
<1>1. CASE Call /\ ~setReconnectBetweenStores
  BY <1>1, EnterMovesNothing, NothingMoved
<1>2. CASE Step
  BY <1>2, StepUntouched
<1>3. CASE setReconnectBetweenStores \/ serverLeaves \/ UNCHANGED vars
  BY <1>3 DEF setReconnectBetweenStores, serverLeaves, vars, callVars, Untouched, Idle
<1>4. QED
  BY <1>1, <1>2, <1>3 DEF Next

\* A transfer that failed before its data channel was protected has sent
\* nothing of the file and read nothing of it.
LEMMA ClientUntouched == Spec => []Untouched
<1>1. Init => Untouched
  BY DEF Init, Untouched, ConnectPhases
<1>2. QED
  BY <1>1, UntouchedStep, ClientStaged, ClientCalled, PTL DEF Spec

-----------------------------------------------------------------------------
(***************************************************************************)
(* Every call comes to its end                                             *)
(***************************************************************************)
LEMMA Aheads ==
  /\ ahead["idle"] = 0 /\ ahead["quit"] = 1 /\ ahead["tls-refused"] = 1 /\ ahead["rename-to"] = 1
  /\ ahead["final"] = 1 /\ ahead["drain"] = 1 /\ ahead["exchange"] = 2 /\ ahead["data"] = 2
  /\ ahead["data-tls"] = 3 /\ ahead["list"] = 4 /\ ahead["command"] = 5
  /\ ahead["data-open"] = 6 /\ ahead["pasv"] = 7
  /\ ahead["type-i"] = 8 /\ ahead["pass"] = 9 /\ ahead["user"] = 10
  /\ ahead["prot-p"] = 11 /\ ahead["pbsz"] = 12 /\ ahead["control-tls"] = 13
  /\ ahead["auth-ssl"] = 14 /\ ahead["auth-tls"] = 15 /\ ahead["banner"] = 16
  /\ ahead["tcp-open"] = 17
BY DEF ahead, Phases, ConnectPhases, TransferPhases, DataPhases

\* The phases a call may go to from each of its phases.
Onward ==
  \/ pc # "idle" /\ pc' = "idle"
  \/ pc = "tcp-open" /\ pc' = "banner"
  \/ pc = "banner" /\ pc' = "auth-tls"
  \/ pc = "auth-tls" /\ pc' \in {"auth-ssl", "control-tls"}
  \/ pc = "auth-ssl" /\ pc' = "control-tls"
  \/ pc = "control-tls" /\ pc' \in {"pbsz", "tls-refused"}
  \/ pc = "pbsz" /\ pc' = "prot-p"
  \/ pc = "prot-p" /\ pc' = "user"
  \/ pc = "user" /\ pc' \in {"pass", "type-i"}
  \/ pc = "pass" /\ pc' = "type-i"
  \/ pc = "type-i" /\ pc' = "pasv"
  \/ pc = "exchange" /\ pc' = "rename-to"
  \/ pc = "pasv" /\ pc' = "data-open"
  \/ pc = "data-open" /\ pc' = "command"
  \/ pc = "command" /\ pc' \in {"list", "data-tls"}
  \/ pc = "list" /\ pc' = "data-tls"
  \/ pc = "data-tls" /\ pc' \in {"data", "drain"}
  \/ pc = "data" /\ pc' \in {"drain", "final"}

LEMMA OnwardIsAhead ==
  ASSUME Onward, pc \in Phases PROVE ahead[pc'] < ahead[pc]
<1>1. CASE pc # "idle" /\ pc' = "idle"
  <2>1. ahead[pc'] = 0
    BY <1>1, Aheads
  <2>2. ahead[pc] > 0
    BY <1>1, Aheads DEF Phases, ConnectPhases, TransferPhases, DataPhases
  <2>3. ahead[pc] \in Nat
    BY Aheads DEF Phases, ConnectPhases, TransferPhases, DataPhases
  <2>4. QED
    BY <2>1, <2>2, <2>3
<1>2. QED
  BY <1>1, Aheads DEF Onward

\* connect() tries AUTH SSL after AUTH TLS, and nothing a second time.
LEMMA ConnectGoesOnward ==
  ASSUME connectTcpOpen \/ connectBanner \/ connectAuthTls \/ connectAuthSsl
           \/ connectControlTls \/ connectTlsRefused \/ connectPbsz \/ connectProtP
           \/ connectUser \/ connectPass \/ connectTypeI
  PROVE  Onward
<1>1. ASSUME NEW phase, NEW verb, NEW after, NEW error, connectExchange(phase, verb, after, error)
      PROVE  pc = phase /\ (pc' = "idle" \/ \E c \in DOMAIN after : pc' = after[c])
  BY <1>1 DEF connectExchange, ConnectStep, connectFails, Goto, Return
<1>2. CASE connectTcpOpen
  BY <1>2 DEF connectTcpOpen, ConnectStep, Goto, Return, Onward
<1>3. CASE connectBanner
  BY <1>3 DEF connectBanner, ConnectStep, connectFails, Goto, Return, Onward
<1>4. CASE connectAuthTls
  BY <1>4 DEF connectAuthTls, ConnectStep, Goto, Onward
<1>5. CASE connectAuthSsl
  <2>1. pc = "auth-ssl" /\ pc' \in {"idle", "control-tls"}
    BY <1>5 DEF connectAuthSsl, connectExchange, ConnectStep, connectFails, Goto, Return
  <2>2. QED
    BY <2>1 DEF Onward
<1>6. CASE connectControlTls
  BY <1>6 DEF connectControlTls, ConnectStep, Goto, Onward
<1>7. CASE connectTlsRefused
  BY <1>7 DEF connectTlsRefused, ConnectStep, connectFails, Return, Onward
<1>8. CASE connectPbsz
  <2>1. pc = "pbsz" /\ pc' \in {"idle", "prot-p"}
    BY <1>1, <1>8 DEF connectPbsz
  <2>2. QED
    BY <2>1 DEF Onward
<1>9. CASE connectProtP
  <2>1. pc = "prot-p" /\ pc' \in {"idle", "user"}
    BY <1>1, <1>9 DEF connectProtP
  <2>2. QED
    BY <2>1 DEF Onward
<1>10. CASE connectUser
  <2>1. pc = "user" /\ pc' \in {"idle", "pass", "type-i"}
    BY <1>1, <1>10 DEF connectUser
  <2>2. QED
    BY <2>1 DEF Onward
<1>11. CASE connectPass
  <2>1. pc = "pass" /\ pc' \in {"idle", "type-i"}
    BY <1>1, <1>11 DEF connectPass
  <2>2. QED
    BY <2>1 DEF Onward
<1>12. CASE connectTypeI
  BY <1>12 DEF connectTypeI, ConnectStep, connectFails, Return, Onward
<1>13. QED
  BY <1>2, <1>3, <1>4, <1>5, <1>6, <1>7, <1>8, <1>9, <1>10, <1>11, <1>12

\* A step of a call leads it onward, unless it moves data.
LEMMA StepGoesOnward ==
  ASSUME Step, ~moveData PROVE Onward
<1>1. CASE quit
  BY <1>1 DEF quit, Return, Onward
<1>2. CASE mkd \/ size \/ dele \/ rmd \/ renameFrom \/ renameTo \/ isControlAlive
  <2>1. ASSUME NEW call, NEW phase, NEW verb, NEW accepted, NEW next, NEW refusal,
               exchange(call, phase, verb, accepted, next, refusal)
        PROVE  pc = phase /\ pc' \in {"idle", next}
    BY <2>1 DEF exchange, failAndDisconnect, Goto, Return
  <2>2. CASE renameFrom
    <3>1. pc = "exchange" /\ pc' \in {"idle", "rename-to"}
      BY <2>1, <2>2 DEF renameFrom
    <3>2. QED
      BY <3>1 DEF Onward
  <2>3. CASE renameTo
    <3>1. pc = "rename-to" /\ pc' = "idle"
      BY <2>1, <2>3 DEF renameTo
    <3>2. QED
      BY <3>1 DEF Onward
  <2>4. CASE mkd \/ size \/ dele \/ rmd \/ isControlAlive
    <3>1. pc = "exchange" /\ pc' = "idle"
      BY <2>1, <2>4 DEF mkd, size, dele, rmd, isControlAlive
    <3>2. QED
      BY <3>1 DEF Onward
  <2>5. QED
    BY <1>2, <2>2, <2>3, <2>4
<1>3. CASE pasv
  BY <1>3 DEF pasv, TransferStep, failAndDisconnect, Goto, Return, Onward
<1>4. CASE dataOpen
  BY <1>4 DEF dataOpen, TransferStep, Goto, Return, Onward
<1>5. CASE command \/ listCommand
  <2>1. ASSUME NEW phase, NEW verb, NEW refusal, transferCommand(phase, verb, refusal)
        PROVE  pc = phase /\ pc' \in {"idle", "data-tls"} \cup {p \in {"list"} : verb = "MLSD"}
    BY <2>1 DEF transferCommand, TransferStep, failAndDisconnect, Goto, Return
  <2>2. CASE command
    <3>1. pc = "command" /\ pc' \in {"idle", "data-tls", "list"}
      BY <2>1, <2>2 DEF command
    <3>2. QED
      BY <3>1 DEF Onward
  <2>3. CASE listCommand
    <3>1. pc = "list" /\ pc' \in {"idle", "data-tls"}
      BY <2>1, <2>3 DEF listCommand
    <3>2. QED
      BY <3>1 DEF Onward
  <2>4. QED
    BY <1>5, <2>2, <2>3
<1>6. CASE transferTls
  BY <1>6 DEF transferTls, TransferStep, Goto, Onward
<1>7. CASE bufferFull \/ endOfData \/ dataError
  BY <1>7 DEF bufferFull, endOfData, dataError, LeaveData, TransferStep, Goto, Onward
<1>8. CASE drain
  BY <1>8 DEF drain, TransferStep, Return, Onward
<1>9. CASE finalReply
  BY <1>9 DEF finalReply, TransferStep, failAndDisconnect, Return, Onward
<1>10. QED
  BY <1>1, <1>2, <1>3, <1>4, <1>5, <1>6, <1>7, <1>8, <1>9, ConnectGoesOnward DEF Step

\* Every call comes to its end, in the only way a safety property can say it:
\* each of its steps leads to a phase ahead of it, or moves some of the bytes
\* that are left.
THEOREM ClientGetsOn == Spec => CallsGetOn
<1> DEFINE GetsOn == \/ ahead[pc'] < ahead[pc]
                     \/ /\ pc = "data" /\ pc' = pc
                        /\ moved < moved' /\ moved' <= total /\ UNCHANGED total
<1>1. TypeOK /\ Step => GetsOn
  <2> SUFFICES ASSUME TypeOK, Step PROVE GetsOn
    OBVIOUS
  <2>1. CASE moveData
    <3>1. PICK n \in 1..(total - moved) : moved' = moved + n
      BY <2>1 DEF moveData
    <3>2. total \in Nat /\ moved \in Nat
      BY BoundsAssumption DEF TypeOK
    <3>3. moved < moved' /\ moved' <= total
      BY <3>1, <3>2
    <3>4. QED
      BY <2>1, <3>3 DEF moveData, TransferStep, Goto
  <2>2. CASE ~moveData
    <3>1. pc \in Phases
      BY DEF TypeOK
    <3>2. Onward
      BY <2>2, StepGoesOnward
    <3>3. QED
      BY <3>1, <3>2, OnwardIsAhead
  <2>3. QED
    BY <2>1, <2>2
<1>2. QED
  BY <1>1, ClientTyped, PTL DEF CallsGetOn
=============================================================================
