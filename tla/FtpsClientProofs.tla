-------------------------- MODULE FtpsClientProofs --------------------------
(***************************************************************************)
(* What FtpsTransport keeps under any caller, and FtpsClient for every     *)
(* server, every set of configurations and every bound.  The proofs about  *)
(* the client rest on one inductive invariant, which says for each phase   *)
(* of a call which sockets exist and how they are protected; they cite     *)
(* the lemmas about the transport for the operations the client calls.     *)
(***************************************************************************)
EXTENDS FtpsClient, TLAPS

\* What is owned is what is reachable.  NoLeak and FlagsAgree are inductive
\* together: a deletion gives back the objects of a pair as its flags go.
Owned == NoLeak /\ FlagsAgree

LEMMA CloseDataOwned ==
  ASSUME Owned, closeData PROVE Owned'
BY DEF Owned, NoLeak, FlagsAgree, closeData, ReleaseData, controlVars, Objects

LEMMA CloseAllOwned ==
  ASSUME Owned, closeAll PROVE Owned'
BY DEF Owned, NoLeak, FlagsAgree, closeAll, ReleaseData, ReleaseControl, Objects

LEMMA RenewTransportOwned ==
  ASSUME Owned, renewTransport PROVE Owned'
BY DEF Owned, NoLeak, FlagsAgree, renewTransport, ReleaseData, ReleaseControl, Objects

\* A connection that failed leaves no socket behind.
LEMMA ConnectControlOwned ==
  ASSUME NEW done \in BOOLEAN, Owned, connectControl(done) PROVE Owned'
BY DEF Owned, NoLeak, FlagsAgree, connectControl, ReleaseData, Objects

LEMMA OpenDataChannelOwned ==
  ASSUME NEW done \in BOOLEAN, Owned, openDataChannel(done) PROVE Owned'
BY DEF Owned, NoLeak, FlagsAgree, openDataChannel, controlVars, Objects

\* Neither does a handshake or a fingerprint check that failed.
LEMMA UpgradeControlOwned ==
  ASSUME NEW tls, NEW done \in BOOLEAN, Owned, upgradeControlToTls(tls, done) PROVE Owned'
<1> USE DEF Owned, NoLeak, FlagsAgree, Objects, dataVars
<1>1. CASE done
  <2>1. PICK cert \in Certs : controlTlsEstablished(tls, cert)
    BY <1>1 DEF upgradeControlToTls
  <2>2. cert # NoTls
    BY TransportAssumption
  <2>3. QED
    BY <1>1, <2>1, <2>2 DEF upgradeControlToTls, controlTlsEstablished
<1>2. CASE ~done /\ ~controlSocket
  BY <1>2 DEF upgradeControlToTls, controlVars
<1>3. CASE ~done /\ controlSocket /\ controlTlsUnavailable
  BY <1>3 DEF upgradeControlToTls, controlTlsUnavailable
<1>4. CASE ~done /\ controlSocket /\ controlTlsRefused
  BY <1>4 DEF upgradeControlToTls, controlTlsRefused, ReleaseControl
<1>5. CASE ~done /\ controlSocket /\ \E cert \in Certs : controlTlsMismatch(tls, cert)
  BY <1>5 DEF upgradeControlToTls, controlTlsMismatch, ReleaseControl
<1>6. QED
  BY <1>1, <1>2, <1>3, <1>4, <1>5 DEF upgradeControlToTls

\* The same of the data channel, which is upgraded at most once.
LEMMA UpgradeDataOwned ==
  ASSUME NEW tls, NEW done \in BOOLEAN, Owned, dataTls = NoTls, upgradeDataToTls(tls, done)
  PROVE  Owned'
<1> USE DEF Owned, NoLeak, FlagsAgree, Objects, controlVars
<1>1. CASE ~(dataSocket /\ dataConnected)
  BY <1>1 DEF upgradeDataToTls, dataVars
<1>2. CASE dataSocket /\ dataConnected /\ done
  <2>1. dataTls' \in Certs
    BY <1>2 DEF upgradeDataToTls
  <2>2. dataTls' # NoTls
    BY <2>1, TransportAssumption
  <2>3. Objects(FALSE, dataTls') = 1 /\ Objects(dataSocket, NoTls) = 1
    BY <1>2, <2>2
  <2>4. /\ UNCHANGED <<dataSocket, dataConnected, controlSocket, controlTls, controlConnected>>
        /\ held' = held + 1
    BY <1>2, <2>3 DEF upgradeDataToTls
  <2>5. QED
    BY <1>2, <2>2, <2>4
<1>3. CASE dataSocket /\ dataConnected /\ ~done
  BY <1>3 DEF upgradeDataToTls, ReleaseData
<1>4. QED
  BY <1>1, <1>2, <1>3

LEMMA OpenProtectedOwned ==
  ASSUME NEW tls, NEW done \in BOOLEAN, Owned, openProtectedDataChannel(tls, done) PROVE Owned'
<1>1. CASE openDataChannel(FALSE)
  BY <1>1, OpenDataChannelOwned
<1>2. CASE ~openDataChannel(FALSE)
  <2>1. CASE done
    <3>1. dataTls' \in Certs
      BY <1>2, <2>1 DEF openProtectedDataChannel
    <3>2. dataTls' # NoTls
      BY <3>1, TransportAssumption
    <3>3. QED
      BY <1>2, <2>1, <3>2 DEF Owned, NoLeak, FlagsAgree, Objects, openProtectedDataChannel,
         controlVars
  <2>2. CASE ~done
    <3>1. /\ UNCHANGED controlVars
          /\ ReleaseData
          /\ held' = held - Objects(dataSocket, dataTls) + 0
      BY <1>2, <2>2 DEF openProtectedDataChannel
    <3>2. QED
      BY <3>1 DEF Owned, NoLeak, FlagsAgree, controlVars, ReleaseData, Objects
  <2>3. QED
    BY <2>1, <2>2
<1>3. QED
  BY <1>1, <1>2

LEMMA OwnedStep ==
  Owned /\ [TransportNext]_transportVars => Owned'
<1> SUFFICES ASSUME Owned, [TransportNext]_transportVars PROVE Owned'
  OBVIOUS
<1>1. CASE closeData
  BY <1>1, CloseDataOwned
<1>2. CASE closeAll
  BY <1>2, CloseAllOwned
<1>3. CASE renewTransport
  BY <1>3, RenewTransportOwned
<1>4. CASE \E done \in BOOLEAN : connectControl(done)
  BY <1>4, ConnectControlOwned
<1>5. CASE \E done \in BOOLEAN : openDataChannel(done)
  BY <1>5, OpenDataChannelOwned
<1>6. CASE \E tls \in TlsConfig, done \in BOOLEAN : upgradeControlToTls(tls, done)
  BY <1>6, UpgradeControlOwned
<1>7. CASE \E tls \in TlsConfig, done \in BOOLEAN : dataTls = NoTls /\ upgradeDataToTls(tls, done)
  BY <1>7, UpgradeDataOwned
<1>8. CASE \E tls \in TlsConfig, done \in BOOLEAN : openProtectedDataChannel(tls, done)
  BY <1>8, OpenProtectedOwned
<1>9. CASE UNCHANGED transportVars
  BY <1>9 DEF Owned, NoLeak, FlagsAgree, Objects, transportVars, controlVars, dataVars
<1>10. QED
  BY <1>1, <1>2, <1>3, <1>4, <1>5, <1>6, <1>7, <1>8, <1>9 DEF TransportNext

LEMMA OwnedStart == TransportInit => Owned
BY DEF TransportInit, Owned, NoLeak, FlagsAgree, Objects

-----------------------------------------------------------------------------
(***************************************************************************)
(* Types.  The arithmetic on held is a step of its own: SMT does it, and   *)
(* Zenon the Boolean and the set-valued variables.                         *)
(***************************************************************************)
LEMMA ObjectsType ==
  \A socket, tls : Objects(socket, tls) \in Int
BY DEF Objects

LEMMA CloseDataTyped ==
  ASSUME TransportTypeOK, closeData PROVE TransportTypeOK'
<1>1. held' \in Int
  BY ObjectsType DEF TransportTypeOK, closeData
<1>2. QED
  BY <1>1, Zenon DEF TransportTypeOK, closeData, ReleaseData, controlVars, errorVars

LEMMA CloseAllTyped ==
  ASSUME TransportTypeOK, closeAll PROVE TransportTypeOK'
<1>1. held' \in Int
  BY ObjectsType DEF TransportTypeOK, closeAll
<1>2. QED
  BY <1>1, Zenon DEF TransportTypeOK, closeAll, ReleaseData, ReleaseControl, errorVars

LEMMA RenewTransportTyped ==
  ASSUME TransportTypeOK, renewTransport PROVE TransportTypeOK'
<1>1. held' \in Int
  BY ObjectsType DEF TransportTypeOK, renewTransport
<1>2. QED
  BY <1>1, Zenon DEF TransportTypeOK, renewTransport, ReleaseData, ReleaseControl,
     NsapiError, TlsError

LEMMA ConnectSocketTyped ==
  ASSUME NEW done \in BOOLEAN, lastNsapiError \in NsapiError, connectSocket(done)
  PROVE  lastNsapiError' \in NsapiError
BY DEF connectSocket, NsapiError

LEMMA ConnectControlTyped ==
  ASSUME NEW done \in BOOLEAN, TransportTypeOK, connectControl(done) PROVE TransportTypeOK'
<1>1. held' \in Int
  BY ObjectsType DEF TransportTypeOK, connectControl
<1>2. lastNsapiError' \in NsapiError
  BY ConnectSocketTyped DEF TransportTypeOK, connectControl
<1>3. QED
  BY <1>1, <1>2, Zenon DEF TransportTypeOK, connectControl, ReleaseData, TlsError

LEMMA OpenDataChannelTyped ==
  ASSUME NEW done \in BOOLEAN, TransportTypeOK, openDataChannel(done) PROVE TransportTypeOK'
<1>1. held' \in Int
  BY ObjectsType DEF TransportTypeOK, openDataChannel
<1>2. lastNsapiError' \in NsapiError
  BY ConnectSocketTyped DEF TransportTypeOK, openDataChannel
<1>3. QED
  BY <1>1, <1>2, Zenon DEF TransportTypeOK, openDataChannel, controlVars

LEMMA UpgradeControlTyped ==
  ASSUME NEW tls, NEW done \in BOOLEAN, TransportTypeOK, upgradeControlToTls(tls, done)
  PROVE  TransportTypeOK'
<1>1. held \in Int
  BY DEF TransportTypeOK
<1>2. ASSUME NEW cert \in Certs, controlTlsEstablished(tls, cert) PROVE TransportTypeOK'
  <2>1. held' \in Int
    BY <1>1, <1>2 DEF controlTlsEstablished, Objects
  <2>2. QED
    BY <1>2, <2>1, Zenon
    DEF TransportTypeOK, upgradeControlToTls, dataVars, controlTlsEstablished, TlsError
<1>3. CASE controlTlsUnavailable
  <2>1. held' \in Int
    BY <1>1, <1>3 DEF controlTlsUnavailable, Objects
  <2>2. QED
    BY <1>3, <2>1, Zenon DEF TransportTypeOK, upgradeControlToTls, dataVars, controlTlsUnavailable
<1>4. CASE controlTlsRefused
  <2>1. held' \in Int
    BY <1>1, <1>4, ObjectsType DEF controlTlsRefused
  <2>2. QED
    BY <1>4, <2>1, Zenon
    DEF TransportTypeOK, upgradeControlToTls, dataVars, controlTlsRefused, ReleaseControl
<1>5. ASSUME NEW cert \in Certs, controlTlsMismatch(tls, cert) PROVE TransportTypeOK'
  <2>1. held' \in Int
    BY <1>1, <1>5, ObjectsType DEF controlTlsMismatch
  <2>2. QED
    BY <1>5, <2>1, Zenon
    DEF TransportTypeOK, upgradeControlToTls, dataVars, controlTlsMismatch, ReleaseControl, TlsError
<1>6. CASE UNCHANGED <<controlVars, lastTlsError, held>>
  BY <1>6, Zenon DEF TransportTypeOK, upgradeControlToTls, dataVars, controlVars
<1>7. QED
  BY <1>2, <1>3, <1>4, <1>5, <1>6 DEF upgradeControlToTls

LEMMA DataTlsFailureTyped ==
  ASSUME NEW tls, lastTlsError \in TlsError, dataTlsFailure(tls)
  PROVE  lastTlsError' \in TlsError
BY DEF dataTlsFailure, TlsError

LEMMA UpgradeDataTyped ==
  ASSUME NEW tls, NEW done \in BOOLEAN, TransportTypeOK, upgradeDataToTls(tls, done)
  PROVE  TransportTypeOK'
<1>1. held \in Int
  BY DEF TransportTypeOK
<1>2. CASE ~(dataSocket /\ dataConnected)
  BY <1>2, Zenon DEF TransportTypeOK, upgradeDataToTls, controlVars, dataVars
<1>3. CASE dataSocket /\ dataConnected /\ done
  <2>1. PICK cert \in Certs : held' = held + Objects(FALSE, cert)
    BY <1>3 DEF upgradeDataToTls
  <2>2. held' \in Int
    BY <1>1, <2>1 DEF Objects
  <2>3. QED
    BY <1>3, <2>2, Zenon DEF TransportTypeOK, upgradeDataToTls, controlVars, TlsError
<1>4. CASE dataSocket /\ dataConnected /\ ~done
  <2>1. held' = held - Objects(dataSocket, dataTls) /\ dataTlsFailure(tls)
    BY <1>4 DEF upgradeDataToTls
  <2>2. held' \in Int
    BY <1>1, <2>1, ObjectsType
  <2>3. lastTlsError' \in TlsError
    BY <2>1, DataTlsFailureTyped DEF TransportTypeOK
  <2>4. QED
    BY <1>4, <2>2, <2>3, Zenon DEF TransportTypeOK, upgradeDataToTls, controlVars, ReleaseData
<1>5. QED
  BY <1>2, <1>3, <1>4

LEMMA OpenProtectedTyped ==
  ASSUME NEW tls, NEW done \in BOOLEAN, TransportTypeOK, openProtectedDataChannel(tls, done)
  PROVE  TransportTypeOK'
<1>1. CASE openDataChannel(FALSE)
  BY <1>1, OpenDataChannelTyped
<1>2. CASE ~openDataChannel(FALSE)
  <2>1. held' = held - Objects(dataSocket, dataTls) + (IF done THEN 2 ELSE 0)
    BY <1>2 DEF openProtectedDataChannel
  <2>2. held' \in Int
    BY <2>1, ObjectsType DEF TransportTypeOK
  <2>3. CASE done
    BY <1>2, <2>2, <2>3, Zenon
    DEF TransportTypeOK, openProtectedDataChannel, controlVars, NsapiError, TlsError
  <2>4. CASE ~done
    <3>1. lastTlsError' \in TlsError
      BY <1>2, <2>4, DataTlsFailureTyped DEF TransportTypeOK, openProtectedDataChannel
    <3>2. QED
      BY <1>2, <2>2, <2>4, <3>1, Zenon
      DEF TransportTypeOK, openProtectedDataChannel, ReleaseData, controlVars, NsapiError
  <2>5. QED
    BY <2>3, <2>4
<1>3. QED
  BY <1>1, <1>2

LEMMA TransportTypeStep ==
  TransportTypeOK /\ [TransportNext]_transportVars => TransportTypeOK'
<1> SUFFICES ASSUME TransportTypeOK, [TransportNext]_transportVars PROVE TransportTypeOK'
  OBVIOUS
<1>1. CASE closeData
  BY <1>1, CloseDataTyped
<1>2. CASE closeAll
  BY <1>2, CloseAllTyped
<1>3. CASE renewTransport
  BY <1>3, RenewTransportTyped
<1>4. CASE \E done \in BOOLEAN : connectControl(done)
  BY <1>4, ConnectControlTyped
<1>5. CASE \E done \in BOOLEAN : openDataChannel(done)
  BY <1>5, OpenDataChannelTyped
<1>6. CASE \E tls \in TlsConfig, done \in BOOLEAN : upgradeControlToTls(tls, done)
  BY <1>6, UpgradeControlTyped
<1>7. CASE \E tls \in TlsConfig, done \in BOOLEAN : dataTls = NoTls /\ upgradeDataToTls(tls, done)
  BY <1>7, UpgradeDataTyped
<1>8. CASE \E tls \in TlsConfig, done \in BOOLEAN : openProtectedDataChannel(tls, done)
  BY <1>8, OpenProtectedTyped
<1>9. CASE UNCHANGED transportVars
  BY <1>9, Zenon DEF TransportTypeOK, transportVars, controlVars, dataVars, errorVars
<1>10. QED
  BY <1>1, <1>2, <1>3, <1>4, <1>5, <1>6, <1>7, <1>8, <1>9 DEF TransportNext

LEMMA TransportTypeStart == TransportInit => TransportTypeOK
<1>1. 0 \in Int
  OBVIOUS
<1>2. QED
  BY <1>1, Zenon DEF TransportInit, TransportTypeOK, TlsError, NsapiError

-----------------------------------------------------------------------------
\* The transport's variables always have their types.
THEOREM TransportTyped == TransportSpec => []TransportTypeOK
BY TransportTypeStart, TransportTypeStep, PTL DEF TransportSpec

\* No order of calls and no failure leaks a socket or a TLS wrapper: what was
\* allocated and not deleted is what the four pointers still reach.
THEOREM TransportLeaksNothing == TransportSpec => []NoLeak
<1>1. Owned => NoLeak
  BY DEF Owned
<1>2. QED
  BY <1>1, OwnedStart, OwnedStep, PTL DEF TransportSpec

\* The connected flags always agree with the pointers, and no TLS wrapper
\* outlives its socket.
THEOREM TransportFlagsAgree == TransportSpec => []FlagsAgree
<1>1. Owned => FlagsAgree
  BY DEF Owned
<1>2. QED
  BY <1>1, OwnedStart, OwnedStep, PTL DEF TransportSpec

-----------------------------------------------------------------------------
(***************************************************************************)
(* The client: what its phases find                                        *)
(***************************************************************************)
\* Phases that find the same sockets.
ClearPhases     == {"banner", "auth-tls", "auth-ssl", "control-tls"}
LoginPhases     == {"pbsz", "prot-p", "user", "pass", "type-i"}
CommandPhases   == {"exchange", "rename-to", "quit", "pasv", "data-open", "final", "drain"}
PlainDataPhases == {"command", "list", "data-tls"}

\* The control connection, phase by phase.  "tls-refused" says nothing of it.
ControlStaged ==
  /\ pc # "idle" => begun
  /\ pc \in ConnectPhases => ~connected
  /\ pc \in CommandPhases \cup PlainDataPhases \cup {"data"} => connected
  /\ pc = "tcp-open" => ~controlSocket
  /\ pc \in ClearPhases => controlSocket /\ controlTls = NoTls
  /\ pc \in LoginPhases \cup CommandPhases \cup PlainDataPhases \cup {"data"} => controlTls # NoTls
  /\ pc = "idle" => IF connected /\ begun THEN controlTls # NoTls ELSE ~controlSocket

\* The data channel, phase by phase.
DataStaged ==
  /\ pc \in PlainDataPhases => dataSocket /\ dataTls = NoTls
  /\ pc = "data" => dataTls # NoTls
  /\ pc \notin PlainDataPhases \cup {"data"} => ~dataSocket

Staged == Owned /\ pc \in Phases /\ ControlStaged /\ DataStaged

-----------------------------------------------------------------------------
(***************************************************************************)
(* The moves that the steps of the client are made of                      *)
(***************************************************************************)

LEMMA OwnedStays ==
  ASSUME Owned, UNCHANGED transportVars PROVE Owned'
BY DEF Owned, NoLeak, FlagsAgree, Objects, transportVars, controlVars, dataVars

\* Nothing happens to the sockets between two phases that find the same ones.
LEMMA StayStaged ==
  ASSUME Staged, UNCHANGED <<transportVars, connected, begun>>,
         NEW G \in {ClearPhases, LoginPhases, CommandPhases, PlainDataPhases, {"idle"}, {"data"}},
         pc \in G, pc' \in G
  PROVE  Staged'
<1>1. Owned'
  BY OwnedStays DEF Staged
<1>2. UNCHANGED <<controlSocket, controlTls, dataSocket, dataTls, connected, begun>>
  BY DEF transportVars, controlVars, dataVars
<1> USE <1>1, <1>2 DEF Staged, ControlStaged, DataStaged, Phases, ConnectPhases,
        TransferPhases, DataPhases
<1>3. CASE G = ClearPhases
  BY <1>3 DEF ClearPhases, LoginPhases, CommandPhases, PlainDataPhases
<1>4. CASE G = LoginPhases
  BY <1>4 DEF ClearPhases, LoginPhases, CommandPhases, PlainDataPhases
<1>5. CASE G = CommandPhases
  BY <1>5 DEF ClearPhases, LoginPhases, CommandPhases, PlainDataPhases
<1>6. CASE G = PlainDataPhases
  BY <1>6 DEF ClearPhases, LoginPhases, CommandPhases, PlainDataPhases
<1>7. CASE G = {"idle"} \/ G = {"data"}
  BY <1>7 DEF ClearPhases, LoginPhases, CommandPhases, PlainDataPhases
<1>8. QED
  BY <1>3, <1>4, <1>5, <1>6, <1>7

\* A command begins and ends on a connected session.
LEMMA CommandStaged ==
  ASSUME Staged, UNCHANGED <<transportVars, connected, begun>>, Ready,
         pc \in CommandPhases \cup {"idle"}, pc' \in CommandPhases \cup {"idle"}
  PROVE  Staged'
<1>1. Owned'
  BY OwnedStays DEF Staged
<1>2. UNCHANGED <<controlSocket, controlTls, dataSocket, dataTls, connected, begun>>
  BY DEF transportVars, controlVars, dataVars
<1>3. QED
  BY <1>1, <1>2 DEF Staged, ControlStaged, DataStaged, Phases, ConnectPhases,
     TransferPhases, DataPhases, ClearPhases, LoginPhases, CommandPhases, PlainDataPhases, Ready

\* Everything is closed, and the client returns or goes on to connect.
LEMMA ClosedStaged ==
  ASSUME Owned', ~controlSocket', ~dataSocket',
         \/ pc' = "idle" /\ ~(connected' /\ begun')
         \/ pc' = "tcp-open" /\ ~connected' /\ begun'
  PROVE  Staged'
BY DEF Staged, ControlStaged, DataStaged, Phases, ConnectPhases,
   TransferPhases, DataPhases, ClearPhases, LoginPhases, CommandPhases, PlainDataPhases

LEMMA HangUpCloses ==
  ASSUME Owned, HangUp PROVE Owned' /\ ~controlSocket' /\ ~dataSocket'
BY CloseAllOwned DEF HangUp, closeAll, ReleaseData, ReleaseControl

LEMMA FailAndDisconnectStaged ==
  ASSUME Staged, NEW e, failAndDisconnect(e) PROVE Staged'
BY HangUpCloses, ClosedStaged DEF failAndDisconnect, Return, Staged

LEMMA ConnectFailsStaged ==
  ASSUME Staged, NEW e, pc \in ConnectPhases, connectFails(e) PROVE Staged'
<1>1. ~connected'
  BY DEF connectFails, Staged, ControlStaged
<1>2. QED
  BY <1>1, HangUpCloses, ClosedStaged DEF connectFails, Return, Staged

\* One command of the login sequence.
LEMMA ConnectExchangeStaged ==
  ASSUME Staged, NEW phase, NEW verb, NEW after, NEW e,
         NEW G \in {ClearPhases, LoginPhases}, phase \in G,
         \A c \in DOMAIN after : after[c] \in G,
         connectExchange(phase, verb, after, e)
  PROVE  Staged'
<1>1. PICK got \in SendCommand(verb) :
        IF got.reply.code \in DOMAIN after
        THEN /\ Heard(got) /\ MarkStale
             /\ Goto(after[got.reply.code])
             /\ UNCHANGED <<transportVars, connected, uploads>>
        ELSE connectFails(e)
  BY DEF connectExchange
<1>2. pc = phase /\ UNCHANGED begun
  BY DEF connectExchange, ConnectStep
<1>3. pc \in ConnectPhases
  BY <1>2 DEF ClearPhases, LoginPhases, ConnectPhases
<1>4. CASE got.reply.code \in DOMAIN after
  <2>1. pc' \in G
    BY <1>1, <1>4 DEF Goto
  <2>2. QED
    BY <1>1, <1>2, <1>4, <2>1, StayStaged
<1>5. CASE got.reply.code \notin DOMAIN after
  BY <1>1, <1>3, <1>5, ConnectFailsStaged
<1>6. QED
  BY <1>4, <1>5

\* A command on the session: an answer, or the loss of the session.
LEMMA ExchangeStaged ==
  ASSUME Staged, NEW call, NEW phase, NEW verb, NEW accepted, NEW next, NEW refusal,
         phase \in CommandPhases, next \in CommandPhases \cup {"idle"},
         exchange(call, phase, verb, accepted, next, refusal)
  PROVE  Staged'
<1>1. pc = phase /\ UNCHANGED begun
  BY DEF exchange
<1>2. Ready
  BY <1>1 DEF Staged, ControlStaged, Ready, CommandPhases
<1>3. PICK got \in SendCommand(verb) :
        IF got.reply = Lost THEN failAndDisconnect("ConnectionFailed")
        ELSE /\ Heard(got)
             /\ UNCHANGED <<transportVars, sessionVars>>
             /\ CASE got.reply \notin accepted                    -> Return(FALSE, refusal)
                  [] got.reply \in accepted /\ next = "idle"      -> Return(TRUE, "None")
                  [] got.reply \in accepted /\ next # "idle"      -> Goto(next)
  BY DEF exchange
<1>4. CASE got.reply = Lost
  BY <1>3, <1>4, FailAndDisconnectStaged
<1>5. CASE got.reply # Lost
  <2>1. UNCHANGED <<transportVars, connected>>
    BY <1>3, <1>5 DEF sessionVars
  <2>2. pc' \in {"idle", next}
    BY <1>3, <1>5 DEF Return, Goto
  <2>3. QED
    BY <1>1, <1>2, <2>1, <2>2, CommandStaged
<1>6. QED
  BY <1>4, <1>5

-----------------------------------------------------------------------------
(***************************************************************************)
(* The calls                                                               *)
(***************************************************************************)
LEMMA BeginStaged ==
  ASSUME Staged, begin PROVE Staged'
<1>1. CASE UNCHANGED <<transportVars, begun, connected>>
  <2>1. pc = "idle" /\ pc' = "idle"
    BY DEF begin, Enter, Return
  <2>2. QED
    BY <1>1, <2>1, StayStaged
<1>2. CASE renewTransport /\ ~(connected' /\ begun')
  <2>1. Owned'
    BY <1>2, RenewTransportOwned DEF Staged
  <2>2. ~controlSocket' /\ ~dataSocket'
    BY <1>2 DEF renewTransport, ReleaseData, ReleaseControl
  <2>3. pc' = "idle"
    BY DEF begin, Return
  <2>4. QED
    BY <1>2, <2>1, <2>2, <2>3, ClosedStaged
<1>3. QED
  BY <1>1, <1>2 DEF begin

LEMMA SetReconnectStaged ==
  ASSUME Staged, setReconnectBetweenStores PROVE Staged'
BY StayStaged DEF setReconnectBetweenStores, sessionVars

LEMMA CallQuitStaged ==
  ASSUME Staged, callQuit PROVE Staged'
<1>1. pc = "idle" /\ UNCHANGED begun
  BY DEF callQuit, Enter
<1>2. CASE Ready
  BY <1>1, <1>2, CommandStaged DEF callQuit, Ready, Goto, CommandPhases
<1>3. CASE begun /\ ~connected
  <2>1. HangUp /\ ~connected' /\ pc' = "idle"
    BY <1>3 DEF callQuit, Return
  <2>2. QED
    BY <2>1, HangUpCloses, ClosedStaged DEF Staged
<1>4. CASE ~begun
  <2>1. UNCHANGED transportVars /\ ~begun' /\ pc' = "idle"
    BY <1>1, <1>4 DEF callQuit, Return
  <2>2. ~controlSocket /\ ~dataSocket /\ Owned
    BY <1>1, <1>4 DEF Staged, ControlStaged, DataStaged, PlainDataPhases
  <2>3. ~controlSocket' /\ ~dataSocket' /\ Owned'
    BY <2>1, <2>2, OwnedStays DEF transportVars, controlVars, dataVars
  <2>4. QED
    BY <2>1, <2>3, ClosedStaged
<1>5. QED
  BY <1>2, <1>3, <1>4 DEF Ready

LEMMA QuitStaged ==
  ASSUME Staged, quit PROVE Staged'
<1>1. HangUp /\ ~connected' /\ pc' = "idle"
  BY DEF quit, Return
<1>2. QED
  BY <1>1, HangUpCloses, ClosedStaged DEF Staged

\* connect() refuses its arguments before or after it has closed the session.
LEMMA EnterConnectStaged ==
  ASSUME Staged, NEW cfg, NEW closed, begun, UNCHANGED begun, pc = "idle",
         enterConnect(cfg, closed)
  PROVE  Staged'
<1>1. CASE HangUp /\ connected' = FALSE
  <2>1. pc' \in {"idle", "tcp-open"}
    BY DEF enterConnect, Goto, Return
  <2>2. QED
    BY <1>1, <2>1, HangUpCloses, ClosedStaged DEF Staged
<1>2. CASE UNCHANGED <<transportVars, replyVars, connected, uploads>> /\ cfg.fault # "none"
  <2>1. pc' = "idle"
    BY <1>2 DEF enterConnect, Return
  <2>2. QED
    BY <1>2, <2>1, StayStaged
<1>3. QED
  BY <1>1, <1>2 DEF enterConnect

LEMMA CallConnectStaged ==
  ASSUME Staged, callConnect PROVE Staged'
<1>1. pc = "idle" /\ UNCHANGED begun
  BY DEF callConnect, Enter
<1>2. CASE begun
  BY <1>1, <1>2, EnterConnectStaged DEF callConnect
<1>3. CASE ~begun
  <2>1. UNCHANGED <<transportVars, connected>> /\ pc' = "idle"
    BY <1>3 DEF callConnect, Return
  <2>2. QED
    BY <1>1, <2>1, StayStaged
<1>4. QED
  BY <1>2, <1>3

LEMMA ReconnectStaged ==
  ASSUME Staged, pc = "idle", begun, UNCHANGED begun, reconnect PROVE Staged'
<1>1. CASE active.mode = "ImportedCert" \/ ~active.host
  <2>1. UNCHANGED <<transportVars, connected>> /\ pc' = "idle"
    BY <1>1 DEF reconnect, Return, sessionVars
  <2>2. QED
    BY <2>1, StayStaged
<1>2. CASE ~(active.mode = "ImportedCert" \/ ~active.host)
  BY <1>2, EnterConnectStaged DEF reconnect
<1>3. QED
  BY <1>1, <1>2

LEMMA CallReconnectStaged ==
  ASSUME Staged, callReconnect PROVE Staged'
<1>1. pc = "idle" /\ UNCHANGED begun
  BY DEF callReconnect, Enter
<1>2. CASE begun
  BY <1>1, <1>2, ReconnectStaged DEF callReconnect
<1>3. CASE ~begun
  <2>1. UNCHANGED <<transportVars, connected>> /\ pc' = "idle"
    BY <1>3 DEF callReconnect, Return, sessionVars
  <2>2. QED
    BY <1>1, <2>1, StayStaged
<1>4. QED
  BY <1>2, <1>3

LEMMA CallExchangeStaged ==
  ASSUME Staged, NEW call, NEW badArgument, callExchange(call, badArgument) PROVE Staged'
<1>1. pc = "idle" /\ UNCHANGED <<transportVars, connected, begun>>
  BY DEF callExchange, Enter, sessionVars
<1>2. CASE Ready
  <2>1. pc' \in {"idle", "exchange"}
    BY <1>2 DEF callExchange, Return, Goto
  <2>2. QED
    BY <1>1, <1>2, <2>1, CommandStaged DEF CommandPhases
<1>3. CASE ~Ready
  <2>1. pc' = "idle"
    BY <1>3 DEF callExchange, Return, Goto
  <2>2. QED
    BY <1>1, <2>1, StayStaged
<1>4. QED
  BY <1>2, <1>3

LEMMA CallStoreStaged ==
  ASSUME Staged, callStore PROVE Staged'
<1>1. pc = "idle" /\ UNCHANGED begun
  BY DEF callStore, Enter
<1>2. CASE Ready /\ reconnectBetweenStores /\ storesSinceConnect > 0
  BY <1>1, <1>2, ReconnectStaged DEF callStore, Ready
<1>3. CASE Ready /\ ~(reconnectBetweenStores /\ storesSinceConnect > 0)
  <2>1. UNCHANGED <<transportVars, connected>> /\ pc' \in {"idle", "pasv"}
    BY <1>3 DEF callStore, storeArguments, Return, Goto, sessionVars
  <2>2. QED
    BY <1>1, <1>3, <2>1, CommandStaged DEF CommandPhases
<1>4. CASE ~Ready
  <2>1. UNCHANGED <<transportVars, connected>> /\ pc' = "idle"
    BY <1>4 DEF callStore, Return, sessionVars
  <2>2. QED
    BY <1>1, <2>1, StayStaged
<1>5. QED
  BY <1>2, <1>3, <1>4

LEMMA CallDownloadStaged ==
  ASSUME Staged, NEW call, NEW badArgument, callDownload(call, badArgument) PROVE Staged'
<1>1. pc = "idle" /\ UNCHANGED <<transportVars, connected, begun>>
  BY DEF callDownload, Enter, sessionVars
<1>2. CASE Ready
  <2>1. pc' \in {"idle", "pasv"}
    BY <1>2 DEF callDownload, Return, Goto
  <2>2. QED
    BY <1>1, <1>2, <2>1, CommandStaged DEF CommandPhases
<1>3. CASE ~Ready
  <2>1. pc' = "idle"
    BY <1>3 DEF callDownload, Return
  <2>2. QED
    BY <1>1, <2>1, StayStaged
<1>4. QED
  BY <1>2, <1>3

-----------------------------------------------------------------------------
(***************************************************************************)
(* The steps of connect()                                                  *)
(***************************************************************************)
LEMMA ConnectTcpOpenStaged ==
  ASSUME Staged, connectTcpOpen PROVE Staged'
<1>1. pc = "tcp-open" /\ UNCHANGED <<connected, begun>>
  BY DEF connectTcpOpen, ConnectStep
<1>2. begun' /\ ~connected' /\ ~dataSocket'
  <2>1. begun' /\ ~connected'
    BY <1>1 DEF Staged, ControlStaged, ConnectPhases
  <2>2. ~dataSocket'
    BY DEF connectTcpOpen, connectControl, ReleaseData
  <2>3. QED
    BY <2>1, <2>2
<1>3. Owned'
  BY ConnectControlOwned DEF Staged, connectTcpOpen
<1>4. CASE connectControl(TRUE) /\ Goto("banner")
  <2>1. controlSocket' /\ controlTls' = NoTls /\ pc' = "banner"
    BY <1>4 DEF connectControl, Goto
  <2>2. QED
    BY <1>2, <1>3, <2>1 DEF Staged, ControlStaged, DataStaged, Phases, ConnectPhases,
       ClearPhases, LoginPhases, CommandPhases, PlainDataPhases
<1>5. CASE connectControl(FALSE) /\ Return(FALSE, "ConnectionFailed")
  <2>1. ~controlSocket' /\ pc' = "idle"
    BY <1>5 DEF connectControl, Return
  <2>2. QED
    BY <1>2, <1>3, <2>1, ClosedStaged
<1>6. QED
  BY <1>4, <1>5 DEF connectTcpOpen

LEMMA ConnectBannerStaged ==
  ASSUME Staged, connectBanner PROVE Staged'
<1>1. pc = "banner" /\ UNCHANGED begun
  BY DEF connectBanner, ConnectStep
<1>2. CASE connectFails("BannerReadFailed")
  BY <1>1, <1>2, ConnectFailsStaged DEF ConnectPhases
<1>3. CASE Goto("auth-tls") /\ UNCHANGED <<transportVars, connected>>
  BY <1>1, <1>3, StayStaged DEF Goto, ClearPhases
<1>4. QED
  BY <1>2, <1>3 DEF connectBanner

LEMMA ConnectAuthTlsStaged ==
  ASSUME Staged, connectAuthTls PROVE Staged'
<1>1. pc = "auth-tls" /\ UNCHANGED <<transportVars, connected, begun>>
  BY DEF connectAuthTls, ConnectStep
<1>2. pc' \in {"control-tls", "auth-ssl"}
  BY DEF connectAuthTls, Goto
<1>3. QED
  BY <1>1, <1>2, StayStaged DEF ClearPhases

\* What a handshake leaves when it succeeds, and when it fails.
LEMMA UpgradeControlLeaves ==
  ASSUME NEW tls, NEW ok_ \in BOOLEAN, upgradeControlToTls(tls, ok_)
  PROVE  /\ ok_ => controlSocket /\ UNCHANGED controlSocket /\ controlTls' # NoTls
         /\ UNCHANGED <<dataSocket, dataTls>>
<1>1. UNCHANGED <<dataSocket, dataTls>>
  BY DEF upgradeControlToTls, dataVars
<1>2. CASE ok_
  <2>1. controlSocket /\ \E cert \in Certs : controlTlsEstablished(tls, cert)
    BY <1>2 DEF upgradeControlToTls
  <2>2. controlSocket' = controlSocket /\ controlTls' \in Certs
    BY <2>1 DEF controlTlsEstablished
  <2>3. QED
    BY <1>1, <2>1, <2>2, TransportAssumption
<1>3. QED
  BY <1>1, <1>2

LEMMA ConnectControlTlsStaged ==
  ASSUME Staged, connectControlTls PROVE Staged'
<1>1. pc = "control-tls" /\ UNCHANGED <<connected, begun>>
  BY DEF connectControlTls, ConnectStep
<1>2. begun' /\ ~connected' /\ ~dataSocket
  BY <1>1 DEF Staged, ControlStaged, DataStaged, ConnectPhases, PlainDataPhases
<1>3. Owned'
  BY UpgradeControlOwned DEF Staged, connectControlTls
<1>4. CASE upgradeControlToTls(sessionTls, TRUE) /\ Goto("pbsz")
  <2>1. controlTls' # NoTls /\ ~dataSocket' /\ pc' = "pbsz"
    BY <1>2, <1>4, UpgradeControlLeaves DEF Goto
  <2>2. QED
    BY <1>2, <1>3, <2>1 DEF Staged, ControlStaged, DataStaged, Phases, ConnectPhases,
       ClearPhases, LoginPhases, CommandPhases, PlainDataPhases
<1>5. CASE upgradeControlToTls(sessionTls, FALSE) /\ Goto("tls-refused")
  <2>1. ~dataSocket' /\ pc' = "tls-refused"
    BY <1>2, <1>5, UpgradeControlLeaves DEF Goto
  <2>2. QED
    BY <1>2, <1>3, <2>1 DEF Staged, ControlStaged, DataStaged, Phases, ConnectPhases,
       ClearPhases, LoginPhases, CommandPhases, PlainDataPhases
<1>6. QED
  BY <1>4, <1>5 DEF connectControlTls

LEMMA ConnectTlsRefusedStaged ==
  ASSUME Staged, connectTlsRefused PROVE Staged'
BY ConnectFailsStaged DEF connectTlsRefused, ConnectStep, ConnectPhases

LEMMA ConnectLoginStaged ==
  ASSUME Staged,
         connectAuthSsl \/ connectPbsz \/ connectProtP \/ connectUser \/ connectPass
  PROVE  Staged'
<1>1. CASE connectAuthSsl
  <2> DEFINE after == [c \in {234} |-> "control-tls"]
  <2>1. connectExchange("auth-ssl", "AUTH SSL", after, "AuthTlsRejected")
    BY <1>1 DEF connectAuthSsl
  <2>2. \A c \in DOMAIN after : after[c] \in ClearPhases
    BY DEF ClearPhases
  <2>3. "auth-ssl" \in ClearPhases
    BY DEF ClearPhases
  <2> HIDE DEF after
  <2>4. QED
    BY <2>1, <2>2, <2>3, ConnectExchangeStaged
<1>2. CASE connectPbsz
  BY <1>2, ConnectExchangeStaged DEF connectPbsz, LoginPhases
<1>3. CASE connectProtP
  BY <1>3, ConnectExchangeStaged DEF connectProtP, LoginPhases
<1>4. CASE connectUser
  BY <1>4, ConnectExchangeStaged DEF connectUser, LoginPhases
<1>5. CASE connectPass
  BY <1>5, ConnectExchangeStaged DEF connectPass, LoginPhases
<1>6. QED
  BY <1>1, <1>2, <1>3, <1>4, <1>5

LEMMA ConnectTypeIStaged ==
  ASSUME Staged, connectTypeI PROVE Staged'
<1>1. pc = "type-i" /\ UNCHANGED begun
  BY DEF connectTypeI, ConnectStep
<1>2. CASE connectFails("TypeRejected")
  BY <1>1, <1>2, ConnectFailsStaged DEF ConnectPhases
<1>3. CASE connected' = TRUE /\ UNCHANGED transportVars /\ pc' \in {"idle", "pasv"}
  <2>1. begun' /\ controlTls' # NoTls /\ ~dataSocket' /\ Owned'
    BY <1>1, <1>3, OwnedStays DEF Staged, ControlStaged, DataStaged, LoginPhases,
       PlainDataPhases, transportVars, controlVars, dataVars
  <2>2. QED
    BY <1>3, <2>1 DEF Staged, ControlStaged, DataStaged, Phases, ConnectPhases,
       TransferPhases, ClearPhases, LoginPhases, CommandPhases, PlainDataPhases
<1>4. QED
  BY <1>2, <1>3 DEF connectTypeI, Return

-----------------------------------------------------------------------------
(***************************************************************************)
(* The commands and the transfers                                          *)
(***************************************************************************)
LEMMA ExchangesStaged ==
  ASSUME Staged,
         mkd \/ size \/ dele \/ rmd \/ renameFrom \/ renameTo \/ isControlAlive
  PROVE  Staged'
<1> USE DEF CommandPhases
<1>1. CASE mkd
  BY <1>1, ExchangeStaged DEF mkd
<1>2. CASE size
  BY <1>2, ExchangeStaged DEF size
<1>3. CASE dele
  BY <1>3, ExchangeStaged DEF dele
<1>4. CASE rmd
  BY <1>4, ExchangeStaged DEF rmd
<1>5. CASE renameFrom
  BY <1>5, ExchangeStaged DEF renameFrom
<1>6. CASE renameTo
  BY <1>6, ExchangeStaged DEF renameTo
<1>7. CASE isControlAlive
  BY <1>7, ExchangeStaged DEF isControlAlive
<1>8. QED
  BY <1>1, <1>2, <1>3, <1>4, <1>5, <1>6, <1>7

LEMMA TransferReady ==
  ASSUME Staged, NEW phase \in TransferPhases, TransferStep(phase)
  PROVE  pc = phase /\ UNCHANGED begun /\ Ready
BY DEF TransferStep, Staged, ControlStaged, Ready, CommandPhases, PlainDataPhases,
   TransferPhases, DataPhases

LEMMA PasvStaged ==
  ASSUME Staged, pasv PROVE Staged'
<1>1. pc = "pasv" /\ UNCHANGED begun /\ Ready
  BY TransferReady DEF pasv, TransferPhases
<1>2. CASE failAndDisconnect("ConnectionFailed")
  BY <1>2, FailAndDisconnectStaged
<1>3. CASE UNCHANGED <<transportVars, connected>> /\ pc' \in {"idle", "data-open"}
  BY <1>1, <1>3, CommandStaged DEF CommandPhases
<1>4. QED
  BY <1>2, <1>3 DEF pasv, sessionVars, Return, Goto

LEMMA DataOpenStaged ==
  ASSUME Staged, dataOpen PROVE Staged'
<1>1. pc = "data-open" /\ UNCHANGED begun /\ Ready
  BY TransferReady DEF dataOpen, TransferPhases
<1>2. controlTls # NoTls
  BY <1>1 DEF Staged, ControlStaged, CommandPhases
<1>3. Owned'
  BY OpenDataChannelOwned DEF Staged, dataOpen
<1>4. UNCHANGED <<controlSocket, controlTls, connected>> /\ dataTls' = NoTls
  BY DEF dataOpen, openDataChannel, controlVars, sessionVars
<1>5. \/ dataSocket' /\ pc' = "command"
      \/ ~dataSocket' /\ pc' = "idle"
  BY DEF dataOpen, openDataChannel, Goto, Return
<1>6. QED
  BY <1>1, <1>2, <1>3, <1>4, <1>5 DEF Staged, ControlStaged, DataStaged, Phases,
     ConnectPhases, TransferPhases, ClearPhases, LoginPhases, CommandPhases,
     PlainDataPhases, Ready

\* The data channel is closed and the call goes on without it, or returns.
LEMMA CloseDataStaged ==
  ASSUME Staged, closeData, Ready, UNCHANGED <<connected, begun>>,
         pc \in PlainDataPhases \cup {"data"}, pc' \in {"final", "drain", "idle"}
  PROVE  Staged'
<1>1. Owned'
  BY CloseDataOwned DEF Staged
<1>2. UNCHANGED <<controlSocket, controlTls>> /\ ~dataSocket'
  BY DEF closeData, ReleaseData, controlVars
<1>3. QED
  BY <1>1, <1>2 DEF Staged, ControlStaged, DataStaged, Phases, ConnectPhases,
     TransferPhases, DataPhases, ClearPhases, LoginPhases, CommandPhases, PlainDataPhases,
     Ready

LEMMA TransferCommandStaged ==
  ASSUME Staged, NEW phase \in {"command", "list"}, NEW verb, NEW refusal,
         transferCommand(phase, verb, refusal)
  PROVE  Staged'
<1>1. pc = phase /\ UNCHANGED begun /\ Ready
  BY TransferReady DEF transferCommand, TransferPhases
<1>2. CASE failAndDisconnect("ConnectionFailed")
  BY <1>2, FailAndDisconnectStaged
<1>3. CASE UNCHANGED <<transportVars, connected>> /\ pc' \in {"data-tls", "list"}
  BY <1>1, <1>3, StayStaged DEF PlainDataPhases
<1>4. CASE closeData /\ UNCHANGED connected /\ pc' = "idle"
  BY <1>1, <1>4, CloseDataStaged DEF PlainDataPhases
<1>5. QED
  BY <1>2, <1>3, <1>4 DEF transferCommand, sessionVars, Return, Goto

\* What the handshake of the data channel leaves.
LEMMA UpgradeDataLeaves ==
  ASSUME NEW tls, NEW ok_ \in BOOLEAN, Owned, dataSocket, upgradeDataToTls(tls, ok_)
  PROVE  /\ UNCHANGED <<controlSocket, controlTls>>
         /\ ok_ => dataTls' # NoTls
         /\ ~ok_ => ~dataSocket'
<1>1. UNCHANGED <<controlSocket, controlTls>>
  BY DEF upgradeDataToTls, controlVars
<1>2. dataSocket /\ dataConnected
  BY DEF Owned, FlagsAgree
<1>3. ASSUME ok_ PROVE dataTls' # NoTls
  <2>1. dataTls' \in Certs
    BY <1>2, <1>3 DEF upgradeDataToTls
  <2>2. QED
    BY <2>1, TransportAssumption
<1>4. ASSUME ~ok_ PROVE ~dataSocket'
  BY <1>2, <1>4 DEF upgradeDataToTls, ReleaseData
<1>5. QED
  BY <1>1, <1>3, <1>4

LEMMA TransferTlsStaged ==
  ASSUME Staged, transferTls PROVE Staged'
<1>1. pc = "data-tls" /\ UNCHANGED begun /\ Ready
  BY TransferReady DEF transferTls, TransferPhases, DataPhases
<1>2. controlTls # NoTls /\ dataSocket /\ dataTls = NoTls /\ Owned
  BY <1>1 DEF Staged, ControlStaged, DataStaged, PlainDataPhases
<1>3. UNCHANGED connected
  BY DEF transferTls, sessionVars
<1>4. Owned'
  BY <1>2, UpgradeDataOwned DEF transferTls
<1>5. \/ upgradeDataToTls(sessionTls, TRUE) /\ pc' = "data"
      \/ upgradeDataToTls(sessionTls, FALSE) /\ pc' = "drain"
  BY DEF transferTls, Goto
<1>6. CASE upgradeDataToTls(sessionTls, TRUE) /\ pc' = "data"
  <2>1. UNCHANGED controlTls /\ dataTls' # NoTls
    BY <1>2, <1>6, UpgradeDataLeaves
  <2>2. QED
    BY <1>1, <1>2, <1>3, <1>4, <1>6, <2>1 DEF Staged, ControlStaged, DataStaged, Phases,
       ConnectPhases, TransferPhases, DataPhases, ClearPhases, LoginPhases, CommandPhases,
       PlainDataPhases, Ready
<1>7. CASE upgradeDataToTls(sessionTls, FALSE) /\ pc' = "drain"
  <2>1. UNCHANGED controlTls /\ ~dataSocket'
    BY <1>2, <1>7, UpgradeDataLeaves
  <2>2. QED
    BY <1>1, <1>2, <1>3, <1>4, <1>7, <2>1 DEF Staged, ControlStaged, DataStaged, Phases,
       ConnectPhases, TransferPhases, DataPhases, ClearPhases, LoginPhases, CommandPhases,
       PlainDataPhases, Ready
<1>8. QED
  BY <1>5, <1>6, <1>7

LEMMA DataStepsStaged ==
  ASSUME Staged, bufferFull \/ endOfData \/ dataError PROVE Staged'
<1>1. pc = "data" /\ UNCHANGED begun /\ Ready
  BY TransferReady DEF bufferFull, endOfData, dataError, TransferPhases, DataPhases
<1>2. closeData /\ UNCHANGED connected /\ pc' \in {"final", "drain"}
  BY DEF bufferFull, endOfData, dataError, LeaveData, Goto, sessionVars
<1>3. QED
  BY <1>1, <1>2, CloseDataStaged

LEMMA MoveDataStaged ==
  ASSUME Staged, moveData PROVE Staged'
<1>1. pc = "data" /\ UNCHANGED begun
  BY DEF moveData, TransferStep
<1>2. pc' = "data" /\ UNCHANGED <<transportVars, connected>>
  BY DEF moveData, Goto, sessionVars
<1>3. QED
  BY <1>1, <1>2, StayStaged

LEMMA DrainStaged ==
  ASSUME Staged, drain PROVE Staged'
<1>1. pc = "drain" /\ UNCHANGED begun /\ Ready
  BY TransferReady DEF drain, TransferPhases, DataPhases
<1>2. pc' = "idle" /\ UNCHANGED <<transportVars, connected>>
  BY DEF drain, Return, sessionVars
<1>3. QED
  BY <1>1, <1>2, CommandStaged DEF CommandPhases

LEMMA FinalReplyStaged ==
  ASSUME Staged, finalReply PROVE Staged'
<1>1. pc = "final" /\ UNCHANGED begun /\ Ready
  BY TransferReady DEF finalReply, TransferPhases, DataPhases
<1>2. CASE failAndDisconnect("ConnectionFailed")
  BY <1>2, FailAndDisconnectStaged
<1>3. CASE UNCHANGED <<transportVars, connected>> /\ pc' = "idle"
  BY <1>1, <1>3, CommandStaged DEF CommandPhases
<1>4. QED
  BY <1>2, <1>3 DEF finalReply, Return

-----------------------------------------------------------------------------
(***************************************************************************)
(* The invariant, and what follows from it                                 *)
(***************************************************************************)
LEMMA StagedStart == Init => Staged
<1> SUFFICES ASSUME Init PROVE Staged
  OBVIOUS
<1>1. Owned
  BY OwnedStart DEF Init
<1>2. ~controlSocket /\ ~dataSocket /\ pc = "idle" /\ ~connected
  BY DEF Init, TransportInit
<1>3. QED
  BY <1>1, <1>2 DEF Staged, ControlStaged, DataStaged, Phases, ConnectPhases, ClearPhases,
     LoginPhases, CommandPhases, PlainDataPhases

LEMMA CallStaged ==
  ASSUME Staged, Call PROVE Staged'
BY BeginStaged, CallQuitStaged, SetReconnectStaged, CallConnectStaged, CallReconnectStaged,
   CallExchangeStaged, CallStoreStaged, CallDownloadStaged DEF Call

LEMMA StepStaged ==
  ASSUME Staged, Step PROVE Staged'
<1>1. CASE quit
  BY <1>1, QuitStaged
<1>2. CASE connectTcpOpen \/ connectBanner \/ connectAuthTls \/ connectControlTls
           \/ connectTlsRefused \/ connectTypeI
  BY <1>2, ConnectTcpOpenStaged, ConnectBannerStaged, ConnectAuthTlsStaged,
     ConnectControlTlsStaged, ConnectTlsRefusedStaged, ConnectTypeIStaged
<1>3. CASE connectAuthSsl \/ connectPbsz \/ connectProtP \/ connectUser \/ connectPass
  BY <1>3, ConnectLoginStaged
<1>4. CASE mkd \/ size \/ dele \/ rmd \/ renameFrom \/ renameTo \/ isControlAlive
  BY <1>4, ExchangesStaged
<1>5. CASE pasv \/ dataOpen \/ command \/ listCommand \/ transferTls
  BY <1>5, PasvStaged, DataOpenStaged, TransferCommandStaged, TransferTlsStaged
  DEF command, listCommand
<1>6. CASE bufferFull \/ moveData \/ endOfData \/ dataError \/ drain \/ finalReply
  BY <1>6, DataStepsStaged, MoveDataStaged, DrainStaged, FinalReplyStaged
<1>7. QED
  BY <1>1, <1>2, <1>3, <1>4, <1>5, <1>6 DEF Step

LEMMA SocketsStayStaged ==
  ASSUME Staged, UNCHANGED <<transportVars, connected, begun, pc>> PROVE Staged'
<1>1. Owned'
  BY OwnedStays DEF Staged
<1>2. QED
  BY <1>1 DEF Staged, ControlStaged, DataStaged, transportVars, controlVars, dataVars

LEMMA StagedStep == Staged /\ [Next]_vars => Staged'
<1> SUFFICES ASSUME Staged, [Next]_vars PROVE Staged'
  OBVIOUS
<1>1. CASE Call
  BY <1>1, CallStaged
<1>2. CASE Step
  BY <1>2, StepStaged
<1>3. CASE serverLeaves
  BY <1>3, SocketsStayStaged DEF serverLeaves, sessionVars
<1>4. CASE UNCHANGED vars
  BY <1>4, SocketsStayStaged DEF vars, sessionVars
<1>5. QED
  BY <1>1, <1>2, <1>3, <1>4 DEF Next

\* In every phase of every call the client has the sockets that phase expects.
THEOREM ClientStaged == Spec => []Staged
BY StagedStart, StagedStep, PTL DEF Spec

\* Between two calls the client holds the protected control connection when
\* it is connected, and no socket at all when it is not.
THEOREM ClientOwnsItsSockets == Spec => []SessionOwnsItsSockets
<1>1. Staged => SessionOwnsItsSockets
  <2> SUFFICES ASSUME Staged, Idle PROVE SessionOwnsItsSockets
    BY DEF SessionOwnsItsSockets
  <2>1. ~dataSocket /\ dataTls = NoTls
    BY DEF Staged, Owned, FlagsAgree, DataStaged, PlainDataPhases, Idle
  <2>2. CASE connected /\ begun
    <3>1. controlSocket /\ controlTls # NoTls
      BY <2>2 DEF Staged, Owned, FlagsAgree, ControlStaged, Idle
    <3>2. QED
      BY <2>1, <2>2, <3>1 DEF Staged, Owned, NoLeak, Objects, SessionOwnsItsSockets
  <2>3. CASE ~(connected /\ begun)
    <3>1. ~controlSocket /\ controlTls = NoTls
      BY <2>3 DEF Staged, Owned, FlagsAgree, ControlStaged, Idle
    <3>2. QED
      BY <2>1, <2>3, <3>1 DEF Staged, Owned, NoLeak, Objects, SessionOwnsItsSockets
  <2>4. QED
    BY <2>2, <2>3
<1>2. QED
  BY <1>1, ClientStaged, PTL

\* From PBSZ on nothing is said in clear: no password, no command.
THEOREM ClientSaysNothingInClear == Spec => []NothingInClear
<1>1. Staged => NothingInClear
  BY DEF Staged, ControlStaged, NothingInClear, Phases, ConnectPhases, TransferPhases,
     DataPhases, LoginPhases, CommandPhases, PlainDataPhases
<1>2. QED
  BY <1>1, ClientStaged, PTL
=============================================================================
