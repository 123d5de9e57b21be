----------------------------- MODULE FtpsClient -----------------------------
(***************************************************************************)
(* FtpsClient: one object, one caller, blocking calls.  A call is a        *)
(* sequence of steps, one per exchange with the network, and pc names the  *)
(* phase the call is in (the names tracePhase reports); pc is "idle"       *)
(* between two calls.  A call returns through Return, which leaves its     *)
(* verdict in ok and its error code in lastError.                          *)
(***************************************************************************)
EXTENDS FtpsControl

CONSTANTS
  Configs,     \* the configurations the application passes to connect()
  MaxLength,   \* bound: bytes of a file or a listing
  MaxStores,   \* bound: uploads on one control connection
  MaxBacklog   \* bound: replies unread when a command is called

VARIABLES
  begun,                    \* _transport is not null
  connected,                \* _connected
  lastError,                \* _lastError
  active,                   \* _activeConfig and the _active* buffers
  pin,                      \* _normalizedFingerprint
  storesSinceConnect,       \* _storesSinceConnect
  reconnectBetweenStores,   \* _reconnectBetweenStores
  op,                       \* the call in progress, or the last one
  pc,                       \* its phase
  ok,                       \* the value the last call returned
  argOk,                    \* the arguments of the call pass its checks
  total,                    \* bytes to send, or bytes the server has to send
  room,                     \* size of the destination buffer
  moved,                    \* bytes moved on the data channel; bytesRead
  failure,                  \* the error a failed transfer returns after its drain
  stale,                    \* history: the call read a reply to an earlier command
  cutShort,                 \* history: the last download saw an end before the end
  agreed,                   \* history: the certificate connect() was last told to trust
  uploads                   \* history: uploads completed on this control connection

configVars  == <<active, pin, agreed>>
sessionVars == <<connected, storesSinceConnect, uploads>>
callVars    == <<argOk, total, room, moved, failure, stale, cutShort>>
vars == <<transportVars, replyVars, configVars, sessionVars, callVars,
          begun, lastError, reconnectBetweenStores, op, pc, ok>>

TrustModes == {"Fingerprint", "ImportedCert"}

\* What can be wrong with a configuration.  The early faults are found before
\* anything is touched, "malformed" after the pin was overwritten, and the
\* long ones after the session was closed and the active configuration erased.
EarlyFaults == {"host", "user", "password", "port", "validate", "mode"}
LongFaults  == {"long host", "long user", "long password", "long server name"}
Faults      == EarlyFaults \cup LongFaults \cup {"none", "malformed"}

faultError(fault) ==
  CASE fault \in {"host", "port", "long host"} -> "ConnectionFailed"
    [] fault \in {"user", "password", "long user", "long password"} -> "LoginRejected"
    [] OTHER -> "CertValidationFailed"

\* trust is what the configuration trusts: in the ImportedCert mode the
\* certificate the imported root vouches for, in the Fingerprint mode the
\* certificate of the fingerprint, and for a malformed fingerprint whatever
\* its hexadecimal digits leave in the buffer of the normalization.
Config == [mode : TrustModes, trust : Pins, fault : Faults]

\* host and login: the buffers of the host and of user and password are not
\* empty; ca: the copied root certificate.
ActiveConfig == [host : BOOLEAN, login : BOOLEAN, mode : TrustModes, ca : Certs \cup {NoCa}]
Blank == [host |-> FALSE, login |-> FALSE, mode |-> "Fingerprint", ca |-> NoCa]

WellFormed(cfg) ==
  /\ cfg \in Config
  /\ cfg.fault # "malformed" => cfg.trust \in Certs

ASSUME ConfigsAssumption == \A cfg \in Configs : WellFormed(cfg)
ASSUME BoundsAssumption  == {MaxLength, MaxStores, MaxBacklog} \subseteq Nat

Exchanges == {"mkd", "size", "dele", "rmd", "rename", "isControlAlive"}
Transfers == {"store", "retrieve", "list"}
Commands  == Exchanges \cup Transfers
Calls     == Commands \cup {"begin", "connect", "reconnect", "quit", "setReconnectBetweenStores"}

ConnectPhases  == {"tcp-open", "banner", "auth-tls", "auth-ssl", "control-tls",
                   "tls-refused", "pbsz", "prot-p", "user", "pass", "type-i"}
DataPhases     == {"data-tls", "data", "final", "drain"}
TransferPhases == {"pasv", "data-open", "command", "list"} \cup DataPhases
Phases == {"idle", "exchange", "rename-to", "quit"} \cup ConnectPhases \cup TransferPhases

TypeOK ==
  /\ TransportTypeOK
  /\ ControlTypeOK
  /\ begun \in BOOLEAN
  /\ connected \in BOOLEAN
  /\ lastError \in FtpsError
  /\ active \in ActiveConfig
  /\ pin \in Pins
  /\ agreed \in Certs \cup {NoCa}
  /\ storesSinceConnect \in Nat
  /\ uploads \in Nat
  /\ reconnectBetweenStores \in BOOLEAN
  /\ op \in Calls
  /\ pc \in Phases
  /\ ok \in BOOLEAN
  /\ argOk \in BOOLEAN
  /\ total \in 0..MaxLength
  /\ room \in 0..(MaxLength + 1)
  /\ moved \in 0..MaxLength
  /\ failure \in FtpsError
  /\ stale \in BOOLEAN
  /\ cutShort \in BOOLEAN

Init ==
  /\ TransportInit
  /\ ControlInit
  /\ begun = FALSE
  /\ connected = FALSE
  /\ lastError = "None"
  /\ active = Blank
  /\ pin = NoPin
  /\ agreed = NoCa
  /\ storesSinceConnect = 0
  /\ uploads = 0
  /\ reconnectBetweenStores = FALSE
  /\ op = "begin" /\ pc = "idle" /\ ok = FALSE
  /\ argOk = TRUE /\ total = 0 /\ room = 0 /\ moved = 0
  /\ failure = "None" /\ stale = FALSE /\ cutShort = FALSE

-----------------------------------------------------------------------------
(***************************************************************************)
(* Building blocks                                                         *)
(***************************************************************************)

\* A call that begins, with its arguments.  cutShort outlives a download for
\* a store() that passes its bytes on.
Enter(call, valid, length, size) ==
  /\ pc = "idle"
  /\ op' = call
  /\ argOk' = valid /\ total' = length /\ room' = size
  /\ moved' = 0 /\ failure' = "None" /\ stale' = FALSE
  /\ cutShort' = (cutShort /\ call = "store")

Goto(phase) == pc' = phase /\ UNCHANGED <<ok, lastError>>

Return(value, error) == pc' = "idle" /\ ok' = value /\ lastError' = error

\* _transport->closeAll(), and its effect on the conversation.
HangUp == closeAll /\ Disconnected /\ uploads' = 0

\* Mutants: the session is not marked as over; its sockets are not closed.
failKeepingConnected(error) == HangUp /\ UNCHANGED <<connected, storesSinceConnect>> /\ Return(FALSE, error)

failWithoutClosing(error) ==
  /\ UNCHANGED <<transportVars, replyVars, uploads, storesSinceConnect>>
  /\ connected' = FALSE
  /\ Return(FALSE, error)

failAndDisconnect(error) ==
  /\ HangUp
  /\ connected' = FALSE
  /\ UNCHANGED storesSinceConnect
  /\ Return(FALSE, error)

\* A reply was read: the conversation goes on with what the server still owes.
Heard(got) == owed' = got.rest /\ UNCHANGED <<peer, late>>

\* History: the reply that follows a command sent now answers an earlier one.
MarkStale == stale' = (stale \/ owed # <<>>)

\* The trust settings handed to the transport for both channels.
sessionTls ==
  [pin |-> IF active.mode = "Fingerprint" THEN pin ELSE NoPin,
   ca  |-> IF active.mode = "ImportedCert" THEN active.ca ELSE NoCa]

-----------------------------------------------------------------------------
(***************************************************************************)
(* begin, quit, setReconnectBetweenStores                                  *)
(***************************************************************************)
begin ==
  /\ Enter("begin", TRUE, 0, 0)
  /\ UNCHANGED <<storesSinceConnect, reconnectBetweenStores>>
  /\ \/ \* no network interface
        /\ Return(FALSE, "NetworkNotInitialized")
        /\ UNCHANGED <<transportVars, replyVars, configVars, begun, connected, uploads>>
     \/ \* the new transport cannot be allocated; _connected is left as it is
        /\ renewTransport /\ Disconnected /\ uploads' = 0
        /\ begun' = FALSE
        /\ Return(FALSE, "ConnectionFailed")
        /\ UNCHANGED <<configVars, connected>>
     \/ /\ renewTransport /\ Disconnected /\ uploads' = 0
        /\ begun' = TRUE
        /\ active' = Blank /\ pin' = NoPin /\ agreed' = NoCa
        /\ connected' = FALSE
        /\ Return(TRUE, "None")

setReconnectBetweenStores ==
  /\ pc = "idle"
  /\ reconnectBetweenStores' \in BOOLEAN
  /\ UNCHANGED <<transportVars, replyVars, configVars, sessionVars, callVars,
                 begun, lastError, op, pc, ok>>

\* quit() returns nothing; ok says whether it failed to part properly.
callQuit ==
  /\ Enter("quit", TRUE, 0, 0)
  /\ UNCHANGED <<configVars, storesSinceConnect, begun, reconnectBetweenStores>>
  /\ IF begun /\ connected
     THEN Goto("quit") /\ UNCHANGED <<transportVars, replyVars, connected, uploads>>
     ELSE /\ IF begun THEN HangUp ELSE UNCHANGED <<transportVars, replyVars, uploads>>
          /\ connected' = FALSE
          /\ Return(TRUE, IF begun THEN lastError ELSE "None")

quit ==
  /\ pc = "quit"
  /\ HangUp
  /\ connected' = FALSE
  /\ \E got \in SendCommand("QUIT") :
       Return(got.reply.code = 221, IF got.reply.code = 221 THEN "None" ELSE "QuitFailed")
  /\ MarkStale
  /\ UNCHANGED <<configVars, storesSinceConnect, argOk, total, room, moved, failure, cutShort,
                 begun, reconnectBetweenStores, op>>

-----------------------------------------------------------------------------
(***************************************************************************)
(* connect and reconnect                                                   *)
(***************************************************************************)

\* What a configuration leaves in the active one.
activated(cfg) ==
  CASE cfg.fault \in EarlyFaults \cup {"malformed"} -> active
    [] cfg.fault = "long host" -> Blank
    [] cfg.fault \in {"long user", "long password"} -> [Blank EXCEPT !.host = TRUE]
    [] cfg.fault = "long server name" ->
         [host |-> TRUE, login |-> TRUE, mode |-> cfg.mode, ca |-> NoCa]
    [] OTHER ->
         [host |-> TRUE, login |-> TRUE, mode |-> cfg.mode,
          ca |-> IF cfg.mode = "ImportedCert" THEN cfg.trust ELSE NoCa]

\* connect() up to its first use of the network.  closed: the caller, which
\* is then reconnect(), has closed all sockets itself.
enterConnect(cfg, closed) ==
  /\ storesSinceConnect' = 0
  /\ pin' = IF cfg.fault \in EarlyFaults THEN pin
            ELSE IF cfg.mode = "Fingerprint" THEN cfg.trust ELSE NoPin
  /\ active' = activated(cfg)
  /\ agreed' = IF ~closed /\ cfg.fault \in LongFaults \cup {"none"} THEN cfg.trust ELSE agreed
  /\ IF closed \/ cfg.fault \in LongFaults \cup {"none"}
     THEN HangUp /\ connected' = FALSE
     ELSE UNCHANGED <<transportVars, replyVars, connected, uploads>>
  /\ IF cfg.fault = "none" THEN Goto("tcp-open") ELSE Return(FALSE, faultError(cfg.fault))

callConnect ==
  /\ Enter("connect", TRUE, 0, 0)
  /\ UNCHANGED <<begun, reconnectBetweenStores>>
  /\ IF begun
     THEN \E cfg \in Configs : enterConnect(cfg, FALSE)
     ELSE /\ storesSinceConnect' = 0
          /\ Return(FALSE, "NetworkNotInitialized")
          /\ UNCHANGED <<transportVars, replyVars, configVars, connected, uploads>>

\* The configuration reconnect() rebuilds from the active one.
fresh ==
  [mode |-> active.mode, trust |-> pin,
   fault |-> IF ~active.login THEN "user"
             ELSE IF pin \in Certs THEN "none" ELSE "malformed"]

reconnect ==
  IF active.mode = "ImportedCert" \/ ~active.host
  THEN /\ Return(FALSE, "ConnectionFailed")
       /\ UNCHANGED <<transportVars, replyVars, configVars, sessionVars>>
  ELSE enterConnect(fresh, TRUE)

callReconnect ==
  /\ Enter("reconnect", TRUE, 0, 0)
  /\ UNCHANGED <<begun, reconnectBetweenStores>>
  /\ IF begun THEN reconnect
     ELSE /\ Return(FALSE, "NetworkNotInitialized")
          /\ UNCHANGED <<transportVars, replyVars, configVars, sessionVars>>

\* A step of connect() after its network use began, and its failure.
ConnectStep(phase) ==
  /\ pc = phase
  /\ UNCHANGED <<configVars, storesSinceConnect, argOk, total, room, moved, failure, cutShort,
                 begun, reconnectBetweenStores, op>>

\* Mutant: a failed connect() leaves its sockets open.
connectFailsOpen(error) ==
  Return(FALSE, error) /\ UNCHANGED <<transportVars, replyVars, uploads, connected, stale>>

connectFails(error) ==
  /\ HangUp
  /\ Return(FALSE, error)
  /\ UNCHANGED <<connected, stale>>

connectTcpOpen ==
  /\ ConnectStep("tcp-open")
  /\ UNCHANGED <<connected, uploads, stale>>
  /\ \/ connectControl(TRUE) /\ Greeted /\ Goto("banner")
     \/ connectControl(FALSE) /\ UNCHANGED replyVars /\ Return(FALSE, "ConnectionFailed")

connectBanner ==
  /\ ConnectStep("banner")
  /\ \E got \in ReadResponse(owed) :
       IF got.reply.code = 220
       THEN Heard(got) /\ Goto("auth-tls") /\ UNCHANGED <<transportVars, connected, uploads, stale>>
       ELSE connectFails("BannerReadFailed")

\* A refused or lost AUTH TLS is followed by AUTH SSL on the same connection.
connectAuthTls ==
  /\ ConnectStep("auth-tls")
  /\ \E got \in SendCommand("AUTH TLS") :
       /\ Heard(got)
       /\ Goto(IF got.reply.code = 234 THEN "control-tls" ELSE "auth-ssl")
  /\ MarkStale
  /\ UNCHANGED <<transportVars, connected, uploads>>

\* One command of the login sequence.  after gives, for each code that the
\* step accepts, the phase that follows.
connectExchange(phase, verb, after, error) ==
  /\ ConnectStep(phase)
  /\ \E got \in SendCommand(verb) :
       IF got.reply.code \in DOMAIN after
       THEN /\ Heard(got) /\ MarkStale
            /\ Goto(after[got.reply.code])
            /\ UNCHANGED <<transportVars, connected, uploads>>
       ELSE connectFails(error)

\* Mutants: a server without TLS is logged in to all the same; the two forms
\* of AUTH are tried over and over.
connectWithoutAuth ==
  connectExchange("auth-ssl", "AUTH SSL",
                  [c \in {234, 502} |-> IF c = 234 THEN "control-tls" ELSE "pbsz"], "AuthTlsRejected")

connectAuthForever ==
  connectExchange("auth-ssl", "AUTH SSL",
                  [c \in {234, 502} |-> IF c = 234 THEN "control-tls" ELSE "auth-tls"], "AuthTlsRejected")

connectAuthSsl ==
  connectExchange("auth-ssl", "AUTH SSL", [c \in {234} |-> "control-tls"], "AuthTlsRejected")

\* Bytes of a plaintext reply that is still on its way break the handshake.
connectControlTls ==
  /\ ConnectStep("control-tls")
  /\ UNCHANGED <<replyVars, connected, uploads, stale>>
  /\ \/ /\ owed = <<>> /\ peer = "up"
        /\ upgradeControlToTls(sessionTls, TRUE)
        /\ Goto("pbsz")
     \/ upgradeControlToTls(sessionTls, FALSE) /\ Goto("tls-refused")

\* The rest of the failed control-tls phase: closeAll and the verdict.
connectTlsRefused ==
  /\ ConnectStep("tls-refused")
  /\ connectFails(IF lastTlsError = AuthFailure THEN "CertValidationFailed"
                  ELSE "ControlTlsHandshakeFailed")

connectPbsz ==
  connectExchange("pbsz", "PBSZ", [c \in {200} |-> "prot-p"], "PbszRejected")

connectProtP ==
  connectExchange("prot-p", "PROT", [c \in {200} |-> "user"], "ProtPRejected")

\* 331 asks for the password; 230 and 232 log in without one.
connectUser ==
  connectExchange("user", "USER",
                  [c \in {331, 230, 232} |-> IF c = 331 THEN "pass" ELSE "type-i"],
                  "LoginRejected")

connectPass ==
  connectExchange("pass", "PASS", [c \in {230, 232} |-> "type-i"], "LoginRejected")

\* The checks of store() that follow its automatic reconnect.
storeArguments == IF argOk' THEN Goto("pasv") ELSE Return(FALSE, "TransferFailed")

\* The last step of connect(), for connect(), reconnect() and the reconnect
\* of store(), which then goes on.
connectTypeI ==
  /\ ConnectStep("type-i")
  /\ \E got \in SendCommand("TYPE") :
       IF got.reply.code = 200
       THEN /\ Heard(got) /\ MarkStale
            /\ connected' = TRUE
            /\ UNCHANGED <<transportVars, uploads>>
            /\ CASE op # "store"            -> Return(TRUE, "None")
                 [] op = "store" /\ argOk   -> pc' = "pasv" /\ lastError' = "None" /\ UNCHANGED ok
                 [] op = "store" /\ ~argOk  -> Return(FALSE, "TransferFailed")
       ELSE connectFails("TypeRejected")

-----------------------------------------------------------------------------
(***************************************************************************)
(* Commands of one exchange, and rename, which is two                      *)
(***************************************************************************)
Ready == begun /\ connected
Bounded == Len(owed) <= MaxBacklog

\* Entry of a command: the session and the arguments are checked.
callExchange(call, badArgument) ==
  /\ Bounded
  /\ \E valid \in BOOLEAN :
       /\ call = "isControlAlive" => valid  \* it takes no argument
       /\ Enter(call, valid, 0, 0)
       /\ CASE ~Ready           -> Return(FALSE, "ConnectionFailed")
            [] Ready /\ ~valid  -> Return(FALSE, badArgument)
            [] Ready /\ valid   -> Goto("exchange")
  /\ UNCHANGED <<transportVars, replyVars, configVars, sessionVars, begun, reconnectBetweenStores>>

\* A command is sent and its reply awaited: without one the session is lost,
\* a reply in accepted leads to the phase next, any other is a refusal.
exchange(call, phase, verb, accepted, next, refusal) ==
  /\ op = call /\ pc = phase
  /\ \E got \in SendCommand(verb) :
       IF got.reply = Lost THEN failAndDisconnect("ConnectionFailed")
       ELSE /\ Heard(got)
            /\ UNCHANGED <<transportVars, sessionVars>>
            /\ CASE got.reply \notin accepted                    -> Return(FALSE, refusal)
                 [] got.reply \in accepted /\ next = "idle"      -> Return(TRUE, "None")
                 [] got.reply \in accepted /\ next # "idle"      -> Goto(next)
  /\ MarkStale
  /\ UNCHANGED <<configVars, argOk, total, room, moved, failure, cutShort, begun,
                 reconnectBetweenStores, op>>

Coded(codes) == {r \in Reply : r.code \in codes}

\* A directory that exists already counts as created.
mkd == exchange("mkd", "exchange", "MKD",
                Coded({257, 250, 521}) \cup {r \in Coded({550}) : r.good},
                "idle", "DirectoryCreateFailed")

size == exchange("size", "exchange", "SIZE", {r \in Coded({213}) : r.good},
                 "idle", "SizeQueryFailed")

dele == exchange("dele", "exchange", "DELE", Coded({250}), "idle", "DeleteFailed")
rmd  == exchange("rmd", "exchange", "RMD", Coded({250}), "idle", "DirectoryRemoveFailed")

renameFrom == exchange("rename", "exchange", "RNFR", Coded({350}), "rename-to", "RenameFailed")
renameTo   == exchange("rename", "rename-to", "RNTO", Coded({250}), "idle", "RenameFailed")

isControlAlive ==
  exchange("isControlAlive", "exchange", "NOOP", Coded({200}), "idle", "TransferFailed")

-----------------------------------------------------------------------------
(***************************************************************************)
(* store, retrieve and list                                                *)
(***************************************************************************)
verbOf(call) ==
  CASE call = "store" -> "STOR" [] call = "retrieve" -> "RETR" [] OTHER -> "MLSD"

\* store() reconnects first when it is told to and the session has already
\* completed an upload; its arguments are checked only afterwards.
callStore ==
  /\ Bounded
  /\ uploads < MaxStores \/ (reconnectBetweenStores /\ storesSinceConnect > 0)
  /\ \E valid \in BOOLEAN, length \in 0..MaxLength : Enter("store", valid, length, 0)
  /\ UNCHANGED <<begun, reconnectBetweenStores>>
  /\ IF Ready /\ reconnectBetweenStores /\ storesSinceConnect > 0
     THEN reconnect
     ELSE /\ UNCHANGED <<transportVars, replyVars, configVars, sessionVars>>
          /\ IF Ready THEN storeArguments ELSE Return(FALSE, "ConnectionFailed")

\* The path and the buffer are arguments; the length is what the server has.
callDownload(call, badArgument) ==
  /\ Bounded
  /\ \E valid \in BOOLEAN, length \in 0..MaxLength, bufferSize \in 1..(MaxLength + 1) :
       Enter(call, valid, length, bufferSize)
  /\ UNCHANGED <<transportVars, replyVars, configVars, sessionVars, begun, reconnectBetweenStores>>
  /\ CASE ~Ready            -> Return(FALSE, "ConnectionFailed")
       [] Ready /\ ~argOk'  -> Return(FALSE, badArgument)
       [] Ready /\ argOk'   -> Goto("pasv")

TransferStep(phase) ==
  /\ pc = phase
  /\ UNCHANGED <<configVars, argOk, total, room, begun, reconnectBetweenStores, op>>

\* Only the port of the reply is used; a reply that does not parse is refused.
pasv ==
  /\ TransferStep("pasv")
  /\ MarkStale
  /\ UNCHANGED <<moved, failure, cutShort>>
  /\ \E got \in SendCommand("PASV") :
       IF got.reply = Lost THEN failAndDisconnect("ConnectionFailed")
       ELSE /\ Heard(got)
            /\ UNCHANGED <<transportVars, sessionVars>>
            /\ CASE got.reply.code # 227                     -> Return(FALSE, "PassiveModeRejected")
                 [] got.reply.code = 227 /\ ~got.reply.good  -> Return(FALSE, "PasvParseFailed")
                 [] got.reply.code = 227 /\ got.reply.good   -> Goto("data-open")

dataOpen ==
  /\ TransferStep("data-open")
  /\ UNCHANGED <<replyVars, sessionVars, moved, failure, stale, cutShort>>
  /\ \/ openDataChannel(TRUE) /\ Goto("command")
     \/ openDataChannel(FALSE) /\ Return(FALSE, "DataConnectionFailed")

\* The transfer command, before the TLS handshake of the data channel.  A
\* refused MLSD is followed by LIST on the same data connection.
transferCommand(phase, verb, refusal) ==
  /\ TransferStep(phase)
  /\ MarkStale
  /\ UNCHANGED <<moved, failure, cutShort>>
  /\ \E got \in SendCommand(verb) :
       CASE got.reply = Lost -> failAndDisconnect("ConnectionFailed")
         [] got.reply.code \in {125, 150} ->
              Heard(got) /\ Goto("data-tls") /\ UNCHANGED <<transportVars, sessionVars>>
         [] got.reply # Lost /\ got.reply.code \notin {125, 150} ->
              /\ Heard(got)
              /\ UNCHANGED sessionVars
              /\ IF verb = "MLSD" THEN Goto("list") /\ UNCHANGED transportVars
                 ELSE closeData /\ Return(FALSE, refusal)

command     == transferCommand("command", verbOf(op), "TransferFailed")
listCommand == transferCommand("list", "LIST", "ListFailed")

\* Mutant: the failed handshake is reported without waiting for the reply
\* that ends the transfer.
transferTlsUndrained ==
  /\ TransferStep("data-tls")
  /\ UNCHANGED <<replyVars, sessionVars, moved, stale, cutShort>>
  /\ \/ upgradeDataToTls(sessionTls, TRUE) /\ Goto("data") /\ UNCHANGED failure
     \/ /\ upgradeDataToTls(sessionTls, FALSE) /\ UNCHANGED failure
        /\ Return(FALSE, "DataTlsHandshakeFailed")

\* A failed transfer waits briefly for its final reply before it returns.
transferTls ==
  /\ TransferStep("data-tls")
  /\ UNCHANGED <<replyVars, sessionVars, moved, stale, cutShort>>
  /\ \/ upgradeDataToTls(sessionTls, TRUE) /\ Goto("data") /\ UNCHANGED failure
     \/ /\ upgradeDataToTls(sessionTls, FALSE) /\ Goto("drain")
        /\ failure' = IF lastTlsError' = AuthFailure THEN "SessionReuseRequired"
                      ELSE "DataTlsHandshakeFailed"

\* The data channel is closed and the transfer goes on in another phase.
LeaveData(phase, error, bytes) ==
  /\ closeData
  /\ Goto(phase)
  /\ failure' = error
  /\ moved' = bytes
  /\ UNCHANGED <<sessionVars, stale>>

transferError == IF op = "list" THEN "ListFailed" ELSE "TransferFailed"

\* The destination is full.  list() keeps a byte for its terminator, and both
\* look at the room before they look for the end of the data.
BufferFull == \/ op = "retrieve" /\ moved >= room
              \/ op = "list" /\ moved + 1 >= room

bufferFull ==
  /\ TransferStep("data")
  /\ BufferFull
  /\ LeaveData("drain", transferError, IF op = "list" THEN 0 ELSE moved)
  /\ UNCHANGED <<replyVars, cutShort>>

\* Mutant: a byte too many.
moveDataOver ==
  /\ TransferStep("data")
  /\ ~BufferFull
  /\ \E n \in 1..(total - moved + 1) : moved' = moved + n
  /\ Goto("data")
  /\ UNCHANGED <<transportVars, replyVars, sessionVars, failure, stale, cutShort>>

\* One dataWrite or dataRead that moves bytes.
moveData ==
  /\ TransferStep("data")
  /\ ~BufferFull
  /\ \E n \in 1..(total - moved) :
       /\ op = "retrieve" => n <= room - moved
       /\ op = "list" => n <= room - moved - 1
       /\ moved' = moved + n
  /\ Goto("data")
  /\ UNCHANGED <<transportVars, replyVars, sessionVars, failure, stale, cutShort>>

\* All bytes written, or a read that moves none, which the client takes for
\* the end of the data.  It is the server's FIN, after the last byte or before
\* it when the server gives the transfer up; or a connection that ends, or
\* only pauses, while the server has bytes to send and knows of no failure.
endOfData ==
  /\ TransferStep("data")
  /\ ~BufferFull
  /\ op = "store" => moved = total
  /\ \/ moved = total /\ UNCHANGED <<replyVars, cutShort>>
     \/ moved < total /\ ServerAborts /\ UNCHANGED cutShort
     \/ moved < total /\ UNCHANGED replyVars /\ cutShort' = TRUE
  /\ LeaveData("final", failure, moved)

\* A write or a read fails, or nothing moves for FTPS_DATA_IO_TIMEOUT_MS.
dataError ==
  /\ TransferStep("data")
  /\ ~BufferFull
  /\ op = "store" => moved < total
  /\ LeaveData("drain", transferError, IF op = "store" THEN moved ELSE 0)
  /\ UNCHANGED <<replyVars, cutShort>>

drain ==
  /\ TransferStep("drain")
  /\ drainFinalTransferReply
  /\ Return(FALSE, failure)
  /\ UNCHANGED <<transportVars, sessionVars, moved, failure, stale, cutShort>>

\* Mutants: the confirmation is not read (the diagnostic shortcut of store());
\* any final reply counts as one.
finalReplySkipped ==
  /\ TransferStep("final")
  /\ Return(TRUE, "None")
  /\ UNCHANGED <<transportVars, replyVars, sessionVars, moved, failure, stale, cutShort>>

finalReplyTrusted ==
  /\ TransferStep("final")
  /\ UNCHANGED <<failure, stale, cutShort, moved>>
  /\ \E got \in ReadResponse(owed) :
       IF got.reply = Lost THEN failAndDisconnect("ConnectionFailed")
       ELSE Heard(got) /\ Return(TRUE, "None") /\ UNCHANGED <<transportVars, sessionVars>>

\* The reply that confirms the transfer or reports its failure.
finalReply ==
  /\ TransferStep("final")
  /\ UNCHANGED <<failure, stale, cutShort>>
  /\ \E got \in ReadResponse(owed) :
       LET confirmed == Complete(got.reply)
           counted   == IF op = "store" /\ confirmed THEN 1 ELSE 0
       IN  /\ moved' = IF op = "store" \/ confirmed THEN moved ELSE 0
           /\ IF got.reply = Lost THEN failAndDisconnect("ConnectionFailed")
              ELSE /\ Heard(got)
                   /\ storesSinceConnect' = storesSinceConnect + counted
                   /\ uploads' = uploads + counted
                   /\ UNCHANGED <<transportVars, connected>>
                   /\ Return(confirmed, IF confirmed THEN "None" ELSE "FinalReplyFailed")

-----------------------------------------------------------------------------
serverLeaves ==
  /\ ServerLeaves
  /\ UNCHANGED <<transportVars, configVars, sessionVars, callVars,
                 begun, lastError, reconnectBetweenStores, op, pc, ok>>

\* The application calls.
Call ==
  \/ begin \/ callQuit \/ setReconnectBetweenStores
  \/ callConnect \/ callReconnect
  \/ callExchange("mkd", "DirectoryCreateFailed")
  \/ callExchange("size", "SizeQueryFailed")
  \/ callExchange("dele", "DeleteFailed")
  \/ callExchange("rmd", "DirectoryRemoveFailed")
  \/ callExchange("rename", "RenameFailed")
  \/ callExchange("isControlAlive", "TransferFailed")
  \/ callStore
  \/ callDownload("retrieve", "TransferFailed")
  \/ callDownload("list", "ListFailed")

\* The call in progress goes on.
Step ==
  \/ quit
  \/ connectTcpOpen \/ connectBanner \/ connectAuthTls \/ connectAuthSsl
  \/ connectControlTls \/ connectTlsRefused
  \/ connectPbsz \/ connectProtP \/ connectUser \/ connectPass \/ connectTypeI
  \/ mkd \/ size \/ dele \/ rmd \/ renameFrom \/ renameTo \/ isControlAlive
  \/ pasv \/ dataOpen \/ command \/ listCommand \/ transferTls
  \/ bufferFull \/ moveData \/ endOfData \/ dataError \/ drain \/ finalReply

Next == Call \/ Step \/ serverLeaves

Spec == Init /\ [][Next]_vars

\* A call that has begun goes on: every wait of the library has a timeout.
FairSpec == Spec /\ WF_vars(Step)

-----------------------------------------------------------------------------
(***************************************************************************)
(* Safety                                                                  *)
(***************************************************************************)
Idle == pc = "idle"

\* Between two calls the client holds exactly the sockets its state says: two
\* objects, the protected control connection, when it is connected, and none
\* when it is not.  No path of any call leaves a data channel open, a control
\* connection unprotected, or a socket behind a session that is over.
SessionOwnsItsSockets ==
  Idle => /\ held = IF connected /\ begun THEN 2 ELSE 0
          /\ connected /\ begun => controlTls # NoTls

\* A channel that is protected was protected with the peer the session's
\* configuration trusts, for data channels too, also after a connect() that was
\* refused in between, when the fingerprint it was given is no certificate's.
TrustedPeers == {controlTls, dataTls} \subseteq {agreed, NoTls}

\* Nothing but the greeting and the AUTH exchange is ever said in clear: from
\* PBSZ on, credentials and commands included, ctrlWrite never falls back to
\* the plain socket.
NothingInClear ==
  pc \notin {"idle", "tcp-open", "banner", "auth-tls", "auth-ssl", "control-tls", "tls-refused"}
    => controlTls # NoTls

\* As long as no final reply was abandoned, every phase finds unread exactly
\* the replies it is going to read, goodbyes of the server apart.
expected ==
  CASE pc = "banner" -> {<<"BANNER">>}
    [] pc \in {"auth-ssl", "control-tls", "tls-refused"} ->
         {<<>>, <<"TORN">>, <<"AUTH TLS">>, <<"AUTH SSL">>}
    [] pc \in DataPhases -> {<<"FINAL">>, <<"ABORT">>}
    [] OTHER -> {<<>>}

InStep ==
  late = 0 /\ peer = "up" => owed \in expected

\* A call that succeeds succeeded on the replies to its own commands.
SuccessIsOwn == Idle /\ ok /\ late = 0 => ~stale

\* A download reported as a success is complete, also when the server gave
\* the transfer up and closed the data channel without an error, unless the
\* client saw an end of the data that the server knows nothing of.
DownloadIsWhole ==
  Idle /\ ok /\ ~stale /\ ~cutShort /\ op \in {"retrieve", "list"} => moved = total

\* What an application decides from lastError() is right: after a failed
\* command on a session with a pinned fingerprint, the error is one of the
\* session-dead ones exactly when the client has disconnected.
VerdictMatchesSession ==
  Idle /\ ~ok /\ op \in Commands /\ begun /\ active.mode = "Fingerprint"
    => (ftpsIsSessionDead(lastError) <=> ~connected)

\* A transfer the application may retry leaves a session on which the retry
\* starts in step, with nothing of the failed attempt left over.
RetriableMeansUsable ==
  Idle /\ ~ok /\ op \in Transfers /\ ftpsIsTransferRetriable(lastError, lastNsapiError)
    => connected /\ ~dataSocket /\ (late = 0 /\ peer = "up" => owed = <<>>)

-----------------------------------------------------------------------------
(***************************************************************************)
(* What the repository's documents say of the program, and the code does   *)
(* not keep.                                                               *)
(***************************************************************************)

\* FINAL_PASS_04152026.md: the control channel is not desynchronized after a
\* failed transfer, so that no call takes the reply to an earlier command for
\* its own success.  The drain gives up after five seconds.
NoReplyMisattributed == Idle /\ ok => ~stale

\* CODE_REVIEW_04152026.md, PITFALL-1, fixed according to
\* FINAL_PASS_04152026.md: retrieve() does not report as a success a file of
\* which it has only a part.  It compares what it has read with nothing.
RetrievedIsWhole == Idle /\ ok /\ ~stale /\ op = "retrieve" => moved = total

\* FtpsClient.h: reconnect() uses the cached configuration.  A connect() that
\* was refused has already overwritten the cached fingerprint.
ReconnectUsesCachedConfiguration ==
  op = "reconnect" /\ pc = "control-tls" => agreed \in {sessionTls.pin, sessionTls.ca}

\* The message of retrieve(): the destination buffer was too small for the
\* file.  A buffer of exactly the size of the file is refused as well.
RefusedOnlyIfTooSmall == pc = "data" /\ op = "retrieve" /\ BufferFull => total > room

-----------------------------------------------------------------------------
(***************************************************************************)
(* Liveness                                                                *)
(***************************************************************************)

\* Every call returns, whatever the server does or fails to do.
CallsReturn == pc # "idle" ~> pc = "idle"

\* How many phases a call may still go through, the one it is in included.
ahead == [phase \in Phases |->
  CASE phase = "idle"        -> 0
    [] phase \in {"tls-refused", "rename-to", "quit", "final", "drain"} -> 1
    [] phase \in {"exchange", "data"} -> 2
    [] phase = "data-tls"    -> 3
    [] phase = "list"        -> 4
    [] phase = "command"     -> 5
    [] phase = "data-open"   -> 6
    [] phase = "pasv"        -> 7
    [] phase = "type-i"      -> 8
    [] phase = "pass"        -> 9
    [] phase = "user"        -> 10
    [] phase = "prot-p"      -> 11
    [] phase = "pbsz"        -> 12
    [] phase = "control-tls" -> 13
    [] phase = "auth-ssl"    -> 14
    [] phase = "auth-tls"    -> 15
    [] phase = "banner"      -> 16
    [] phase = "tcp-open"    -> 17]

\* No call goes back to what it has done, whatever the server answers: each of
\* its steps leads to a phase ahead of it or moves bytes of those that are left,
\* so that a call waits for the network at most 17 times and once for each byte.
CallsGetOn ==
  [][Step => \/ ahead[pc'] < ahead[pc]
             \/ /\ pc = "data" /\ pc' = pc
                /\ moved < moved' /\ moved' <= total /\ UNCHANGED total]_vars

-----------------------------------------------------------------------------
(***************************************************************************)
(* Refinement: the client keeps the promises of FtpsSession.               *)
(***************************************************************************)
session ==
  CASE ~controlSocket                                      -> "closed"
    [] controlSocket /\ controlTls = NoTls                 -> "plain"
    [] controlSocket /\ controlTls # NoTls /\ ~connected   -> "protected"
    [] controlSocket /\ controlTls # NoTls /\ connected    -> "open"

data ==
  CASE ~dataSocket                      -> "none"
    [] dataSocket /\ dataTls = NoTls    -> "plain"
    [] dataSocket /\ dataTls # NoTls    -> "protected"

Session == INSTANCE FtpsSession WITH
  Peer <- Certs, Nobody <- NoTls, trusted <- agreed,
  proven <- controlTls, dataPeer <- dataTls

\* Every step of the client is a step of a well-behaved session or none: the
\* control connection is never used unprotected after it was protected, never
\* reported connected before the login is complete, and its data channels are
\* opened only within it and protected with the same trusted peer.
ImplementsSession == Session!Spec
=============================================================================
