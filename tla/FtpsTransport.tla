---------------------------- MODULE FtpsTransport ----------------------------
(***************************************************************************)
(* MbedSecureSocketFtpsTransport: the control and the data connection of   *)
(* an FTPS session, each a TCPSocket that a TLSSocketWrapper may protect.  *)
(*                                                                         *)
(* A socket pointer is TRUE when it is not null.  A TLS pointer is NoTls   *)
(* when it is null and otherwise the certificate the peer presented in the *)
(* handshake that succeeded: between two calls a TLS wrapper always has    *)
(* its handshake behind it.  The network, the LWIP socket pool and the     *)
(* peer's TLS are external: every call may fail in each way the code       *)
(* distinguishes, and a peer may present any certificate.                  *)
(***************************************************************************)
EXTENDS FtpsErrors

CONSTANTS
  Certs,    \* certificates a peer may present, each known by its fingerprint
  NoTls,    \* a null TLS pointer
  NoPin,    \* an empty fingerprint
  Garbled,  \* a fingerprint buffer that holds no certificate's fingerprint
  NoCa      \* no root certificate

ASSUME TransportAssumption ==
  /\ NoTls \notin Certs
  /\ NoCa \notin Certs
  /\ {NoPin, Garbled} \cap Certs = {}
  /\ NoPin # Garbled

VARIABLES
  controlSocket,     \* _controlSocket is not null
  controlTls,        \* _controlTls
  controlConnected,  \* _controlConnected
  dataSocket,        \* _dataSocket is not null
  dataTls,           \* _dataTls
  dataConnected,     \* _dataConnected
  sessionCached,     \* _cachedControlSessionValid
  lastTlsError,      \* _lastTlsError
  lastNsapiError,    \* _lastNsapiError
  held               \* sockets and wrappers allocated and not yet deleted

controlVars   == <<controlSocket, controlTls, controlConnected, sessionCached>>
dataVars      == <<dataSocket, dataTls, dataConnected>>
errorVars     == <<lastTlsError, lastNsapiError>>
transportVars == <<controlVars, dataVars, errorVars, held>>

Pins == Certs \cup {NoPin, Garbled}

\* FtpTlsConfig: the pin of the Fingerprint mode or the root certificate of
\* the ImportedCert mode.  A root certificate is named by the one server
\* certificate it vouches for under the configured server name.
TlsConfig == [pin : Pins, ca : Certs \cup {NoCa}]

TransportTypeOK ==
  /\ controlSocket \in BOOLEAN
  /\ controlTls \in Certs \cup {NoTls}
  /\ controlConnected \in BOOLEAN
  /\ dataSocket \in BOOLEAN
  /\ dataTls \in Certs \cup {NoTls}
  /\ dataConnected \in BOOLEAN
  /\ sessionCached \in BOOLEAN
  /\ lastTlsError \in TlsError
  /\ lastNsapiError \in NsapiError
  /\ held \in Int

\* A transport just constructed; also the transport of a client without one.
TransportInit ==
  /\ controlSocket = FALSE /\ controlTls = NoTls /\ controlConnected = FALSE
  /\ dataSocket = FALSE /\ dataTls = NoTls /\ dataConnected = FALSE
  /\ sessionCached = FALSE
  /\ lastTlsError = TlsOk /\ lastNsapiError = NsapiOk
  /\ held = 0

-----------------------------------------------------------------------------
(***************************************************************************)
(* Teardown                                                                *)
(***************************************************************************)
Objects(socket, tls) == (IF socket THEN 1 ELSE 0) + (IF tls # NoTls THEN 1 ELSE 0)

\* ftpsReleaseSocketPair on the control pair and on the data pair.
ReleaseControl == controlSocket' = FALSE /\ controlTls' = NoTls /\ controlConnected' = FALSE
\* Mutant: the flag of the data connection survives its socket.
ReleaseDataKeepFlag == dataSocket' = FALSE /\ dataTls' = NoTls /\ UNCHANGED dataConnected

ReleaseData    == dataSocket' = FALSE /\ dataTls' = NoTls /\ dataConnected' = FALSE

closeData ==
  /\ ReleaseData
  /\ held' = held - Objects(dataSocket, dataTls)
  /\ UNCHANGED <<controlVars, errorVars>>

closeAll ==
  /\ ReleaseData
  /\ ReleaseControl
  /\ sessionCached' = FALSE
  /\ held' = held - Objects(dataSocket, dataTls) - Objects(controlSocket, controlTls)
  /\ UNCHANGED errorVars

\* delete _transport, then a new transport or none.
renewTransport ==
  /\ ReleaseData
  /\ ReleaseControl
  /\ sessionCached' = FALSE
  /\ lastTlsError' = TlsOk /\ lastNsapiError' = NsapiOk
  /\ held' = held - Objects(dataSocket, dataTls) - Objects(controlSocket, controlTls)

-----------------------------------------------------------------------------
(***************************************************************************)
(* TCP connections.  connectSocket deletes the socket of a failed attempt; *)
(* a failed name lookup or allocation records no socket-layer code.        *)
(***************************************************************************)
connectSocket(ok) ==
  lastNsapiError' \in IF ok THEN {NsapiOk}
                      ELSE {lastNsapiError, NoSocket, ConnectionTimeout}

connectControl(ok) ==
  /\ ReleaseData
  /\ controlSocket' = ok /\ controlTls' = NoTls /\ controlConnected' = ok
  /\ sessionCached' = FALSE
  /\ lastTlsError' = TlsOk
  /\ connectSocket(ok)
  /\ held' = held - Objects(dataSocket, dataTls) - Objects(controlSocket, controlTls)
                  + Objects(ok, NoTls)

openDataChannel(ok) ==
  /\ dataSocket' = ok /\ dataTls' = NoTls /\ dataConnected' = ok
  /\ connectSocket(ok)
  /\ held' = held - Objects(dataSocket, dataTls) + Objects(ok, NoTls)
  /\ UNCHANGED <<controlVars, lastTlsError>>

-----------------------------------------------------------------------------
(***************************************************************************)
(* TLS.  A pin turns chain verification off, so that the handshake accepts *)
(* any certificate and the pin is compared afterwards; without a pin the   *)
(* handshake itself accepts only what the root certificate vouches for.    *)
(***************************************************************************)
handshakeAccepts(tls, cert) == tls.pin # NoPin \/ cert = tls.ca

\* Mutant: a mismatch falls through to success.
pinIgnored(tls, cert) == TRUE

completePinnedFingerprintCheck(tls, cert) == tls.pin = NoPin \/ cert = tls.pin

\* The wrapper cannot be allocated or configured: no handshake takes place,
\* and _lastTlsError keeps the code of an earlier one.
controlTlsUnavailable ==
  /\ controlTls' = NoTls
  /\ held' = held - Objects(FALSE, controlTls)
  /\ UNCHANGED <<controlSocket, controlConnected, sessionCached, lastTlsError>>

\* Mutant: the pair is abandoned instead of deleted.
controlTlsAbandoned ==
  /\ lastTlsError' \in TlsError \ {TlsOk}
  /\ ReleaseControl
  /\ UNCHANGED <<sessionCached, held>>

controlTlsRefused ==
  /\ lastTlsError' \in TlsError \ {TlsOk}
  /\ ReleaseControl
  /\ held' = held - Objects(controlSocket, controlTls)
  /\ UNCHANGED sessionCached

controlTlsMismatch(tls, cert) ==
  /\ handshakeAccepts(tls, cert)
  /\ tls.pin # NoPin  \* the pin differs, or the certificate cannot be read
  /\ lastTlsError' = TlsOk
  /\ sessionCached' \in BOOLEAN
  /\ ReleaseControl
  /\ held' = held - Objects(controlSocket, controlTls)

controlTlsEstablished(tls, cert) ==
  /\ handshakeAccepts(tls, cert)
  /\ completePinnedFingerprintCheck(tls, cert)
  /\ lastTlsError' = TlsOk
  /\ controlTls' = cert
  /\ sessionCached' \in BOOLEAN
  /\ held' = held - Objects(FALSE, controlTls) + Objects(FALSE, cert)
  /\ UNCHANGED <<controlSocket, controlConnected>>

upgradeControlToTls(tls, ok) ==
  /\ UNCHANGED <<dataVars, lastNsapiError>>
  /\ IF ok
     THEN controlSocket /\ \E cert \in Certs : controlTlsEstablished(tls, cert)
     ELSE \/ ~controlSocket /\ UNCHANGED <<controlVars, lastTlsError, held>>
          \/ controlSocket /\ controlTlsUnavailable
          \/ controlSocket /\ controlTlsRefused
          \/ controlSocket /\ \E cert \in Certs : controlTlsMismatch(tls, cert)

\* The data channel is closed on every failure.
dataTlsFailure(tls) ==
  \/ UNCHANGED lastTlsError                 \* not allocated or not configured
  \/ lastTlsError' \in TlsError \ {TlsOk}   \* handshake failed
  \/ /\ \E cert \in Certs : handshakeAccepts(tls, cert)
     /\ tls.pin # NoPin                     \* mismatch or unreadable
     /\ lastTlsError' = TlsOk

upgradeDataToTls(tls, ok) ==
  /\ UNCHANGED <<controlVars, lastNsapiError>>
  /\ IF ~(dataSocket /\ dataConnected)
     THEN ~ok /\ UNCHANGED <<dataVars, lastTlsError, held>>
     ELSE IF ok
     THEN \E cert \in Certs :
            /\ handshakeAccepts(tls, cert)
            /\ completePinnedFingerprintCheck(tls, cert)
            /\ lastTlsError' = TlsOk
            /\ dataTls' = cert
            /\ held' = held + Objects(FALSE, cert)
            /\ UNCHANGED <<dataSocket, dataConnected>>
     ELSE /\ dataTlsFailure(tls)
          /\ ReleaseData
          /\ held' = held - Objects(dataSocket, dataTls)

\* The combined helper kept for callers of the interface: both steps at once.
openProtectedDataChannel(tls, ok) ==
  \/ ~ok /\ openDataChannel(FALSE)
  \/ /\ UNCHANGED controlVars
     /\ lastNsapiError' = NsapiOk
     /\ IF ok
        THEN /\ dataSocket' = TRUE /\ dataConnected' = TRUE
             /\ dataTls' \in {cert \in Certs : /\ handshakeAccepts(tls, cert)
                                               /\ completePinnedFingerprintCheck(tls, cert)}
             /\ lastTlsError' = TlsOk
        ELSE ReleaseData /\ dataTlsFailure(tls)
     /\ held' = held - Objects(dataSocket, dataTls) + (IF ok THEN 2 ELSE 0)

-----------------------------------------------------------------------------
(***************************************************************************)
(* The transport under a caller that may make any call at any time, except *)
(* that it upgrades a data connection once: upgradeDataToTls, unlike       *)
(* upgradeControlToTls, does not delete an earlier wrapper.                *)
(***************************************************************************)
TransportNext ==
  \/ closeData
  \/ closeAll
  \/ renewTransport
  \/ \E ok \in BOOLEAN : connectControl(ok)
  \/ \E ok \in BOOLEAN : openDataChannel(ok)
  \/ \E tls \in TlsConfig, ok \in BOOLEAN : upgradeControlToTls(tls, ok)
  \/ \E tls \in TlsConfig, ok \in BOOLEAN : dataTls = NoTls /\ upgradeDataToTls(tls, ok)
  \/ \E tls \in TlsConfig, ok \in BOOLEAN : openProtectedDataChannel(tls, ok)

TransportSpec == TransportInit /\ [][TransportNext]_transportVars

(***************************************************************************)
(* Properties                                                              *)
(***************************************************************************)

\* Every socket and every TLS wrapper allocated is still reachable through
\* its pointer: no failure path of a connect, a handshake or a fingerprint
\* check leaks one of the few LWIP sockets of the board.
NoLeak == held = Objects(controlSocket, controlTls) + Objects(dataSocket, dataTls)

\* ctrlConnected() and dataConnected() tell the truth, and no TLS wrapper
\* outlives the socket it wraps.
FlagsAgree ==
  /\ controlConnected <=> controlSocket
  /\ dataConnected <=> dataSocket
  /\ controlTls # NoTls => controlSocket
  /\ dataTls # NoTls => dataSocket
=============================================================================
