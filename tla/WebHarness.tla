----------------------------- MODULE WebHarness -----------------------------
(***************************************************************************)
(* The WebHarnessLiveTest sketch: an HTTP server in front of one           *)
(* FtpsClient.  loop() takes one request and handles it to its end, and    *)
(* every call of the client is made inside a handler.  at is the place the *)
(* handler has reached, "loop" between two requests.  gConnected is the    *)
(* server's own idea of the session, which it shows to its pages and       *)
(* decides by.                                                             *)
(***************************************************************************)
EXTENDS FtpsClient

CONSTANTS
  Forms,       \* what the pages can leave in the configuration
  BufferSize   \* kDownloadBufferSize, and for a listing kFsListPreviewLen

VARIABLES
  gFtpsBegun,  \* begin() has succeeded
  gBusy,       \* gStatus.busy
  gConnected,  \* gStatus.connected
  gConfig,     \* the configuration of the next connect, upload or download
  request,     \* the request being handled, or the last one
  at,          \* where its handler is
  status       \* the status code of the response; 0 while there is none

statusVars == <<gBusy, request, status>>
serverVars == <<statusVars, gFtpsBegun, gConnected, gConfig, at>>
webVars    == <<vars, serverVars>>

\* complete: the form passes the checks of runConnectAction, which are that
\* host, user, password and fingerprint are filled in; cfg is what connect()
\* is given, path and payload what is left to upload and download.
Form == [complete : BOOLEAN, cfg : Config, path : BOOLEAN, payload : 0..MaxLength]

\* The ImportedCert mode does not pass: kImportedRootCaPem is a null pointer.
ASSUME FormsAssumption ==
  /\ \A form \in Forms :
       form \in Form /\ form.cfg \in Configs /\ form.cfg.mode = "Fingerprint"
  /\ BufferSize \in 1..MaxLength

Actions  == {"connect", "upload", "download", "quit"}
Codes    == {0, 200, 400, 409, 413, 500}

\* setup() has reached its end; the defaults it leaves are as good as any form.
WebInit ==
  /\ Init
  /\ gFtpsBegun = FALSE /\ gBusy = FALSE /\ gConnected = FALSE
  /\ gConfig \in Forms
  /\ request = [route |-> "set", op |-> "none", args |-> TRUE]
  /\ at = "loop" /\ status = 200

-----------------------------------------------------------------------------
\* A handler is at a place, and the client is not in a call.
Here(place) == at = place /\ pc = "idle"

Respond(code) == at' = "loop" /\ status' = code

\* A request that is not answered at once.
Handle(place) == at' = place /\ status' = 0

\* The end of an action.  What setOutcome records is only shown, and left out.
Conclude(value) ==
  /\ gBusy' = FALSE
  /\ Respond(IF value THEN 200 ELSE 500)
  /\ UNCHANGED request

\* A handler goes on to another place.
Proceed(place) == at' = place /\ UNCHANGED statusVars

\* Bounds the uploads of a session; not in the code.
Storable(asked) == asked \in {"upload", "copy"} => uploads < MaxStores

\* Mutant: gBusy stays set after an operation that is not known.
actionStaysBusy ==
  /\ Here("loop")
  /\ \E asked \in Actions \cup {"missing", "unknown"} :
       /\ Storable(asked)
       /\ request' = [route |-> "action", op |-> asked, args |-> TRUE]
       /\ IF asked \in Actions /\ ~gBusy
          THEN gBusy' = TRUE /\ Handle(asked)
          ELSE /\ Respond(IF gBusy /\ asked # "missing" THEN 409 ELSE 400)
               /\ gBusy' = (gBusy \/ asked = "unknown")
  /\ UNCHANGED <<vars, gFtpsBegun, gConnected, gConfig>>

\* The query of an action names one of the four, another, or none.
handleActionRequest ==
  /\ Here("loop")
  /\ \E asked \in Actions \cup {"missing", "unknown"} :
       /\ Storable(asked)
       /\ request' = [route |-> "action", op |-> asked, args |-> TRUE]
       /\ IF asked \in Actions /\ ~gBusy
          THEN gBusy' = TRUE /\ Handle(asked)
          ELSE /\ Respond(IF gBusy /\ asked # "missing" THEN 409 ELSE 400)
               /\ UNCHANGED gBusy
  /\ UNCHANGED <<vars, gFtpsBegun, gConnected, gConfig>>

\* Fields are applied in turn, and a bad one ends it: a refused request may
\* leave any mixture behind.
handleSetRequest ==
  /\ Here("loop")
  /\ request' = [route |-> "set", op |-> "none", args |-> TRUE]
  /\ \E accepted \in BOOLEAN :
       IF gBusy
       THEN Respond(409) /\ UNCHANGED gConfig
       ELSE /\ gConfig' \in Forms
            /\ Respond(IF accepted THEN 200 ELSE 400)
  /\ UNCHANGED <<vars, gFtpsBegun, gBusy, gConnected>>

-----------------------------------------------------------------------------
(***************************************************************************)
(* The actions.  Connecting is also what a file request of WebFileManager  *)
(* begins with when there is no session.                                   *)
(***************************************************************************)
\* The file request goes on, or has failed.
FsConnected(value) ==
  /\ IF value THEN at' = "fs" /\ UNCHANGED status ELSE Respond(500)
  /\ UNCHANGED <<gBusy, request>>

\* What the caller of runConnectAction does with its result.
ConnectEnds(value) ==
  \/ request.route = "action" /\ Conclude(value)
  \/ request.route = "fs" /\ FsConnected(value)

connectRefused ==
  /\ Here("connect")
  /\ ~gConfig.complete
  /\ UNCHANGED <<vars, gFtpsBegun, gConnected, gConfig>>
  /\ ConnectEnds(FALSE)

ensureFtpsBegun ==
  /\ Here("connect")
  /\ gConfig.complete /\ ~gFtpsBegun
  /\ begin
  /\ gFtpsBegun' = ok'
  /\ IF ok' THEN UNCHANGED <<statusVars, at, gConnected>>
     ELSE gConnected' = FALSE /\ ConnectEnds(FALSE)
  /\ UNCHANGED gConfig

\* connect() with the configuration of the form.
connectCalled ==
  /\ Here("connect")
  /\ gConfig.complete /\ gFtpsBegun
  /\ Enter("connect", TRUE, 0, 0)
  /\ enterConnect(gConfig.cfg, FALSE)
  /\ Proceed("connecting")
  /\ UNCHANGED <<begun, reconnectBetweenStores, gFtpsBegun, gConnected, gConfig>>

\* Mutant: only a failure is recorded.
recordFailure == gConnected' = (ok /\ gConnected)

recordConnect == gConnected' = ok

connectReturned ==
  /\ Here("connecting")
  /\ UNCHANGED <<vars, gFtpsBegun, gConfig>>
  /\ recordConnect
  /\ ConnectEnds(ok)

runConnectAction ==
  connectRefused \/ ensureFtpsBegun \/ connectCalled \/ connectReturned

\* A call of the client is made if the session and the form allow it.
runAction(place, allowed, TheCall) ==
  /\ Here(place)
  /\ IF allowed THEN TheCall /\ Proceed("calling") ELSE UNCHANGED vars /\ Conclude(FALSE)
  /\ UNCHANGED <<gFtpsBegun, gConnected, gConfig>>

runUploadAction ==
  runAction("upload", gConnected /\ gConfig.path /\ gConfig.payload > 0,
            callStore /\ argOk' /\ total' = gConfig.payload)

runDownloadAction ==
  runAction("download", gConnected /\ gConfig.path,
            callDownload("retrieve", "TransferFailed") /\ argOk' /\ room' = BufferSize)

\* The flag is left as it is whatever the transfer came to.
transferReturned ==
  /\ Here("calling")
  /\ UNCHANGED <<vars, gFtpsBegun, gConnected, gConfig>>
  /\ Conclude(ok)

quitCalled ==
  /\ Here("quit")
  /\ callQuit
  /\ Proceed("quitting")
  /\ UNCHANGED <<gFtpsBegun, gConnected, gConfig>>

\* Mutant: a failed quit returns before the flag is cleared.
quitKeepsFlag ==
  /\ Here("quitting")
  /\ UNCHANGED <<vars, gFtpsBegun, gConfig>>
  /\ gConnected' = (gConnected /\ lastError = "QuitFailed")
  /\ Conclude(lastError # "QuitFailed")

\* Judged by the error the client is left with, which an unconnected client
\* has from an earlier call.
runQuitAction ==
  /\ Here("quitting")
  /\ UNCHANGED <<vars, gFtpsBegun, gConfig>>
  /\ gConnected' = FALSE
  /\ Conclude(lastError # "QuitFailed")

-----------------------------------------------------------------------------
\* The call in progress, and the server of files, go on beneath the handler.
Beneath == (Step \/ serverLeaves) /\ UNCHANGED serverVars

Action ==
  /\ request.route = "action"
  /\ runUploadAction \/ runDownloadAction \/ transferReturned \/ quitCalled \/ runQuitAction
=============================================================================
