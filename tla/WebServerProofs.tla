--------------------------- MODULE WebServerProofs ---------------------------
(***************************************************************************)
(* The web server is a legal caller of its client, for any forms and any   *)
(* servers of files: its types, what its flag gConnected is worth, and     *)
(* that a file it reports as copied is whole.                              *)
(***************************************************************************)
EXTENDS WebFileManager, FtpsOutcomeProofs


-----------------------------------------------------------------------------
(***************************************************************************)
(* The calls of the server                                                 *)
(***************************************************************************)

\* The commands that its handlers give their client.
CommandCall ==
  \/ callStore
  \/ callDownload("list", "ListFailed") \/ callDownload("retrieve", "TransferFailed")
  \/ callExchange("mkd", "DirectoryCreateFailed") \/ callExchange("dele", "DeleteFailed")
  \/ callExchange("rename", "RenameFailed") \/ callExchange("size", "SizeQueryFailed")
  \/ callExchange("rmd", "DirectoryRemoveFailed")

LEMMA CommandCalls ==
  ASSUME CommandCall
  PROVE  Call /\ op' \in Commands /\ UNCHANGED <<begun, reconnectBetweenStores>>
<1>1. Call
  BY DEF CommandCall, Call
<1>2. {"store", "list", "retrieve", "mkd", "dele", "rename", "size", "rmd"} \subseteq Commands
  BY DEF Commands, Exchanges, Transfers
<1>3. \E call \in {"store", "list", "retrieve", "mkd", "dele", "rename", "size", "rmd"} : op' = call
  BY DEF CommandCall, callStore, callDownload, callExchange, Enter
<1>4. UNCHANGED <<begun, reconnectBetweenStores>>
  BY DEF CommandCall, callStore, callDownload, callExchange
<1>5. QED
  BY <1>1, <1>2, <1>3, <1>4

\* Where a handler waits for nothing, and where it waits for a command.
Resting == {"loop", "connect", "upload", "download", "quit", "fs"}
Waiting == {"calling", "deleting", "sizing", "fetching"}

LEMMA FileStep ==
  ASSUME fsDispatch \/ fsDelete \/ fsCopySized \/ fsCopyFetched
  PROVE  /\ at \in {"fs", "deleting", "sizing", "fetching"} /\ Idle /\ FsUnchanged
         /\ \/ UNCHANGED vars /\ \E code \in {200, 400, 413, 500} :
                 Respond(code) /\ (code = 200 => at = "deleting" /\ ok)
            \/ CommandCall /\ at' \in Waiting /\ UNCHANGED status
<1>1. CASE fsDispatch
  BY <1>1 DEF fsDispatch, Here, Answer, OneCall, Await, CommandCall, Waiting, Idle
<1>2. CASE fsDelete
  BY <1>2 DEF fsDelete, Here, Answer, OneCall, Await, CommandCall, Waiting, Idle
<1>3. CASE fsCopySized
  BY <1>3 DEF fsCopySized, Here, Answer, OneCall, Await, CommandCall, Waiting, Idle
<1>4. CASE fsCopyFetched
  BY <1>4 DEF fsCopyFetched, Here, Answer, OneCall, Await, CommandCall, Waiting, Idle
<1>5. QED
  BY <1>1, <1>2, <1>3, <1>4

LEMMA ActionStep ==
  ASSUME runUploadAction \/ runDownloadAction
  PROVE  /\ at \in {"upload", "download"} /\ Idle /\ UNCHANGED <<gFtpsBegun, gConnected, gConfig>>
         /\ \/ UNCHANGED vars /\ Conclude(FALSE)
            \/ CommandCall /\ gConnected /\ at' = "calling" /\ UNCHANGED statusVars
<1>1. CASE runUploadAction
  BY <1>1 DEF runUploadAction, runAction, Proceed, Here, CommandCall, Idle
<1>2. CASE runDownloadAction
  BY <1>2 DEF runDownloadAction, runAction, Proceed, Here, CommandCall, Idle
<1>3. QED
  BY <1>1, <1>2

\* Requests and results, which leave the client alone.
Arrives == handleActionRequest \/ handleSetRequest \/ handleFsRequest
Returns ==
  \/ request.route = "fs" /\ fsReturned
  \/ request.route = "action" /\ (transferReturned \/ runQuitAction)
  \/ connectRefused \/ connectReturned

LEMMA ClientLeftAlone ==
  ASSUME Arrives \/ Returns
  PROVE  UNCHANGED vars /\ Idle /\ UNCHANGED gFtpsBegun
<1>1. CASE Arrives
  BY <1>1 DEF Arrives, handleActionRequest, handleSetRequest, handleFsRequest, Here, Idle
<1>2. CASE Returns
  BY <1>2 DEF Returns, fsReturned, transferReturned, runQuitAction, connectRefused,
     connectReturned, Answer, FsUnchanged, Here, Idle
<1>3. QED
  BY <1>1, <1>2

\* What the server may do.
LEMMA ManagerSteps ==
  ASSUME [ManagerNext]_managerVars
  PROVE  \/ Arrives \/ Returns
         \/ fsDispatch \/ fsDelete \/ fsCopySized \/ fsCopyFetched
         \/ runUploadAction \/ runDownloadAction
         \/ quitCalled \/ ensureFtpsBegun \/ connectCalled
         \/ Beneath \/ UNCHANGED <<vars, serverVars>>
BY DEF ManagerNext, Arrival, Handler, FileRequest, Action, runConnectAction, managerVars,
   webVars, Arrives, Returns

-----------------------------------------------------------------------------
(***************************************************************************)
(* The server drives its client                                            *)
(***************************************************************************)

\* The server knows that its client has a transport, and its flag is only ever
\* set afterwards; it never lets store() reconnect.
Linked ==
  /\ gFtpsBegun => begun
  /\ gConnected \/ at = "connecting" => gFtpsBegun
  /\ ~reconnectBetweenStores

LEMMA LinkedStays ==
  ASSUME Linked, UNCHANGED <<begun, reconnectBetweenStores, gFtpsBegun>>,
         gConnected' \/ at' = "connecting" => gConnected \/ at = "connecting"
  PROVE  Linked'
BY DEF Linked

LEMMA LinkedStep ==
  ASSUME Linked, [ManagerNext]_managerVars PROVE Linked'
<1>1. CASE Arrives
  <2>1. UNCHANGED gConnected /\ at' # "connecting"
    BY <1>1 DEF Arrives, handleActionRequest, handleSetRequest, handleFsRequest, Respond, Handle,
       Actions
  <2>2. QED
    BY <1>1, <2>1, ClientLeftAlone, LinkedStays DEF vars
<1>2. CASE Returns
  <2>1. /\ gConnected' => gConnected \/ at = "connecting"
        /\ at' # "connecting"
    BY <1>2 DEF Returns, fsReturned, transferReturned, runQuitAction, connectRefused,
       connectReturned, Here, Answer, FsUnchanged, Respond, Conclude, ConnectEnds, FsConnected
  <2>2. QED
    BY <1>2, <2>1, ClientLeftAlone, LinkedStays DEF vars
<1>3. CASE fsDispatch \/ fsDelete \/ fsCopySized \/ fsCopyFetched
  <2>1. UNCHANGED <<gFtpsBegun, gConnected>> /\ at' # "connecting"
    BY <1>3, FileStep DEF FsUnchanged, Respond, Waiting
  <2>2. UNCHANGED <<begun, reconnectBetweenStores>>
    BY <1>3, FileStep, CommandCalls DEF vars
  <2>3. QED
    BY <2>1, <2>2, LinkedStays
<1>4. CASE runUploadAction \/ runDownloadAction
  <2>1. UNCHANGED <<gFtpsBegun, gConnected>> /\ at' # "connecting"
    BY <1>4, ActionStep DEF Conclude, Respond
  <2>2. UNCHANGED <<begun, reconnectBetweenStores>>
    BY <1>4, ActionStep, CommandCalls DEF vars
  <2>3. QED
    BY <2>1, <2>2, LinkedStays
<1>5. CASE quitCalled
  BY <1>5, LinkedStays DEF quitCalled, callQuit, Proceed
<1>6. CASE ensureFtpsBegun
  <2>1. /\ gFtpsBegun' = ok' /\ (ok' => begun') /\ UNCHANGED reconnectBetweenStores
        /\ at = "connect" /\ ~gConnected
    BY <1>6 DEF ensureFtpsBegun, Here, begin, Return, Linked
  <2>2. ok' => UNCHANGED <<at, gConnected>>
    BY <1>6 DEF ensureFtpsBegun
  <2>3. ~ok' => ~gConnected' /\ at' # "connecting"
    BY <1>6 DEF ensureFtpsBegun, ConnectEnds, Conclude, FsConnected, Respond
  <2>4. QED
    BY <2>1, <2>2, <2>3 DEF Linked
<1>7. CASE connectCalled
  BY <1>7 DEF connectCalled, Linked
<1>8. CASE Beneath
  <2>1. UNCHANGED <<begun, reconnectBetweenStores>>
    BY <1>8, StepKeepsConfig DEF Beneath, serverLeaves
  <2>2. QED
    BY <1>8, <2>1, LinkedStays DEF Beneath, serverVars
<1>9. CASE UNCHANGED <<vars, serverVars>>
  BY <1>9, LinkedStays DEF vars, serverVars
<1>10. QED
  BY <1>1, <1>2, <1>3, <1>4, <1>5, <1>6, <1>7, <1>8, <1>9, ManagerSteps

LEMMA ManagerLinked == ManagerSpec => []Linked
<1>1. ManagerInit => Linked
  BY DEF ManagerInit, WebInit, Init, Linked
<1>2. QED
  BY <1>1, LinkedStep, PTL DEF ManagerSpec

\* The configuration of a form is one that the application may pass.
Formed == gConfig \in Forms

LEMMA FormsStay ==
  ASSUME Formed, [ManagerNext]_managerVars PROVE Formed'
<1>1. CASE Arrives
  BY <1>1 DEF Arrives, handleActionRequest, handleSetRequest, handleFsRequest, Formed
<1>2. CASE ~Arrives
  <2>1. UNCHANGED gConfig
    BY <1>2, ManagerSteps, FileStep, ActionStep DEF Returns, fsReturned, transferReturned,
       runQuitAction, connectRefused, connectReturned, Answer, FsUnchanged, quitCalled,
       ensureFtpsBegun, connectCalled, Beneath, serverVars
  <2>2. QED
    BY <2>1 DEF Formed
<1>3. QED
  BY <1>1, <1>2

\* Every step of the server is a call of the client, a step of the call in
\* progress, or leaves the client alone.
LEMMA ServerCalls ==
  ASSUME Linked, Formed, [ManagerNext]_managerVars PROVE [Next]_vars
<1>1. CASE Arrives \/ Returns
  BY <1>1, ClientLeftAlone
<1>2. CASE \/ fsDispatch \/ fsDelete \/ fsCopySized \/ fsCopyFetched
           \/ runUploadAction \/ runDownloadAction
  BY <1>2, FileStep, ActionStep, CommandCalls DEF Next
<1>3. CASE quitCalled \/ ensureFtpsBegun
  BY <1>3 DEF quitCalled, ensureFtpsBegun, Next, Call
<1>4. CASE connectCalled
  <2>1. gConfig.cfg \in Configs /\ begun
    BY <1>4, FormsAssumption DEF connectCalled, Linked, Formed
  <2>2. callConnect
    BY <1>4, <2>1 DEF connectCalled, callConnect
  <2>3. QED
    BY <2>2 DEF Next, Call
<1>5. CASE Beneath \/ UNCHANGED <<vars, serverVars>>
  BY <1>5 DEF Beneath, Next
<1>6. QED
  BY <1>1, <1>2, <1>3, <1>4, <1>5, ManagerSteps

\* Every behaviour of the server, seen at its client, is one of FtpsClient:
\* what is proved of the client for any caller holds beneath every handler.
THEOREM ServerDrivesClient == ManagerSpec => Spec
<1>1. ManagerInit => Init /\ Formed
  BY DEF ManagerInit, WebInit, Formed
<1>2. Formed /\ [ManagerNext]_managerVars => Formed'
  BY FormsStay
<1>3. ManagerSpec => []Formed
  BY <1>1, <1>2, PTL DEF ManagerSpec
<1>4. Linked /\ Formed /\ [ManagerNext]_managerVars => [Next]_vars
  BY ServerCalls
<1>5. QED
  BY <1>1, <1>3, <1>4, ManagerLinked, PTL DEF ManagerSpec, Spec


-----------------------------------------------------------------------------
(***************************************************************************)
(* Types                                                                   *)
(***************************************************************************)

\* A handler is only at places of its own kind of request.
Routed ==
  /\ at \in {"upload", "download", "quit", "quitting"} => request.route = "action"
  /\ at \in {"fs", "deleting", "sizing", "fetching"} => request.route = "fs"
  /\ at \in {"connect", "connecting", "calling"} => request.route \in {"action", "fs"}

RoutedTyped == WebTypeOK /\ Routed

LEMMA SourceStep ==
  ASSUME source \in 0..MaxLength, [ManagerNext]_managerVars
  PROVE  /\ source' \in 0..MaxLength
         /\ UNCHANGED source \/ handleFsRequest \/ fsCopySized
<1>1. CASE handleFsRequest
  BY <1>1 DEF handleFsRequest
<1>2. CASE fsCopySized
  BY <1>2 DEF fsCopySized, OneCall, callDownload, Enter
<1>3. CASE FileRequest /\ ~fsCopySized
  BY <1>3 DEF FileRequest, fsDispatch, fsReturned, fsDelete, fsCopyFetched
<1>4. QED
  BY <1>1, <1>2, <1>3 DEF ManagerNext, Arrival, Handler, managerVars

\* The operations that need a session.
Remote == RemoteOps \cup {"connect", "upload", "download"}

\* A request is answered at once, or turned to.
LEMMA ArrivesAt ==
  ASSUME Arrives, gBusy \in BOOLEAN, gConfig \in Forms
  PROVE  /\ at = "loop" /\ UNCHANGED <<gFtpsBegun, gConnected>>
         /\ gConfig' \in Forms /\ request' \in Requests /\ status' \in Codes
         /\ request'.route = "fs" \/ request'.op # "copy"
         /\ \/ at' = "loop" /\ UNCHANGED gBusy /\ (status' = 200 => request'.op \notin Remote)
            \/ /\ at' \in Actions /\ request'.route = "action" /\ gBusy' = TRUE
               /\ request'.op = at'
            \/ /\ at' \in {"fs", "connect"} /\ request'.route = "fs" /\ ~gBusy /\ UNCHANGED gBusy
               /\ at' = "fs" => gConnected
<1>1. {0, 200, 400, 409} \subseteq Codes /\ {"missing", "local-list", "none"} \cap Remote = {}
      /\ "copy" \notin Actions
  BY DEF Codes, Remote, RemoteOps, Actions
<1>2. CASE handleActionRequest
  <2>1. PICK asked \in Actions \cup {"missing", "unknown"} :
          /\ request' = [route |-> "action", op |-> asked, args |-> TRUE]
          /\ IF asked \in Actions /\ ~gBusy
             THEN gBusy' = TRUE /\ Handle(asked)
             ELSE /\ Respond(IF gBusy /\ asked # "missing" THEN 409 ELSE 400)
                  /\ UNCHANGED gBusy
    BY <1>2 DEF handleActionRequest
  <2>2. asked \in Asked
    BY <2>1 DEF Asked
  <2>3. request' \in Requests /\ request'.route = "action" /\ request'.op = asked
        /\ asked # "copy"
    BY <1>1, <2>1, <2>2 DEF Requests
  <2>4. QED
    BY <1>1, <1>2, <2>1, <2>3 DEF handleActionRequest, Here, Handle, Respond
<1>3. CASE handleSetRequest
  BY <1>1, <1>3 DEF handleSetRequest, Here, Requests, Asked, Respond
<1>4. CASE handleFsRequest
  <2>1. PICK asked \in FsOps \cup {"missing", "unknown"}, args \in BOOLEAN :
          /\ request' = [route |-> "fs", op |-> asked, args |-> args]
          /\ CASE gBusy -> Respond(409)
               [] ~gBusy /\ asked = "missing" -> Respond(400)
               [] ~gBusy /\ asked = "local-list" -> Respond(200)
               [] OTHER -> Handle(IF gConnected THEN "fs" ELSE "connect")
    BY <1>4 DEF handleFsRequest
  <2>2. asked \in Asked
    BY <2>1 DEF Asked
  <2>3. request' \in Requests /\ request'.route = "fs" /\ request'.op = asked
    BY <2>1, <2>2 DEF Requests
  <2>4. QED
    BY <1>1, <1>4, <2>1, <2>3 DEF handleFsRequest, Here, Handle, Respond
<1>5. QED
  BY <1>2, <1>3, <1>4 DEF Arrives

LEMMA ArrivesTyped ==
  ASSUME RoutedTyped, Arrives, source' \in 0..MaxLength PROVE RoutedTyped'
<1>1. gConfig \in Forms /\ gBusy \in BOOLEAN
  BY DEF RoutedTyped, WebTypeOK
<1>2. at = "loop" => gBusy = FALSE
  BY DEF RoutedTyped, WebTypeOK
<1>3. Actions \subseteq Places /\ {"loop", "fs", "connect"} \subseteq Places
  BY DEF Places, Actions
<1>4. at' \in Places /\ Routed'
  BY <1>1, <1>3, ArrivesAt DEF Routed, Actions
<1>5. gBusy' = (at' # "loop" /\ request'.route = "action")
  BY <1>1, <1>2, ArrivesAt DEF Actions
<1>6. QED
  BY <1>1, <1>4, <1>5, ArrivesAt DEF RoutedTyped, WebTypeOK

\* The server moves to another place of the same request, or answers it.
LEMMA StaysTyped ==
  ASSUME RoutedTyped, UNCHANGED <<request, gConfig>>, source' \in 0..MaxLength,
         gFtpsBegun' \in BOOLEAN, gConnected' \in BOOLEAN,
         \/ UNCHANGED <<at, gBusy, status>>
         \/ Conclude(FALSE) \/ Conclude(TRUE)
         \/ UNCHANGED gBusy /\ request.route = "fs" /\ \E code \in Codes : Respond(code)
         \/ /\ UNCHANGED <<gBusy, status>> /\ at # "loop"
            /\ at' \in {"connecting", "calling", "deleting", "sizing", "fetching", "quitting", "fs"}
            /\ at' \in {"deleting", "sizing", "fetching", "fs"} => request.route = "fs"
            /\ at' = "quitting" => request.route = "action"
            /\ at' \in {"connecting", "calling"} => request.route \in {"action", "fs"}
  PROVE  RoutedTyped'
<1>1. gBusy = (at # "loop" /\ request.route = "action") /\ at \in Places /\ status \in Codes
  BY DEF RoutedTyped, WebTypeOK
<1>2. at' \in Places /\ status' \in Codes
  BY <1>1 DEF Conclude, Respond, Places, Codes
<1>3. gBusy' = (at' # "loop" /\ request'.route = "action")
  BY <1>1 DEF Conclude, Respond
<1>4. Routed'
  BY DEF RoutedTyped, Routed, Conclude, Respond
<1>5. UNCHANGED request
  BY DEF Conclude
<1>6. QED
  BY <1>2, <1>3, <1>4, <1>5 DEF RoutedTyped, WebTypeOK

LEMMA ReturnsTyped ==
  ASSUME RoutedTyped, Returns, ok \in BOOLEAN, source' \in 0..MaxLength PROVE RoutedTyped'
<1>1. UNCHANGED <<request, gConfig, gFtpsBegun>> /\ gConnected' \in BOOLEAN
  BY DEF Returns, fsReturned, transferReturned, runQuitAction, connectRefused, connectReturned,
     recordConnect, ConnectEnds, Conclude, FsConnected, Answer, FsUnchanged, RoutedTyped, WebTypeOK
<1>2. gFtpsBegun \in BOOLEAN /\ {0, 200, 400, 500} \subseteq Codes
  BY DEF RoutedTyped, WebTypeOK, Codes
<1>3. CASE request.route = "fs" /\ fsReturned
  <2>1. \E code \in Codes : Respond(code)
    BY <1>2, <1>3 DEF fsReturned, Answer
  <2>2. QED
    BY <1>1, <1>2, <1>3, <2>1, StaysTyped DEF fsReturned, Answer, FsUnchanged
<1>4. CASE transferReturned \/ runQuitAction
  <2>1. Conclude(FALSE) \/ Conclude(TRUE)
    BY <1>4 DEF transferReturned, runQuitAction
  <2>2. QED
    BY <1>1, <1>2, <2>1, StaysTyped
<1>5. CASE connectRefused \/ connectReturned
  <2>1. PICK value \in BOOLEAN : ConnectEnds(value)
    BY <1>5 DEF connectRefused, connectReturned
  <2>2. at # "loop"
    BY <1>5 DEF connectRefused, connectReturned, Here
  <2>3. CASE request.route = "action" /\ Conclude(value)
    <3>1. Conclude(FALSE) \/ Conclude(TRUE)
      BY <2>3
    <3>2. QED
      BY <1>1, <1>2, <3>1, StaysTyped
  <2>4. CASE request.route = "fs" /\ FsConnected(value)
    <3>1. \/ at' = "fs" /\ UNCHANGED status
          \/ Respond(500)
      BY <2>4 DEF FsConnected
    <3>2. UNCHANGED gBusy /\ 500 \in Codes
      BY <2>4 DEF FsConnected, Codes
    <3>3. QED
      BY <1>1, <1>2, <2>2, <2>4, <3>1, <3>2, StaysTyped
  <2>5. QED
    BY <2>1, <2>3, <2>4 DEF ConnectEnds
<1>6. QED
  BY <1>3, <1>4, <1>5 DEF Returns

LEMMA RoutedStep ==
  ASSUME RoutedTyped, ok \in BOOLEAN, [ManagerNext]_managerVars PROVE RoutedTyped'
<1>1. CASE Arrives
  BY <1>1, SourceStep, ArrivesTyped DEF RoutedTyped, WebTypeOK
<1> SUFFICES ASSUME ~Arrives PROVE RoutedTyped'
  BY <1>1
<1>2. source' \in 0..MaxLength
  BY SourceStep DEF RoutedTyped, WebTypeOK
<1>3. CASE Returns
  BY <1>2, <1>3, ReturnsTyped
<1>4. {gFtpsBegun, gConnected} \subseteq BOOLEAN
  BY DEF RoutedTyped, WebTypeOK
<1>5. CASE fsDispatch \/ fsDelete \/ fsCopySized \/ fsCopyFetched
  <2>1. /\ at \in {"fs", "deleting", "sizing", "fetching"} /\ FsUnchanged
        /\ \/ \E code \in {200, 400, 413, 500} : Respond(code)
           \/ at' \in Waiting /\ UNCHANGED status
    BY <1>5, FileStep
  <2>2. request.route = "fs" /\ {200, 400, 413, 500} \subseteq Codes
    BY <2>1 DEF RoutedTyped, Routed, Codes
  <2>3. UNCHANGED <<gBusy, request, gConfig>> /\ at # "loop"
        /\ gFtpsBegun' \in BOOLEAN /\ gConnected' \in BOOLEAN
    BY <1>4, <2>1 DEF FsUnchanged
  <2>4. CASE \E code \in {200, 400, 413, 500} : Respond(code)
    <3>1. \E code \in Codes : Respond(code)
      BY <2>2, <2>4
    <3>2. UNCHANGED gBusy /\ request.route = "fs" /\ \E code \in Codes : Respond(code)
      BY <2>2, <2>3, <3>1
    <3>3. QED
      BY <1>2, <2>3, <3>2, StaysTyped
  <2>5. CASE at' \in Waiting /\ UNCHANGED status
    BY <1>2, <2>2, <2>3, <2>5, StaysTyped DEF Waiting
  <2>6. QED
    BY <2>1, <2>4, <2>5
<1>6. CASE runUploadAction \/ runDownloadAction
  <2>1. /\ at \in {"upload", "download"} /\ UNCHANGED <<gFtpsBegun, gConnected, gConfig>>
        /\ Conclude(FALSE) \/ (at' = "calling" /\ UNCHANGED statusVars)
    BY <1>6, ActionStep
  <2>2. request.route = "action"
    BY <2>1 DEF RoutedTyped, Routed
  <2>3. QED
    BY <1>2, <1>4, <2>1, <2>2, StaysTyped DEF Conclude, statusVars
<1>7. CASE quitCalled
  BY <1>2, <1>4, <1>7, StaysTyped DEF quitCalled, Here, Proceed, statusVars, RoutedTyped, Routed
<1>8. CASE ensureFtpsBegun
  <2>1. ok' \in BOOLEAN
    BY <1>8 DEF ensureFtpsBegun, begin, Return
  <2>2. gFtpsBegun' \in BOOLEAN /\ gConnected' \in BOOLEAN /\ UNCHANGED <<request, gConfig>>
    BY <1>4, <1>8, <2>1 DEF ensureFtpsBegun, ConnectEnds, Conclude, FsConnected, statusVars
  <2>3. \/ UNCHANGED <<at, gBusy, status>>
        \/ Conclude(FALSE)
        \/ UNCHANGED gBusy /\ request.route = "fs" /\ Respond(500)
    BY <1>8 DEF ensureFtpsBegun, ConnectEnds, FsConnected, statusVars
  <2>4. 500 \in Codes
    BY DEF Codes
  <2>5. QED
    BY <1>2, <2>2, <2>3, <2>4, StaysTyped
<1>9. CASE connectCalled
  BY <1>2, <1>4, <1>9, StaysTyped DEF connectCalled, Here, Proceed, statusVars, RoutedTyped, Routed
<1>10. CASE Beneath \/ UNCHANGED <<vars, serverVars>>
  BY <1>2, <1>4, <1>10, StaysTyped DEF Beneath, serverVars, statusVars
<1>11. QED
  BY <1>3, <1>5, <1>6, <1>7, <1>8, <1>9, <1>10, ManagerSteps

LEMMA ServerRouted == ManagerSpec => []RoutedTyped
<1>1. ManagerInit => RoutedTyped
  <2> SUFFICES ASSUME ManagerInit PROVE RoutedTyped
    OBVIOUS
  <2>1. 0 \in 0..MaxLength
    BY BoundsAssumption
  <2>2. /\ gFtpsBegun = FALSE /\ gBusy = FALSE /\ gConnected = FALSE
        /\ request = [route |-> "set", op |-> "none", args |-> TRUE]
        /\ at = "loop" /\ status = 200 /\ source = 0 /\ gConfig \in Forms
    BY DEF ManagerInit, WebInit
  <2>3. at \in Places /\ status \in Codes /\ request \in Requests /\ Routed
    BY <2>2 DEF Places, Codes, Requests, Asked, Routed
  <2>4. gBusy = (at # "loop" /\ request.route = "action")
    BY <2>2
  <2>5. QED
    BY <2>1, <2>2, <2>3, <2>4 DEF RoutedTyped, WebTypeOK
<1>2. TypeOK => ok \in BOOLEAN
  BY DEF TypeOK
<1>3. RoutedTyped /\ TypeOK /\ [ManagerNext]_managerVars => RoutedTyped'
  BY <1>2, RoutedStep
<1>4. QED
  BY <1>1, <1>3, ServerDrivesClient, ClientTyped, PTL DEF ManagerSpec

\* gBusy is set exactly while an action is handled, whatever the requests and
\* the server of files do: no path of a handler keeps it.
THEOREM ServerTyped == ManagerSpec => []WebTypeOK
<1>1. RoutedTyped => WebTypeOK
  BY DEF RoutedTyped
<1>2. QED
  BY <1>1, ServerRouted, PTL


-----------------------------------------------------------------------------
(***************************************************************************)
(* What gConnected is worth                                                *)
(***************************************************************************)

\* Where the handlers are against the calls they have made.
Placed ==
  /\ at \in Resting => Idle
  /\ at = "connecting" => op = "connect"
  /\ at \in Waiting => op \in Commands
  /\ at \in Waiting \cup {"fs"} => gConnected
  /\ at \in {"quit", "quitting"} => request.op = "quit"

\* Where no call is under way a flag that is wrong shows in the last error.
Shown == at \in Resting /\ gConnected /\ ~connected => ftpsIsSessionDead(lastError)

LEMMA RestingPlaces ==
  /\ Resting = {"loop", "connect", "upload", "download", "quit", "fs"}
  /\ Waiting = {"calling", "deleting", "sizing", "fetching"}
  /\ Commands \cap {"begin", "connect", "quit"} = {}
BY DEF Resting, Waiting, Commands, Exchanges, Transfers

\* A command has returned, and the server has its verdict.
LEMMA CommandReturned ==
  ASSUME Placed, Idle, at \in Waiting \cup {"connecting"}, Alive, Opened
  PROVE  /\ ok => connected
         /\ at \in Waiting => gConnected /\ (connected \/ ftpsIsSessionDead(lastError))
BY RestingPlaces DEF Placed, Alive, Opened

LEMMA PlacedReturns ==
  ASSUME Placed, Returns PROVE Placed'
<1>1. UNCHANGED <<vars, request>> /\ Idle' /\ at' \in {"loop", "fs"}
      /\ (at' = "fs" => gConnected')
  <2>1. UNCHANGED vars /\ Idle
    BY ClientLeftAlone
  <2>2. Idle'
    BY <2>1 DEF vars, Idle
  <2>3. UNCHANGED request /\ at' \in {"loop", "fs"} /\ (at' = "fs" => gConnected')
    BY DEF Returns, fsReturned, transferReturned, runQuitAction, connectRefused,
       connectReturned, recordConnect, ConnectEnds, Conclude, FsConnected, Answer, FsUnchanged,
       Respond
  <2>4. QED
    BY <2>1, <2>2, <2>3
<1>2. QED
  BY <1>1, RestingPlaces DEF Placed

LEMMA PlacedStep ==
  ASSUME Linked, RoutedTyped, Placed, [ManagerNext]_managerVars PROVE Placed'
<1>1. CASE Arrives
  <2>1. UNCHANGED <<vars, gConnected>> /\ Idle
    BY <1>1, ClientLeftAlone DEF Arrives, handleActionRequest, handleSetRequest, handleFsRequest
  <2>2. Idle'
    BY <2>1 DEF vars, Idle
  <2>3. \/ at' = "loop"
        \/ at' \in Actions /\ request'.op = at'
        \/ at' \in {"fs", "connect"} /\ (at' = "fs" => gConnected)
    <3>1. gConfig \in Forms /\ gBusy \in BOOLEAN
      BY DEF RoutedTyped, WebTypeOK
    <3>2. QED
      BY <1>1, <3>1, ArrivesAt
  <2>4. QED
    BY <2>1, <2>2, <2>3, RestingPlaces DEF Placed, Actions
<1>2. CASE Returns
  BY <1>2, PlacedReturns
<1>3. CASE fsDispatch \/ fsDelete \/ fsCopySized \/ fsCopyFetched
  <2>1. at \in Waiting \cup {"fs"} /\ UNCHANGED gConnected /\ gConnected
    BY <1>3, FileStep DEF FsUnchanged, Waiting, Placed
  <2>2. CASE UNCHANGED vars /\ at' = "loop"
    <3>1. Idle'
      BY <1>3, <2>2, FileStep DEF vars, Idle
    <3>2. QED
      BY <2>2, <3>1, RestingPlaces DEF Placed
  <2>3. CASE CommandCall /\ at' \in Waiting
    BY <2>1, <2>3, CommandCalls, RestingPlaces DEF Placed
  <2>4. QED
    BY <1>3, <2>2, <2>3, FileStep DEF Respond
<1>4. CASE runUploadAction \/ runDownloadAction
  <2>1. CASE UNCHANGED vars /\ at' = "loop"
    <3>1. Idle'
      BY <1>4, <2>1, ActionStep DEF vars, Idle
    <3>2. QED
      BY <2>1, <3>1, RestingPlaces DEF Placed
  <2>2. CASE CommandCall /\ gConnected /\ at' = "calling"
    <3>1. UNCHANGED gConnected
      BY <1>4, ActionStep
    <3>2. QED
      BY <2>2, <3>1, CommandCalls, RestingPlaces DEF Placed
  <2>3. QED
    BY <1>4, <2>1, <2>2, ActionStep DEF Conclude, Respond
<1>5. CASE quitCalled
  BY <1>5, RestingPlaces DEF quitCalled, Here, Proceed, statusVars, Placed
<1>6. CASE ensureFtpsBegun
  <2>1. Idle' /\ at = "connect" /\ UNCHANGED request
    BY <1>6 DEF ensureFtpsBegun, Here, begin, Return, Idle, ConnectEnds, Conclude, FsConnected,
       statusVars
  <2>2. at' \in {"connect", "loop"}
    BY <1>6, <2>1 DEF ensureFtpsBegun, ConnectEnds, Conclude, FsConnected, Respond
  <2>3. QED
    BY <2>1, <2>2, RestingPlaces DEF Placed
<1>7. CASE connectCalled
  BY <1>7, RestingPlaces DEF connectCalled, Enter, Proceed, Placed
<1>8. CASE Beneath
  <2>1. UNCHANGED op
    BY <1>8, StepKeepsConfig DEF Beneath, serverLeaves
  <2>2. Idle => Idle'
    BY <1>8, NoStepWhenIdle DEF Beneath, serverLeaves, Idle
  <2>3. QED
    BY <1>8, <2>1, <2>2 DEF Beneath, serverVars, statusVars, Placed
<1>9. CASE UNCHANGED <<vars, serverVars>>
  BY <1>9 DEF vars, serverVars, statusVars, Placed, Idle
<1>10. QED
  BY <1>1, <1>2, <1>3, <1>4, <1>5, <1>6, <1>7, <1>8, <1>9, ManagerSteps


\* The server moves between places, or learns no more than it knew.
LEMMA ShownStays ==
  ASSUME Shown, at \in Resting, UNCHANGED <<connected, lastError>>, gConnected' => gConnected
  PROVE  Shown'
BY DEF Shown

LEMMA ShownReturns ==
  ASSUME Placed, Shown, Alive, Opened, Returns PROVE Shown'
<1>1. UNCHANGED <<connected, lastError>> /\ Idle
  BY ClientLeftAlone DEF vars, sessionVars
<1>2. CASE connectRefused
  BY <1>1, <1>2, ShownStays DEF connectRefused, Here, Resting
<1>3. CASE connectReturned
  <2>1. at = "connecting" /\ gConnected' = ok
    BY <1>3 DEF connectReturned, Here, recordConnect
  <2>2. ok => connected
    BY <1>1, <2>1, CommandReturned
  <2>3. QED
    BY <1>1, <2>1, <2>2 DEF Shown
<1>4. CASE runQuitAction
  BY <1>4 DEF runQuitAction, Shown
<1>5. CASE fsReturned \/ transferReturned
  <2>1. at \in Waiting
    BY <1>5, RestingPlaces DEF fsReturned, transferReturned, Here
  <2>2. connected \/ ftpsIsSessionDead(lastError)
    BY <1>1, <2>1, CommandReturned
  <2>3. QED
    BY <1>1, <2>2 DEF Shown
<1>6. QED
  BY <1>2, <1>3, <1>4, <1>5 DEF Returns

LEMMA ShownStep ==
  ASSUME Linked, Placed, Shown, Alive, Opened, [ManagerNext]_managerVars PROVE Shown'
<1>1. CASE Arrives
  <2>1. UNCHANGED <<connected, lastError, gConnected>> /\ at = "loop"
    BY <1>1, ClientLeftAlone DEF Arrives, handleActionRequest, handleSetRequest, handleFsRequest,
       Here, vars, sessionVars
  <2>2. QED
    BY <2>1, ShownStays, RestingPlaces
<1>2. CASE Returns
  BY <1>2, ShownReturns
<1>3. CASE fsDispatch \/ fsDelete \/ fsCopySized \/ fsCopyFetched
  <2>1. at \in Waiting \cup {"fs"} /\ Idle /\ UNCHANGED gConnected
    BY <1>3, FileStep DEF FsUnchanged, Waiting
  <2>2. CASE UNCHANGED vars
    <3>1. UNCHANGED <<connected, lastError>>
      BY <2>2 DEF vars, sessionVars
    <3>2. CASE at = "fs"
      BY <2>1, <3>1, <3>2, ShownStays, RestingPlaces
    <3>3. CASE at \in Waiting
      BY <2>1, <3>1, <3>3, CommandReturned DEF Shown
    <3>4. QED
      BY <2>1, <3>2, <3>3
  <2>3. CASE at' \in Waiting
    BY <2>3, RestingPlaces DEF Shown
  <2>4. QED
    BY <1>3, <2>2, <2>3, FileStep
<1>4. CASE runUploadAction \/ runDownloadAction
  <2>1. at \in Resting /\ UNCHANGED gConnected
    BY <1>4, ActionStep, RestingPlaces
  <2>2. CASE UNCHANGED vars
    BY <2>1, <2>2, ShownStays DEF vars, sessionVars
  <2>3. CASE at' = "calling"
    BY <2>3, RestingPlaces DEF Shown
  <2>4. QED
    BY <1>4, <2>2, <2>3, ActionStep
<1>5. CASE quitCalled \/ connectCalled
  BY <1>5, RestingPlaces DEF quitCalled, connectCalled, Proceed, Shown
<1>6. CASE ensureFtpsBegun
  <2>1. ~gConnected /\ (UNCHANGED gConnected \/ gConnected' = FALSE)
    BY <1>6 DEF ensureFtpsBegun, Linked
  <2>2. QED
    BY <2>1 DEF Shown
<1>7. CASE Beneath
  <2>1. UNCHANGED <<at, gConnected>>
    BY <1>7 DEF Beneath, serverVars
  <2>2. CASE at \in Resting
    <3>1. UNCHANGED <<connected, lastError>>
      BY <1>7, <2>2, NoStepWhenIdle DEF Beneath, serverLeaves, sessionVars, Placed
    <3>2. QED
      BY <2>1, <2>2, <3>1, ShownStays
  <2>3. QED
    BY <2>1, <2>2 DEF Shown
<1>8. CASE UNCHANGED <<vars, serverVars>>
  BY <1>8 DEF vars, sessionVars, serverVars, Shown
<1>9. QED
  BY <1>1, <1>2, <1>3, <1>4, <1>5, <1>6, <1>7, <1>8, ManagerSteps

-----------------------------------------------------------------------------
\* A response that is not a success, or that needed no session.
LEMMA NotASuccess ==
  ASSUME at' = "loop" => status' # 200 \/ request'.op \notin Remote PROVE SuccessKeepsSession'
BY DEF SuccessKeepsSession, Remote

LEMMA SuccessReturns ==
  ASSUME Placed, SuccessKeepsSession, Alive, Opened, Returns PROVE SuccessKeepsSession'
<1>1. UNCHANGED <<connected, request>> /\ Idle
  <2>1. UNCHANGED request
    BY DEF Returns, fsReturned, transferReturned, runQuitAction, connectRefused,
       connectReturned, ConnectEnds, Conclude, FsConnected, Answer, FsUnchanged
  <2>2. QED
    BY <2>1, ClientLeftAlone DEF vars, sessionVars
<1>2. CASE connectRefused
  BY <1>2, NotASuccess DEF connectRefused, ConnectEnds, Conclude, FsConnected, Respond
<1>3. CASE connectReturned
  <2>1. at = "connecting" /\ gConnected' = ok
    BY <1>3 DEF connectReturned, Here, recordConnect
  <2>2. ok => connected
    BY <1>1, <2>1, CommandReturned
  <2>3. ~ok /\ at' = "loop" => status' # 200
    BY <1>3 DEF connectReturned, ConnectEnds, Conclude, FsConnected, Respond
  <2>4. QED
    BY <1>1, <2>1, <2>2, <2>3 DEF SuccessKeepsSession
<1>4. CASE runQuitAction
  <2>1. request'.op = "quit"
    BY <1>1, <1>4 DEF runQuitAction, Here, Placed
  <2>2. QED
    BY <2>1, NotASuccess DEF Remote, RemoteOps
<1>5. CASE fsReturned \/ transferReturned
  <2>1. at \in Waiting /\ UNCHANGED gConnected
    BY <1>5, RestingPlaces DEF fsReturned, transferReturned, Here, Answer, FsUnchanged
  <2>2. gConnected /\ (ok => connected)
    BY <1>1, <2>1, CommandReturned
  <2>3. ~ok => status' # 200
    BY <1>5 DEF fsReturned, transferReturned, Answer, Conclude, Respond
  <2>4. QED
    BY <1>1, <2>1, <2>2, <2>3 DEF SuccessKeepsSession
<1>6. QED
  BY <1>2, <1>3, <1>4, <1>5 DEF Returns

LEMMA SuccessStep ==
  ASSUME RoutedTyped, Placed, SuccessKeepsSession, Alive, Opened, [ManagerNext]_managerVars
  PROVE  SuccessKeepsSession'
<1>1. CASE Arrives
  <2>1. gConfig \in Forms /\ gBusy \in BOOLEAN
    BY DEF RoutedTyped, WebTypeOK
  <2>2. QED
    BY <1>1, <2>1, ArrivesAt, NotASuccess DEF Actions
<1>2. CASE Returns
  BY <1>2, SuccessReturns
<1>3. CASE fsDispatch \/ fsDelete \/ fsCopySized \/ fsCopyFetched
  <2>1. at \in Waiting \cup {"fs"} /\ Idle /\ UNCHANGED gConnected
    BY <1>3, FileStep DEF FsUnchanged, Waiting
  <2>2. CASE UNCHANGED vars /\ \E code \in {200, 400, 413, 500} :
               Respond(code) /\ (code = 200 => at = "deleting" /\ ok)
    <3>1. status' = 200 => at = "deleting" /\ ok
      BY <2>2 DEF Respond
    <3>2. status' = 200 => connected /\ gConnected
      BY <2>1, <3>1, CommandReturned, RestingPlaces
    <3>3. UNCHANGED connected
      BY <2>2 DEF vars, sessionVars
    <3>4. QED
      BY <2>1, <3>2, <3>3 DEF SuccessKeepsSession
  <2>3. CASE at' \in Waiting
    BY <2>3, NotASuccess, RestingPlaces
  <2>4. QED
    BY <1>3, <2>2, <2>3, FileStep
<1>4. CASE runUploadAction \/ runDownloadAction
  <2>1. Conclude(FALSE) \/ at' = "calling"
    BY <1>4, ActionStep
  <2>2. QED
    BY <2>1, NotASuccess DEF Conclude, Respond
<1>5. CASE quitCalled \/ connectCalled
  BY <1>5, NotASuccess DEF quitCalled, connectCalled, Proceed
<1>6. CASE ensureFtpsBegun
  BY <1>6, NotASuccess DEF ensureFtpsBegun, Here, ConnectEnds, Conclude, FsConnected, Respond
<1>7. CASE Beneath
  <2>1. UNCHANGED <<at, gConnected, status, request>>
    BY <1>7 DEF Beneath, serverVars, statusVars
  <2>2. at = "loop" => UNCHANGED connected
    BY <1>7, NoStepWhenIdle, RestingPlaces DEF Beneath, serverLeaves, sessionVars, Placed
  <2>3. QED
    BY <2>1, <2>2 DEF SuccessKeepsSession
<1>8. CASE UNCHANGED <<vars, serverVars>>
  BY <1>8 DEF vars, sessionVars, serverVars, statusVars, SuccessKeepsSession
<1>9. QED
  BY <1>1, <1>2, <1>3, <1>4, <1>5, <1>6, <1>7, <1>8, ManagerSteps

LEMMA ServerServes == ManagerSpec => [](Placed /\ Shown /\ SuccessKeepsSession)
<1>1. ManagerInit => Placed /\ Shown /\ SuccessKeepsSession
  <2>1. ManagerInit => /\ at = "loop" /\ Idle /\ ~gConnected /\ request.op = "none"
    BY DEF ManagerInit, WebInit, Init, Idle
  <2>2. QED
    BY <2>1, RestingPlaces DEF Placed, Shown, SuccessKeepsSession, RemoteOps
<1>2. Verdicts => Alive /\ Opened
  BY DEF Verdicts
<1>3. Linked /\ RoutedTyped /\ Alive /\ Opened /\ Placed /\ Shown /\ SuccessKeepsSession
      /\ [ManagerNext]_managerVars => Placed' /\ Shown' /\ SuccessKeepsSession'
  BY PlacedStep, ShownStep, SuccessStep
<1>4. ManagerSpec => []Verdicts
  BY ServerDrivesClient, ClientVerdicts, PTL
<1>5. QED
  BY <1>1, <1>2, <1>3, <1>4, ManagerLinked, ServerRouted, PTL DEF ManagerSpec

\* When the server takes its client to be connected and it is not, the
\* client's last error is one that ends a session, so that the server could
\* tell: for any forms, requests and servers of files.
THEOREM ServerCouldTell == ManagerSpec => []StaleFlagShowsInError
<1>1. Shown => StaleFlagShowsInError
  BY RestingPlaces DEF Shown, StaleFlagShowsInError
<1>2. QED
  BY <1>1, ServerServes, PTL

\* A request that needs a session and is answered with 200 leaves a session
\* behind that the server knows of.
THEOREM ServerSuccessKeepsSession == ManagerSpec => []SuccessKeepsSession
BY ServerServes, PTL


-----------------------------------------------------------------------------
(***************************************************************************)
(* Copying a file                                                          *)
(***************************************************************************)

\* A step of a transfer gives up no final reply, or the transfer has failed.
LEMMA TransferKeepsLate ==
  ASSUME Staged, Called, pc \in TransferPhases, Step
  PROVE  /\ pc' \in TransferPhases \cup {"idle"} /\ UNCHANGED <<op, total>>
         /\ UNCHANGED late \/ (pc' = "idle" /\ ~ok')
<1>1. TransferPhases \cap (ConnectPhases \cup ExchangePhases \cup {"quit"}) = {}
  BY DEF TransferPhases, DataPhases, ConnectPhases, ExchangePhases
<1>2. \/ pasv \/ dataOpen \/ command \/ listCommand \/ transferTls
      \/ bufferFull \/ moveData \/ endOfData \/ dataError \/ drain \/ finalReply
  <2>1. pc \in ConnectPhases \/ pc # "type-i"
    BY DEF ConnectPhases
  <2>2. ~quit
    BY <1>1 DEF quit
  <2>3. ~connectTypeI
    BY <1>1, <2>1 DEF connectTypeI, ConnectStep
  <2>4. QED
    BY <1>1, <2>2, <2>3, LoginEnds, ExchangeEnds DEF Step
<1>3. pc' \in TransferPhases \cup {"idle"}
  BY <1>2, TransferEnds
<1>4. UNCHANGED <<op, total>>
  BY StepKeepsConfig
<1>5. UNCHANGED late \/ (pc' = "idle" /\ ~ok')
  <2>1. CASE pasv \/ command \/ listCommand \/ finalReply
    BY <2>1 DEF pasv, command, listCommand, transferCommand, finalReply, failAndDisconnect, Heard,
       Return
  <2>2. CASE dataOpen \/ transferTls \/ bufferFull \/ moveData \/ endOfData \/ dataError
    BY <2>2 DEF dataOpen, transferTls, bufferFull, moveData, endOfData, dataError, ServerAborts,
       replyVars
  <2>3. CASE drain
    BY <2>3 DEF drain, Return
  <2>4. QED
    BY <1>2, <2>1, <2>2, <2>3
<1>6. QED
  BY <1>3, <1>4, <1>5

\* The three calls of a copy.  What was fetched is the whole file unless a
\* final reply was given up before, and it is all that is stored.
Whole ==
  at = "calling" /\ request.op = "copy" =>
    /\ op = "store" /\ pc \in TransferPhases \cup {"idle"}
    /\ late = 0 /\ ~cutShort /\ (Idle => ok) => total = source

Copied ==
  /\ request.op = "copy" => request.route = "fs"
  /\ at = "deleting" => request.op # "copy"
  /\ at \in {"sizing", "fetching"} => request.op = "copy"
  /\ at = "fetching" => op = "retrieve" /\ total = source
  /\ Whole
  /\ CopyIsWhole

\* A response that is not a success, or not to a copy.
LEMMA NoCopy ==
  ASSUME request'.op = "copy" => request'.route = "fs",
         at' \notin {"deleting", "sizing", "fetching", "calling"},
         at' = "loop" => status' # 200 \/ request'.op # "copy"
  PROVE  Copied'
BY DEF Copied, Whole, CopyIsWhole

\* An action is no copy.
LEMMA ActionIsNoCopy ==
  ASSUME Copied, UNCHANGED request, request.route = "action",
         at' \notin {"deleting", "sizing", "fetching"}
  PROVE  Copied'
BY DEF Copied, Whole, CopyIsWhole

LEMMA CopyDispatched ==
  ASSUME Copied, fsDispatch PROVE Copied'
<1>1. UNCHANGED <<request, source>> /\ (request.op = "copy" => request.route = "fs")
  BY DEF fsDispatch, Answer, OneCall, Await, FsUnchanged, Copied
<1>2. CASE at' = "loop" /\ status' = 400
  BY <1>1, <1>2, NoCopy
<1>3. CASE at' = "calling" /\ request.op # "copy"
  BY <1>1, <1>3 DEF Copied, Whole, CopyIsWhole
<1>4. CASE at' = "deleting" /\ request.op = "delete"
  BY <1>1, <1>4 DEF Copied, Whole, CopyIsWhole
<1>5. CASE at' = "sizing" /\ request.op = "copy"
  BY <1>1, <1>5 DEF Copied, Whole, CopyIsWhole
<1>6. QED
  BY <1>2, <1>3, <1>4, <1>5 DEF fsDispatch, Answer, OneCall, Await, Respond

LEMMA CopySized ==
  ASSUME Copied, fsCopySized PROVE Copied'
<1>1. /\ UNCHANGED request /\ request.op = "copy" /\ request.route = "fs"
  BY DEF fsCopySized, Here, Answer, OneCall, Await, FsUnchanged, Copied
<1>2. CASE at' = "loop" /\ status' # 200
  BY <1>1, <1>2, NoCopy
<1>3. CASE at' = "fetching" /\ op' = "retrieve" /\ total' = source'
  BY <1>1, <1>3 DEF Copied, Whole, CopyIsWhole
<1>4. CASE ok /\ source <= BufferSize
  <2>1. callDownload("retrieve", "TransferFailed") /\ total' = source' /\ at' = "fetching"
    BY <1>4 DEF fsCopySized, OneCall, Await
  <2>2. QED
    BY <1>3, <2>1 DEF callDownload, Enter
<1>5. CASE ~(ok /\ source <= BufferSize)
  BY <1>2, <1>5 DEF fsCopySized, Answer, Respond
<1>6. QED
  BY <1>4, <1>5

LEMMA CopyFetched ==
  ASSUME Linked, Copied, SuccessIsOwn, DownloadIsWhole, fsCopyFetched PROVE Copied'
<1>1. /\ UNCHANGED <<request, source>> /\ request.op = "copy" /\ request.route = "fs"
      /\ at = "fetching" /\ Idle
  BY DEF fsCopyFetched, Here, Answer, OneCall, Await, FsUnchanged, Copied, Idle
<1>2. CASE ~ok
  <2>1. at' = "loop" /\ status' = 500
    BY <1>2 DEF fsCopyFetched, Answer, Respond
  <2>2. QED
    BY <1>1, <2>1, NoCopy
<1>3. CASE ok
  <2>1. callStore /\ total' = moved /\ argOk' /\ at' = "calling"
    BY <1>3 DEF fsCopyFetched, OneCall, Await
  <2>2. op' = "store" /\ UNCHANGED late /\ (pc' = "pasv" \/ (pc' = "idle" /\ ~ok'))
        /\ (~cutShort' => ~cutShort)
    BY <2>1 DEF Linked, callStore, Enter, storeArguments, Goto, Return, replyVars
  <2>3. late = 0 /\ ~cutShort => total' = source
    BY <1>1, <1>3, <2>1 DEF Copied, SuccessIsOwn, DownloadIsWhole
  <2>4. /\ pc' \in TransferPhases \cup {"idle"}
        /\ late' = 0 /\ ~cutShort' /\ (Idle' => ok') => total' = source'
    BY <1>1, <2>2, <2>3 DEF TransferPhases, Idle
  <2>5. QED
    BY <1>1, <2>1, <2>2, <2>4 DEF Copied, Whole, CopyIsWhole
<1>4. QED
  BY <1>2, <1>3

LEMMA CopyReturns ==
  ASSUME Copied, Returns, UNCHANGED source PROVE Copied'
<1>1. UNCHANGED <<vars, request>> /\ Idle /\ (request.op = "copy" => request.route = "fs")
  BY ClientLeftAlone DEF Returns, fsReturned, transferReturned, runQuitAction, connectRefused,
     connectReturned, ConnectEnds, Conclude, FsConnected, Answer, FsUnchanged, Copied
<1>2. CASE request.route = "fs" /\ fsReturned
  <2>1. at = "calling" /\ at' = "loop" /\ (status' = 200 => ok) /\ UNCHANGED <<late, total, cutShort>>
    BY <1>1, <1>2 DEF fsReturned, Here, Answer, Respond, vars, replyVars, callVars
  <2>2. request.op = "copy" /\ status' = 200 /\ late' = 0 /\ ~cutShort' => total' = source'
    BY <1>1, <2>1 DEF Copied, Whole
  <2>3. QED
    BY <1>1, <2>1, <2>2 DEF Copied, Whole, CopyIsWhole
<1>3. CASE request.route = "action" /\ (transferReturned \/ runQuitAction)
  <2>1. at' = "loop"
    BY <1>3 DEF transferReturned, runQuitAction, Conclude, Respond
  <2>2. QED
    BY <1>1, <1>3, <2>1, ActionIsNoCopy
<1>4. CASE connectRefused \/ connectReturned
  <2>1. PICK value : ConnectEnds(value)
    BY <1>4 DEF connectRefused, connectReturned
  <2>2. CASE request.route = "action" /\ Conclude(value)
    BY <1>1, <2>2, ActionIsNoCopy DEF Conclude, Respond
  <2>3. CASE request.route = "fs" /\ FsConnected(value)
    BY <1>1, <2>3, NoCopy DEF FsConnected, Respond
  <2>4. QED
    BY <2>1, <2>2, <2>3 DEF ConnectEnds
<1>5. QED
  BY <1>2, <1>3, <1>4 DEF Returns

\* The transfers of a copy go on beneath its handler.
LEMMA CopyBeneath ==
  ASSUME Staged, Called, Placed, Copied, Beneath, UNCHANGED source PROVE Copied'
<1>1. UNCHANGED <<at, request, status, op, total>>
  BY StepKeepsConfig DEF Beneath, serverVars, statusVars, serverLeaves, callVars
<1> ~cutShort' => ~cutShort
  BY StepCutShort DEF Beneath
<1>2. Whole'
  <2> SUFFICES ASSUME at = "calling", request.op = "copy"
               PROVE  /\ pc' \in TransferPhases \cup {"idle"}
                      /\ late' = 0 /\ ~cutShort' /\ (Idle' => ok') => total = source
    BY <1>1 DEF Whole, Copied
  <2>1. pc \in TransferPhases \cup {"idle"} /\ (late = 0 /\ ~cutShort /\ (Idle => ok) => total = source)
    BY DEF Copied, Whole
  <2>2. CASE Step
    <3>1. pc \in TransferPhases /\ pc # "idle"
      BY <2>1, <2>2, NoStepWhenIdle DEF Idle, TransferPhases, DataPhases
    <3>2. QED
      BY <2>1, <2>2, <3>1, TransferKeepsLate DEF Idle
  <2>3. CASE serverLeaves
    BY <2>1, <2>3 DEF serverLeaves, ServerLeaves, Idle
  <2>4. QED
    BY <2>2, <2>3 DEF Beneath
<1>3. CopyIsWhole'
  <2>1. at = "loop" => Idle
    BY RestingPlaces DEF Placed
  <2>2. at = "loop" => UNCHANGED late
    BY <2>1, NoStepWhenIdle DEF Beneath, serverLeaves, ServerLeaves
  <2>3. QED
    BY <1>1, <2>2 DEF Copied, CopyIsWhole
<1>4. QED
  BY <1>1, <1>2, <1>3 DEF Copied

LEMMA CopiedStep ==
  ASSUME Linked, RoutedTyped, Placed, Staged, Called, SuccessIsOwn, DownloadIsWhole, Copied,
         [ManagerNext]_managerVars
  PROVE  Copied'
<1>1. CASE Arrives
  <2>1. gConfig \in Forms /\ gBusy \in BOOLEAN
    BY DEF RoutedTyped, WebTypeOK
  <2>2. /\ request'.route = "fs" \/ request'.op # "copy"
        /\ at' \in Actions \cup {"loop", "fs", "connect"}
        /\ at' = "loop" => status' # 200 \/ request'.op \notin Remote
    BY <1>1, <2>1, ArrivesAt DEF Actions
  <2>3. QED
    BY <2>2, NoCopy DEF Actions, Remote, RemoteOps
<1> SUFFICES ASSUME ~Arrives PROVE Copied'
  BY <1>1
<1>2. CASE fsCopySized
  BY <1>2, CopySized
<1> SUFFICES ASSUME ~fsCopySized PROVE Copied'
  BY <1>2
<1>3. UNCHANGED source
  BY SourceStep DEF Arrives, RoutedTyped, WebTypeOK
<1>4. CASE Returns \/ fsDispatch \/ fsCopyFetched
  BY <1>3, <1>4, CopyReturns, CopyDispatched, CopyFetched
<1>5. CASE fsDelete
  <2>1. request.op # "copy" /\ UNCHANGED request /\ at' \in {"loop", "calling"}
    BY <1>5 DEF fsDelete, Here, Answer, OneCall, Await, FsUnchanged, Respond, Copied
  <2>2. QED
    BY <2>1 DEF Copied, Whole, CopyIsWhole
<1>6. CASE runUploadAction \/ runDownloadAction
  <2>1. at \in {"upload", "download"} /\ UNCHANGED request /\ at' \in {"loop", "calling"}
    BY <1>6, ActionStep DEF Conclude, Respond, statusVars
  <2>2. request.route = "action"
    BY <2>1 DEF RoutedTyped, Routed
  <2>3. QED
    BY <2>1, <2>2, ActionIsNoCopy
<1>7. CASE quitCalled \/ connectCalled
  <2>1. UNCHANGED request /\ at' \in {"quitting", "connecting"}
    BY <1>7 DEF quitCalled, connectCalled, Proceed, statusVars
  <2>2. QED
    BY <2>1, NoCopy DEF Copied
<1>8. CASE ensureFtpsBegun
  <2>1. UNCHANGED request /\ at' \in {"connect", "loop"} /\ (at' = "loop" => status' # 200)
    BY <1>8 DEF ensureFtpsBegun, Here, ConnectEnds, Conclude, FsConnected, Respond, statusVars
  <2>2. QED
    BY <2>1, NoCopy DEF Copied
<1>9. CASE Beneath
  BY <1>3, <1>9, CopyBeneath
<1>10. CASE UNCHANGED <<vars, serverVars>>
  BY <1>3, <1>10 DEF vars, replyVars, callVars, serverVars, statusVars, Copied, Whole, CopyIsWhole,
     Idle
<1>11. QED
  BY <1>4, <1>5, <1>6, <1>7, <1>8, <1>9, <1>10, ManagerSteps

\* A copy that is reported as a success has stored as many bytes as the file
\* had when it was fetched, unless the client saw an end of the data that the
\* server of files knows nothing of: for any file that changes after it was
\* measured, and any server whose replies are those of RFC 959.
THEOREM ServerCopiesWhole ==
  ASSUME StandardAnswers, OrderlyAnswers PROVE ManagerSpec => []CopyIsWhole
<1>1. ManagerInit => Copied
  BY DEF ManagerInit, WebInit, Copied, Whole, CopyIsWhole
<1>2. ManagerSpec => [](Staged /\ Called /\ SuccessIsOwn /\ DownloadIsWhole)
  BY ServerDrivesClient, ClientStaged, ClientCalled, ClientSucceedsOnItsOwn, ClientDownloadsWhole,
     PTL
<1>3. Linked /\ RoutedTyped /\ Placed /\ Staged /\ Called /\ SuccessIsOwn /\ DownloadIsWhole
      /\ Copied /\ [ManagerNext]_managerVars => Copied'
  BY CopiedStep
<1>4. ManagerSpec => []Copied
  BY <1>1, <1>2, <1>3, ManagerLinked, ServerRouted, ServerServes, PTL DEF ManagerSpec
<1>5. Copied => CopyIsWhole
  BY DEF Copied
<1>6. QED
  BY <1>4, <1>5, PTL
=============================================================================
