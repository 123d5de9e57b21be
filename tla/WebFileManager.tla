--------------------------- MODULE WebFileManager ---------------------------
(***************************************************************************)
(* The WebFileManagerLiveTest sketch: the web harness with file requests,  *)
(* which connect by themselves when gConnected says there is no session,   *)
(* and of which deleting and copying are several calls of the client.      *)
(***************************************************************************)
EXTENDS WebHarness

VARIABLE source   \* bytes of the remote file to copy, when it was last looked at

managerVars == <<webVars, source>>

RemoteOps == {"remote-list", "remote-mkdir", "delete", "move", "copy"}
FsOps     == RemoteOps \cup {"local-list"}
Asked     == Actions \cup FsOps \cup {"none", "missing", "unknown"}
Requests  == [route : {"action", "set", "fs"}, op : Asked, args : BOOLEAN]
Places    == Actions \cup {"loop", "connecting", "calling", "quitting", "fs",
                           "deleting", "sizing", "fetching"}

\* The types of the server's state.  gBusy is set exactly while an action is
\* handled: every path of every handler gives it back, or no later request
\* would be taken up.
WebTypeOK ==
  /\ {gFtpsBegun, gConnected} \subseteq BOOLEAN
  /\ gConfig \in Forms
  /\ request \in Requests
  /\ at \in Places
  /\ status \in Codes
  /\ source \in 0..MaxLength
  /\ gBusy = (at # "loop" /\ request.route = "action")

ManagerInit == WebInit /\ source = 0

-----------------------------------------------------------------------------
\* What of the server's state a file request changes: only its own progress.
FsUnchanged == UNCHANGED <<gFtpsBegun, gBusy, gConnected, gConfig, request>>

Answer(code) == Respond(code) /\ FsUnchanged
Await(place) == at' = place /\ UNCHANGED status /\ FsUnchanged

\* The path is that of the request or of the form; args says whether the
\* paths the operation needs are given.  The operation's name is looked at
\* after the connection was made.
handleFsRequest ==
  /\ Here("loop")
  /\ \E asked \in FsOps \cup {"missing", "unknown"}, args \in BOOLEAN, length \in 0..MaxLength :
       /\ asked \in {"missing", "unknown", "local-list", "remote-list"} => args
       /\ asked # "copy" => length = 0
       /\ Storable(asked)
       /\ request' = [route |-> "fs", op |-> asked, args |-> args]
       /\ source' = length
       /\ CASE gBusy -> Respond(409)
            [] ~gBusy /\ asked = "missing" -> Respond(400)
            [] ~gBusy /\ asked = "local-list" -> Respond(200)
            [] OTHER -> Handle(IF gConnected THEN "fs" ELSE "connect")
  /\ UNCHANGED <<vars, gFtpsBegun, gBusy, gConnected, gConfig>>

\* The call an operation begins with, and where its handler waits for it.
OneCall(theCall, place) == theCall /\ argOk' /\ Await(place)

fsDispatch ==
  /\ Here("fs")
  /\ \/ /\ ~request.args \/ request.op = "unknown"
        /\ Answer(400) /\ UNCHANGED vars
     \/ /\ request.args /\ request.op = "remote-list"
        /\ OneCall(callDownload("list", "ListFailed") /\ room' = BufferSize, "calling")
     \/ /\ request.args /\ request.op = "remote-mkdir"
        /\ OneCall(callExchange("mkd", "DirectoryCreateFailed"), "calling")
     \/ /\ request.args /\ request.op = "delete"
        /\ OneCall(callExchange("dele", "DeleteFailed"), "deleting")
     \/ /\ request.args /\ request.op = "move"
        /\ OneCall(callExchange("rename", "RenameFailed"), "calling")
     \/ /\ request.args /\ request.op = "copy"
        /\ OneCall(callExchange("size", "SizeQueryFailed"), "sizing")
  /\ UNCHANGED source

fsReturned ==
  /\ Here("calling")
  /\ Answer(IF ok THEN 200 ELSE 500)
  /\ UNCHANGED <<vars, source>>

\* What is not deleted as a file is tried as a directory.
fsDelete ==
  /\ Here("deleting")
  /\ IF ok THEN Answer(200) /\ UNCHANGED vars
     ELSE OneCall(callExchange("rmd", "DirectoryRemoveFailed"), "calling")
  /\ UNCHANGED source

\* The file that is fetched need not be the one that was measured: another
\* client of the server may have written it since.
fsCopySized ==
  /\ Here("sizing")
  /\ IF ok /\ source <= BufferSize
     THEN /\ OneCall(callDownload("retrieve", "TransferFailed") /\ room' = BufferSize, "fetching")
          /\ source' = total'
     ELSE Answer(IF ok THEN 413 ELSE 500) /\ UNCHANGED <<vars, source>>

\* Mutant: the whole buffer is stored.
fsCopyBuffer ==
  /\ Here("fetching")
  /\ IF ok THEN OneCall(callStore /\ total' = room, "calling")
     ELSE Answer(500) /\ UNCHANGED vars
  /\ UNCHANGED source

fsCopyFetched ==
  /\ Here("fetching")
  /\ IF ok THEN OneCall(callStore /\ total' = moved, "calling")
     ELSE Answer(500) /\ UNCHANGED vars
  /\ UNCHANGED source

-----------------------------------------------------------------------------
FileRequest ==
  /\ request.route = "fs"
  /\ fsDispatch \/ fsReturned \/ fsDelete \/ fsCopySized \/ fsCopyFetched

Handler == FileRequest \/ ((Action \/ runConnectAction) /\ UNCHANGED source)

Arrival ==
  \/ (handleActionRequest \/ handleSetRequest) /\ UNCHANGED source
  \/ handleFsRequest

ManagerNext == Arrival \/ Handler \/ (Beneath /\ UNCHANGED source)

ManagerSpec == ManagerInit /\ [][ManagerNext]_managerVars

-----------------------------------------------------------------------------
\* A session may be lost without gConnected knowing.  Then the client's last
\* error says so: an error that ends the session is never followed by another
\* call's, so that the server could tell from it.
StaleFlagShowsInError ==
  at = "loop" /\ gConnected /\ ~connected => ftpsIsSessionDead(lastError)

\* A request that uses the session and succeeds leaves one behind, and the
\* server knows of it.
SuccessKeepsSession ==
  at = "loop" /\ status = 200 /\ request.op \in RemoteOps \cup {"connect", "upload", "download"}
    => connected /\ gConnected

\* A copy that is reported as a success has stored as many bytes as the file
\* had when it was fetched, whatever became of the three calls it is made of
\* and of the file since it was measured, unless the client saw an end of the
\* data that the server knows nothing of: what SIZE said is not looked at again.
CopyIsWhole ==
  at = "loop" /\ status = 200 /\ request.op = "copy" /\ late = 0 /\ ~cutShort => total = source
=============================================================================
