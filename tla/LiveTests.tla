------------------------------ MODULE LiveTests ------------------------------
(***************************************************************************)
(* The example programs that do one thing after another and stop at the    *)
(* first that fails: the live tests of three servers, BasicUpload and      *)
(* BasicDownload.  Each is setup() of a sketch of its own; script is the   *)
(* list of calls it has still to make between connect() and quit(), and at *)
(* the place it has reached.  It ends as its client object does.           *)
(***************************************************************************)
EXTENDS FtpsClient

VARIABLES script, at

liveVars == <<script, at>>

\* FileZillaLiveTest leaves out what its switches say, and the nested
\* directory if it is the parent.
fileZillaScripts ==
  {directories \o upload \o sizes \o download :
     directories \in {<<>>, <<"mkd">>, <<"mkd", "mkd">>},
     upload \in {<<>>, <<"store">>}, sizes \in {<<>>, <<"size">>},
     download \in {<<>>, <<"retrieve">>}}

pyftpdlibScript == <<"mkd", "mkd", "store", "size", "retrieve">>

wdMyCloudScript == <<"mkd", "mkd", "store", "size", "retrieve">>

basicUploadScript == <<"store">>

basicDownloadScript == <<"retrieve">>

Scripts ==
  fileZillaScripts \cup {pyftpdlibScript, wdMyCloudScript, basicUploadScript, basicDownloadScript}

\* The types of the test's own state; what is still to do is the end of a
\* script, and while a call is made it is the first of that.
LiveTypeOK ==
  /\ at \in {"begin", "connect", "connecting", "next", "calling", "quitting", "done"}
  /\ \E whole \in Scripts : \E n \in 0..Len(whole) : script = SubSeq(whole, n + 1, Len(whole))
  /\ at = "calling" => script # <<>> /\ op = Head(script)

LiveInit == Init /\ script \in Scripts /\ at = "begin"

-----------------------------------------------------------------------------
\* The client has come back from the call made at a place.
BackFrom(place) == at = place /\ pc = "idle" /\ UNCHANGED vars

testEthernet ==
  /\ at = "begin"
  /\ at' = "done"
  /\ UNCHANGED <<vars, script>>

testBegin ==
  /\ at = "begin"
  /\ begin
  /\ at' = IF ok' THEN "connect" ELSE "done"
  /\ UNCHANGED script

testConnect ==
  /\ at = "connect"
  /\ callConnect
  /\ at' = "connecting"
  /\ UNCHANGED script

testConnected ==
  /\ BackFrom("connecting")
  /\ at' = IF ok THEN "next" ELSE "done"
  /\ UNCHANGED script

\* Mutant: the call is struck off before it has passed.
testCallForgotten(name, TheCall) ==
  /\ at = "next" /\ script # <<>> /\ Head(script) = name
  /\ TheCall /\ argOk'
  /\ at' = "calling"
  /\ script' = Tail(script)

\* The arguments are constants of the sketch and pass the client's checks.
testCall(name, TheCall) ==
  /\ at = "next" /\ script # <<>> /\ Head(script) = name
  /\ TheCall /\ argOk'
  /\ at' = "calling"
  /\ UNCHANGED script

ensureRemoteDirectory == testCall("mkd", callExchange("mkd", "DirectoryCreateFailed"))
testStore    == testCall("store", callStore /\ total' = MaxLength)
testSize     == testCall("size", callExchange("size", "SizeQueryFailed"))
testRetrieve == testCall("retrieve", callDownload("retrieve", "TransferFailed"))

testPassed ==
  /\ BackFrom("calling") /\ ok
  /\ script' = Tail(script)
  /\ at' = "next"

\* Mutants: the test goes on with the next call; it makes the call again; it
\* returns without parting.
goesOn == script' = Tail(script) /\ at' = "next" /\ UNCHANGED vars

triesAgain == at' = "next" /\ UNCHANGED <<vars, script>>

returnsAtOnce == at' = "done" /\ UNCHANGED <<vars, script>>

partsAfterFailure == callQuit /\ at' = "quitting" /\ UNCHANGED script

testFailed ==
  /\ at = "calling" /\ pc = "idle" /\ ~ok
  /\ partsAfterFailure

testQuit ==
  /\ at = "next" /\ script = <<>>
  /\ callQuit
  /\ at' = "quitting"
  /\ UNCHANGED script

\* reportQuitStatus warns if lastError is QuitFailed, and setup() returns.
reportQuitStatus ==
  /\ BackFrom("quitting")
  /\ at' = "done"
  /\ UNCHANGED script

Test ==
  \/ testEthernet \/ testBegin \/ testConnect \/ testConnected
  \/ ensureRemoteDirectory \/ testStore \/ testSize \/ testRetrieve
  \/ testPassed \/ testFailed \/ testQuit \/ reportQuitStatus

CallGoesOn == (Step \/ serverLeaves) /\ UNCHANGED liveVars

LiveNext == Test \/ CallGoesOn

\* setup() runs on, and a call that has begun goes on.
LiveSpec ==
  /\ LiveInit /\ [][LiveNext]_<<vars, liveVars>>
  /\ WF_<<vars, liveVars>>(Test)
  /\ WF_<<vars, liveVars>>(Step /\ UNCHANGED liveVars)

-----------------------------------------------------------------------------
\* Every call of a test finds its session in step, with a server so slow that
\* final replies are abandoned too: a transfer that gave its final reply up
\* has failed, and after a failure there is no call but quit().
CallsFindSessionInStep == at = "next" => connected /\ (peer = "up" => owed = <<>>)

\* A test that has ended has left the server and closed every socket, at
\* whatever point it failed.
EndsWithoutSession == at = "done" => ~connected /\ held = 0

\* Every test ends, whatever the server does or fails to do.
TestEnds == <>(at = "done")
=============================================================================
