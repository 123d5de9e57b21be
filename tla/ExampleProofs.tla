---------------------------- MODULE ExampleProofs ----------------------------
(***************************************************************************)
(* The example programs are legal callers of the client, so that what is   *)
(* proved of the client for any caller holds beneath them.                 *)
(*                                                                         *)
(* RetryUpload: its attempts and its count of files stay within their      *)
(* bounds, and what it concludes from an error is right: it attempts a     *)
(* file only on a session that goes on, repeats no upload that had begun,  *)
(* and gives up only a session that is over.                               *)
(*                                                                         *)
(* LiveTests: what a test has still to do is the end of its script, every  *)
(* call of a test finds the session in step, and a test that has ended has *)
(* left nothing behind.                                                    *)
(***************************************************************************)
EXTENDS RetryUpload, LiveTests, FtpsOutcomeProofs

-----------------------------------------------------------------------------
(***************************************************************************)
(* RetryUpload                                                             *)
(***************************************************************************)
\* Every step of the program is a call of the client, a step of the call in
\* progress, or a step of its own that leaves the client alone.
LEMMA SetupDrivesClient ==
  ASSUME RetryNext PROVE [Next]_vars
<1>1. CASE setupBegin BY <1>1 DEF setupBegin, Next, Call
<1>2. CASE setupConnect BY <1>2 DEF setupConnect, Next, Call
<1>3. CASE setupOptOut BY <1>3 DEF setupOptOut, Next, Call
<1>4. CASE beginAttempt BY <1>4 DEF beginAttempt, Next, Call
<1>5. CASE setupQuit BY <1>5 DEF setupQuit, Next, Call
<1>6. CASE setupConnected \/ setupReturn BY <1>6 DEF setupConnected, setupReturn
<1>7. CASE uploaded \/ backOff \/ givenUp
  BY <1>7 DEF uploaded, backOff, givenUp, Returned
<1>8. CASE Beneath BY <1>8 DEF Beneath, Next
<1> QED
  BY <1>1, <1>2, <1>3, <1>4, <1>5, <1>6, <1>7, <1>8 DEF RetryNext, Setup

\* Every behaviour of storeWithRetry and setup(), seen at the client, is one
\* of FtpsClient: the theorems about the client hold of this program.
THEOREM RetryDrivesClient == RetrySpec => Spec
<1>1. RetryInit => Init BY DEF RetryInit
<1>2. [RetryNext]_allVars => [Next]_vars
  BY SetupDrivesClient DEF allVars
<1> QED BY <1>1, <1>2, PTL DEF RetrySpec, Spec

-----------------------------------------------------------------------------
\* The types, and what they need to be inductive: there is a file left
\* whenever an attempt is made, and an attempt left whenever one begins.
Budget ==
  /\ RetryTypeOK
  /\ app \in {"begin", "connect", "connecting", "connected"}
       => attempt = 0 /\ stored = 0 /\ failed = 0
  /\ app \in {"upload", "storing"} => stored + failed < Uploads
  /\ app = "upload" => attempt < MaxAttempts

USE BatchAssumption

\* Steps that leave the batch as it is.
LEMMA PlacesKeepBudget ==
  ASSUME Budget, UNCHANGED batchVars, app' \in Places,
         \/ app' = app
         \/ app \in {"begin", "connect", "connecting", "connected"}
            /\ app' \in {"connect", "connecting", "connected", "upload", "done"}
         \/ app' \in {"quitting", "done"}
         \/ app = "storing" /\ app' = "upload" /\ attempt < MaxAttempts
  PROVE  Budget'
BY DEF Budget, RetryTypeOK, batchVars, Places

\* Turning to the next file, or ending, after a file was counted.
LEMMA NextFileKeepsBudget ==
  ASSUME Budget, app = "storing",
         \/ stored' = stored + 1 /\ failed' = failed
         \/ failed' = failed + 1 /\ stored' = stored,
         nextFile \/ (app' = "quit" /\ UNCHANGED attempt)
  PROVE  Budget'
BY DEF Budget, RetryTypeOK, nextFile, Places

\* An attempt is counted.
LEMMA AttemptKeepsBudget ==
  ASSUME Budget, beginAttempt PROVE Budget'
BY DEF Budget, RetryTypeOK, beginAttempt, Places

LEMMA RetryNextKeepsBudget ==
  ASSUME Budget, [RetryNext]_allVars PROVE Budget'
<1>1. CASE UNCHANGED allVars
  BY <1>1, PlacesKeepBudget DEF allVars, Budget, RetryTypeOK
<1>2. CASE setupBegin \/ setupConnect \/ setupConnected \/ setupOptOut
  BY <1>2, PlacesKeepBudget
     DEF setupBegin, setupConnect, setupConnected, setupOptOut, Places
<1>3. CASE beginAttempt BY <1>3, AttemptKeepsBudget
<1>4. CASE uploaded BY <1>4, NextFileKeepsBudget DEF uploaded, Returned
<1>5. CASE backOff BY <1>5, PlacesKeepBudget DEF backOff, Returned, retries, Places
<1>6. CASE givenUp
  BY <1>6, NextFileKeepsBudget DEF givenUp, Returned, afterFailure
<1>7. CASE setupQuit \/ setupReturn
  BY <1>7, PlacesKeepBudget DEF setupQuit, setupReturn, Places
<1>8. CASE Beneath
  BY <1>8, PlacesKeepBudget DEF Beneath, Budget, RetryTypeOK
<1> QED
  BY <1>1, <1>2, <1>3, <1>4, <1>5, <1>6, <1>7, <1>8 DEF RetryNext, Setup

LEMMA RetryBudgeted == RetrySpec => []Budget
<1>1. RetryInit => Budget
  BY DEF RetryInit, Budget, RetryTypeOK, Places
<1>2. QED
  BY <1>1, RetryNextKeepsBudget, PTL DEF RetrySpec

\* No file is attempted more than MAX_ATTEMPTS times, and no file is counted
\* twice, for every batch and every server.
THEOREM RetryTyped == RetrySpec => []RetryTypeOK
<1>1. Budget => RetryTypeOK
  BY DEF Budget
<1>2. QED
  BY <1>1, RetryBudgeted, PTL

LEMMA PlacesToPass ==
  /\ toPass["begin"] = 8 /\ toPass["connect"] = 7 /\ toPass["connecting"] = 6
  /\ toPass["connected"] = 5 /\ toPass["storing"] = 4 /\ toPass["upload"] = 3
  /\ toPass["quit"] = 2 /\ toPass["quitting"] = 1 /\ toPass["done"] = 0
BY DEF toPass, Places

\* setup() comes to its end: a file is counted once and attempted at most
\* MAX_ATTEMPTS times, and every other step leads ahead.
THEOREM RetryGetsOn == RetrySpec => SetupGetsOn
<1> DEFINE GetsOn == \/ counted < counted' /\ counted' <= Uploads
                     \/ UNCHANGED counted /\ attempt < attempt' /\ attempt' <= MaxAttempts
                     \/ UNCHANGED <<counted, attempt>> /\ toPass[app'] < toPass[app]
<1>1. Budget /\ Setup => GetsOn
  <2> SUFFICES ASSUME Budget, Setup PROVE GetsOn
    OBVIOUS
  <2>1. UNCHANGED batchVars => UNCHANGED <<counted, attempt>>
    BY DEF batchVars, counted
  <2>2. /\ stored \in Nat /\ failed \in Nat /\ attempt \in Nat /\ Uploads \in Nat /\ MaxAttempts \in Nat
        /\ app \in {"upload", "storing"} => stored + failed < Uploads
        /\ app = "upload" => attempt < MaxAttempts
    BY BatchAssumption DEF Budget, RetryTypeOK
  <2>3. CASE setupBegin \/ setupConnect \/ setupConnected \/ setupOptOut
    BY <2>1, <2>3, PlacesToPass DEF setupBegin, setupConnect, setupConnected, setupOptOut
  <2>4. CASE beginAttempt
    <3>1. app = "upload" /\ attempt' = attempt + 1 /\ stored' = stored /\ failed' = failed
      BY <2>4 DEF beginAttempt
    <3>2. counted' = counted
      BY <3>1 DEF counted
    <3>3. attempt < attempt' /\ attempt' <= MaxAttempts
      BY <2>2, <3>1
    <3>4. QED
      BY <3>2, <3>3
  <2>5. CASE backOff
    BY <2>1, <2>5, PlacesToPass DEF backOff, Returned
  <2>6. CASE uploaded \/ givenUp
    <3>1. /\ app = "storing"
          /\ \/ stored' = stored + 1 /\ failed' = failed
             \/ failed' = failed + 1 /\ stored' = stored
      BY <2>6 DEF uploaded, givenUp, Returned
    <3>2. counted < counted' /\ counted' <= Uploads
      BY <2>2, <3>1 DEF counted
    <3>3. QED
      BY <3>2
  <2>7. CASE setupQuit \/ setupReturn
    BY <2>1, <2>7, PlacesToPass DEF setupQuit, setupReturn
  <2>8. QED
    BY <2>3, <2>4, <2>5, <2>6, <2>7 DEF Setup
<1>2. QED
  BY <1>1, RetryBudgeted, PTL DEF SetupGetsOn

-----------------------------------------------------------------------------
(***************************************************************************)
(* What the program concludes from an error                                *)
(***************************************************************************)

\* Where the program is, against the call it has made and the session it has.
Driven ==
  /\ app \notin {"connecting", "storing", "quitting"} => Idle
  /\ app = "connecting" => op = "connect"
  /\ app = "storing" => op = "store"
  /\ app \notin {"begin", "done"} => begun
  /\ ~reconnectBetweenStores

\* The client's verdict on its session is right for every command, since the
\* program never lets store() reconnect.
Decided ==
  /\ Judged
  /\ app \in {"connected", "upload"} => connected
  /\ app = "quit" /\ stored + failed < Uploads => ~connected

\* The steps beneath the program leave its client driven.
LEMMA BeneathDriven ==
  ASSUME Driven, Beneath PROVE Driven'
<1>1. UNCHANGED <<op, begun, reconnectBetweenStores, app>>
  BY StepKeepsConfig DEF Beneath, serverLeaves
<1>2. Idle => UNCHANGED pc
  BY NoStepWhenIdle DEF Beneath, serverLeaves
<1>3. QED
  BY <1>1, <1>2 DEF Driven, Idle

LEMMA ReturnsDriven ==
  ASSUME Driven, app = "storing", UNCHANGED vars, Idle, app' \in {"upload", "quit"}
  PROVE  Driven'
BY DEF Driven, Idle, vars

LEMMA RetryDriven ==
  ASSUME Driven, [RetryNext]_allVars PROVE Driven'
<1>1. CASE setupBegin
  <2>1. /\ pc' = "idle" /\ UNCHANGED reconnectBetweenStores
        /\ ok' => begun'
    BY <1>1 DEF setupBegin, begin, Return
  <2>2. app' = IF ok' THEN "connect" ELSE "done"
    BY <1>1 DEF setupBegin
  <2>3. QED
    BY <2>1, <2>2 DEF Driven, Idle
<1>2. CASE setupConnect
  BY <1>2 DEF setupConnect, callConnect, Enter, Driven
<1>3. CASE setupConnected \/ setupReturn
  BY <1>3 DEF setupConnected, setupReturn, vars, Driven, Idle
<1>4. CASE setupOptOut
  BY <1>4 DEF setupOptOut, setReconnectBetweenStores, Driven, Idle
<1>5. CASE beginAttempt
  BY <1>5 DEF beginAttempt, callStore, Enter, Driven
<1>6. CASE uploaded \/ backOff \/ givenUp
  BY <1>6, ReturnsDriven
     DEF uploaded, backOff, givenUp, Returned, nextFile, afterFailure, Idle
<1>7. CASE setupQuit
  BY <1>7 DEF setupQuit, callQuit, Driven
<1>8. CASE Beneath
  BY <1>8, BeneathDriven
<1>9. CASE UNCHANGED allVars
  BY <1>9 DEF allVars, vars, Driven, Idle
<1>10. QED
  BY <1>1, <1>2, <1>3, <1>4, <1>5, <1>6, <1>7, <1>8, <1>9 DEF RetryNext, Setup

LEMMA JudgedStays ==
  ASSUME Driven, Staged, Called, Alive, Opened, Judged, [RetryNext]_allVars PROVE Judged'
<1>1. [Next]_vars
  BY SetupDrivesClient DEF allVars
<1>2. CASE callStore
  BY <1>2, StoreEntered DEF Driven
<1>3. CASE ~callStore
  BY <1>1, <1>3, NextVerdicts
<1>4. QED
  BY <1>2, <1>3

LEMMA RetryDecides ==
  ASSUME Driven, Staged, Called, Alive, Opened, Decided, [RetryNext]_allVars PROVE Decided'
<1>1. Judged'
  BY JudgedStays DEF Decided
<1>2. CASE UNCHANGED allVars
  BY <1>1, <1>2 DEF allVars, vars, batchVars, sessionVars, Decided
<1>3. CASE setupBegin \/ setupConnect \/ beginAttempt \/ setupQuit \/ setupReturn
  <2>1. app' \notin {"connected", "upload", "quit"}
    BY <1>3 DEF setupBegin, setupConnect, beginAttempt, setupQuit, setupReturn
  <2>2. QED
    BY <1>1, <2>1 DEF Decided
<1>4. CASE setupConnected
  <2>1. ok => connected
    BY <1>4 DEF setupConnected, Driven, Opened, Idle
  <2>2. app' = IF ok THEN "connected" ELSE "done"
    BY <1>4 DEF setupConnected
  <2>3. UNCHANGED connected
    BY <1>4 DEF setupConnected, vars, sessionVars
  <2>4. QED
    BY <1>1, <2>1, <2>2, <2>3 DEF Decided
<1>5. CASE setupOptOut
  BY <1>1, <1>5 DEF setupOptOut, setReconnectBetweenStores, sessionVars, Decided
<1>6. CASE uploaded \/ backOff \/ givenUp
  <2>1. app = "storing" /\ Idle /\ op = "store" /\ begun /\ UNCHANGED connected
    BY <1>6 DEF uploaded, backOff, givenUp, Returned, Driven, Idle, vars, sessionVars
  <2>2. op \in Commands
    BY <2>1 DEF Commands, Transfers
  <2>3. CASE uploaded
    <3>1. connected
      BY <2>1, <2>3 DEF Opened, uploaded
    <3>2. app' = "quit" => ~(stored' + failed' < Uploads)
      BY <2>3 DEF uploaded, nextFile
    <3>3. QED
      BY <1>1, <2>1, <3>1, <3>2 DEF Decided
  <2>4. CASE backOff
    <3>1. connected /\ app' = "upload"
      BY <2>1, <2>2, <2>4 DEF Alive, backOff, retries
    <3>2. QED
      BY <1>1, <2>1, <3>1 DEF Decided
  <2>5. CASE givenUp /\ ftpsIsSessionDead(lastError)
    <3>1. ~connected /\ app' = "quit"
      BY <2>1, <2>2, <2>5 DEF Decided, Judged, givenUp, afterFailure
    <3>2. QED
      BY <1>1, <2>1, <3>1 DEF Decided
  <2>6. CASE givenUp /\ ~ftpsIsSessionDead(lastError)
    <3>1. connected
      BY <2>1, <2>2, <2>6 DEF Alive, givenUp
    <3>2. app' = "quit" => ~(stored' + failed' < Uploads)
      BY <2>6 DEF givenUp, afterFailure, nextFile
    <3>3. QED
      BY <1>1, <2>1, <3>1, <3>2 DEF Decided
  <2>7. QED
    BY <1>6, <2>3, <2>4, <2>5, <2>6
<1>7. CASE Beneath
  <2>1. UNCHANGED <<app, stored, failed>>
    BY <1>7 DEF Beneath, batchVars
  <2>2. app \in {"connected", "upload", "quit"} => UNCHANGED connected
    <3>1. app \in {"connected", "upload", "quit"} => Idle
      BY DEF Driven
    <3>2. QED
      BY <1>7, <3>1, NoStepWhenIdle DEF Beneath, serverLeaves, sessionVars
  <2>3. QED
    BY <1>1, <2>1, <2>2 DEF Decided
<1>8. QED
  BY <1>2, <1>3, <1>4, <1>5, <1>6, <1>7 DEF RetryNext, Setup

LEMMA RetryDecided == RetrySpec => [](Driven /\ Decided)
<1>1. RetryInit => Driven /\ Decided
  BY DEF RetryInit, Init, Driven, Decided, Judged, Idle
<1>2. Verdicts => Alive /\ Opened
  BY DEF Verdicts
<1>3. RetrySpec => [](Staged /\ Called /\ Verdicts)
  BY RetryDrivesClient, ClientStaged, ClientCalled, ClientVerdicts, PTL
<1>4. Driven /\ Decided /\ Staged /\ Called /\ Alive /\ Opened /\ [RetryNext]_allVars
      => Driven' /\ Decided'
  BY RetryDriven, RetryDecides
<1>5. QED
  BY <1>1, <1>2, <1>3, <1>4, PTL DEF RetrySpec

\* storeWithRetry makes another attempt, and setup() turns to the next file,
\* only while the client is connected, whatever error it was told.
THEOREM RetryFindsASession == RetrySpec => []AttemptsFindASession
<1>1. Decided => AttemptsFindASession
  BY DEF Decided, AttemptsFindASession
<1>2. QED
  BY <1>1, RetryDecided, PTL

\* The batch is given up before its last file only when the session is over.
THEOREM RetryGivesUpOnlyIfDead == RetrySpec => []GivesUpOnlyIfDead
<1>1. Decided => GivesUpOnlyIfDead
  BY DEF Decided, GivesUpOnlyIfDead
<1>2. QED
  BY <1>1, RetryDecided, PTL

-----------------------------------------------------------------------------
(***************************************************************************)
(* What an attempt repeats                                                 *)
(***************************************************************************)
LEMMA RetriableIsUnopened ==
  ASSUME NEW e, NEW code, ftpsIsTransferRetriable(e, code) PROVE e \in Unopened
BY DEF ftpsIsTransferRetriable, Unopened

LEMMA RepeatsNothingStep ==
  ASSUME Driven, Budget, Untouched, RetryRepeatsNothing, [RetryNext]_allVars
  PROVE  RetryRepeatsNothing'
<1>1. CASE UNCHANGED allVars
  BY <1>1 DEF allVars, vars, callVars, batchVars, RetryRepeatsNothing
<1>2. CASE setupBegin \/ setupConnect \/ setupConnected \/ beginAttempt \/ setupQuit \/ setupReturn
  <2>1. app' # "upload"
    BY <1>2 DEF setupBegin, setupConnect, setupConnected, beginAttempt, setupQuit, setupReturn
  <2>2. QED
    BY <2>1 DEF RetryRepeatsNothing
<1>3. CASE setupOptOut
  BY <1>3 DEF setupOptOut, batchVars, Budget, RetryRepeatsNothing
<1>4. CASE uploaded \/ givenUp
  BY <1>4 DEF uploaded, givenUp, afterFailure, nextFile, RetryRepeatsNothing
<1>5. CASE backOff
  <2>1. Idle /\ ~ok /\ op = "store" /\ UNCHANGED moved
    BY <1>5 DEF backOff, Returned, Driven, Idle, vars, callVars
  <2>2. lastError \in Unopened
    BY <1>5, RetriableIsUnopened DEF backOff, retries
  <2>3. moved = 0
    BY <2>1, <2>2 DEF Untouched, Transfers
  <2>4. QED
    BY <2>1, <2>3 DEF RetryRepeatsNothing
<1>6. CASE Beneath
  <2>1. UNCHANGED <<app, attempt>>
    BY <1>6 DEF Beneath, batchVars
  <2>2. app = "upload" => UNCHANGED moved
    <3>1. app = "upload" => Idle
      BY DEF Driven
    <3>2. QED
      BY <1>6, <3>1, NoStepWhenIdle DEF Beneath, serverLeaves, callVars
  <2>3. QED
    BY <2>1, <2>2 DEF RetryRepeatsNothing
<1>7. QED
  BY <1>1, <1>2, <1>3, <1>4, <1>5, <1>6 DEF RetryNext, Setup

\* A retry repeats nothing: the attempt before it failed before the first byte
\* of the file was sent, so that no file is written twice.
THEOREM RetryIsSafe == RetrySpec => []RetryRepeatsNothing
<1>1. RetryInit => RetryRepeatsNothing
  BY DEF RetryInit, RetryRepeatsNothing
<1>2. RetrySpec => []Untouched
  BY RetryDrivesClient, ClientUntouched, PTL
<1>3. QED
  BY <1>1, <1>2, RetryBudgeted, RetryDecided, RepeatsNothingStep, PTL DEF RetrySpec


-----------------------------------------------------------------------------
(***************************************************************************)
(* LiveTests                                                               *)
(***************************************************************************)

\* The commands of a script, and the calls that make them.
Names == {"mkd", "store", "size", "retrieve"}
TestCalls == ensureRemoteDirectory \/ testStore \/ testSize \/ testRetrieve

LEMMA TestCallsCommand ==
  ASSUME TestCalls
  PROVE  /\ Call
         /\ at = "next" /\ at' = "calling" /\ UNCHANGED script
         /\ script # <<>> /\ op' = Head(script) /\ op' \in Names
<1>1. CASE ensureRemoteDirectory
  BY <1>1 DEF ensureRemoteDirectory, testCall, callExchange, Enter, Call, Names
<1>2. CASE testStore
  BY <1>2 DEF testStore, testCall, callStore, Enter, Call, Names
<1>3. CASE testSize
  BY <1>3 DEF testSize, testCall, callExchange, Enter, Call, Names
<1>4. CASE testRetrieve
  BY <1>4 DEF testRetrieve, testCall, callDownload, Enter, Call, Names
<1>5. QED
  BY <1>1, <1>2, <1>3, <1>4 DEF TestCalls

\* Every step of a test is a call of the client, a step of the call in
\* progress, or leaves the client alone.
LEMMA TestDrivesClient ==
  ASSUME [LiveNext]_<<vars, liveVars>> PROVE [Next]_vars
<1>1. CASE TestCalls
  BY <1>1, TestCallsCommand DEF Next
<1>2. CASE testBegin \/ testConnect \/ testFailed \/ testQuit
  BY <1>2 DEF testBegin, testConnect, testFailed, testQuit, partsAfterFailure, Next, Call
<1>3. CASE testEthernet \/ testConnected \/ testPassed \/ reportQuitStatus
  BY <1>3 DEF testEthernet, testConnected, testPassed, reportQuitStatus, BackFrom
<1>4. CASE CallGoesOn
  BY <1>4 DEF CallGoesOn, Next
<1>5. QED
  BY <1>1, <1>2, <1>3, <1>4 DEF LiveNext, Test, TestCalls

\* Every behaviour of a live test or a basic example, seen at the client, is
\* one of FtpsClient.
THEOREM TestsDriveClient == LiveSpec => Spec
<1>1. LiveInit => Init
  BY DEF LiveInit
<1>2. QED
  BY <1>1, TestDrivesClient, PTL DEF LiveSpec, Spec

-----------------------------------------------------------------------------
\* What is to do is the end of a script.
Remaining(rest) ==
  \E whole \in Scripts : \E n \in 0..Len(whole) : rest = SubSeq(whole, n + 1, Len(whole))

LEMMA ScriptsAreSequences == \A whole \in Scripts : whole \in Seq(Names)
<1>2. \A s1, s2 \in Seq(Names) : s1 \o s2 \in Seq(Names)
  BY ConcatProperties
<1>3. {<<>>, <<"mkd">>, <<"mkd", "mkd">>, <<"store">>, <<"size">>, <<"retrieve">>} \subseteq Seq(Names)
  BY DEF Names
<1>4. fileZillaScripts \subseteq Seq(Names)
  <2> SUFFICES ASSUME NEW whole \in fileZillaScripts PROVE whole \in Seq(Names)
    OBVIOUS
  <2> DEFINE D == {<<>>, <<"mkd">>, <<"mkd", "mkd">>}
             U == {<<>>, <<"store">>}
             Z == {<<>>, <<"size">>}
             R == {<<>>, <<"retrieve">>}
  <2>1. D \subseteq Seq(Names) /\ U \subseteq Seq(Names)
        /\ Z \subseteq Seq(Names) /\ R \subseteq Seq(Names)
    BY <1>3
  <2>2. fileZillaScripts =
          {directories \o upload \o sizes \o download :
             directories \in D, upload \in U, sizes \in Z, download \in R}
    BY DEF fileZillaScripts
  <2> HIDE DEF D, U, Z, R
  <2>3. PICK directories \in D, upload \in U, sizes \in Z, download \in R :
          whole = directories \o upload \o sizes \o download
    BY <2>2
  <2> {directories, upload, sizes, download} \subseteq Seq(Names)
    BY <2>1
  <2>4. directories \o upload \in Seq(Names)
    BY <1>2
  <2>5. directories \o upload \o sizes \in Seq(Names)
    BY <1>2, <2>4
  <2>6. QED
    BY <1>2, <2>3, <2>5
<1>5. <<"mkd", "mkd", "store", "size", "retrieve">> \in Seq(Names)
  <2>1. {"mkd", "store", "size", "retrieve"} \subseteq Names
    BY DEF Names
  <2>2. QED
    BY <2>1
<1>6. QED
  BY <1>3, <1>4, <1>5
     DEF Scripts, pyftpdlibScript, wdMyCloudScript, basicUploadScript, basicDownloadScript

LEMMA WholeRemains == \A whole \in Scripts : Remaining(whole)
<1> SUFFICES ASSUME NEW whole \in Scripts PROVE Remaining(whole)
  OBVIOUS
<1>1. whole \in Seq(Names) /\ Len(whole) \in Nat
  BY ScriptsAreSequences
<1>2. whole = SubSeq(whole, 0 + 1, Len(whole)) /\ 0 \in 0..Len(whole)
  BY <1>1, SubSeqFull
<1>3. QED
  BY <1>2 DEF Remaining

LEMMA TailRemains ==
  ASSUME NEW rest, Remaining(rest), rest # <<>> PROVE Remaining(Tail(rest))
<1>1. PICK whole \in Scripts : \E n \in 0..Len(whole) : rest = SubSeq(whole, n + 1, Len(whole))
  BY DEF Remaining
<1>2. PICK n \in 0..Len(whole) : rest = SubSeq(whole, n + 1, Len(whole))
  BY <1>1
<1>3. whole \in Seq(Names) /\ Len(whole) \in Nat
  BY <1>1, ScriptsAreSequences
<1>4. n < Len(whole)
  <2>1. CASE n = Len(whole)
    <3>1. SubSeq(whole, n + 1, Len(whole)) = <<>>
      BY <1>3, <2>1, SubSeqEmpty
    <3>2. QED
      BY <1>2, <3>1
  <2>2. QED
    BY <1>3, <2>1
<1>5. n + 1 \in 1..Len(whole) /\ Len(whole) \in (n + 1)..Len(whole)
  BY <1>3, <1>4
<1>6. Tail(rest) = SubSeq(whole, (n + 1) + 1, Len(whole)) /\ n + 1 \in 0..Len(whole)
  BY <1>2, <1>3, <1>5, HeadTailOfSubSeq
<1>7. QED
  BY <1>6 DEF Remaining

LEMMA LiveTypes ==
  LiveTypeOK <=>
    /\ at \in {"begin", "connect", "connecting", "next", "calling", "quitting", "done"}
    /\ Remaining(script)
    /\ at = "calling" => script # <<>> /\ op = Head(script)
BY DEF LiveTypeOK, Remaining


\* The server's final reply is given up only by a drain, after which the call
\* fails; and a session that ends takes its replies along.
LEMMA StepKeepsLate ==
  ASSUME Step PROVE late' \in {late, 0} \/ (pc' = "idle" /\ ~ok')
<1>1. CASE connectTcpOpen \/ connectBanner \/ connectAuthTls \/ connectAuthSsl \/ connectPbsz
           \/ connectProtP \/ connectUser \/ connectPass \/ connectTypeI
  BY <1>1 DEF connectTcpOpen, connectBanner, connectAuthTls, connectAuthSsl, connectPbsz,
     connectProtP, connectUser, connectPass, connectTypeI, connectExchange, Heard, Greeted,
     connectFails, Return, replyVars
<1>2. CASE quit \/ connectTlsRefused
  BY <1>2 DEF quit, connectTlsRefused, connectFails, HangUp, Disconnected
<1>3. CASE mkd \/ size \/ dele \/ rmd \/ renameFrom \/ renameTo \/ isControlAlive
  BY <1>3 DEF mkd, size, dele, rmd, renameFrom, renameTo, isControlAlive, exchange, Heard,
     failAndDisconnect, Return
<1>4. CASE pasv \/ command \/ listCommand \/ finalReply
  BY <1>4 DEF pasv, command, listCommand, transferCommand, finalReply, failAndDisconnect, Heard,
     Return
<1>5. CASE connectControlTls \/ dataOpen \/ transferTls \/ bufferFull \/ moveData \/ endOfData
           \/ dataError
  BY <1>5 DEF connectControlTls, dataOpen, transferTls, bufferFull, moveData, endOfData, dataError,
     ServerAborts, replyVars
<1>6. CASE drain
  BY <1>6 DEF drain, Return
<1>7. QED
  BY <1>1, <1>2, <1>3, <1>4, <1>5, <1>6 DEF Step

LEMMA CallKeepsLate ==
  ASSUME begin \/ callQuit \/ callConnect \/ TestCalls PROVE late' \in {late, 0}
<1>1. CASE begin \/ callQuit
  BY <1>1 DEF begin, callQuit, HangUp, Disconnected, replyVars
<1>2. ASSUME NEW cfg, NEW closed, enterConnect(cfg, closed) PROVE late' \in {late, 0}
  BY <1>2 DEF enterConnect, HangUp, Disconnected, replyVars
<1>3. CASE callConnect
  BY <1>2, <1>3 DEF callConnect, replyVars
<1>4. CASE TestCalls
  <2>1. reconnect => late' \in {late, 0}
    BY <1>2 DEF reconnect, replyVars
  <2>2. QED
    BY <1>4, <2>1 DEF TestCalls, ensureRemoteDirectory, testStore, testSize, testRetrieve, testCall,
       callExchange, callStore, callDownload, replyVars
<1>5. QED
  BY <1>1, <1>3, <1>4

\* Where a test is, against its call, its session and the replies it has given
\* up: none while its calls succeed.
Underway ==
  /\ at \notin {"connecting", "calling", "quitting"} => Idle
  /\ at = "connecting" => op = "connect" /\ pc \in ConnectPhases \cup {"idle"}
  /\ at = "calling" => op \in Names
  /\ at = "quitting" => pc \in {"quit", "idle"} /\ (Idle => ~connected)
  /\ at \in {"begin", "connect", "done"} \/ (at = "connecting" /\ Idle /\ ~ok) => ~connected
  /\ at = "next" => connected
  /\ at \in {"begin", "connect", "next"} => late = 0
  /\ at \in {"connecting", "calling"} /\ (Idle => ok) => late = 0

\* quit() always ends the session.
LEMMA PartsAtLast ==
  ASSUME callQuit, at' = "quitting" PROVE Underway'
BY DEF callQuit, Goto, Return, Underway, Idle

\* connect() fails without a session, or goes on.
LEMMA ConnectingGoesOn ==
  ASSUME Staged, Called, op = "connect", pc \in ConnectPhases, Step
  PROVE  pc' \in ConnectPhases \cup {"idle"} /\ (pc' = "idle" /\ ~ok' => ~connected')
<1>1. ConnectPhases \cap (TransferPhases \cup ExchangePhases \cup {"quit"}) = {}
  BY DEF TransferPhases, DataPhases, ConnectPhases, ExchangePhases
<1>2. CASE connectTypeI
  <2>1. ~connected
    BY <1>2 DEF connectTypeI, ConnectStep, Staged, ControlStaged, ConnectPhases
  <2>2. \/ connectFails("TypeRejected")
        \/ Return(TRUE, "None")
    BY <1>2 DEF connectTypeI
  <2>3. QED
    BY <2>1, <2>2 DEF connectFails, Return
<1>3. CASE connectTcpOpen \/ connectBanner \/ connectAuthTls \/ connectAuthSsl
           \/ connectControlTls \/ connectTlsRefused \/ connectPbsz \/ connectProtP
           \/ connectUser \/ connectPass
  BY <1>3, LoginEnds
<1>4. QED
  BY <1>1, <1>2, <1>3, ExchangeEnds, TransferEnds DEF Step, quit

LEMMA ConnectBegins ==
  ASSUME ~connected, callConnect
  PROVE  /\ op' = "connect" /\ pc' \in ConnectPhases \cup {"idle"}
         /\ ~connected'
BY DEF callConnect, enterConnect, Enter, Goto, Return, ConnectPhases


\* While quit() waits for its answer, its step is the only one.
LEMMA OnlyQuit ==
  ASSUME pc = "quit", Step PROVE quit
BY DEF Step, connectTcpOpen, connectBanner, connectAuthTls, connectAuthSsl,
  connectControlTls, connectTlsRefused, connectPbsz, connectProtP, connectUser, connectPass,
  connectTypeI, ConnectStep, connectExchange, mkd, size, dele, rmd, renameFrom, renameTo,
  isControlAlive, exchange, pasv, dataOpen, command, listCommand, transferCommand, transferTls,
  bufferFull, moveData, endOfData, dataError, drain, finalReply, TransferStep

LEMMA UnderwayStep ==
  ASSUME Staged, Called, Opened, Underway, [LiveNext]_<<vars, liveVars>> PROVE Underway'
<1> /\ at \notin {"connecting", "calling", "quitting"} => Idle
    /\ at = "connecting" => op = "connect" /\ pc \in ConnectPhases \cup {"idle"}
    /\ at = "calling" => op \in Names
    /\ at = "quitting" => pc \in {"quit", "idle"} /\ (Idle => ~connected)
    /\ at \in {"begin", "connect", "done"} \/ (at = "connecting" /\ Idle /\ ~ok) => ~connected
    /\ at = "next" => connected
    /\ at \in {"begin", "connect", "next"} => late = 0
    /\ at \in {"connecting", "calling"} /\ (Idle => ok) => late = 0
  BY DEF Underway
<1>1. CASE UNCHANGED <<vars, liveVars>>
  BY <1>1 DEF Underway, Idle, vars, liveVars, sessionVars, replyVars
<1>2. CASE testEthernet
  <2>1. Idle /\ ~connected /\ at' = "done" /\ UNCHANGED <<pc, connected>>
    BY <1>2 DEF testEthernet, vars, sessionVars
  <2>2. QED
    BY <2>1 DEF Underway, Idle
<1>3. CASE testBegin
  <2>1. late' = 0
    BY <1>3, CallKeepsLate DEF testBegin
  <2>2. pc' = "idle" /\ ~connected'
    BY <1>3 DEF testBegin, begin, Return
  <2>3. at' \in {"connect", "done"}
    BY <1>3 DEF testBegin
  <2>4. QED
    BY <2>1, <2>2, <2>3 DEF Underway, Idle
<1>4. CASE testConnect
  <2>1. late' = 0
    BY <1>4, CallKeepsLate DEF testConnect
  <2>2. op' = "connect" /\ pc' \in ConnectPhases \cup {"idle"} /\ ~connected'
    BY <1>4, ConnectBegins DEF testConnect
  <2>3. at' = "connecting"
    BY <1>4 DEF testConnect
  <2>4. QED
    BY <2>1, <2>2, <2>3 DEF Underway, Idle
<1>5. CASE testConnected
  <2>1. Idle /\ UNCHANGED <<pc, connected, late>> /\ at = "connecting"
    BY <1>5 DEF testConnected, BackFrom, vars, sessionVars, replyVars, Idle
  <2>2. at' = IF ok THEN "next" ELSE "done"
    BY <1>5 DEF testConnected
  <2>3. ok => connected /\ late = 0
    BY <2>1 DEF Opened
  <2>4. QED
    BY <2>1, <2>2, <2>3 DEF Underway, Idle
<1>6. CASE TestCalls
  <2>1. late' = 0
    BY <1>6, CallKeepsLate, TestCallsCommand
  <2>2. at' = "calling" /\ op' \in Names
    BY <1>6, TestCallsCommand
  <2>3. QED
    BY <2>1, <2>2 DEF Underway, Idle
<1>7. CASE testPassed
  <2>1. Idle /\ ok /\ UNCHANGED <<pc, connected, late>> /\ at = "calling" /\ at' = "next"
    BY <1>7 DEF testPassed, BackFrom, vars, sessionVars, replyVars, Idle
  <2>2. connected /\ late = 0
    BY <2>1 DEF Opened, Names
  <2>3. QED
    BY <2>1, <2>2 DEF Underway, Idle
<1>8. CASE testFailed \/ testQuit
  BY <1>8, PartsAtLast DEF testFailed, testQuit, partsAfterFailure
<1>9. CASE reportQuitStatus
  <2>1. Idle /\ at = "quitting" /\ at' = "done" /\ UNCHANGED <<pc, connected>>
    BY <1>9 DEF reportQuitStatus, BackFrom, vars, sessionVars, Idle
  <2>2. QED
    BY <2>1 DEF Underway, Idle
<1>10. CASE serverLeaves /\ UNCHANGED liveVars
  <2>1. UNCHANGED <<at, pc, op, ok, connected, late>>
    BY <1>10 DEF serverLeaves, ServerLeaves, sessionVars, liveVars
  <2>2. QED
    BY <2>1 DEF Underway, Idle
<1>11. CASE Step /\ UNCHANGED liveVars
  <2>1. at' = at /\ at \in {"connecting", "calling", "quitting"} /\ ~Idle
    BY <1>11, NoStepWhenIdle DEF liveVars
  <2>2. op' = op
    BY <1>11, StepKeepsConfig
  <2>3. late' \in {late, 0} \/ (pc' = "idle" /\ ~ok')
    BY <1>11, StepKeepsLate
  <2>4. CASE at = "connecting"
    <3>1. pc' \in ConnectPhases \cup {"idle"} /\ (pc' = "idle" /\ ~ok' => ~connected')
      BY <1>11, <2>1, <2>4, ConnectingGoesOn DEF Idle
    <3>2. QED
      BY <2>1, <2>2, <2>3, <2>4, <3>1 DEF Underway, Idle
  <2>5. CASE at = "calling"
    BY <2>1, <2>2, <2>3, <2>5 DEF Underway, Idle
  <2>6. CASE at = "quitting"
    <3>1. pc = "quit"
      BY <2>1, <2>6 DEF Idle
    <3>2. quit
      BY <1>11, <3>1, OnlyQuit
    <3>3. pc' = "idle" /\ ~connected'
      BY <3>2 DEF quit, Return
    <3>4. QED
      BY <2>1, <2>6, <3>3 DEF Underway, Idle
  <2>7. QED
    BY <2>1, <2>4, <2>5, <2>6
<1>12. QED
  BY <1>1, <1>2, <1>3, <1>4, <1>5, <1>6, <1>7, <1>8, <1>9, <1>10, <1>11
     DEF LiveNext, Test, TestCalls, CallGoesOn


LEMMA TestsUnderway == LiveSpec => []Underway
<1>1. LiveInit => Underway
  BY DEF LiveInit, Init, ControlInit, Underway, Idle
<1>2. Verdicts => Opened
  BY DEF Verdicts
<1>3. LiveSpec => [](Staged /\ Called /\ Verdicts)
  BY TestsDriveClient, ClientStaged, ClientCalled, ClientVerdicts, PTL
<1>4. Staged /\ Called /\ Opened /\ Underway /\ [LiveNext]_<<vars, liveVars>> => Underway'
  BY UnderwayStep
<1>5. QED
  BY <1>1, <1>2, <1>3, <1>4, PTL DEF LiveSpec

LEMMA LiveTypesNext ==
  ASSUME at' \in {"begin", "connect", "connecting", "next", "calling", "quitting", "done"},
         Remaining(script'),
         at' = "calling" => script' # <<>> /\ op' = Head(script')
  PROVE  LiveTypeOK'
BY DEF LiveTypeOK, Remaining

LEMMA LiveTypesStep ==
  ASSUME LiveTypeOK, Underway, [LiveNext]_<<vars, liveVars>> PROVE LiveTypeOK'
<1> DEFINE Stages == {"begin", "connect", "connecting", "next", "calling", "quitting", "done"}
<1>0. /\ at \in Stages /\ Remaining(script)
      /\ at = "calling" => script # <<>> /\ op = Head(script)
  BY LiveTypes
<1>1. CASE TestCalls
  BY <1>0, <1>1, LiveTypesNext, TestCallsCommand
<1>2. CASE testPassed
  <2>1. at = "calling" /\ script' = Tail(script) /\ at' = "next"
    BY <1>2 DEF testPassed, BackFrom
  <2>2. Remaining(script')
    BY <1>0, <2>1, TailRemains
  <2>3. QED
    BY <2>1, <2>2, LiveTypesNext
<1>3. CASE \/ testEthernet \/ testBegin \/ testConnect \/ testConnected
           \/ testFailed \/ testQuit \/ reportQuitStatus
  <2>1. script' = script /\ at' \in Stages \ {"calling"}
    BY <1>3 DEF testEthernet, testBegin, testConnect, testConnected, testFailed, testQuit,
       reportQuitStatus, partsAfterFailure
  <2>2. Remaining(script')
    BY <1>0, <2>1
  <2>3. QED
    BY <2>1, <2>2, LiveTypesNext
<1>4. CASE CallGoesOn \/ UNCHANGED <<vars, liveVars>>
  <2>1. script' = script /\ at' = at /\ op' = op
    BY <1>4, StepKeepsConfig DEF CallGoesOn, serverLeaves, liveVars, vars
  <2>2. Remaining(script')
    BY <1>0, <2>1
  <2>3. QED
    BY <1>0, <2>1, <2>2, LiveTypesNext
<1>5. QED
  BY <1>1, <1>2, <1>3, <1>4 DEF LiveNext, Test, TestCalls

\* What a test has still to do is the end of its script, and the call in
\* progress is the first of that: no call is left out or made twice.
THEOREM LiveTyped == LiveSpec => []LiveTypeOK
<1>1. LiveInit => LiveTypeOK
  <2> SUFFICES ASSUME LiveInit PROVE LiveTypeOK
    OBVIOUS
  <2>1. script \in Scripts /\ at = "begin"
    BY DEF LiveInit
  <2>2. Remaining(script)
    BY <2>1, WholeRemains
  <2>3. QED
    BY <2>1, <2>2, LiveTypes
<1>2. QED
  BY <1>1, TestsUnderway, LiveTypesStep, PTL DEF LiveSpec

\* Every command of a test is made on a session with no reply unread, however
\* slow the server is: a test that has given up a final reply makes no other
\* call but quit().
THEOREM TestsFindSessionInStep ==
  ASSUME StandardAnswers PROVE LiveSpec => []CallsFindSessionInStep
<1>1. Underway /\ InStep => CallsFindSessionInStep
  <2> SUFFICES ASSUME Underway, InStep, at = "next"
               PROVE  connected /\ (peer = "up" => owed = <<>>)
    BY DEF CallsFindSessionInStep
  <2>1. connected /\ late = 0 /\ pc = "idle"
    BY DEF Underway, Idle
  <2>2. expected = {<<>>}
    BY <2>1, Expectations DEF Quiet, AuthPhases, DataPhases
  <2>3. peer = "up" => owed = <<>>
    BY <2>1, <2>2 DEF InStep
  <2>4. QED
    BY <2>1, <2>3
<1>2. LiveSpec => []InStep
  BY TestsDriveClient, ClientStaysInStep, PTL
<1>3. QED
  BY <1>1, <1>2, TestsUnderway, PTL

\* A test that has come to its end has left the server and closed every socket.
THEOREM TestsEndWithoutSession == LiveSpec => []EndsWithoutSession
<1>1. Underway /\ SessionOwnsItsSockets => EndsWithoutSession
  BY DEF Underway, SessionOwnsItsSockets, EndsWithoutSession, Idle
<1>2. QED
  BY <1>1, TestsDriveClient, TestsUnderway, ClientOwnsItsSockets, PTL
=============================================================================
