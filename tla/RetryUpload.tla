----------------------------- MODULE RetryUpload -----------------------------
(***************************************************************************)
(* The RetryUpload program: it uploads a batch of files over one session,  *)
(* retries an upload that may be retried up to MaxAttempts times, and      *)
(* gives the batch up when the session is dead.  It is the one caller of   *)
(* an FtpsClient; app is the place its setup() is at.  The client object   *)
(* ends with setup(), and the model with it.                               *)
(***************************************************************************)
EXTENDS FtpsClient

CONSTANTS
  Uploads,      \* number of entries of uploads[]
  MaxAttempts   \* MAX_ATTEMPTS

ASSUME BatchAssumption == {Uploads, MaxAttempts} \subseteq Nat \ {0}

VARIABLES
  app,       \* where setup() is
  attempt,   \* attempts made on the current file
  stored,    \* files uploaded: ok of setup()
  failed     \* files given up

batchVars == <<attempt, stored, failed>>
allVars   == <<vars, app, batchVars>>

Places == {"begin", "connect", "connecting", "connected", "upload", "storing",
           "quit", "quitting", "done"}

\* The program's own state; no file is attempted more than MaxAttempts times,
\* and each is either stored or failed.
RetryTypeOK ==
  /\ app \in Places
  /\ attempt \in 0..MaxAttempts
  /\ stored \in 0..Uploads
  /\ failed \in 0..(Uploads - stored)

RetryInit ==
  /\ Init
  /\ app = "begin"
  /\ attempt = 0 /\ stored = 0 /\ failed = 0

-----------------------------------------------------------------------------
setupBegin ==
  /\ app = "begin"
  /\ begin
  /\ app' = IF ok' THEN "connect" ELSE "done"
  /\ UNCHANGED batchVars

setupConnect ==
  /\ app = "connect"
  /\ callConnect
  /\ app' = "connecting"
  /\ UNCHANGED batchVars

setupConnected ==
  /\ app = "connecting" /\ pc = "idle"
  /\ app' = IF ok THEN "connected" ELSE "done"
  /\ UNCHANGED <<vars, batchVars>>

setupOptOut ==
  /\ app = "connected"
  /\ setReconnectBetweenStores /\ ~reconnectBetweenStores'
  /\ app' = "upload"
  /\ UNCHANGED batchVars

\* Mutant: the attempt is not counted.
attemptUncounted ==
  /\ app = "upload"
  /\ callStore /\ argOk' /\ total' = MaxLength
  /\ app' = "storing"
  /\ UNCHANGED batchVars

\* One attempt: the path and the payload pass the checks of store().
beginAttempt ==
  /\ app = "upload"
  /\ callStore /\ argOk' /\ total' = MaxLength
  /\ app' = "storing"
  /\ attempt' = attempt + 1
  /\ UNCHANGED <<stored, failed>>

\* Mutants: every failure on a live session is retried; one attempt too many.
retriesIfAlive == ~ftpsIsSessionDead(lastError) /\ attempt < MaxAttempts

retriesOnceMore ==
  /\ ~ftpsIsSessionDead(lastError)
  /\ ftpsIsTransferRetriable(lastError, lastNsapiError)
  /\ attempt <= MaxAttempts

\* What storeWithRetry asks of a failed attempt before it makes another.
retries ==
  /\ ~ftpsIsSessionDead(lastError)
  /\ ftpsIsTransferRetriable(lastError, lastNsapiError)
  /\ attempt < MaxAttempts

\* The loop of setup() turns to the next file, or ends.
nextFile ==
  /\ attempt' = 0
  /\ app' = IF stored' + failed' < Uploads THEN "upload" ELSE "quit"

\* Mutants: the batch goes on, or ends, whatever the failure was.
goOn == nextFile

goAway == app' = "quit" /\ UNCHANGED attempt

\* After a file was given up the batch ends if the session is dead.
afterFailure ==
  IF ftpsIsSessionDead(lastError) THEN app' = "quit" /\ UNCHANGED attempt ELSE nextFile

Returned == app = "storing" /\ pc = "idle" /\ UNCHANGED vars

uploaded ==
  /\ Returned /\ ok
  /\ stored' = stored + 1 /\ UNCHANGED failed
  /\ nextFile

\* The wait before the next attempt; the server may leave during it.
backOff ==
  /\ Returned /\ ~ok
  /\ retries
  /\ app' = "upload"
  /\ UNCHANGED batchVars

givenUp ==
  /\ Returned /\ ~ok
  /\ ~retries
  /\ failed' = failed + 1 /\ UNCHANGED stored
  /\ afterFailure

setupQuit ==
  /\ app = "quit"
  /\ callQuit
  /\ app' = "quitting"
  /\ UNCHANGED batchVars

setupReturn ==
  /\ app = "quitting" /\ pc = "idle"
  /\ app' = "done"
  /\ UNCHANGED <<vars, batchVars>>

Setup ==
  \/ setupBegin \/ setupConnect \/ setupConnected \/ setupOptOut
  \/ beginAttempt \/ uploaded \/ backOff \/ givenUp
  \/ setupQuit \/ setupReturn

\* The call in progress, and the server, go on beneath the program.
Beneath == (Step \/ serverLeaves) /\ UNCHANGED <<app, batchVars>>

RetryNext == Setup \/ Beneath

RetrySpec == RetryInit /\ [][RetryNext]_allVars

\* setup() runs on, and a call that has begun goes on.
FairRetrySpec ==
  RetrySpec /\ WF_allVars(Setup) /\ WF_allVars(Step /\ UNCHANGED <<app, batchVars>>)

-----------------------------------------------------------------------------
\* No attempt is made on a session that is over: storeWithRetry retries, and
\* setup() turns to the next file, only while the client is connected.
AttemptsFindASession == app = "upload" => connected

\* A retry repeats nothing: the attempt before it failed before the first
\* byte of the file was sent, so that no file is written twice.
RetryRepeatsNothing == app = "upload" /\ attempt > 0 => moved = 0

\* The batch is given up before its last file only when the session is over.
GivesUpOnlyIfDead == app = "quit" /\ stored + failed < Uploads => ~connected

\* The program ends, whatever the server does or fails to do.
SetupReturns == <>(app = "done")

\* How many places setup() still has to pass if it makes no further attempt.
toPass == [place \in Places |->
  CASE place = "begin"      -> 8 [] place = "connect"   -> 7 [] place = "connecting" -> 6
    [] place = "connected"  -> 5 [] place = "storing"   -> 4 [] place = "upload"     -> 3
    [] place = "quit"       -> 2 [] place = "quitting"  -> 1 [] place = "done"       -> 0]

counted == stored + failed

\* setup() never goes round in a circle, whatever it is answered: each of its
\* steps counts a file, or an attempt on the same file, or brings it nearer to
\* its end.
SetupGetsOn ==
  [][Setup => \/ counted < counted' /\ counted' <= Uploads
              \/ UNCHANGED counted /\ attempt < attempt' /\ attempt' <= MaxAttempts
              \/ UNCHANGED <<counted, attempt>> /\ toPass[app'] < toPass[app]]_allVars
=============================================================================
