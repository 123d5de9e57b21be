------------------------------- MODULE WebPage -------------------------------
(***************************************************************************)
(* The pages that browsers have open on the web server of the sketches,    *)
(* and the server as they see it: its token and its configuration.  The    *)
(* server handles one request at a time, from beginning to end.            *)
(*                                                                         *)
(* A page waits for at most one fetch of what the user has started         *)
(* ("fore") and, bounding the code, for at most one refresh ("refresh"),   *)
(* the timer's or the one that follows what the user has started.  A fetch *)
(* fails when its request or its response is lost; a request is not        *)
(* handled any more once its page was told that it failed.                 *)
(***************************************************************************)
EXTENDS Integers

CONSTANTS
  Pages,
  Settings,   \* configurations a user may fill in
  Mixture,    \* what is left of two of them after a request refused half-way
  MaxTokens,  \* bound: successful unlocks
  MaxLosses   \* bound: fetches that fail

ASSUME PagesAssumption ==
  /\ Settings # {} /\ Mixture \notin Settings
  /\ {MaxTokens, MaxLosses} \subseteq Nat

VARIABLES
  gAuthToken,  \* the one token the server accepts; 0: none yet
  gConfig,     \* its configuration
  page,        \* the state s of each page
  fetch,       \* what each coroutine of each page is waiting for
  losses,
  saved,       \* history: what the server accepted of a page's /set, until it is used
  mixed        \* history: an operation has run with another page's configuration

pageVars   == <<page, fetch>>
serverVars == <<gAuthToken, gConfig>>
pagesVars  == <<pageVars, serverVars, losses, saved, mixed>>

Slots   == {"fore", "refresh"}
Routes  == {"/auth", "/status", "/set", "/action", "/report"}
Tokens  == 0..MaxTokens
Refused == "refused"
Unset   == CHOOSE cfg \in Settings : TRUE  \* for a fetch without one

\* authToken is 0 exactly while the page is not authorized; blocked: its
\* action buttons are disabled.
PageState == [authToken : Tokens, pending : BOOLEAN, blocked : BOOLEAN]

\* code is 0 until the server has answered; token is the one sent, or the one
\* granted by /auth.
Fetch   == [route : Routes, token : Tokens, cfg : Settings, code : {0, 200, 400, 401}]
NoFetch == [route |-> "none"]

\* The types, and that a page waits in its foreground while it is pending.
PagesTypeOK ==
  /\ gAuthToken \in Tokens
  /\ gConfig \in Settings \cup {Mixture}
  /\ page \in [Pages -> PageState]
  /\ fetch \in [Pages -> [Slots -> Fetch \cup {NoFetch}]]
  /\ losses \in 0..MaxLosses
  /\ \A p \in Pages : page[p].pending = (fetch[p]["fore"] # NoFetch)

PagesInit ==
  /\ gAuthToken = 0 /\ gConfig \in Settings
  /\ page = [p \in Pages |-> [authToken |-> 0, pending |-> FALSE, blocked |-> TRUE]]
  /\ fetch = [p \in Pages |-> [k \in Slots |-> NoFetch]]
  /\ losses = 0
  /\ saved = [p \in Pages |-> Refused]
  /\ mixed = FALSE

-----------------------------------------------------------------------------
(***************************************************************************)
(* The server                                                              *)
(***************************************************************************)
Answer(f, code, token) == [f EXCEPT !.code = code, !.token = token, !.cfg = Unset]

Reply(p, k, code, token) == fetch' = [fetch EXCEPT ![p][k] = Answer(@, code, token)]

\* Mutant: the token is generated once, and given to every page.
authSharesToken(p, k) ==
  /\ UNCHANGED <<gConfig, saved, mixed>>
  /\ \/ Reply(p, k, 401, 0) /\ UNCHANGED gAuthToken
     \/ /\ gAuthToken < MaxTokens
        /\ gAuthToken' = 1
        /\ Reply(p, k, 200, 1)

\* The passcode is right or wrong.  The token of an unlock is a new one.
handleAuthRequest(p, k) ==
  /\ UNCHANGED <<gConfig, saved, mixed>>
  /\ \/ Reply(p, k, 401, 0) /\ UNCHANGED gAuthToken
     \/ /\ gAuthToken < MaxTokens
        /\ gAuthToken' = gAuthToken + 1
        /\ Reply(p, k, 200, gAuthToken + 1)

authTokenMatches(token) == token # 0 /\ token = gAuthToken

\* A configuration is applied field by field, and may be refused half-way.
applyConfigFromQuery(p, k) ==
  /\ UNCHANGED <<gAuthToken, mixed>>
  /\ \/ /\ gConfig' = fetch[p][k].cfg
        /\ saved' = [saved EXCEPT ![p] = fetch[p][k].cfg]
        /\ Reply(p, k, 200, 0)
     \/ /\ gConfig' \in {gConfig, Mixture}
        /\ saved' = [saved EXCEPT ![p] = Refused]
        /\ Reply(p, k, 400, 0)

\* An operation, of /action or of /fs, on the configuration there is.
runOperation(p, k) ==
  /\ mixed' = (mixed \/ saved[p] \notin {gConfig, Refused})
  /\ saved' = [saved EXCEPT ![p] = Refused]
  /\ Reply(p, k, 200, 0)
  /\ UNCHANGED serverVars

handleClient(p, k) ==
  /\ fetch[p][k] # NoFetch /\ fetch[p][k].code = 0
  /\ UNCHANGED <<page, losses>>
  /\ LET route == fetch[p][k].route
     IN  IF route = "/auth" THEN handleAuthRequest(p, k)
         ELSE IF ~authTokenMatches(fetch[p][k].token)
         THEN Reply(p, k, 401, 0) /\ UNCHANGED <<serverVars, saved, mixed>>
         ELSE CASE route = "/set"    -> applyConfigFromQuery(p, k)
                [] route = "/action" -> runOperation(p, k)
                [] OTHER -> Reply(p, k, 200, 0) /\ UNCHANGED <<serverVars, saved, mixed>>

-----------------------------------------------------------------------------
(***************************************************************************)
(* A page                                                                  *)
(***************************************************************************)
Unauthorized(s) == s.authToken = 0

Send(s, route, cfg) == [route |-> route, token |-> s.authToken, cfg |-> cfg, code |-> 0]
Ask(s, route)       == Send(s, route, Unset)

setActionButtonsDisabled(s, disabled) ==
  [s EXCEPT !.blocked = disabled \/ Unauthorized(s)]

\* Mutant: the buttons are set before the token is cleared.
unblockThenLock(s) == [setActionButtonsDisabled(s, FALSE) EXCEPT !.authToken = 0]

applyUnauthorized(s) == setActionButtonsDisabled([s EXCEPT !.authToken = 0], FALSE)

\* Mutant: a page whose buttons are disabled leaves them so.
renderStatusIdle(s) ==
  IF s.pending \/ s.blocked THEN s ELSE setActionButtonsDisabled(s, FALSE)

\* The server is never busy when it answers.
renderStatus(s) == IF s.pending THEN s ELSE setActionButtonsDisabled(s, FALSE)

\* The page goes on as s, with what waits in its slots as given.
Continue(p, s, slots) ==
  /\ page' = [page EXCEPT ![p] = s]
  /\ fetch' = [fetch EXCEPT ![p] = slots]
  /\ UNCHANGED <<serverVars, saved, mixed>>

\* refreshStatus as far as its fetch.
refreshStatus(p, s, slots) ==
  /\ fetch[p]["refresh"] = NoFetch
  /\ IF Unauthorized(s) THEN Continue(p, setActionButtonsDisabled(s, FALSE), slots)
     ELSE Continue(p, s, [slots EXCEPT !["refresh"] = Ask(s, "/status")])

\* unlockHarness, doAction and doFsAction, exportReport: what the user starts.
unlockHarness(p) ==
  /\ ~page[p].pending
  /\ Continue(p, [page[p] EXCEPT !.pending = TRUE],
              [fetch[p] EXCEPT !["fore"] = Ask(page[p], "/auth")])
  /\ UNCHANGED losses

Enabled(p) == ~page[p].pending /\ ~Unauthorized(page[p]) /\ ~page[p].blocked

doAction(p) ==
  /\ Enabled(p)
  /\ \E cfg \in Settings :
       Continue(p, [page[p] EXCEPT !.pending = TRUE, !.blocked = TRUE],
                [fetch[p] EXCEPT !["fore"] = Send(page[p], "/set", cfg)])
  /\ UNCHANGED losses

exportReport(p) ==
  /\ Enabled(p)
  /\ Continue(p, [page[p] EXCEPT !.pending = TRUE, !.blocked = TRUE],
              [fetch[p] EXCEPT !["fore"] = Ask(page[p], "/report")])
  /\ UNCHANGED losses

\* It lets the response that has arrived in the foreground go first.
timerTick(p) ==
  /\ fetch[p]["fore"] # NoFetch => fetch[p]["fore"].code = 0
  /\ refreshStatus(p, page[p], fetch[p])
  /\ UNCHANGED losses

\* The outcome of a fetch: the code of its response, or 0 when it has failed.
Outcome(p, k, code) ==
  /\ fetch[p][k] # NoFetch
  /\ \/ code # 0 /\ fetch[p][k].code = code /\ UNCHANGED losses
     \/ code = 0 /\ losses < MaxLosses /\ losses' = losses + 1

\* The end of what the user has started: a refresh follows.
Finish(p, s) ==
  refreshStatus(p, [s EXCEPT !.pending = FALSE], [fetch[p] EXCEPT !["fore"] = NoFetch])

\* Mutant: nothing follows a saveConfig() that has failed; pending stays set.
setReturnedOnly(p) ==
  /\ fetch[p]["fore"].route = "/set"
  /\ \E code \in {0, 200, 400, 401} :
       /\ Outcome(p, "fore", code)
       /\ CASE code = 0   -> Continue(p, page[p], [fetch[p] EXCEPT !["fore"] = NoFetch])
            [] code = 401 -> Finish(p, applyUnauthorized(page[p]))
            [] OTHER      -> Continue(p, renderStatus(page[p]),
                               [fetch[p] EXCEPT !["fore"] = Ask(page[p], "/action")])

\* A refused configuration is not looked at: the operation follows it.
setReturned(p) ==
  /\ fetch[p]["fore"].route = "/set"
  /\ \E code \in {0, 200, 400, 401} :
       /\ Outcome(p, "fore", code)
       /\ CASE code = 0   -> Finish(p, page[p])
            [] code = 401 -> Finish(p, applyUnauthorized(page[p]))
            [] OTHER      -> Continue(p, renderStatus(page[p]),
                               [fetch[p] EXCEPT !["fore"] = Ask(page[p], "/action")])

operationReturned(p) ==
  /\ fetch[p]["fore"].route \in {"/action", "/report"}
  /\ \E code \in {0, 200, 401} :
       /\ Outcome(p, "fore", code)
       /\ Finish(p, IF code = 401 THEN applyUnauthorized(page[p]) ELSE page[p])

\* An unlock ends without the refresh of Finish: its own is part of it.
Unlocked(p, s) ==
  Continue(p, [s EXCEPT !.pending = FALSE], [fetch[p] EXCEPT !["fore"] = NoFetch])

unlockReturned(p) ==
  /\ fetch[p]["fore"].route = "/auth"
  /\ \E code \in {0, 200, 401} :
       /\ Outcome(p, "fore", code)
       /\ LET s == [page[p] EXCEPT !.authToken = fetch[p]["fore"].token]
          IN  IF code = 200
              THEN Continue(p, s, [fetch[p] EXCEPT !["fore"] = Ask(s, "/status")])
              ELSE Unlocked(p, applyUnauthorized(page[p]))

\* The page after a refresh.  The refresh of an unlock finds it pending.
refreshed(s, code) ==
  CASE code = 200 -> renderStatus(s) [] code = 401 -> applyUnauthorized(s) [] code = 0 -> s

unlockRefreshed(p) ==
  /\ fetch[p]["fore"].route = "/status"
  /\ \E code \in {0, 200, 401} :
       /\ Outcome(p, "fore", code)
       /\ Unlocked(p, refreshed(page[p], code))

refreshReturned(p) ==
  \E code \in {0, 200, 401} :
    /\ Outcome(p, "refresh", code)
    /\ Continue(p, refreshed(page[p], code), [fetch[p] EXCEPT !["refresh"] = NoFetch])

foreReturned(p) ==
  setReturned(p) \/ operationReturned(p) \/ unlockReturned(p) \/ unlockRefreshed(p)

PageNext(p) ==
  \/ unlockHarness(p) \/ doAction(p) \/ exportReport(p) \/ timerTick(p)
  \/ foreReturned(p) \/ refreshReturned(p)
  \/ \E k \in Slots : handleClient(p, k)

PagesNext == \E p \in Pages : PageNext(p)

PagesSpec == PagesInit /\ [][PagesNext]_pagesVars

\* The server handles what arrives, a response that arrives is looked at, and
\* the timer ticks.  Users need not do anything.
FairPagesSpec ==
  /\ PagesSpec
  /\ \A p \in Pages :
       /\ WF_pagesVars(timerTick(p)) /\ WF_pagesVars(foreReturned(p)) /\ WF_pagesVars(refreshReturned(p))
       /\ \A k \in Slots : WF_pagesVars(handleClient(p, k))

-----------------------------------------------------------------------------
\* An operation runs with the configuration that its own page has sent just
\* before it, unless the server has refused that one.  /set and /action are two
\* requests, and other pages may set theirs in between; what prevents the
\* mixture is that unlocking another page takes the token from this one.
OperationRunsOwnConfig == ~mixed

\* While a page is saving its configuration or waiting for an operation its
\* buttons are disabled, whatever its refreshes find in the meantime.
OperationBlocksButtons ==
  \A p \in Pages : fetch[p]["fore"].route \in {"/set", "/action", "/report"} => page[p].blocked

\* Every unlock and every operation of a page ends, if not every fetch fails.
PendingEnds == \A p \in Pages : page[p].pending ~> ~page[p].pending

\* A page with a valid token gets its buttons back, though the refresh that
\* would enable them may fail or come while the page is still pending.
Waiting(p) == ~page[p].pending /\ authTokenMatches(page[p].authToken) /\ page[p].blocked

ButtonsComeBack == \A p \in Pages : Waiting(p) ~> ~Waiting(p)
=============================================================================
