---------------------------- MODULE TokenSession ----------------------------
(***************************************************************************)
(* The token session of class WyzeAPI (src/index.js): the access and       *)
(* refresh tokens in memory, the token file, and the asynchronous calls    *)
(* that read and write them: request(), cameraGetStreamInfo(), the signed  *)
(* device calls, the un-awaited login of maybeLogin() and the refresh      *)
(* timer of the constructor.                                               *)
(*                                                                         *)
(* A step of a task is the code between two waits for something outside    *)
(* the event loop: an HTTP answer, a file operation or a timer.  What runs *)
(* between two such waits is atomic in Node.js, awaits of promises that    *)
(* are already settled included.                                           *)
(*                                                                         *)
(* A grant is one answer of the login or refresh service: an access token  *)
(* and a refresh token.  Both tokens of grant g are written g; 0 is the    *)
(* empty string.                                                           *)
(*                                                                         *)
(* What a service answers to a request is decided when the client goes on  *)
(* with the answer: tokens only ever stop being valid, so a request that   *)
(* was refused earlier is refused then too.  The exception is a grant,     *)
(* which exists from the moment the service issues it.  A sleep before a   *)
(* repeated request or write, and the one of _checkRateLimit(), is a delay *)
(* of that request, write or answer.                                       *)
(***************************************************************************)
EXTENDS Naturals, Sequences

CONSTANTS
  Calls,        \* callers of the API, each with one call at a time
  CallKinds,    \* the kinds of call they make
  Background,   \* slots for tasks nobody awaits
  TimerEnabled, \* options.refreshTokenTimerEnabled
  Faults,       \* what may go wrong outside the library
  MaxGrants,    \* bound: grants the service issues
  MaxDepth      \* bound: activations of refreshToken() that are told apart

ASSUME SessionAssumption ==
  /\ CallKinds \subseteq {"request", "stream", "direct"}
  /\ TimerEnabled \in BOOLEAN
  /\ Faults \subseteq {"rateLimited", "badCredentials", "error", "lost",
                       "refreshRefused", "disk", "crash"}
  /\ MaxGrants \in Nat
  /\ MaxDepth \in Nat /\ MaxDepth > 1
  /\ Calls \cap Background = {}

Tasks == Calls \cup Background

VARIABLES
  access, refresh,       \* this.access_token, this.refresh_token
  recent,                \* the login debounce period has not passed yet
  hasKeys,               \* options.apiKey and options.keyId were given
  task,                  \* what each asynchronous call is doing
  file,                  \* content of the token file
  issued,                \* number of grants issued by the service
  accessOk, refreshOk,   \* tokens the service still accepts
  latest, blemish        \* history: newest grant obtained; a write of the
                         \* file failed, was interrupted or overlapped

memory  == <<access, refresh>>
service == <<issued, accessOk, refreshOk>>
history == <<latest, blemish>>
vars == <<access, refresh, recent, hasKeys, task, file, issued, accessOk,
          refreshOk, latest, blemish>>

-----------------------------------------------------------------------------
(* Token file contents and task records *)

Token == 0..MaxGrants

Contents == [text : {"none", "partial", "json"}, access : Token, refresh : Token]

NoFile  == [text |-> "none", access |-> 0, refresh |-> 0]
Garbled == [text |-> "partial", access |-> 0, refresh |-> 0]

\* An activation of refreshToken(): failed attempts and the refresh token in
\* the request data captured before the first attempt.
Frame == [attempt : 0..1, token : Token]

\* Bound: refresh requests are counted up to Many, and only as even or odd from
\* there on, so that each of them remains a step however many there are.
Many == 4
Counted(n) == IF n < Many THEN n + 1 ELSE Many - 1

PCs == {"idle", "reading", "loaded", "debounce", "login", "api", "rateWait",
        "refresh", "persist", "writing"}

Task == [kind   : {"none", "request", "stream", "direct", "login", "timer"},
         pc     : PCs,
         retry  : BOOLEAN,    \* no further request follows this one
         sent   : Token,      \* access token of the API request in flight
         sends  : Nat,        \* API requests sent
         grant  : Token,      \* issued for the request in flight, 0 for none
         lost   : BOOLEAN,    \* the answer with the grant got lost
         refreshes : Nat,     \* refresh requests of the current refreshToken()
         frames : Seq(Frame), \* refreshToken() activations, innermost first
         buf    : Contents,   \* file content read, or to be written
         tries  : 0..1,       \* failed attempts of _persistTokens()
         result : {"none", "returned", "failed"}]

Idle == [kind |-> "none", pc |-> "idle", retry |-> FALSE, sent |-> 0,
         sends |-> 0, grant |-> 0, lost |-> FALSE, refreshes |-> 0,
         frames |-> <<>>, buf |-> NoFile, tries |-> 0, result |-> "none"]

Persisting(r) == r.pc \in {"persist", "writing"}

-----------------------------------------------------------------------------
(* What a task does up to its next wait, as functions of its record *)

Settle(r, result) == IF r.kind \in {"login", "timer"}
                     THEN Idle ELSE [Idle EXCEPT !.result = result]
Return(r) == Settle(r, "returned")
Throw(r)  == Settle(r, "failed")

\* getRequestData() and axios() of the API request
Send(r, token) == [r EXCEPT !.pc = "api", !.sent = token, !.sends = @ + 1,
                            !.refreshes = 0, !.buf = NoFile]

\* maybeLogin() up to its first wait, with what follows when it returns
MaybeLogin(r, token) ==
  IF token = 0 THEN [r EXCEPT !.pc = "reading"] ELSE Send(r, token)

\* login() up to the answer of the login service
Login(r) == IF hasKeys THEN [r EXCEPT !.pc = "login", !.buf = NoFile]
                       ELSE Throw(r)

\* A refresh whose request is refused calls refreshToken() again, and so on
\* without a limit.  An activation beyond MaxDepth takes the place of the one
\* around it, which counts as one that has used its retry.
Nested(frame, frames) ==
  IF Len(frames) < MaxDepth THEN <<frame>> \o frames
                            ELSE <<frame>> \o Tail(frames)

\* refreshToken() up to the answer of the refresh service
RefreshToken(r, token) ==
  [r EXCEPT !.pc = "refresh", !.sent = 0, !.refreshes = Counted(@),
            !.frames = Nested([attempt |-> 0, token |-> token], @)]

\* An attempt of the innermost refreshToken() failed.  It is repeated with the
\* same request data, or throws to the attempt of the activation around it,
\* and so on.
Retryable(frames) == {i \in DOMAIN frames : frames[i].attempt = 0}

\* Mutant: the number of attempts is not limited.
RefreshAttemptFailed_Unlimited(r) ==
  IF r.frames = <<>>
  THEN Throw(r)
  ELSE [r EXCEPT !.pc = "refresh", !.grant = 0, !.lost = FALSE,
                 !.buf = NoFile, !.tries = 0, !.refreshes = Counted(@),
                 !.frames[1].attempt = @ + 1]

\* Mutant: failed attempts are not counted.
RefreshAttemptFailed_Uncounted(r) ==
  IF r.frames = <<>>
  THEN Throw(r)
  ELSE [r EXCEPT !.pc = "refresh", !.grant = 0, !.lost = FALSE,
                 !.buf = NoFile, !.tries = 0, !.refreshes = Counted(@)]

RefreshAttemptFailed(r) ==
  LET alive == Retryable(r.frames)
      k     == CHOOSE i \in alive : \A j \in alive : i <= j
  IN  IF alive = {}
      THEN Throw(r)
      ELSE [r EXCEPT !.pc = "refresh", !.grant = 0, !.lost = FALSE,
                     !.buf = NoFile, !.tries = 0, !.refreshes = Counted(@),
                     !.frames = <<[attempt |-> 1, token |-> @[k].token]>>
                                  \o SubSeq(@, k + 1, Len(@))]

\* An exception in the request, login or persistence code of a task
Fail(r) == IF r.frames = <<>> THEN Throw(r) ELSE RefreshAttemptFailed(r)

\* _handleAccessTokenError() returned to the API request of the task, or
\* refreshToken() to the timer.
RefreshReturned(r, token) ==
  CASE r.kind = "timer"             -> Return(r)
    [] r.kind # "timer" /\ r.retry  -> Throw(r)
    [] r.kind # "timer" /\ ~r.retry ->
         IF token = 0 THEN Throw(r) ELSE Send([r EXCEPT !.retry = TRUE], token)

\* _updateTokens() returned to login() or to refreshToken().  An enclosing
\* refreshToken() counts the refresh nested in its request as a failure.
TokensUpdated(r, token) ==
  LET clean == [r EXCEPT !.grant = 0, !.buf = NoFile, !.tries = 0]
      outer == [clean EXCEPT !.frames = Tail(@)]
  IN  IF r.frames = <<>>
      THEN IF r.kind = "login" THEN Return(r) ELSE Send(clean, token)
      ELSE IF outer.frames = <<>>
           THEN RefreshReturned(outer, token)
           ELSE RefreshAttemptFailed(outer)

-----------------------------------------------------------------------------
Init ==
  /\ access = 0 /\ refresh = 0
  /\ recent = FALSE
  /\ hasKeys \in BOOLEAN
  /\ task = [t \in Tasks |-> Idle]
  /\ file = NoFile
  /\ issued = 0 /\ accessOk = {} /\ refreshOk = {}
  /\ latest = 0 /\ blemish = FALSE

-----------------------------------------------------------------------------
(* Entry points *)

\* request(), cameraGetStreamInfo() or a signed device call.  Only request()
\* sends a second API request.
Begin(c, kind) ==
  /\ task[c].pc = "idle"
  /\ task' = [task EXCEPT ![c] =
                MaybeLogin([Idle EXCEPT !.kind = kind,
                                        !.retry = (kind # "request")], access)]
  /\ UNCHANGED <<memory, recent, hasKeys, file, service, history>>

\* setInterval(this.refreshToken...) fires.
Timer(b) ==
  /\ TimerEnabled
  /\ task[b].pc = "idle"
  /\ task' = [task EXCEPT ![b] =
                RefreshToken([Idle EXCEPT !.kind = "timer"], refresh)]
  /\ UNCHANGED <<memory, recent, hasKeys, file, service, history>>

-----------------------------------------------------------------------------
(* maybeLogin() *)

\* The content of the file at the moment the operating system reads it.
ReadTokenFile(t) ==
  /\ task[t].pc = "reading"
  /\ task' = [task EXCEPT ![t].pc = "loaded", ![t].buf = file]
  /\ UNCHANGED <<memory, recent, hasKeys, file, service, history>>

\* Mutant: only the access token is taken from the file.
LoadPersistedTokens_AccessOnly(t) ==
  LET r     == task[t]
      token == IF r.buf.text = "json" THEN r.buf.access ELSE access
  IN  /\ r.pc = "loaded"
      /\ access' = token
      /\ task' = [task EXCEPT ![t] = IF token # 0 THEN Send(r, token) ELSE Login(r)]
      /\ UNCHANGED <<refresh, recent, hasKeys, file, service, history>>

\* _loadPersistedTokens() continues and maybeLogin() after it.
LoadPersistedTokens(t) ==
  LET r     == task[t]
      valid == r.buf.text = "json" /\ r.buf.access # 0 /\ r.buf.refresh # 0
      token == IF valid THEN r.buf.access ELSE access
  IN  /\ r.pc = "loaded"
      /\ access' = token
      /\ refresh' = IF valid THEN r.buf.refresh ELSE refresh
      /\ \/ /\ token # 0
            /\ task' = [task EXCEPT ![t] = Send(r, token)]
            /\ UNCHANGED recent
         \/ /\ token = 0 /\ ~recent              \* tryLogin()
            /\ task' = [task EXCEPT ![t] = Login(r)]
            /\ recent' = TRUE
         \/ /\ token = 0 /\ recent               \* waitForDebounceClearance()
            /\ task' = [task EXCEPT ![t].pc = "debounce", ![t].buf = NoFile]
            /\ UNCHANGED recent
      /\ UNCHANGED <<hasKeys, file, service, history>>

DebouncePasses ==
  /\ recent
  /\ recent' = FALSE
  /\ UNCHANGED <<memory, hasKeys, task, file, service, history>>

\* A poll of waitForDebounceClearance() finds a token.
DebounceFindsToken(t) ==
  /\ task[t].pc = "debounce"
  /\ access # 0
  /\ task' = [task EXCEPT ![t] = Send(@, access)]
  /\ UNCHANGED <<memory, recent, hasKeys, file, service, history>>

\* The wait is over without a token.  updateDebounceAndLogin() is started and
\* not awaited, so the request is sent at once.  It records the time at which
\* the wait began, so a new period may or may not have begun.
DebounceOver(t) ==
  /\ task[t].pc = "debounce"
  /\ access = 0
  /\ \E b \in Background :
       /\ task[b].pc = "idle"
       /\ task' = [task EXCEPT ![t] = Send(@, access),
                               ![b] = Login([Idle EXCEPT !.kind = "login"])]
  /\ recent' \in BOOLEAN
  /\ UNCHANGED <<memory, hasKeys, file, service, history>>

-----------------------------------------------------------------------------
(* The Wyze services (external): what they may answer to the request of r   *)

Waiting(r) == r.pc \in {"api", "login", "refresh"} /\ r.grant = 0

Refusable(r, fault) == Waiting(r) /\ fault \in Faults

Accepted(r) == r.pc = "api" /\ r.sent \in accessOk

\* A refused refresh is an access token error, since the access token in its
\* data is stale, or an error of its own.
TokenRefused(r) ==
  \/ r.pc = "api" /\ r.sent \notin accessOk
  \/ r.pc = "refresh" /\ Refusable(r, "refreshRefused")

Failing(r) ==
  \/ Refusable(r, "error")
  \/ r.lost
  \/ r.pc = "refresh" /\ Waiting(r) /\ r.frames[1].token \notin refreshOk
  \/ r.pc \in {"login", "refresh"} /\ Waiting(r) /\ issued = MaxGrants

\* A grant is issued; the answer that carries it may get lost.  A refresh uses
\* up the refresh token.
Issue(t) ==
  LET r == task[t]
      used == IF r.pc = "refresh" THEN {r.frames[1].token} ELSE {}
  IN  /\ r.pc \in {"login", "refresh"} /\ Waiting(r)
      /\ used \subseteq refreshOk
      /\ issued < MaxGrants
      /\ issued' = issued + 1
      /\ accessOk' = accessOk \cup {issued + 1}
      /\ refreshOk' = (refreshOk \ used) \cup {issued + 1}
      /\ \E lost \in {FALSE} \cup {f \in {TRUE} : "lost" \in Faults} :
           task' = [task EXCEPT ![t].grant = issued + 1, ![t].lost = lost]
      /\ UNCHANGED <<memory, recent, hasKeys, file, history>>

Expire(g) ==
  /\ \/ g \in accessOk /\ accessOk' = accessOk \ {g} /\ UNCHANGED refreshOk
     \/ g \in refreshOk /\ refreshOk' = refreshOk \ {g} /\ UNCHANGED accessOk
  /\ UNCHANGED <<memory, recent, hasKeys, task, file, issued, history>>

-----------------------------------------------------------------------------
(* Continuations of _performRequest() and of the direct calls *)

HandleOk(t) ==
  /\ Accepted(task[t])
  /\ task' = [task EXCEPT ![t] = Return(@)]
  /\ UNCHANGED <<memory, recent, hasKeys, file, service, history>>

\* The direct calls hand every answer to their caller.
Unchecked(r) == r.kind = "direct" /\ r.pc = "api"

HandleRateLimitError(t) ==
  /\ Refusable(task[t], "rateLimited")
  /\ task' = [task EXCEPT ![t] =
                CASE Unchecked(@)             -> Return(@)
                  [] @.pc = "api" /\ ~@.retry -> [@ EXCEPT !.pc = "rateWait",
                                                          !.sent = 0]
                  [] OTHER                    -> Fail(@)]
  /\ UNCHANGED <<memory, recent, hasKeys, file, service, history>>

\* Mutant: the repeated request may be repeated again.
HandleRetry_Unmarked(t) ==
  /\ task[t].pc = "rateWait"
  /\ task' = [task EXCEPT ![t] = MaybeLogin(@, access)]
  /\ UNCHANGED <<memory, recent, hasKeys, file, service, history>>

\* The wait of _handleRetry() is over.
HandleRetry(t) ==
  /\ task[t].pc = "rateWait"
  /\ task' = [task EXCEPT ![t] = MaybeLogin([@ EXCEPT !.retry = TRUE], access)]
  /\ UNCHANGED <<memory, recent, hasKeys, file, service, history>>

\* Only _handleApiResponse() looks for wrong credentials.
HandleInvalidCredentials(t) ==
  /\ Refusable(task[t], "badCredentials")
  /\ access' = IF task[t].kind \in {"stream", "direct"} /\ task[t].pc = "api"
               THEN access ELSE 0
  /\ task' = [task EXCEPT ![t] = IF Unchecked(@) THEN Return(@) ELSE Fail(@)]
  /\ UNCHANGED <<refresh, recent, hasKeys, file, service, history>>

\* Any other error code, an HTTP error or no answer.
HandleOtherError(t) ==
  /\ Failing(task[t])
  /\ task' = [task EXCEPT ![t] = Fail(@)]
  /\ UNCHANGED <<memory, recent, hasKeys, file, service, history>>

\* _handleAccessTokenError() clears the token and calls refreshToken().
HandleAccessTokenError(t) ==
  /\ TokenRefused(task[t])
  /\ access' = IF Unchecked(task[t]) THEN access ELSE 0
  /\ task' = [task EXCEPT ![t] = IF Unchecked(@) THEN Return(@)
                                                 ELSE RefreshToken(@, refresh)]
  /\ UNCHANGED <<refresh, recent, hasKeys, file, service, history>>

-----------------------------------------------------------------------------
(* _updateTokens() and _persistTokens() *)

\* Mutant: the tokens are persisted before the new ones are assigned.
UpdateTokens_PersistFirst(t) ==
  LET g == task[t].grant
  IN  /\ g # 0 /\ ~task[t].lost /\ ~Persisting(task[t])
      /\ access' = g /\ refresh' = g
      /\ task' = [task EXCEPT ![t].pc = "persist",
                    ![t].buf = [text |-> "json", access |-> refresh,
                                refresh |-> refresh]]
      /\ latest' = g
      /\ blemish' = (blemish \/ \E u \in Tasks : Persisting(task[u]))
      /\ UNCHANGED <<recent, hasKeys, file, service>>

UpdateTokens(t) ==
  LET g == task[t].grant
  IN  /\ g # 0 /\ ~task[t].lost /\ ~Persisting(task[t])
      /\ access' = g /\ refresh' = g
      /\ task' = [task EXCEPT ![t].pc = "persist",
                    ![t].buf = [text |-> "json", access |-> g, refresh |-> g]]
      /\ latest' = g
      /\ blemish' = (blemish \/ \E u \in Tasks : Persisting(task[u]))
      /\ UNCHANGED <<recent, hasKeys, file, service>>

\* fs.writeFile() opens the file and truncates it ...
OpenTokenFile(t) ==
  /\ task[t].pc = "persist"
  /\ file' = NoFile
  /\ task' = [task EXCEPT ![t].pc = "writing"]
  /\ UNCHANGED <<memory, recent, hasKeys, service, history>>

\* ... and writes it.  Over the content of another writer the longer of the
\* two may leave a tail.
WriteTokenFile(t) ==
  /\ task[t].pc = "writing"
  /\ file' \in {task[t].buf} \cup (IF file = NoFile THEN {} ELSE {Garbled})
  /\ task' = [task EXCEPT ![t] = TokensUpdated(@, access)]
  /\ UNCHANGED <<memory, recent, hasKeys, service, history>>

\* An attempt to write fails; after the second _updateTokens() throws.
WriteFails(t) ==
  /\ "disk" \in Faults
  /\ task[t].pc \in {"persist", "writing"}
  /\ file' \in {file} \cup (IF task[t].pc = "writing" THEN {Garbled} ELSE {})
  /\ task' = [task EXCEPT ![t] =
                IF @.tries = 0
                THEN [@ EXCEPT !.pc = "persist", !.tries = 1]
                ELSE Fail(@)]
  /\ blemish' = TRUE
  /\ UNCHANGED <<memory, recent, hasKeys, service, latest>>

\* The process exits (a rejection nobody handles ends it too) and starts
\* again: only the file is left.
Crash ==
  /\ "crash" \in Faults
  /\ access' = 0 /\ refresh' = 0 /\ recent' = FALSE
  /\ task' = [t \in Tasks |-> Idle]
  /\ file' \in {file} \cup
       (IF \E t \in Tasks : task[t].pc = "writing" THEN {Garbled} ELSE {})
  /\ blemish' = (blemish \/ \E t \in Tasks : Persisting(task[t]))
  /\ UNCHANGED <<hasKeys, service, latest>>

-----------------------------------------------------------------------------
Step(t) ==
  \/ ReadTokenFile(t) \/ LoadPersistedTokens(t)
  \/ DebounceFindsToken(t) \/ DebounceOver(t)
  \/ HandleOk(t) \/ HandleRateLimitError(t) \/ HandleRetry(t)
  \/ HandleInvalidCredentials(t) \/ HandleOtherError(t)
  \/ HandleAccessTokenError(t)
  \/ UpdateTokens(t) \/ OpenTokenFile(t) \/ WriteTokenFile(t) \/ WriteFails(t)

Next ==
  \/ \E c \in Calls, kind \in CallKinds : Begin(c, kind)
  \/ \E b \in Background : Timer(b)
  \/ \E t \in Tasks : Step(t) \/ Issue(t)
  \/ DebouncePasses
  \/ \E g \in 1..MaxGrants : Expire(g)
  \/ Crash

Spec == Init /\ [][Next]_vars

\* Files, timers and services answer; nobody need call, and nothing expires,
\* fails or crashes by necessity.
Fairness == \A t \in Tasks : WF_vars(Step(t)) /\ WF_vars(Issue(t))

FairSpec == Spec /\ Fairness

\* In addition every caller calls again and again.
BusySpec == FairSpec /\ \A c \in Calls : WF_vars(\E k \in CallKinds : Begin(c, k))

-----------------------------------------------------------------------------
(* Properties *)

TypeOK ==
  /\ access \in Token /\ refresh \in Token
  /\ recent \in BOOLEAN /\ hasKeys \in BOOLEAN
  /\ task \in [Tasks -> Task]
  /\ file \in Contents
  /\ issued \in Token
  /\ accessOk \subseteq 1..MaxGrants /\ refreshOk \subseteq 1..MaxGrants
  /\ latest \in Token /\ blemish \in BOOLEAN

\* The tokens in memory, in the token file and in every buffer on the way to
\* or from it come from one grant that the service really issued:
\* _updateTokens(), _persistTokens() and _loadPersistedTokens() never combine
\* the access token of one grant with the refresh token of another.
OneGrant ==
  /\ access \in {0, refresh} /\ refresh <= issued
  /\ file.access = file.refresh /\ file.refresh <= issued
  /\ \A t \in Tasks : /\ task[t].buf.access = task[t].buf.refresh
                      /\ task[t].buf.refresh <= issued

\* The newest grant that _updateTokens() put into memory is in the token file
\* or on its way there, so a restart finds it, unless a write of the file
\* failed, was interrupted by a crash or overlapped with another one.
NewestGrantKept ==
  \/ latest = 0 \/ blemish
  \/ file.text = "json" /\ file.refresh = latest
  \/ \E t \in Tasks : Persisting(task[t]) /\ task[t].buf.refresh = latest

\* Calls as their callers see them.
Contract == INSTANCE RequestContract WITH
  MaxSends <- 2,
  active   <- {c \in Calls : task[c].pc # "idle"},
  sends    <- [c \in Calls |-> task[c].sends],
  outcome  <- [c \in Calls |-> task[c].result]

\* Whatever happens to tokens, file and other calls, request() sends at most
\* its request and one retry, returns only after an answer, and settles once.
CallsKeepSafeContract == Contract!Safety

\* The refresh service answers the refreshes of a call with access token errors
\* for ever: each answer nests another refreshToken() in the one before.
RefusedForEver(c) ==
  []<><<task[c].pc = "refresh" /\ HandleAccessTokenError(c)>>_vars

\* Every call settles, through nested refreshes, retries, lost answers and
\* failing writes, unless the service refuses its refreshes for ever.
CallsSettle ==
  \A c \in Calls : RefusedForEver(c) \/ []<>(task[c].pc = "idle")

\* What the comment on request() says of a call that does not succeed: it
\* "throws an error if the request fails after a retry or encounters an unknown
\* error".  Every call settles, whatever the services answer.
CallsKeepContract == Contract!Spec

\* What the comment in request() says: "Ensure the user is logged in before
\* making the request."
LoggedInBeforeRequest ==
  \A t \in Tasks : task[t].pc = "api" => task[t].sent # 0

\* What wiki/Troubleshooting.md says of the call after a refresh: "the next
\* call will use the fresh token".
FreshTokenUsed ==
  [][\A t \in Tasks : task'[t].sends > task[t].sends
                        => task'[t].sent \in {0, latest}]_vars

\* What the comment on maxRetries in refreshToken() says: "One initial attempt
\* + one retry".
RefreshedAtMostTwice == \A t \in Tasks : task[t].refreshes <= 2

\* What the comment on maybeLogin() says: "If the access token is missing or
\* expired, it handles the login process".  Stated for a client that goes on
\* calling and a service that answers every login: once no token of the
\* session is valid any more, a new grant is obtained.
ExpiredSessionLogsIn ==
  \A n \in 0..(MaxGrants - 1) :
    (hasKeys /\ issued = n /\ accessOk = {} /\ refreshOk = {}) ~> (issued > n)

=============================================================================
