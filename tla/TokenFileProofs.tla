--------------------------- MODULE TokenFileProofs ---------------------------
(***************************************************************************)
(* What a restart finds: the proof that the newest grant is kept in the    *)
(* token file, for any number of callers, background tasks and grants.     *)
(***************************************************************************)
EXTENDS TokenSessionProofs

-----------------------------------------------------------------------------
(* Which continuations of a task persist: none of them, only UpdateTokens.  *)

LEMMA SettleQuiet ==
  ASSUME NEW r
  PROVE  ~Persisting(Return(r)) /\ ~Persisting(Throw(r)) /\ ~Persisting(Idle)
  BY DEF Persisting, Return, Throw, Settle, Idle

LEMMA SendQuiet ==
  ASSUME NEW r \in Task, NEW token
  PROVE  ~Persisting(Send(r, token))
  BY DEF Persisting, Send, Task

LEMMA MaybeLoginQuiet ==
  ASSUME NEW r \in Task, NEW token
  PROVE  ~Persisting(MaybeLogin(r, token))
  BY SendQuiet DEF Persisting, MaybeLogin, Task

LEMMA LoginQuiet ==
  ASSUME NEW r \in Task
  PROVE  ~Persisting(Login(r))
  BY SettleQuiet DEF Persisting, Login, Task

LEMMA RefreshTokenQuiet ==
  ASSUME NEW r \in Task, NEW token
  PROVE  ~Persisting(RefreshToken(r, token))
  BY DEF Persisting, RefreshToken, Task

LEMMA RefreshAttemptFailedQuiet ==
  ASSUME NEW r \in Task
  PROVE  ~Persisting(RefreshAttemptFailed(r))
  BY SettleQuiet DEF Persisting, RefreshAttemptFailed, Task

LEMMA FailQuiet ==
  ASSUME NEW r \in Task
  PROVE  ~Persisting(Fail(r))
  BY SettleQuiet, RefreshAttemptFailedQuiet DEF Fail

LEMMA RefreshReturnedQuiet ==
  ASSUME NEW r \in Task, NEW token
  PROVE  ~Persisting(RefreshReturned(r, token))
<1>1. [r EXCEPT !.retry = TRUE] \in Task
  BY Zenon DEF Task
<1>2. ~Persisting(Send([r EXCEPT !.retry = TRUE], token))
  BY <1>1, SendQuiet
<1>3. r.retry \in BOOLEAN
  BY DEF Task
<1> QED BY <1>2, <1>3, SettleQuiet DEF RefreshReturned

LEMMA TokensUpdatedQuiet ==
  ASSUME NEW r \in Task, NEW token
  PROVE  ~Persisting(TokensUpdated(r, token))
<1> DEFINE clean == [r EXCEPT !.grant = 0, !.buf = NoFile, !.tries = 0]
           outer == [clean EXCEPT !.frames = Tail(clean.frames)]
<1>1. 0 \in 0..1
  OBVIOUS
<1>2. clean \in Task /\ clean.frames = r.frames
  BY <1>1, Constants, Zenon DEF Task
<1>3. CASE r.frames = <<>>
  BY <1>2, <1>3, SettleQuiet, SendQuiet DEF TokensUpdated
<1>4. CASE r.frames # <<>>
  <2> HIDE DEF clean
  <2>1. clean.frames \in Seq(Frame) /\ clean.frames # <<>>
    BY <1>2, <1>4 DEF Task
  <2>2. Tail(clean.frames) \in Seq(Frame)
    BY <2>1, HeadTailProperties
  <2>3. outer \in Task
    BY <1>2, <2>2, Zenon DEF Task
  <2>4. ~Persisting(RefreshReturned(outer, token))
        /\ ~Persisting(RefreshAttemptFailed(outer))
    BY <2>3, RefreshReturnedQuiet, RefreshAttemptFailedQuiet
  <2>5. TokensUpdated(r, token) = IF outer.frames = <<>>
                                  THEN RefreshReturned(outer, token)
                                  ELSE RefreshAttemptFailed(outer)
    BY <1>2, <1>4, Zenon DEF TokensUpdated, clean
  <2> QED BY <2>4, <2>5
<1> QED BY <1>3, <1>4

-----------------------------------------------------------------------------
(* The inductive invariant *)

\* A task that persists has its answer.
Answered == \A t \in Tasks : Persisting(task[t]) => ~task[t].lost

Pair(g) == [text |-> "json", access |-> g, refresh |-> g]

\* One task at a time persists, what it writes is the newest grant, it finds
\* the file as it truncated it, and without such a task the file is complete.
OneWriter ==
  /\ \A t \in Tasks : Persisting(task[t]) => task[t].buf = Pair(latest)
  /\ \A t, u \in Tasks : Persisting(task[t]) /\ Persisting(task[u]) => t = u
  /\ \A t \in Tasks : task[t].pc = "writing" => file = NoFile
  /\ \/ latest = 0
     \/ file = Pair(latest)
     \/ \E t \in Tasks : Persisting(task[t])

KeptInv == IInv /\ Answered /\ (~blemish => OneWriter)

\* A step that starts, changes and ends no writing.
LEMMA QuietStep ==
  ASSUME KeptInv, NEW t \in Tasks, NEW x,
         ~Persisting(task[t]), ~Persisting(x),
         task' = [task EXCEPT ![t] = x], UNCHANGED <<file, history>>
  PROVE  Answered' /\ (~blemish => OneWriter)'
<1>1. task \in [Tasks -> Task]
  BY DEF KeptInv, IInv, TasksOK
<1>2. \A u \in Tasks : \/ u = t /\ task'[u] = x
                       \/ u # t /\ task'[u] = task[u]
  BY <1>1
<1>3. Answered'
  BY <1>2 DEF KeptInv, Answered
<1>4. ASSUME ~blemish PROVE OneWriter'
  <2>1. OneWriter /\ file' = file /\ latest' = latest
    BY <1>4 DEF KeptInv, history
  <2>2. x.pc # "writing"
    BY DEF Persisting
  <2>3. \A u \in Tasks : Persisting(task'[u]) => u # t /\ task'[u] = task[u]
    BY <1>2
  <2>4. \A u \in Tasks : Persisting(task[u]) => task'[u] = task[u]
    BY <1>2
  <2>5. (\A u \in Tasks : Persisting(task[u]) => task[u].buf = Pair(latest))'
    BY <2>1, <2>3 DEF OneWriter
  <2>6. (\A u, v \in Tasks : Persisting(task[u]) /\ Persisting(task[v]) => u = v)'
    BY <2>1, <2>3 DEF OneWriter
  <2>7. (\A u \in Tasks : task[u].pc = "writing" => file = NoFile)'
    BY <1>2, <2>1, <2>2 DEF OneWriter
  <2>8. (latest = 0 \/ file = Pair(latest) \/ \E u \in Tasks : Persisting(task[u]))'
    BY <2>1, <2>4 DEF OneWriter
  <2> QED BY <2>5, <2>6, <2>7, <2>8 DEF OneWriter
<1> QED BY <1>3, <1>4 DEF history

LEMMA InitKept == Init => KeptInv
<1> SUFFICES ASSUME Init PROVE KeptInv
  OBVIOUS
<1>1. \A t \in Tasks : task[t] = Idle
  BY DEF Init
<1>2. \A t \in Tasks : ~Persisting(task[t]) /\ task[t].pc # "writing"
  BY <1>1, SettleQuiet DEF Persisting
<1>3. Answered
  BY <1>2 DEF Answered
<1>4. OneWriter
  BY <1>2 DEF OneWriter, Init
<1> QED BY <1>3, <1>4, InitInv DEF KeptInv

LEMMA TaskFacts ==
  ASSUME KeptInv
  PROVE  \A t \in Tasks : task[t] \in Task
  BY DEF KeptInv, IInv, TasksOK

\* The steps of a task that do not persist.
LEMMA StepQuiet ==
  ASSUME KeptInv, NEW t \in Tasks,
         \/ ReadTokenFile(t) \/ LoadPersistedTokens(t) \/ DebounceFindsToken(t)
         \/ HandleOk(t) \/ HandleRateLimitError(t) \/ HandleRetry(t)
         \/ HandleInvalidCredentials(t) \/ HandleOtherError(t)
         \/ HandleAccessTokenError(t) \/ Issue(t)
  PROVE  Answered' /\ (~blemish => OneWriter)'
<1>0. task[t] \in Task /\ task \in [Tasks -> Task]
  BY TaskFacts DEF KeptInv, IInv, TasksOK
<1>1. ~Persisting(Return(task[t])) /\ ~Persisting(Fail(task[t]))
  BY <1>0, SettleQuiet, FailQuiet
<1>2. CASE ReadTokenFile(t)
  <2> DEFINE x == [task[t] EXCEPT !.pc = "loaded", !.buf = file]
  <2>1. task' = [task EXCEPT ![t] = x]
    BY <1>0, <1>2, Zenon DEF ReadTokenFile
  <2>2. ~Persisting(task[t]) /\ ~Persisting(x) /\ UNCHANGED <<file, history>>
    BY <1>0, <1>2 DEF ReadTokenFile, Persisting, Task
  <2> QED BY <2>1, <2>2, QuietStep, Zenon
<1>3. CASE LoadPersistedTokens(t)
  <2> DEFINE x == [task[t] EXCEPT !.pc = "debounce", !.buf = NoFile]
  <2>1. ~Persisting(task[t]) /\ UNCHANGED <<file, history>>
    BY <1>3 DEF LoadPersistedTokens, Persisting
  <2>2. ~Persisting(x) /\ ~Persisting(Login(task[t]))
        /\ \A token : ~Persisting(Send(task[t], token))
    BY <1>0, LoginQuiet, SendQuiet DEF Persisting, Task
  <2>3. \E y : ~Persisting(y) /\ task' = [task EXCEPT ![t] = y]
    <3>1. \/ task' = [task EXCEPT ![t] = Login(task[t])]
          \/ \E token : task' = [task EXCEPT ![t] = Send(task[t], token)]
          \/ task' = [task EXCEPT ![t].pc = "debounce", ![t].buf = NoFile]
      BY <1>3, Zenon DEF LoadPersistedTokens
    <3>2. [task EXCEPT ![t].pc = "debounce", ![t].buf = NoFile]
            = [task EXCEPT ![t] = x]
      BY <1>0, Zenon
    <3> HIDE DEF x
    <3> QED BY <2>2, <3>1, <3>2
  <2> QED BY <2>1, <2>3, QuietStep, Zenon
<1>4. CASE DebounceFindsToken(t)
  <2>1. ~Persisting(task[t]) /\ ~Persisting(Send(task[t], access))
    BY <1>0, <1>4, SendQuiet DEF DebounceFindsToken, Persisting
  <2> QED BY <1>4, <2>1, QuietStep, ZenonT(60) DEF DebounceFindsToken
<1>5. CASE HandleOk(t)
  <2>1. ~Persisting(task[t])
    BY <1>5 DEF HandleOk, Accepted, Persisting
  <2> QED BY <1>1, <1>5, <2>1, QuietStep, Zenon DEF HandleOk
<1>6. CASE HandleRateLimitError(t)
  <2> DEFINE w == [task[t] EXCEPT !.pc = "rateWait", !.sent = 0]
             x == CASE Unchecked(task[t]) -> Return(task[t])
                    [] task[t].pc = "api" /\ ~task[t].retry -> w
                    [] OTHER -> Fail(task[t])
  <2>1. ~Persisting(task[t]) /\ UNCHANGED <<file, history>>
    BY <1>6 DEF HandleRateLimitError, Refusable, Waiting, Persisting
  <2>2. ~Persisting(w)
    BY <1>0 DEF Persisting, Task
  <2>3. x = Return(task[t]) \/ x = w \/ x = Fail(task[t])
    OBVIOUS
  <2>4. task' = [task EXCEPT ![t] = x]
    BY <1>6 DEF HandleRateLimitError
  <2> HIDE DEF x, w
  <2> QED BY <1>1, <2>1, <2>2, <2>3, <2>4, QuietStep, ZenonT(60)
<1>7. CASE HandleRetry(t)
  <2>1. [task[t] EXCEPT !.retry = TRUE] \in Task
    BY <1>0, ZenonT(60) DEF Task
  <2>2. ~Persisting(MaybeLogin([task[t] EXCEPT !.retry = TRUE], access))
    BY <2>1, MaybeLoginQuiet
  <2>3. ~Persisting(task[t])
    BY <1>7 DEF HandleRetry, Persisting
  <2> QED BY <1>7, <2>2, <2>3, QuietStep, Zenon DEF HandleRetry
<1>8. CASE HandleInvalidCredentials(t) \/ HandleAccessTokenError(t)
  <2>1. ~Persisting(task[t]) /\ UNCHANGED <<file, history>>
    BY <1>8 DEF HandleInvalidCredentials, HandleAccessTokenError, Refusable,
                TokenRefused, Waiting, Persisting
  <2>2. ~Persisting(RefreshToken(task[t], refresh))
    BY <1>0, RefreshTokenQuiet
  <2>3. \E x : ~Persisting(x) /\ task' = [task EXCEPT ![t] = x]
    BY <1>1, <1>8, <2>2 DEF HandleInvalidCredentials, HandleAccessTokenError
  <2> QED BY <2>1, <2>3, QuietStep, Zenon
<1>9. CASE HandleOtherError(t)
  <2>1. ~Persisting(task[t])
    BY <1>9 DEF HandleOtherError, Failing, Refusable, Waiting, Persisting,
                KeptInv, Answered
  <2> QED BY <1>1, <1>9, <2>1, QuietStep, Zenon DEF HandleOtherError
<1>10. CASE Issue(t)
  <2>1. PICK lost \in BOOLEAN :
          task' = [task EXCEPT ![t].grant = issued + 1, ![t].lost = lost]
    BY <1>10, Zenon DEF Issue
  <2> DEFINE x == [task[t] EXCEPT !.grant = issued + 1, !.lost = lost]
  <2>2. task' = [task EXCEPT ![t] = x]
    BY <1>0, <2>1, ZenonT(60)
  <2>3. ~Persisting(task[t]) /\ UNCHANGED <<file, history>>
    BY <1>10 DEF Issue, Waiting, Persisting
  <2>4. ~Persisting(x)
    BY <1>0, <2>3 DEF Persisting, Task
  <2> HIDE DEF x
  <2> QED BY <2>2, <2>3, <2>4, QuietStep, Zenon
<1> QED BY <1>2, <1>3, <1>4, <1>5, <1>6, <1>7, <1>8, <1>9, <1>10

\* A caller or the timer begins in a free slot.
LEMMA EntryQuiet ==
  ASSUME KeptInv, NEW t \in Tasks, \/ \E kind \in CallKinds : Begin(t, kind)
                                   \/ Timer(t)
  PROVE  Answered' /\ (~blemish => OneWriter)'
<1>1. Idle \in Task
  BY IdleGood DEF Good
<1>2. CASE \E kind \in CallKinds : Begin(t, kind)
  <2>1. PICK kind \in CallKinds : Begin(t, kind)
    BY <1>2
  <2> DEFINE r == [Idle EXCEPT !.kind = kind, !.retry = (kind # "request")]
  <2>2. r \in Task
    BY <1>1, SessionAssumption, ZenonT(60) DEF Task
  <2>3. ~Persisting(MaybeLogin(r, access))
    BY <2>2, MaybeLoginQuiet
  <2>4. ~Persisting(task[t]) /\ UNCHANGED <<file, history>>
        /\ task' = [task EXCEPT ![t] = MaybeLogin(r, access)]
    BY <2>1, Zenon DEF Begin, Persisting
  <2> HIDE DEF r
  <2> QED BY <2>3, <2>4, QuietStep, Zenon
<1>3. CASE Timer(t)
  <2> DEFINE r == [Idle EXCEPT !.kind = "timer"]
  <2>1. r \in Task
    BY <1>1 DEF Task
  <2>2. ~Persisting(RefreshToken(r, refresh))
    BY <2>1, RefreshTokenQuiet
  <2>3. ~Persisting(task[t]) /\ UNCHANGED <<file, history>>
        /\ task' = [task EXCEPT ![t] = RefreshToken(r, refresh)]
    BY <1>3 DEF Timer, Persisting
  <2> HIDE DEF r
  <2> QED BY <2>2, <2>3, QuietStep, Zenon
<1> QED BY <1>2, <1>3

\* The request of the caller and the login nobody awaits, in one step.
LEMMA DebounceOverQuiet ==
  ASSUME KeptInv, NEW t \in Tasks, DebounceOver(t)
  PROVE  Answered' /\ (~blemish => OneWriter)'
<1> DEFINE l == Login([Idle EXCEPT !.kind = "login"])
           x == Send(task[t], access)
<1>1. PICK b \in Background :
        task[b].pc = "idle" /\ task' = [task EXCEPT ![t] = x, ![b] = l]
  BY Zenon DEF DebounceOver
<1>2. b \in Tasks /\ ~Persisting(task[b])
  BY <1>1 DEF Tasks, Persisting
<1>3. ~Persisting(l) /\ ~Persisting(x)
  <2>1. [Idle EXCEPT !.kind = "login"] \in Task
    BY IdleGood, ZenonT(60) DEF Good, Task
  <2> QED BY <2>1, LoginQuiet, SendQuiet, TaskFacts
<1>4. ~Persisting(task[t]) /\ file' = file /\ latest' = latest
      /\ blemish' = blemish
  BY DEF DebounceOver, Persisting, history
<1> HIDE DEF l, x
<1>5. task \in [Tasks -> Task]
  BY DEF KeptInv, IInv, TasksOK
<1>6. \A u \in Tasks : \/ task'[u] = task[u]
                       \/ ~Persisting(task'[u]) /\ ~Persisting(task[u])
  BY <1>1, <1>2, <1>3, <1>4, <1>5
<1>7. Answered'
  BY <1>6 DEF KeptInv, Answered
<1>8. ASSUME ~blemish PROVE OneWriter'
  <2>1. OneWriter
    BY <1>8 DEF KeptInv
  <2>2. \A u \in Tasks : Persisting(task'[u]) => task'[u] = task[u]
    BY <1>6
  <2>3. \A u \in Tasks : Persisting(task[u]) => task'[u] = task[u]
    BY <1>6
  <2>4. \A u \in Tasks : task'[u].pc = "writing" => task[u].pc = "writing"
    BY <2>2 DEF Persisting
  <2> QED BY <1>4, <2>1, <2>2, <2>3, <2>4 DEF OneWriter
<1> QED BY <1>4, <1>7, <1>8

LEMMA UpdateTokensKept ==
  ASSUME KeptInv, NEW t \in Tasks, UpdateTokens(t)
  PROVE  Answered' /\ (~blemish => OneWriter)'
<1> DEFINE g == task[t].grant
           x == [task[t] EXCEPT !.pc = "persist", !.buf = Pair(g)]
<1>1. task \in [Tasks -> Task]
  BY DEF KeptInv, IInv, TasksOK
<1>2. task' = [task EXCEPT ![t] = x]
  BY <1>1, ZenonT(60) DEF UpdateTokens, Pair
<1>3. x.pc = "persist" /\ x.buf = Pair(g) /\ x.lost = task[t].lost
  BY <1>1 DEF Task
<1>4. /\ latest' = g /\ file' = file /\ ~task[t].lost
      /\ blemish' = (blemish \/ \E u \in Tasks : Persisting(task[u]))
  BY DEF UpdateTokens
<1> HIDE DEF g, x
<1>5. task'[t] = x /\ \A u \in Tasks : u # t => task'[u] = task[u]
  BY <1>1, <1>2
<1>6. Answered'
  BY <1>3, <1>4, <1>5 DEF KeptInv, Answered
<1>7. ASSUME ~blemish' PROVE OneWriter'
  <2>1. \A u \in Tasks : ~Persisting(task[u])
    BY <1>4, <1>7, Zenon
  <2>2. \A u \in Tasks : Persisting(task'[u]) => u = t
    BY <1>5, <2>1
  <2>3. \A u \in Tasks : task'[u].pc # "writing"
    BY <1>3, <1>5, <2>1 DEF Persisting
  <2>4. Persisting(task'[t])
    BY <1>3, <1>5 DEF Persisting
  <2> QED BY <1>3, <1>4, <1>5, <2>2, <2>3, <2>4 DEF OneWriter
<1> QED BY <1>6, <1>7

LEMMA OpenTokenFileKept ==
  ASSUME KeptInv, NEW t \in Tasks, OpenTokenFile(t)
  PROVE  Answered' /\ (~blemish => OneWriter)'
<1> DEFINE x == [task[t] EXCEPT !.pc = "writing"]
<1>1. task \in [Tasks -> Task]
  BY DEF KeptInv, IInv, TasksOK
<1>2. /\ task' = [task EXCEPT ![t] = x] /\ file' = NoFile
      /\ latest' = latest /\ blemish' = blemish
  BY <1>1 DEF OpenTokenFile, history
<1>3. /\ x.pc = "writing" /\ x.buf = task[t].buf /\ x.lost = task[t].lost
      /\ Persisting(task[t]) /\ Persisting(x)
  BY <1>1 DEF OpenTokenFile, Persisting, Task
<1> HIDE DEF x
<1>4. task'[t] = x /\ \A u \in Tasks : u # t => task'[u] = task[u]
  BY <1>1, <1>2
<1>5. Answered'
  BY <1>3, <1>4 DEF KeptInv, Answered
<1>6. ASSUME ~blemish PROVE OneWriter'
  <2>1. OneWriter
    BY <1>6 DEF KeptInv
  <2>2. \A u \in Tasks : Persisting(task'[u]) => u = t
    BY <1>3, <1>4, <2>1 DEF OneWriter
  <2> QED BY <1>2, <1>3, <1>4, <2>1, <2>2 DEF OneWriter
<1> QED BY <1>2, <1>5, <1>6

LEMMA WriteTokenFileKept ==
  ASSUME KeptInv, NEW t \in Tasks, WriteTokenFile(t)
  PROVE  Answered' /\ (~blemish => OneWriter)'
<1> DEFINE x == TokensUpdated(task[t], access)
<1>1. task \in [Tasks -> Task]
  BY DEF KeptInv, IInv, TasksOK
<1>2. ~Persisting(x)
  BY <1>1, TokensUpdatedQuiet
<1>3. /\ task' = [task EXCEPT ![t] = x] /\ task[t].pc = "writing"
      /\ file = NoFile => file' = task[t].buf
      /\ latest' = latest /\ blemish' = blemish
  BY DEF WriteTokenFile, history
<1> HIDE DEF x
<1>4. task'[t] = x /\ \A u \in Tasks : u # t => task'[u] = task[u]
  BY <1>1, <1>3
<1>5. Answered'
  BY <1>2, <1>4 DEF KeptInv, Answered
<1>6. ASSUME ~blemish PROVE OneWriter'
  <2>1. OneWriter /\ Persisting(task[t])
    BY <1>3, <1>6 DEF KeptInv, Persisting
  <2>2. \A u \in Tasks : ~Persisting(task'[u])
    BY <1>2, <1>4, <2>1 DEF OneWriter
  <2>3. \A u \in Tasks : task'[u].pc # "writing"
    BY <2>2 DEF Persisting
  <2>4. file' = Pair(latest)
    BY <1>3, <2>1 DEF OneWriter
  <2> QED BY <1>3, <2>2, <2>3, <2>4 DEF OneWriter
<1> QED BY <1>3, <1>5, <1>6

LEMMA WriteFailsKept ==
  ASSUME KeptInv, NEW t \in Tasks, WriteFails(t)
  PROVE  Answered' /\ (~blemish => OneWriter)'
<1> DEFINE y == [task[t] EXCEPT !.pc = "persist", !.tries = 1]
           x == IF task[t].tries = 0 THEN y ELSE Fail(task[t])
<1>1. task \in [Tasks -> Task]
  BY DEF KeptInv, IInv, TasksOK
<1>2. task' = [task EXCEPT ![t] = x] /\ blemish' = TRUE /\ Persisting(task[t])
  BY DEF WriteFails, Persisting
<1>3. y.lost = task[t].lost
  BY <1>1 DEF Task
<1>4. ~Persisting(Fail(task[t]))
  BY <1>1, FailQuiet
<1>5. Persisting(x) => ~x.lost
  <2>1. ~task[t].lost
    BY <1>2 DEF KeptInv, Answered
  <2> QED BY <1>3, <1>4, <2>1
<1> HIDE DEF x
<1>6. task'[t] = x /\ \A u \in Tasks : u # t => task'[u] = task[u]
  BY <1>1, <1>2
<1> QED BY <1>2, <1>5, <1>6 DEF KeptInv, Answered

LEMMA CrashKept ==
  ASSUME KeptInv, Crash
  PROVE  Answered' /\ (~blemish => OneWriter)'
<1>1. \A t \in Tasks : ~Persisting(task'[t]) /\ task'[t].pc # "writing"
  BY SettleQuiet DEF Crash, Persisting
<1>2. Answered'
  BY <1>1 DEF Answered
<1>3. ASSUME ~blemish' PROVE OneWriter'
  <2>1. ~blemish /\ \A t \in Tasks : ~Persisting(task[t])
    BY <1>3, ZenonT(60) DEF Crash
  <2>2. file' = file /\ latest' = latest
    BY <2>1 DEF Crash, Persisting
  <2> QED BY <1>1, <2>1, <2>2 DEF KeptInv, OneWriter
<1> QED BY <1>2, <1>3

\* Time passes, a token expires, or nothing happens.
LEMMA OutsideKept ==
  ASSUME KeptInv, UNCHANGED <<task, file, history>>
  PROVE  Answered' /\ (~blemish => OneWriter)'
  BY DEF KeptInv, Answered, OneWriter, history

LEMMA KeptStep == KeptInv /\ [Next]_vars => KeptInv'
<1> SUFFICES ASSUME KeptInv, [Next]_vars PROVE KeptInv'
  OBVIOUS
<1>1. IInv'
  BY StepInv DEF KeptInv
<1>2. ASSUME NEW c \in Calls, NEW kind \in CallKinds, Begin(c, kind)
      PROVE  Answered' /\ (~blemish => OneWriter)'
  BY <1>2, EntryQuiet DEF Tasks
<1>3. ASSUME NEW b \in Background, Timer(b)
      PROVE  Answered' /\ (~blemish => OneWriter)'
  BY <1>3, EntryQuiet DEF Tasks
<1>4. ASSUME NEW t \in Tasks, Step(t) \/ Issue(t)
      PROVE  Answered' /\ (~blemish => OneWriter)'
  BY <1>4, StepQuiet, DebounceOverQuiet, UpdateTokensKept, OpenTokenFileKept,
     WriteTokenFileKept, WriteFailsKept DEF Step
<1>5. ASSUME DebouncePasses \/ (\E g \in 1..MaxGrants : Expire(g))
               \/ UNCHANGED vars
      PROVE  Answered' /\ (~blemish => OneWriter)'
  <2>1. UNCHANGED <<task, file, history>>
    BY <1>5 DEF DebouncePasses, Expire, vars, history
  <2> QED BY <2>1, OutsideKept
<1>6. Answered' /\ (~blemish => OneWriter)'
  BY <1>2, <1>3, <1>4, <1>5, CrashKept DEF Next
<1> QED BY <1>1, <1>6 DEF KeptInv

-----------------------------------------------------------------------------
\* As long as no write of the token file failed, was interrupted or overlapped
\* with another one, the newest grant of _updateTokens() is in the file or a
\* task is about to put it there (_persistTokens).
THEOREM NewestGrantIsKept == Spec => []NewestGrantKept
<1>1. Spec => []KeptInv
  BY InitKept, KeptStep, PTL DEF Spec
<1>2. KeptInv => NewestGrantKept
  <2> SUFFICES ASSUME KeptInv, ~blemish, latest # 0 PROVE NewestGrantKept
    BY DEF NewestGrantKept
  <2>1. OneWriter
    BY DEF KeptInv
  <2>2. Pair(latest).text = "json" /\ Pair(latest).refresh = latest
    BY DEF Pair
  <2> QED BY <2>1, <2>2 DEF OneWriter, NewestGrantKept
<1> QED BY <1>1, <1>2, PTL
=============================================================================
