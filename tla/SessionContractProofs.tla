------------------------ MODULE SessionContractProofs ------------------------
(***************************************************************************)
(* The proof that the calls of a token session keep the safety part of     *)
(* RequestContract, for any number of callers, background tasks and        *)
(* grants, any nesting of refreshes and any set of faults.                 *)
(***************************************************************************)
EXTENDS TokenSessionProofs

-----------------------------------------------------------------------------
(* What a call does to what its caller sees of it *)

Called(r) == r.kind \in {"request", "stream", "direct"} /\ r.result = "none"

\* A call that may still send a request, and one that has sent its first or,
\* with retry set, its last.
Ready(r) == r.sends <= 1 /\ (~r.retry => r.sends = 0)
Asked(r) == r.sends \in 1..2 /\ (~r.retry => r.sends = 1)

Resting(r) == r.sends = 0 /\ r.grant = 0 /\ ~r.lost

Underway(r) ==
  /\ r.pc # "idle" /\ Called(r)
  /\ r.grant # 0 => r.pc \in {"login", "refresh", "persist", "writing"}
  /\ r.frames # <<>> => r.pc \in {"refresh", "persist", "writing"}
  /\ r.pc = "refresh" => r.frames # <<>>
  /\ r.pc \in {"api", "rateWait"} \/ r.frames # <<>> => Asked(r)
  /\ r.pc \notin {"api", "rateWait"} /\ r.frames = <<>> => Ready(r)
  /\ r.pc = "rateWait" => ~r.retry

Quiet(r, s) == Underway(s) /\ s.sends = r.sends
Sends(r, s) == Underway(s) /\ s.sends = r.sends + 1 /\ r.sends < 2
Settles(r, s) ==
  /\ s.pc = "idle" /\ Resting(s)
  /\ s.result = "failed" \/ (s.result = "returned" /\ r.sends > 0)

Goes(r, s) == Quiet(r, s) \/ Sends(r, s) \/ Settles(r, s)

LEMMA SettleGoes ==
  ASSUME NEW r, Called(r)
  PROVE  Goes(r, Throw(r)) /\ (r.sends > 0 => Goes(r, Return(r)))
  BY DEF Called, Throw, Return, Settle, Idle, Goes, Settles, Resting

LEMMA SendGoes ==
  ASSUME NEW r \in Task, Called(r), Ready(r), r.frames = <<>>, r.grant = 0, NEW token
  PROVE  Goes(r, Send(r, token))
<1> DEFINE s == Send(r, token)
<1>1. /\ s.kind = r.kind /\ s.pc = "api" /\ s.retry = r.retry /\ s.sends = r.sends + 1
      /\ s.grant = r.grant /\ s.frames = r.frames /\ s.result = r.result
  BY DEF Send, Task
<1> HIDE DEF s
<1>2. r.sends \in Nat /\ r.retry \in BOOLEAN
  BY DEF Task
<1>3. Asked(s) /\ r.sends < 2
  BY <1>1, <1>2 DEF Ready, Asked
<1>4. Called(s)
  BY <1>1 DEF Called
<1>5. Underway(s)
  BY <1>1, <1>3, <1>4 DEF Underway
<1>6. Goes(r, s)
  BY <1>1, <1>3, <1>5 DEF Goes, Sends
<1> QED BY <1>6 DEF s

\* A refresh begins, for a call whose request was answered.
LEMMA RefreshTokenGoes ==
  ASSUME NEW r \in Task, Called(r), Asked(r), r.grant = 0, NEW token
  PROVE  Goes(r, RefreshToken(r, token))
<1> DEFINE s == RefreshToken(r, token)
           f == Nested([attempt |-> 0, token |-> token], r.frames)
<1>1. /\ s.kind = r.kind /\ s.pc = "refresh" /\ s.retry = r.retry /\ s.sends = r.sends
      /\ s.grant = r.grant /\ s.frames = f /\ s.result = r.result
  BY DEF RefreshToken, Task
<1>2. f # <<>>
  BY DEF Nested, Task
<1> HIDE DEF s, f
<1>3. Asked(s) /\ Called(s)
  BY <1>1 DEF Asked, Called
<1>4. Underway(s)
  BY <1>1, <1>2, <1>3 DEF Underway
<1>5. Goes(r, s)
  BY <1>1, <1>4 DEF Goes, Quiet
<1> QED BY <1>5 DEF s

LEMMA RefreshAttemptFailedGoes ==
  ASSUME NEW r \in Task, Called(r), Asked(r)
  PROVE  Goes(r, RefreshAttemptFailed(r))
<1> DEFINE alive == Retryable(r.frames)
           k == CHOOSE i \in alive : \A j \in alive : i <= j
           rest == SubSeq(r.frames, k + 1, Len(r.frames))
           f == <<[attempt |-> 1, token |-> r.frames[k].token]>> \o rest
           s == [r EXCEPT !.pc = "refresh", !.grant = 0, !.lost = FALSE,
                          !.buf = NoFile, !.tries = 0,
                          !.refreshes = Counted(r.refreshes), !.frames = f]
<1>1. CASE alive = {}
  BY <1>1, SettleGoes DEF RefreshAttemptFailed
<1>2. CASE alive # {}
  <2>1. r.frames \in Seq(Frame)
    BY DEF Task
  <2>2. k \in 1..Len(r.frames)
    <3>1. alive \subseteq 1..Len(r.frames)
      BY <2>1 DEF Retryable
    <3>2. k \in alive
      BY <1>2, <3>1, Smallest
    <3> QED BY <3>1, <3>2
  <2>3. f # <<>>
    <3>1. rest \in Seq(Frame)
      <4> HIDE DEF k
      <4> QED BY <2>1, <2>2, SubSeqProperties
    <3> HIDE DEF rest, k
    <3> QED BY <3>1
  <2>4. RefreshAttemptFailed(r) = s
    BY <1>2 DEF RefreshAttemptFailed, Task
  <2> HIDE DEF f
  <2>5. /\ s.kind = r.kind /\ s.pc = "refresh" /\ s.retry = r.retry /\ s.sends = r.sends
        /\ s.grant = 0 /\ s.frames = f /\ s.result = r.result
    BY DEF Task
  <2> HIDE DEF s
  <2>6. Asked(s) /\ Called(s)
    BY <2>5 DEF Asked, Called
  <2>7. Underway(s)
    BY <2>3, <2>5, <2>6 DEF Underway
  <2> QED BY <2>4, <2>5, <2>7 DEF Goes, Quiet
<1> QED BY <1>1, <1>2

LEMMA FailGoes ==
  ASSUME NEW r \in Task, Underway(r)
  PROVE  Goes(r, Fail(r))
<1>1. CASE r.frames = <<>>
  BY <1>1, SettleGoes DEF Fail, Underway
<1>2. CASE r.frames # <<>>
  BY <1>2, RefreshAttemptFailedGoes DEF Fail, Underway
<1> QED BY <1>1, <1>2

\* Of the record before, only the requests sent count.
LEMMA GoesSame ==
  ASSUME NEW q, NEW r, NEW s, q.sends = r.sends, Goes(q, s)
  PROVE  Goes(r, s)
  BY DEF Goes, Quiet, Sends, Settles

\* _handleAccessTokenError() returns: the retry is the second request.
LEMMA RefreshReturnedGoes ==
  ASSUME NEW r \in Task, Called(r), Asked(r), r.frames = <<>>, r.grant = 0, NEW token
  PROVE  Goes(r, RefreshReturned(r, token))
<1> DEFINE q == [r EXCEPT !.retry = TRUE]
<1>1. q \in Task
  BY Zenon DEF Task
<1>2. /\ q.kind = r.kind /\ q.result = r.result /\ q.sends = r.sends /\ q.retry = TRUE
      /\ q.frames = r.frames /\ q.grant = r.grant
  BY DEF Task
<1> HIDE DEF q
<1>3. r.retry \in BOOLEAN /\ r.kind # "timer"
  BY DEF Task, Called
<1>4. CASE r.retry
  BY <1>3, <1>4, SettleGoes DEF RefreshReturned
<1>5. CASE ~r.retry
  <2>1. Ready(q) /\ Called(q)
    BY <1>2, <1>5 DEF Ready, Asked, Called
  <2>2. Goes(r, Send(q, token))
    BY <1>1, <1>2, <2>1, SendGoes, GoesSame
  <2> QED BY <1>3, <1>5, <2>2, SettleGoes DEF RefreshReturned, q
<1> QED BY <1>3, <1>4, <1>5

LEMMA TokensUpdatedGoes ==
  ASSUME NEW r \in Task, Underway(r), r.pc = "writing", NEW token
  PROVE  Goes(r, TokensUpdated(r, token))
<1> DEFINE clean == [r EXCEPT !.grant = 0, !.buf = NoFile, !.tries = 0]
           outer == [clean EXCEPT !.frames = Tail(clean.frames)]
<1>1. clean \in Task
  <2>1. 0 \in 0..1
    OBVIOUS
  <2> QED BY <2>1, Constants, Zenon DEF Task
<1>2. /\ clean.kind = r.kind /\ clean.result = r.result /\ clean.sends = r.sends
      /\ clean.retry = r.retry /\ clean.grant = 0 /\ clean.frames = r.frames
  BY DEF Task
<1> HIDE DEF clean
<1>3. Called(r) /\ r.kind # "login" /\ Called(clean)
  BY <1>2 DEF Underway, Called
<1>4. CASE r.frames = <<>>
  <2>1. Ready(clean)
    BY <1>2, <1>4 DEF Underway, Ready
  <2>2. Goes(r, Send(clean, token))
    BY <1>1, <1>2, <1>3, <1>4, <2>1, SendGoes, GoesSame
  <2> QED BY <1>3, <1>4, <2>2 DEF TokensUpdated, clean
<1>5. CASE r.frames # <<>>
  <2>1. Tail(clean.frames) \in Seq(Frame)
    BY <1>1, <1>2, <1>5, HeadTailProperties DEF Task
  <2>2. outer \in Task
    BY <1>1, <2>1, ZenonT(60) DEF Task
  <2>3. /\ outer.kind = r.kind /\ outer.result = r.result /\ outer.sends = r.sends
        /\ outer.retry = r.retry /\ outer.grant = 0
    BY <1>1, <1>2 DEF Task
  <2>4. TokensUpdated(r, token) = IF outer.frames = <<>>
                                  THEN RefreshReturned(outer, token)
                                  ELSE RefreshAttemptFailed(outer)
    BY <1>2, <1>5, Zenon DEF TokensUpdated, clean
  <2> HIDE DEF outer
  <2>5. Called(outer) /\ Asked(outer)
    BY <1>3, <1>5, <2>3 DEF Underway, Called, Asked
  <2>6. CASE outer.frames = <<>>
    BY <2>2, <2>3, <2>4, <2>5, <2>6, RefreshReturnedGoes, GoesSame
  <2>7. CASE outer.frames # <<>>
    BY <2>2, <2>3, <2>4, <2>5, <2>7, RefreshAttemptFailedGoes, GoesSame
  <2> QED BY <2>6, <2>7
<1> QED BY <1>4, <1>5

\* A change of the record that leaves what the caller sees.
LEMMA StaysUnderway ==
  ASSUME NEW r, NEW s, Underway(r), s.kind = r.kind, s.result = r.result,
         s.sends = r.sends, s.retry = r.retry, s.frames = r.frames,
         \/ s.pc = r.pc /\ s.grant = r.grant
         \/ /\ r.pc \in {"reading", "loaded"} /\ s.grant = r.grant
            /\ s.pc \in {"loaded", "debounce", "login"}
         \/ r.pc = "login" /\ s.pc \in {"login", "persist"}
         \/ r.pc = "refresh" /\ s.pc \in {"refresh", "persist"}
         \/ r.pc \in {"persist", "writing"} /\ s.pc \in {"persist", "writing"}
         \/ r.pc = "api" /\ s.pc = "rateWait" /\ s.grant = r.grant /\ ~r.retry
  PROVE  Goes(r, s)
<1>1. Called(s) /\ (Ready(r) => Ready(s)) /\ (Asked(r) => Asked(s))
  BY DEF Underway, Called, Ready, Asked
<1>2. Underway(s)
  BY <1>1 DEF Underway
<1> QED BY <1>2 DEF Goes, Quiet

-----------------------------------------------------------------------------
(* Steps of the session as steps of the contract *)

\* The inductive invariant of the calls.
CallsInv ==
  \A c \in Calls : IF task[c].pc = "idle" THEN Resting(task[c]) ELSE Underway(task[c])

Promised == CallsInv' /\ [Contract!Next]_(Contract!vars)

LEMMA QuietPromised ==
  ASSUME CallsInv, \A c \in Calls : task'[c] = task[c]
  PROVE  Promised
<1>1. CallsInv'
  BY DEF CallsInv, Resting, Underway, Called, Ready, Asked
<1>2. UNCHANGED Contract!vars
  BY DEF Contract!vars
<1> QED BY <1>1, <1>2 DEF Promised

LEMMA CallPromised ==
  ASSUME CallsInv, NEW t \in Calls, Underway(task[t]), Goes(task[t], task'[t]),
         \A c \in Calls : c # t => task'[c] = task[c]
  PROVE  Promised
<1> DEFINE act == {c \in Calls : task[c].pc # "idle"}
           snt == [c \in Calls |-> task[c].sends]
           out == [c \in Calls |-> task[c].result]
<1>0. task[t].pc # "idle" /\ task[t].result = "none" /\ t \in act
  BY DEF Underway, Called
<1>1. CallsInv'
  <2>0. Underway(task'[t]) => task'[t].pc # "idle"
    BY DEF Underway
  <2>1. IF task'[t].pc = "idle" THEN Resting(task'[t]) ELSE Underway(task'[t])
    BY <2>0, Zenon DEF Goes, Quiet, Sends, Settles
  <2>2. \A c \in Calls : IF task'[c].pc = "idle" THEN Resting(task'[c])
                                                 ELSE Underway(task'[c])
    BY <2>1 DEF CallsInv
  <2> QED BY <2>2, Zenon DEF CallsInv, Resting, Underway, Called, Ready, Asked
<1>2. CASE Quiet(task[t], task'[t])
  <2>1. \A c \in Calls : /\ (task'[c].pc # "idle") = (task[c].pc # "idle")
                         /\ task'[c].sends = task[c].sends
                         /\ task'[c].result = task[c].result
    BY <1>0, <1>2 DEF Quiet, Underway, Called
  <2>2. act' = act /\ snt' = snt /\ out' = out
    BY <2>1
  <2> QED BY <1>1, <2>2 DEF Promised, Contract!vars
<1>3. CASE Sends(task[t], task'[t])
  <2>1. /\ task'[t].pc # "idle" /\ task'[t].result = "none"
        /\ task'[t].sends = task[t].sends + 1 /\ task[t].sends < 2
    BY <1>3 DEF Sends, Underway, Called
  <2>2. act' = act /\ out' = out
    BY <1>0, <2>1
  <2>3. snt' = [snt EXCEPT ![t] = @ + 1] /\ snt[t] < 2
    BY <2>1, Zenon
  <2>4. Contract!Send(t)
    BY <1>0, <2>2, <2>3, Zenon DEF Contract!Send
  <2> QED BY <1>1, <2>4 DEF Promised, Contract!Next
<1>4. CASE Settles(task[t], task'[t])
  <2>1. /\ task'[t].pc = "idle" /\ task'[t].sends = 0
        /\ task'[t].result \in {"failed"} \cup {x \in {"returned"} : snt[t] > 0}
    BY <1>4 DEF Settles, Resting
  <2>2. act' = act \ {t}
    BY <2>1
  <2>3. snt' = [snt EXCEPT ![t] = 0]
    BY <2>1, Zenon
  <2>4. out' = [out EXCEPT ![t] = task'[t].result]
    BY Zenon
  <2>5. Contract!Settle(t)
    BY <1>0, <2>1, <2>2, <2>3, <2>4, Zenon DEF Contract!Settle
  <2> QED BY <1>1, <2>5 DEF Promised, Contract!Next
<1> QED BY <1>2, <1>3, <1>4 DEF Goes

LEMMA BeginPromised ==
  ASSUME IInv, CallsInv, NEW c \in Calls, NEW kind \in CallKinds, Begin(c, kind)
  PROVE  Promised
<1> DEFINE act == {d \in Calls : task[d].pc # "idle"}
           snt == [d \in Calls |-> task[d].sends]
           out == [d \in Calls |-> task[d].result]
           r == [Idle EXCEPT !.kind = kind, !.retry = (kind # "request")]
           s == MaybeLogin(r, access)
<1>1. task[c].pc = "idle" /\ task' = [task EXCEPT ![c] = s]
  BY DEF Begin
<1>2. c \in Tasks /\ task \in [Tasks -> Task]
  BY DEF Tasks, IInv, TasksOK
<1>3. kind \in {"request", "stream", "direct"}
  BY SessionAssumption
<1>4. r \in Task
  <2>1. Idle \in Task /\ (kind # "request") \in BOOLEAN
    BY IdleGood DEF Good
  <2> QED BY <1>3, <2>1, ZenonT(60) DEF Task
<1>5. /\ r.kind = kind /\ r.pc = "idle" /\ r.sends = 0 /\ r.grant = 0
      /\ r.frames = <<>> /\ r.result = "none"
  BY DEF Idle
<1> HIDE DEF r
<1>6. Called(r) /\ Ready(r)
  BY <1>3, <1>5 DEF Called, Ready
<1>7. Underway(s) /\ s.sends \in {0, 1}
  <2>1. CASE access = 0
    <3>1. s = [r EXCEPT !.pc = "reading"]
      BY <2>1 DEF MaybeLogin
    <3>2. /\ s.kind = r.kind /\ s.pc = "reading" /\ s.sends = r.sends
          /\ s.retry = r.retry /\ s.grant = 0 /\ s.frames = <<>> /\ s.result = "none"
      BY <1>4, <1>5, <3>1 DEF Task
    <3> HIDE DEF s
    <3>3. Called(s) /\ Ready(s)
      BY <1>5, <1>6, <3>2 DEF Called, Ready
    <3> QED BY <1>5, <3>2, <3>3 DEF Underway
  <2>2. CASE access # 0
    <3>1. s = Send(r, access)
      BY <2>2 DEF MaybeLogin
    <3>2. s.pc = "api" /\ s.sends = 1
      BY <1>4, <1>5, <3>1 DEF Send, Task
    <3>3. Goes(r, s)
      BY <1>4, <1>5, <1>6, <3>1, SendGoes
    <3> HIDE DEF s
    <3> QED BY <3>2, <3>3 DEF Goes, Quiet, Sends, Settles
  <2> QED BY <2>1, <2>2
<1> HIDE DEF s
<1>8. task'[c] = s /\ \A d \in Calls : d # c => task'[d] = task[d]
  BY <1>1, <1>2 DEF Tasks
<1>9. s.pc # "idle" /\ s.result = "none"
  BY <1>7 DEF Underway, Called
<1>10. CallsInv'
  <2>1. \A d \in Calls : IF task'[d].pc = "idle" THEN Resting(task'[d])
                                                 ELSE Underway(task'[d])
    BY <1>7, <1>8, <1>9 DEF CallsInv
  <2> QED BY <2>1, Zenon DEF CallsInv, Resting, Underway, Called, Ready, Asked
<1>11. act' = act \cup {c} /\ c \notin act
  BY <1>1, <1>8, <1>9
<1>12. snt' = [snt EXCEPT ![c] = s.sends]
  BY <1>8, Zenon
<1>13. out' = [out EXCEPT ![c] = "none"]
  BY <1>8, <1>9, Zenon
<1>14. Contract!Begin(c)
  BY <1>7, <1>11, <1>12, <1>13, Zenon DEF Contract!Begin
<1> QED BY <1>10, <1>14 DEF Promised, Contract!Next

\* A step of one task leaves the calls of the others alone.
LEMMA OthersStay ==
  ASSUME IInv, NEW t \in Tasks, Step(t) \/ Issue(t), NEW c \in Calls, c # t
  PROVE  task'[c] = task[c]
<1>0. c \in Tasks /\ task \in [Tasks -> Task]
  BY DEF Tasks, IInv, TasksOK
<1>1. CASE \E x : task' = [task EXCEPT ![t] = x]
  BY <1>0, <1>1
<1>2. CASE DebounceOver(t)
  <2> DEFINE l == Login([Idle EXCEPT !.kind = "login"])
  <2>1. PICK b \in Background :
          task' = [task EXCEPT ![t] = Send(task[t], access), ![b] = l]
    BY <1>2, Zenon DEF DebounceOver
  <2>2. b # c
    BY SessionAssumption
  <2> QED BY <1>0, <2>1, <2>2
<1>3. CASE ReadTokenFile(t)
  BY <1>0, <1>3 DEF ReadTokenFile
<1>4. CASE LoadPersistedTokens(t)
  <2>1. CASE \E x : task' = [task EXCEPT ![t] = x]
    BY <1>1, <2>1
  <2>2. CASE task' = [task EXCEPT ![t].pc = "debounce", ![t].buf = NoFile]
    BY <1>0, <2>2
  <2> QED BY <1>4, <2>1, <2>2 DEF LoadPersistedTokens
<1>5. CASE Issue(t)
  <2>1. PICK lost : task' = [task EXCEPT ![t].grant = issued + 1, ![t].lost = lost]
    BY <1>5, Zenon DEF Issue
  <2> QED BY <1>0, <2>1
<1>6. CASE UpdateTokens(t)
  BY <1>0, <1>6 DEF UpdateTokens
<1>7. CASE OpenTokenFile(t)
  BY <1>0, <1>7 DEF OpenTokenFile
<1>8. CASE \/ DebounceFindsToken(t) \/ HandleOk(t) \/ HandleRateLimitError(t)
           \/ HandleRetry(t) \/ HandleInvalidCredentials(t) \/ HandleOtherError(t)
           \/ HandleAccessTokenError(t) \/ WriteTokenFile(t) \/ WriteFails(t)
  <2>1. \E x : task' = [task EXCEPT ![t] = x]
    BY <1>8, Zenon DEF DebounceFindsToken, HandleOk, HandleRateLimitError, HandleRetry,
       HandleInvalidCredentials, HandleOtherError, HandleAccessTokenError,
       WriteTokenFile, WriteFails
  <2> QED BY <1>1, <2>1
<1> QED BY <1>2, <1>3, <1>4, <1>5, <1>6, <1>7, <1>8 DEF Step

LEMMA Steps ==
  ASSUME IInv, CallsInv, NEW t \in Calls
  PROVE  /\ t \in Tasks /\ task[t] \in Task /\ task \in [Tasks -> Task]
         /\ IF task[t].pc = "idle" THEN Resting(task[t]) ELSE Underway(task[t])
  BY DEF Tasks, IInv, TasksOK, CallsInv

\* maybeLogin(), up to the request it is for.
LEMMA LoggingInGoes ==
  ASSUME IInv, CallsInv, NEW t \in Calls,
         \/ ReadTokenFile(t) \/ LoadPersistedTokens(t) \/ DebounceFindsToken(t)
         \/ DebounceOver(t) \/ HandleRetry(t)
  PROVE  Underway(task[t]) /\ Goes(task[t], task'[t])
<1> DEFINE r == task[t]
<1>0. t \in Tasks /\ r \in Task /\ task \in [Tasks -> Task]
  BY Steps
<1>1. Underway(r)
  BY Steps DEF ReadTokenFile, LoadPersistedTokens, DebounceFindsToken, DebounceOver,
               HandleRetry
<1>2. ASSUME r.pc \in {"loaded", "debounce"}, NEW token PROVE Goes(r, Send(r, token))
  <2>1. Called(r) /\ Ready(r) /\ r.frames = <<>> /\ r.grant = 0
    BY <1>1, <1>2 DEF Underway
  <2> QED BY <1>0, <2>1, SendGoes
<1>3. CASE ReadTokenFile(t)
  <2> DEFINE s == [r EXCEPT !.pc = "loaded", !.buf = file]
  <2>1. task'[t] = s /\ r.pc = "reading"
    BY <1>0, <1>3 DEF ReadTokenFile
  <2>2. /\ s.kind = r.kind /\ s.pc = "loaded" /\ s.retry = r.retry /\ s.sends = r.sends
        /\ s.grant = r.grant /\ s.frames = r.frames /\ s.result = r.result
    BY <1>0, SMTT(30) DEF Task
  <2> HIDE DEF s
  <2> QED BY <1>1, <2>1, <2>2, StaysUnderway
<1>4. CASE LoadPersistedTokens(t)
  <2>0. r.pc = "loaded"
    BY <1>4 DEF LoadPersistedTokens
  <2>1. CASE \E token : task' = [task EXCEPT ![t] = Send(r, token)]
    BY <1>0, <1>1, <1>2, <2>0, <2>1
  <2>2. CASE task' = [task EXCEPT ![t] = Login(r)]
    <3>1. task'[t] = Login(r)
      BY <1>0, <2>2
    <3>2. CASE hasKeys
      <4> DEFINE s == [r EXCEPT !.pc = "login", !.buf = NoFile]
      <4>1. /\ s.kind = r.kind /\ s.pc = "login" /\ s.retry = r.retry
            /\ s.sends = r.sends /\ s.grant = r.grant /\ s.frames = r.frames
            /\ s.result = r.result
        BY <1>0 DEF Task
      <4>2. task'[t] = s
        BY <3>1, <3>2 DEF Login
      <4> HIDE DEF s
      <4> QED BY <1>1, <2>0, <4>1, <4>2, StaysUnderway
    <3>3. CASE ~hasKeys
      BY <1>1, <3>1, <3>3, SettleGoes DEF Login, Underway
    <3> QED BY <3>2, <3>3
  <2>3. CASE task' = [task EXCEPT ![t].pc = "debounce", ![t].buf = NoFile]
    <3> DEFINE s == [r EXCEPT !.pc = "debounce", !.buf = NoFile]
    <3>1. /\ s.kind = r.kind /\ s.pc = "debounce" /\ s.retry = r.retry
          /\ s.sends = r.sends /\ s.grant = r.grant /\ s.frames = r.frames
          /\ s.result = r.result
      BY <1>0 DEF Task
    <3>2. task'[t] = s
      BY <1>0, <2>3
    <3> HIDE DEF s
    <3> QED BY <1>1, <2>0, <3>1, <3>2, StaysUnderway
  <2> QED BY <1>4, <2>1, <2>2, <2>3, SMTT(30) DEF LoadPersistedTokens
<1>5. CASE DebounceFindsToken(t)
  <2>1. task'[t] = Send(r, access) /\ r.pc = "debounce"
    BY <1>0, <1>5 DEF DebounceFindsToken
  <2> QED BY <1>1, <1>2, <2>1
<1>6. CASE DebounceOver(t)
  <2> DEFINE l == Login([Idle EXCEPT !.kind = "login"])
  <2>1. PICK b \in Background :
          task' = [task EXCEPT ![t] = Send(task[t], access), ![b] = l]
    BY <1>6, Zenon DEF DebounceOver
  <2>2. b # t /\ r.pc = "debounce"
    BY <1>6, SessionAssumption DEF DebounceOver
  <2>3. task'[t] = Send(r, access)
    BY <1>0, <2>1, <2>2
  <2> QED BY <1>1, <1>2, <2>2, <2>3
<1>7. CASE HandleRetry(t)
  <2> DEFINE q == [r EXCEPT !.retry = TRUE]
             s == [q EXCEPT !.pc = "reading"]
  <2>1. task'[t] = MaybeLogin(q, access) /\ r.pc = "rateWait"
    BY <1>0, <1>7 DEF HandleRetry
  <2>2. q \in Task
    BY <1>0, Zenon DEF Task
  <2>3. /\ q.kind = r.kind /\ q.retry = TRUE /\ q.sends = r.sends
        /\ q.grant = r.grant /\ q.frames = r.frames /\ q.result = r.result
    BY <1>0 DEF Task
  <2>4. /\ s.kind = r.kind /\ s.pc = "reading" /\ s.retry = TRUE /\ s.sends = r.sends
        /\ s.grant = r.grant /\ s.frames = r.frames /\ s.result = r.result
    BY <1>0 DEF Task
  <2> HIDE DEF q
  <2>5. /\ Called(r) /\ r.sends = 1 /\ r.frames = <<>> /\ r.grant = 0
    BY <1>1, <2>1 DEF Underway, Asked
  <2>6. CASE access = 0
    <3>1. task'[t] = s
      BY <2>1, <2>6 DEF MaybeLogin
    <3> HIDE DEF s
    <3>2. Called(s) /\ Ready(s)
      BY <2>4, <2>5 DEF Called, Ready
    <3>3. Underway(s)
      BY <2>4, <2>5, <3>2 DEF Underway
    <3> QED BY <1>1, <2>4, <3>1, <3>3 DEF Goes, Quiet
  <2>7. CASE access # 0
    <3>1. task'[t] = Send(q, access)
      BY <2>1, <2>7 DEF MaybeLogin
    <3>2. Called(q) /\ Ready(q)
      BY <2>3, <2>5 DEF Called, Ready
    <3>3. Goes(q, Send(q, access))
      BY <2>2, <2>3, <2>5, <3>2, SendGoes, SMTT(30)
    <3> QED BY <1>1, <2>3, <3>1, <3>3, GoesSame
  <2> QED BY <2>6, <2>7
<1> QED BY <1>3, <1>4, <1>5, <1>6, <1>7

\* The answers to the requests of a call.
LEMMA AnswerGoes ==
  ASSUME IInv, CallsInv, NEW t \in Calls,
         \/ HandleOk(t) \/ HandleRateLimitError(t) \/ HandleInvalidCredentials(t)
         \/ HandleOtherError(t) \/ HandleAccessTokenError(t)
  PROVE  Underway(task[t]) /\ Goes(task[t], task'[t])
<1> DEFINE r == task[t]
<1>0. t \in Tasks /\ r \in Task /\ task \in [Tasks -> Task]
  BY Steps
<1>1. Underway(r)
  <2>1. r.pc \in {"api", "login", "refresh"} \/ r.lost
    BY DEF HandleOk, HandleRateLimitError, HandleInvalidCredentials, HandleOtherError,
           HandleAccessTokenError, Accepted, Refusable, Waiting, Failing, TokenRefused
  <2> QED BY <2>1, Steps DEF Resting
<1>2. r.pc = "api" => Goes(r, Return(r))
  BY <1>1, SettleGoes DEF Underway, Asked
<1>3. Goes(r, Fail(r))
  BY <1>0, <1>1, FailGoes
<1>4. CASE HandleOk(t)
  <2>1. task'[t] = Return(r) /\ r.pc = "api"
    BY <1>0, <1>4 DEF HandleOk, Accepted
  <2> QED BY <1>1, <1>2, <2>1
<1>5. CASE HandleRateLimitError(t)
  <2> DEFINE w == [r EXCEPT !.pc = "rateWait", !.sent = 0]
             x == CASE Unchecked(r) -> Return(r)
                    [] r.pc = "api" /\ ~r.retry -> w
                    [] OTHER -> Fail(r)
  <2>1. task'[t] = x
    BY <1>0, <1>5 DEF HandleRateLimitError
  <2>2. \/ x = Return(r) /\ r.pc = "api"
        \/ x = w /\ r.pc = "api" /\ ~r.retry
        \/ x = Fail(r)
    BY DEF Unchecked
  <2>3. /\ w.kind = r.kind /\ w.pc = "rateWait" /\ w.retry = r.retry /\ w.sends = r.sends
        /\ w.grant = r.grant /\ w.frames = r.frames /\ w.result = r.result
    BY <1>0 DEF Task
  <2> HIDE DEF w, x
  <2>4. r.pc = "api" /\ ~r.retry => Goes(r, w)
    BY <1>1, <2>3, StaysUnderway, SMTT(30)
  <2> QED BY <1>1, <1>2, <1>3, <2>1, <2>2, <2>4
<1>6. CASE HandleInvalidCredentials(t)
  <2>1. task'[t] = IF Unchecked(r) THEN Return(r) ELSE Fail(r)
    BY <1>0, <1>6 DEF HandleInvalidCredentials
  <2> QED BY <1>1, <1>2, <1>3, <2>1 DEF Unchecked
<1>7. CASE HandleOtherError(t)
  <2>1. task'[t] = Fail(r)
    BY <1>0, <1>7 DEF HandleOtherError
  <2> QED BY <1>1, <1>3, <2>1
<1>8. CASE HandleAccessTokenError(t)
  <2>1. task'[t] = IF Unchecked(r) THEN Return(r) ELSE RefreshToken(r, refresh)
    BY <1>0, <1>8 DEF HandleAccessTokenError
  <2>2. r.pc = "api" \/ (r.pc = "refresh" /\ r.grant = 0)
    BY <1>8 DEF HandleAccessTokenError, TokenRefused, Refusable, Waiting
  <2>3. Called(r) /\ Asked(r) /\ r.grant = 0
    BY <1>1, <2>2 DEF Underway
  <2>4. Goes(r, RefreshToken(r, refresh))
    BY <1>0, <2>3, RefreshTokenGoes, SMTT(30)
  <2> QED BY <1>1, <1>2, <2>1, <2>4 DEF Unchecked
<1> QED BY <1>4, <1>5, <1>6, <1>7, <1>8

\* A grant on its way to the call, to memory and to the token file.
LEMMA GrantGoes ==
  ASSUME IInv, CallsInv, NEW t \in Calls,
         \/ Issue(t) \/ UpdateTokens(t) \/ OpenTokenFile(t)
         \/ WriteTokenFile(t) \/ WriteFails(t)
  PROVE  Underway(task[t]) /\ Goes(task[t], task'[t])
<1> DEFINE r == task[t]
<1>0. t \in Tasks /\ r \in Task /\ task \in [Tasks -> Task]
  BY Steps
<1>1. Underway(r)
  <2>1. r.pc # "idle" \/ r.grant # 0
    BY ZenonT(60) DEF Issue, UpdateTokens, OpenTokenFile, WriteTokenFile, WriteFails
  <2> QED BY <2>1, Steps DEF Resting
<1>2. CASE Issue(t)
  <2>1. PICK lost : task' = [task EXCEPT ![t].grant = issued + 1, ![t].lost = lost]
    BY <1>2, Zenon DEF Issue
  <2> DEFINE s == [r EXCEPT !.grant = issued + 1, !.lost = lost]
  <2>2. task'[t] = s /\ r.pc \in {"login", "refresh"}
    BY <1>0, <1>2, <2>1, Zenon DEF Issue
  <2>3. /\ s.kind = r.kind /\ s.pc = r.pc /\ s.retry = r.retry /\ s.sends = r.sends
        /\ s.frames = r.frames /\ s.result = r.result
    BY <1>0, SMTT(30) DEF Task
  <2> HIDE DEF s
  <2> QED BY <1>1, <2>2, <2>3, StaysUnderway
<1>3. CASE UpdateTokens(t)
  <2> DEFINE b == [text |-> "json", access |-> r.grant, refresh |-> r.grant]
             s == [r EXCEPT !.pc = "persist", !.buf = b]
  <2>1. task'[t] = s
    BY <1>0, <1>3 DEF UpdateTokens
  <2>2. r.pc \in {"login", "refresh"}
    BY <1>1, <1>3 DEF UpdateTokens, Underway, Persisting
  <2> HIDE DEF b
  <2>3. /\ s.kind = r.kind /\ s.pc = "persist" /\ s.retry = r.retry /\ s.sends = r.sends
        /\ s.frames = r.frames /\ s.result = r.result
    BY <1>0, SMTT(30) DEF Task
  <2> HIDE DEF s
  <2> QED BY <1>1, <2>1, <2>2, <2>3, StaysUnderway
<1>4. CASE OpenTokenFile(t)
  <2> DEFINE s == [r EXCEPT !.pc = "writing"]
  <2>1. task'[t] = s /\ r.pc = "persist"
    BY <1>0, <1>4 DEF OpenTokenFile
  <2>2. /\ s.kind = r.kind /\ s.pc = "writing" /\ s.retry = r.retry /\ s.sends = r.sends
        /\ s.frames = r.frames /\ s.result = r.result
    BY <1>0 DEF Task
  <2> HIDE DEF s
  <2> QED BY <1>1, <2>1, <2>2, StaysUnderway
<1>5. CASE WriteTokenFile(t)
  <2>1. task'[t] = TokensUpdated(r, access) /\ r.pc = "writing"
    BY <1>0, <1>5 DEF WriteTokenFile
  <2> QED BY <1>0, <1>1, <2>1, TokensUpdatedGoes
<1>6. CASE WriteFails(t)
  <2> DEFINE s == [r EXCEPT !.pc = "persist", !.tries = 1]
  <2>1. /\ task'[t] = IF r.tries = 0 THEN s ELSE Fail(r)
        /\ r.pc \in {"persist", "writing"}
    BY <1>0, <1>6 DEF WriteFails
  <2>2. /\ s.kind = r.kind /\ s.pc = "persist" /\ s.retry = r.retry /\ s.sends = r.sends
        /\ s.frames = r.frames /\ s.result = r.result
    BY <1>0, SMTT(30) DEF Task
  <2> HIDE DEF s
  <2>3. Goes(r, s)
    BY <1>1, <2>1, <2>2, StaysUnderway
  <2> QED BY <1>0, <1>1, <2>1, <2>3, FailGoes
<1> QED BY <1>2, <1>3, <1>4, <1>5, <1>6

LEMMA StepPromised == IInv /\ CallsInv /\ [Next]_vars => Promised
<1> SUFFICES ASSUME IInv, CallsInv, [Next]_vars PROVE Promised
  OBVIOUS
<1>1. ASSUME NEW t \in Tasks, Step(t) \/ Issue(t) PROVE Promised
  <2>1. CASE t \in Calls
    <3>1. Underway(task[t]) /\ Goes(task[t], task'[t])
      BY <1>1, <2>1, LoggingInGoes, AnswerGoes, GrantGoes, SMTT(30) DEF Step
    <3> QED BY <1>1, <2>1, <3>1, OthersStay, CallPromised, SMTT(30)
  <2>2. CASE t \notin Calls
    BY <1>1, <2>2, OthersStay, QuietPromised
  <2> QED BY <2>1, <2>2
<1>2. ASSUME NEW b \in Background, Timer(b) PROVE Promised
  <2>1. \A c \in Calls : c # b
    BY SessionAssumption
  <2>2. \A c \in Calls : task'[c] = task[c]
    BY <1>2, <2>1 DEF Timer, Tasks, IInv, TasksOK
  <2> QED BY <2>2, QuietPromised
<1>3. CASE DebouncePasses \/ (\E g \in 1..MaxGrants : Expire(g)) \/ UNCHANGED vars
  <2>1. task' = task
    BY <1>3 DEF DebouncePasses, Expire, vars
  <2> QED BY <2>1, QuietPromised
<1>4. CASE Crash
  <2>1. \A c \in Calls : /\ task'[c].pc = "idle" /\ task'[c].sends = 0
                         /\ task'[c].result = "none" /\ Resting(task'[c])
    BY <1>4 DEF Crash, Tasks, Idle, Resting
  <2>2. CallsInv'
    BY <2>1, Zenon DEF CallsInv, Resting
  <2>3. Contract!Stop
    BY <2>1 DEF Contract!Stop
  <2> QED BY <2>2, <2>3 DEF Promised, Contract!Next
<1> QED BY <1>1, <1>2, <1>3, <1>4, BeginPromised DEF Next

\* Whatever happens to tokens, logins, refreshes, the token file and the other
\* calls, a caller sees what RequestContract says: request() sends its request
\* and at most one retry, and returns only after it has sent one.
THEOREM KeepsContract == Spec => CallsKeepSafeContract
<1>1. Init => CallsInv /\ Contract!Init
  BY DEF Init, Tasks, Idle, CallsInv, Resting, Contract!Init
<1>2. IInv /\ CallsInv /\ [Next]_vars => CallsInv' /\ [Contract!Next]_(Contract!vars)
  BY StepPromised DEF Promised
<1> QED BY <1>1, <1>2, Invariance, PTL DEF Spec, CallsKeepSafeContract, Contract!Safety
=============================================================================
