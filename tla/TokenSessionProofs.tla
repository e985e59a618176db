------------------------- MODULE TokenSessionProofs -------------------------
(***************************************************************************)
(* Proofs about TokenSession, for any number of callers, background tasks  *)
(* and grants, any nesting of refreshes and any set of faults.             *)
(***************************************************************************)
EXTENDS TokenSession, SequenceTheorems, WellFoundedInduction, TLAPS

-----------------------------------------------------------------------------
(* Task records *)

\* A record whose buffer holds the tokens of one grant, and whose grant and
\* buffer are among the first n grants.
Good(r, n) ==
  /\ r \in Task
  /\ r.buf.access = r.buf.refresh /\ r.buf.refresh <= n
  /\ r.grant <= n

LEMMA Constants ==
  /\ 0 \in Token /\ Token \subseteq Nat
  /\ NoFile \in Contents /\ NoFile.access = 0 /\ NoFile.refresh = 0
  /\ Garbled \in Contents /\ Garbled.access = 0 /\ Garbled.refresh = 0
  BY SessionAssumption DEF Token, Contents, NoFile, Garbled

LEMMA IdleGood ==
  ASSUME NEW n \in Nat
  PROVE  Good(Idle, n)
  BY Constants DEF Good, Task, Idle, PCs

LEMMA SettleGood ==
  ASSUME NEW n \in Nat, NEW r
  PROVE  Good(Return(r), n) /\ Good(Throw(r), n)
  BY IdleGood DEF Good, Task, Return, Throw, Settle

LEMMA SendGood ==
  ASSUME NEW n \in Nat, NEW r, Good(r, n), NEW token \in Token
  PROVE  Good(Send(r, token), n)
<1>1. r.sends + 1 \in Nat
  BY DEF Good, Task
<1>2. Send(r, token) \in Task
  BY <1>1, Constants, ZenonT(60) DEF Good, Task, Send, PCs
<1>3. Send(r, token).buf = NoFile
  BY DEF Good, Task, Send
<1>4. Send(r, token).grant = r.grant
  BY DEF Good, Task, Send
<1> QED BY <1>2, <1>3, <1>4, Constants DEF Good

LEMMA MaybeLoginGood ==
  ASSUME NEW n \in Nat, NEW r, Good(r, n), NEW token \in Token
  PROVE  Good(MaybeLogin(r, token), n)
  BY SendGood DEF Good, Task, MaybeLogin, PCs

LEMMA LoginGood ==
  ASSUME NEW n \in Nat, NEW r, Good(r, n)
  PROVE  Good(Login(r), n)
<1> DEFINE s == [r EXCEPT !.pc = "login", !.buf = NoFile]
<1>1. s \in Task
  BY Constants, ZenonT(60) DEF Good, Task, PCs
<1>2. s.buf = NoFile /\ s.grant = r.grant
  BY DEF Good, Task
<1>3. Good(s, n)
  BY <1>1, <1>2, Constants DEF Good
<1> QED BY <1>3, SettleGood DEF Login

LEMMA CountedNat == ASSUME NEW n \in Nat PROVE Counted(n) \in Nat
  BY DEF Counted, Many

LEMMA NestedSeq ==
  ASSUME NEW frame \in Frame, NEW frames \in Seq(Frame)
  PROVE  Nested(frame, frames) \in Seq(Frame) /\ Nested(frame, frames) # <<>>
<1>1. CASE Len(frames) < MaxDepth
  BY <1>1 DEF Nested
<1>2. CASE ~(Len(frames) < MaxDepth)
  <2>1. frames # <<>>
    BY <1>2, SessionAssumption
  <2>2. Tail(frames) \in Seq(Frame)
    BY <2>1
  <2> QED BY <1>2, <2>2 DEF Nested
<1> QED BY <1>1, <1>2

LEMMA RefreshTokenGood ==
  ASSUME NEW n \in Nat, NEW r, Good(r, n), NEW token \in Token
  PROVE  Good(RefreshToken(r, token), n)
<1> DEFINE f == Nested([attempt |-> 0, token |-> token], r.frames)
           s == RefreshToken(r, token)
<1>1. f \in Seq(Frame)
  <2>1. [attempt |-> 0, token |-> token] \in Frame
    BY DEF Frame
  <2>2. r.frames \in Seq(Frame)
    BY DEF Good, Task
  <2> QED BY <2>1, <2>2, NestedSeq
<1>2. Counted(r.refreshes) \in Nat
  BY CountedNat DEF Good, Task
<1>3. s = [r EXCEPT !.pc = "refresh", !.sent = 0,
                    !.refreshes = Counted(r.refreshes), !.frames = f]
  BY DEF RefreshToken, Good, Task
<1>4. s \in Task
  <2> HIDE DEF f
  <2> QED BY <1>1, <1>2, <1>3, Constants, ZenonT(60) DEF Good, Task, PCs
<1>5. s.buf = r.buf /\ s.grant = r.grant
  <2> HIDE DEF f
  <2> QED BY <1>3 DEF Good, Task
<1> QED BY <1>4, <1>5 DEF Good

\* A set of stack positions has a smallest member.
LEMMA Smallest ==
  ASSUME NEW S, S \subseteq Nat, S # {}
  PROVE  \E i \in S : \A j \in S : i <= j
<1>1. PICK i \in S : \A j \in S : ~(<<j, i>> \in OpToRel(<, Nat))
  BY NatLessThanWellFounded, WFMin, Zenon
<1>2. \A j \in S : ~(j < i)
  BY <1>1, Zenon DEF OpToRel
<1> QED BY <1>2

LEMMA RefreshAttemptFailedGood ==
  ASSUME NEW n \in Nat, NEW r, Good(r, n)
  PROVE  Good(RefreshAttemptFailed(r), n)
<1> DEFINE alive == Retryable(r.frames)
           k == CHOOSE i \in alive : \A j \in alive : i <= j
           rest == SubSeq(r.frames, k + 1, Len(r.frames))
           f == <<[attempt |-> 1, token |-> r.frames[k].token]>> \o rest
           s == [r EXCEPT !.pc = "refresh", !.grant = 0, !.lost = FALSE,
                          !.buf = NoFile, !.tries = 0,
                          !.refreshes = Counted(r.refreshes), !.frames = f]
<1>1. CASE alive = {}
  BY <1>1, SettleGood DEF RefreshAttemptFailed
<1>2. CASE alive # {}
  <2>1. r.frames \in Seq(Frame)
    BY DEF Good, Task
  <2>2. k \in 1..Len(r.frames)
    <3>1. alive \subseteq 1..Len(r.frames)
      BY <2>1 DEF Retryable
    <3>2. k \in alive
      BY <1>2, <3>1, Smallest
    <3> QED BY <3>1, <3>2
  <2>3. f \in Seq(Frame)
    <3>1. [attempt |-> 1, token |-> r.frames[k].token] \in Frame
      <4> HIDE DEF k
      <4>1. r.frames[k] \in Frame
        BY <2>1, <2>2
      <4> QED BY <4>1 DEF Frame
    <3>2. rest \in Seq(Frame)
      <4> HIDE DEF k
      <4> QED BY <2>1, <2>2, SubSeqProperties
    <3> HIDE DEF rest, k
    <3> QED BY <3>1, <3>2
  <2>4. RefreshAttemptFailed(r) = s
    BY <1>2 DEF RefreshAttemptFailed, Good, Task
  <2> HIDE DEF f
  <2>5. Counted(r.refreshes) \in Nat
    BY CountedNat DEF Good, Task
  <2>6. s \in Task
    <3>1. 0 \in 0..1 /\ FALSE \in BOOLEAN
      OBVIOUS
    <3> QED BY <2>3, <2>5, <3>1, Constants, ZenonT(60) DEF Good, Task, PCs
  <2>7. s.buf = NoFile /\ s.grant = 0
    BY DEF Good, Task
  <2> QED BY <2>4, <2>6, <2>7, Constants DEF Good
<1> QED BY <1>1, <1>2

LEMMA FailGood ==
  ASSUME NEW n \in Nat, NEW r, Good(r, n)
  PROVE  Good(Fail(r), n)
  BY RefreshAttemptFailedGood, SettleGood DEF Fail

LEMMA RefreshReturnedGood ==
  ASSUME NEW n \in Nat, NEW r, Good(r, n), NEW token \in Token
  PROVE  Good(RefreshReturned(r, token), n)
<1>1. Good([r EXCEPT !.retry = TRUE], n)
  BY Zenon DEF Good, Task
<1>2. r.retry \in BOOLEAN
  BY DEF Good, Task
<1> QED BY <1>1, <1>2, SettleGood, SendGood DEF RefreshReturned

LEMMA TokensUpdatedGood ==
  ASSUME NEW n \in Nat, NEW r, Good(r, n), NEW token \in Token
  PROVE  Good(TokensUpdated(r, token), n)
<1> DEFINE clean == [r EXCEPT !.grant = 0, !.buf = NoFile, !.tries = 0]
           outer == [clean EXCEPT !.frames = Tail(clean.frames)]
<1>1. /\ clean \in Task
      /\ clean.buf = NoFile /\ clean.grant = 0 /\ clean.frames = r.frames
  <2>1. 0 \in 0..1
    OBVIOUS
  <2>2. clean \in Task
    BY <2>1, Constants, Zenon DEF Good, Task
  <2>3. clean.buf = NoFile /\ clean.grant = 0 /\ clean.frames = r.frames
    BY DEF Good, Task
  <2> QED BY <2>2, <2>3
<1>2. Good(clean, n)
  BY <1>1, Constants DEF Good
<1> HIDE DEF clean
<1>3. CASE r.frames = <<>>
  BY <1>2, <1>3, SettleGood, SendGood DEF TokensUpdated, clean
<1>4. CASE r.frames # <<>>
  <2>1. Tail(clean.frames) \in Seq(Frame)
    BY <1>1, <1>4, HeadTailProperties DEF Good, Task
  <2>2. Good(outer, n)
    <3>1. outer \in Task
      BY <1>1, <2>1, ZenonT(60) DEF Task
    <3>2. outer.buf = clean.buf /\ outer.grant = clean.grant
      BY <1>1 DEF Task
    <3> QED BY <1>2, <3>1, <3>2 DEF Good
  <2>3. TokensUpdated(r, token) = IF outer.frames = <<>>
                                  THEN RefreshReturned(outer, token)
                                  ELSE RefreshAttemptFailed(outer)
    BY <1>1, <1>4, Zenon DEF TokensUpdated, clean
  <2> QED BY <2>2, <2>3, RefreshReturnedGood, RefreshAttemptFailedGood
<1> QED BY <1>3, <1>4

-----------------------------------------------------------------------------
(* The inductive invariant *)

MemoryOK ==
  /\ access \in Token /\ refresh \in Token
  /\ access \in {0, refresh} /\ refresh <= issued

FileOK == /\ file \in Contents
          /\ file.access = file.refresh /\ file.refresh <= issued

TasksOK == /\ task \in [Tasks -> Task]
           /\ \A t \in Tasks : Good(task[t], issued)

FlagsOK == recent \in BOOLEAN /\ hasKeys \in BOOLEAN /\ blemish \in BOOLEAN

ServiceOK ==
  /\ issued \in Token
  /\ accessOk \subseteq 1..MaxGrants /\ refreshOk \subseteq 1..MaxGrants

\* The strengthening of TypeOK and OneGrant: the grants on their way to a task
\* are issued ones too.
IInv == /\ MemoryOK /\ FileOK /\ TasksOK /\ FlagsOK /\ ServiceOK
        /\ latest \in Token

\* One record of the task table is replaced.
LEMMA ReplaceTask ==
  ASSUME TasksOK, NEW t \in Tasks, NEW x, Good(x, issued),
         task' = [task EXCEPT ![t] = x], issued' = issued
  PROVE  TasksOK'
  BY DEF TasksOK, Good

\* A step that changes one task and nothing else.
LEMMA TaskStep ==
  ASSUME IInv, NEW t \in Tasks, NEW x, Good(x, issued),
         task' = [task EXCEPT ![t] = x],
         UNCHANGED <<memory, recent, hasKeys, file, service, history>>
  PROVE  IInv'
<1>1. TasksOK'
  BY ReplaceTask, Zenon DEF IInv, service
<1>2. FlagsOK'
  BY DEF IInv, FlagsOK, history
<1>3. MemoryOK' /\ FileOK' /\ ServiceOK' /\ (latest \in Token)'
  BY DEF IInv, MemoryOK, FileOK, ServiceOK, memory, service, history
<1> QED BY <1>1, <1>2, <1>3 DEF IInv

LEMMA InvFacts ==
  ASSUME IInv
  PROVE  /\ issued \in Nat /\ issued <= MaxGrants /\ MaxGrants \in Nat
         /\ access \in Token /\ refresh \in Token
         /\ \A t \in Tasks : Good(task[t], issued)
  BY SessionAssumption DEF IInv, MemoryOK, TasksOK, ServiceOK, Token

LEMMA InitInv == Init => IInv
<1> SUFFICES ASSUME Init PROVE IInv
  OBVIOUS
<1>1. MemoryOK /\ ServiceOK /\ latest \in Token
  BY Constants, SessionAssumption DEF Init, MemoryOK, ServiceOK, Token
<1>2. FileOK
  BY Constants DEF Init, FileOK
<1>3. TasksOK
  <2>1. Good(Idle, issued) /\ Idle \in Task
    BY IdleGood DEF Init, Good
  <2> QED BY <2>1 DEF Init, TasksOK
<1>4. FlagsOK
  BY Zenon DEF Init, FlagsOK
<1> QED BY <1>1, <1>2, <1>3, <1>4 DEF IInv

LEMMA BeginInv ==
  ASSUME IInv, NEW c \in Calls, NEW kind \in CallKinds, Begin(c, kind)
  PROVE  IInv'
<1> DEFINE r == [Idle EXCEPT !.kind = kind, !.retry = (kind # "request")]
<1>1. Good(r, issued)
  <2>1. (kind # "request") \in BOOLEAN
    OBVIOUS
  <2>2. kind \in {"request", "stream", "direct"}
    BY SessionAssumption
  <2> QED BY <2>1, <2>2, InvFacts, IdleGood, ZenonT(60) DEF Good, Task
<1> HIDE DEF r
<1>2. Good(MaybeLogin(r, access), issued)
  BY <1>1, InvFacts, MaybeLoginGood
<1> QED BY <1>2, TaskStep, Zenon DEF Begin, Tasks, r

LEMMA TimerInv ==
  ASSUME IInv, NEW b \in Background, Timer(b)
  PROVE  IInv'
<1> DEFINE r == [Idle EXCEPT !.kind = "timer"]
<1>1. Good(r, issued)
  BY InvFacts, IdleGood DEF Good, Task
<1> HIDE DEF r
<1>2. Good(RefreshToken(r, refresh), issued)
  BY <1>1, InvFacts, RefreshTokenGood
<1> QED BY <1>2, TaskStep, Zenon DEF Timer, Tasks, r

LEMMA ReadTokenFileInv ==
  ASSUME IInv, NEW t \in Tasks, ReadTokenFile(t)
  PROVE  IInv'
<1> DEFINE x == [task[t] EXCEPT !.pc = "loaded", !.buf = file]
<1>1. Good(x, issued)
  <2>1. x \in Task /\ x.buf = file /\ x.grant = task[t].grant
    BY InvFacts, ZenonT(60) DEF Good, Task, PCs, IInv, FileOK
  <2> QED BY <2>1, InvFacts DEF Good, IInv, FileOK
<1>2. task' = [task EXCEPT ![t] = x]
  BY Zenon DEF ReadTokenFile, IInv, TasksOK
<1> QED BY <1>1, <1>2, TaskStep, Zenon DEF ReadTokenFile

LEMMA LoadPersistedTokensInv ==
  ASSUME IInv, NEW t \in Tasks, LoadPersistedTokens(t)
  PROVE  IInv'
<1> DEFINE r == task[t]
           w == [r EXCEPT !.pc = "debounce", !.buf = NoFile]
<1>1. Good(r, issued)
  BY InvFacts
<1>2. r.buf \in Contents /\ r.buf.access = r.buf.refresh /\ r.buf.refresh <= issued
  BY <1>1, SMTT(30) DEF Good, Task
<1>3. MemoryOK'
  BY <1>2 DEF LoadPersistedTokens, IInv, MemoryOK, Contents, service
<1>4. TasksOK'
  <2>1. \A token \in Token : Good(Send(r, token), issued)
    BY <1>1, SendGood, InvFacts
  <2>2. Good(Login(r), issued)
    BY <1>1, LoginGood, InvFacts
  <2>3. Good(w, issued)
    <3>1. w \in Task /\ w.buf = NoFile /\ w.grant = r.grant
      BY <1>1, Constants, ZenonT(60) DEF Good, Task, PCs
    <3> QED BY <1>1, <3>1, Constants, InvFacts DEF Good
  <2>4. \E x : Good(x, issued) /\ task' = [task EXCEPT ![t] = x]
    <3>1. CASE \E token \in Token : task' = [task EXCEPT ![t] = Send(r, token)]
      BY <2>1, <3>1, Zenon
    <3>2. CASE task' = [task EXCEPT ![t] = Login(r)]
      BY <2>2, <3>2, Zenon
    <3>3. CASE task' = [task EXCEPT ![t].pc = "debounce", ![t].buf = NoFile]
      <4>1. task' = [task EXCEPT ![t] = w]
        BY <3>3, Zenon DEF IInv, TasksOK
      <4> QED BY <2>3, <4>1, Zenon
    <3>4. (IF r.buf.text = "json" /\ r.buf.access # 0 /\ r.buf.refresh # 0
           THEN r.buf.access ELSE access) \in Token
      BY <1>2, InvFacts DEF Contents
    <3> QED BY <3>1, <3>2, <3>3, <3>4 DEF LoadPersistedTokens
  <2> QED BY <2>4, ReplaceTask, Zenon DEF LoadPersistedTokens, service, IInv
<1>5. FlagsOK'
  BY Zenon DEF LoadPersistedTokens, IInv, FlagsOK, history
<1>6. FileOK' /\ ServiceOK' /\ (latest \in Token)'
  BY DEF LoadPersistedTokens, IInv, FileOK, ServiceOK, service, history
<1> QED BY <1>3, <1>4, <1>5, <1>6 DEF IInv

LEMMA DebounceInv ==
  ASSUME IInv, NEW t \in Tasks, DebounceFindsToken(t) \/ DebounceOver(t)
  PROVE  IInv'
<1>1. Good(Send(task[t], access), issued)
  BY InvFacts, SendGood
<1>2. CASE DebounceFindsToken(t)
  BY <1>1, <1>2, TaskStep, Zenon DEF DebounceFindsToken
<1>3. CASE DebounceOver(t)
  <2> DEFINE l == [Idle EXCEPT !.kind = "login"]
  <2>1. PICK b \in Background :
          task' = [task EXCEPT ![t] = Send(task[t], access), ![b] = Login(l)]
    BY <1>3, Zenon DEF DebounceOver
  <2>2. Good(Login(l), issued)
    <3>1. Good(l, issued)
      BY InvFacts, IdleGood, SMTT(30) DEF Good, Task
    <3> QED BY <3>1, InvFacts, LoginGood
  <2>3. TasksOK'
    <3> HIDE DEF l
    <3>1. issued' = issued
      BY <1>3 DEF DebounceOver, service
    <3>2. b \in Tasks
      BY DEF Tasks
    <3> QED BY <1>1, <2>1, <2>2, <3>1, <3>2 DEF IInv, TasksOK, Good
  <2>4. FlagsOK'
    BY <1>3 DEF DebounceOver, IInv, FlagsOK, history
  <2>5. MemoryOK' /\ FileOK' /\ ServiceOK' /\ (latest \in Token)'
    BY <1>3 DEF DebounceOver, IInv, MemoryOK, FileOK, ServiceOK, memory,
                service, history
  <2> QED BY <2>3, <2>4, <2>5 DEF IInv
<1> QED BY <1>2, <1>3

LEMMA HandlerInv ==
  ASSUME IInv, NEW t \in Tasks,
         \/ HandleOk(t) \/ HandleRateLimitError(t) \/ HandleRetry(t)
         \/ HandleOtherError(t)
  PROVE  IInv'
<1>1. Good(task[t], issued)
  BY InvFacts
<1>2. Good(Return(task[t]), issued) /\ Good(Fail(task[t]), issued)
  BY <1>1, InvFacts, SettleGood, FailGood
<1>3. CASE HandleOk(t)
  BY <1>2, <1>3, TaskStep, Zenon DEF HandleOk
<1>4. CASE HandleRateLimitError(t)
  <2> DEFINE w == [task[t] EXCEPT !.pc = "rateWait", !.sent = 0]
             x == CASE Unchecked(task[t]) -> Return(task[t])
                    [] task[t].pc = "api" /\ ~task[t].retry -> w
                    [] OTHER -> Fail(task[t])
  <2>1. Good(w, issued)
    <3>1. w \in Task /\ w.buf = task[t].buf /\ w.grant = task[t].grant
      BY <1>1, Constants, ZenonT(60) DEF Good, Task, PCs
    <3> QED BY <1>1, <3>1 DEF Good
  <2>2. x = Return(task[t]) \/ x = w \/ x = Fail(task[t])
    OBVIOUS
  <2>3. task' = [task EXCEPT ![t] = x]
    BY <1>4 DEF HandleRateLimitError
  <2> HIDE DEF x, w
  <2>4. Good(x, issued)
    BY <1>2, <2>1, <2>2
  <2> QED BY <1>4, <2>3, <2>4, TaskStep, ZenonT(60) DEF HandleRateLimitError
<1>5. CASE HandleRetry(t)
  <2>1. Good([task[t] EXCEPT !.retry = TRUE], issued)
    BY <1>1, Zenon DEF Good, Task
  <2>2. Good(MaybeLogin([task[t] EXCEPT !.retry = TRUE], access), issued)
    BY <2>1, InvFacts, MaybeLoginGood
  <2> QED BY <1>5, <2>2, TaskStep, Zenon DEF HandleRetry
<1>6. CASE HandleOtherError(t)
  BY <1>2, <1>6, TaskStep, ZenonT(60) DEF HandleOtherError
<1> QED BY <1>3, <1>4, <1>5, <1>6

\* The handlers that may clear the access token.
LEMMA ClearingInv ==
  ASSUME IInv, NEW t \in Tasks,
         HandleInvalidCredentials(t) \/ HandleAccessTokenError(t)
  PROVE  IInv'
<1>1. /\ Good(Return(task[t]), issued) /\ Good(Fail(task[t]), issued)
      /\ Good(RefreshToken(task[t], refresh), issued)
  BY InvFacts, SettleGood, FailGood, RefreshTokenGood
<1>2. \E x : Good(x, issued) /\ task' = [task EXCEPT ![t] = x]
  BY <1>1 DEF HandleInvalidCredentials, HandleAccessTokenError
<1>3. /\ access' \in {access, 0}
      /\ UNCHANGED <<refresh, recent, hasKeys, file, service, history>>
  BY DEF HandleInvalidCredentials, HandleAccessTokenError
<1>4. TasksOK'
  BY <1>2, <1>3, ReplaceTask, ZenonT(60) DEF IInv, service
<1>5. MemoryOK' /\ FileOK' /\ ServiceOK' /\ (latest \in Token)'
  BY <1>3, Constants DEF IInv, MemoryOK, FileOK, ServiceOK, service, history
<1>6. FlagsOK'
  BY <1>3 DEF IInv, FlagsOK, history
<1> QED BY <1>4, <1>5, <1>6 DEF IInv

LEMMA IssueInv ==
  ASSUME IInv, NEW t \in Tasks, Issue(t)
  PROVE  IInv'
<1>1. PICK lost \in BOOLEAN :
        task' = [task EXCEPT ![t].grant = issued + 1, ![t].lost = lost]
  BY Zenon DEF Issue
<1>2. /\ issued < MaxGrants /\ issued' = issued + 1
      /\ accessOk' = accessOk \cup {issued + 1}
      /\ refreshOk' \subseteq refreshOk \cup {issued + 1}
      /\ UNCHANGED <<memory, recent, hasKeys, file, history>>
  BY DEF Issue
<1>3. issued' \in Nat /\ issued' \in Token /\ issued < issued'
  BY <1>2, InvFacts DEF Token
<1> DEFINE x == [task[t] EXCEPT !.grant = issued + 1, !.lost = lost]
<1>4. Good(x, issued')
  <2>1. x \in Task /\ x.buf = task[t].buf /\ x.grant = issued'
    BY <1>2, <1>3, InvFacts, ZenonT(60) DEF Good, Task
  <2>2. task[t].buf.refresh \in Nat
    BY InvFacts, Constants, Zenon DEF Good, Task, Contents
  <2> QED BY <1>3, <2>1, <2>2, InvFacts DEF Good
<1>5. TasksOK'
  <2>1. task' = [task EXCEPT ![t] = x]
    BY <1>1, Zenon DEF IInv, TasksOK
  <2> HIDE DEF x
  <2>2. \A u \in Tasks : Good(task[u], issued')
    <3> SUFFICES ASSUME NEW u \in Tasks PROVE Good(task[u], issued')
      OBVIOUS
    <3>1. Good(task[u], issued) /\ task[u].buf.refresh \in Nat /\ task[u].grant \in Nat
      BY InvFacts, Constants, Zenon DEF Good, Task, Contents
    <3> QED BY <1>3, <3>1, InvFacts DEF Good
  <2> QED BY <1>4, <2>1, <2>2 DEF IInv, TasksOK, Good
<1>6. MemoryOK' /\ FileOK' /\ (latest \in Token)'
  <2>1. /\ access \in Token /\ refresh \in Token /\ access \in {0, refresh}
        /\ refresh <= issued /\ refresh \in Nat
        /\ file \in Contents /\ file.access = file.refresh
        /\ file.refresh <= issued /\ file.refresh \in Nat
    BY Constants, ZenonT(60) DEF IInv, MemoryOK, FileOK, Contents
  <2>2. refresh <= issued' /\ file.refresh <= issued'
    BY <1>3, <2>1, InvFacts
  <2>3. /\ access' = access /\ refresh' = refresh /\ file' = file
        /\ latest' = latest
    BY <1>2 DEF memory, history
  <2>4. MemoryOK'
    BY <2>1, <2>2, <2>3 DEF MemoryOK
  <2>5. FileOK'
    BY <2>1, <2>2, <2>3 DEF FileOK
  <2> QED BY <2>3, <2>4, <2>5 DEF IInv
<1>7. ServiceOK'
  BY <1>2, <1>3, InvFacts DEF IInv, ServiceOK, Token
<1>8. FlagsOK'
  BY <1>2 DEF IInv, FlagsOK, history
<1> QED BY <1>5, <1>6, <1>7, <1>8 DEF IInv

LEMMA ExpireInv ==
  ASSUME IInv, NEW g, Expire(g)
  PROVE  IInv'
<1>1. MemoryOK' /\ FileOK' /\ (latest \in Token)' /\ ServiceOK'
  BY Zenon DEF Expire, IInv, MemoryOK, FileOK, ServiceOK, memory, history
<1>2. TasksOK' /\ FlagsOK'
  BY DEF Expire, IInv, TasksOK, FlagsOK, Good, history
<1> QED BY <1>1, <1>2 DEF IInv

LEMMA UpdateTokensInv ==
  ASSUME IInv, NEW t \in Tasks, UpdateTokens(t)
  PROVE  IInv'
<1> DEFINE g == task[t].grant
           f == [text |-> "json", access |-> g, refresh |-> g]
           x == [task[t] EXCEPT !.pc = "persist", !.buf = f]
<1>1. Good(task[t], issued) /\ g \in Token /\ g <= issued
  BY InvFacts DEF Good, Task
<1>2. f \in Contents /\ f.access = g /\ f.refresh = g
  BY <1>1 DEF Contents
<1>3. task' = [task EXCEPT ![t] = x]
  BY Zenon DEF UpdateTokens, IInv, TasksOK
<1>4. /\ access' = g /\ refresh' = g /\ latest' = g
      /\ blemish' = (blemish \/ \E u \in Tasks : Persisting(task[u]))
      /\ UNCHANGED <<recent, hasKeys, file, service>>
  BY DEF UpdateTokens
<1>5. Good(x, issued)
  <2> HIDE DEF f, g
  <2>1. x \in Task /\ x.buf = f /\ x.grant = task[t].grant
    BY <1>1, <1>2, ZenonT(60) DEF Good, Task, PCs
  <2> QED BY <1>1, <1>2, <2>1 DEF Good, g
<1> HIDE DEF x, f, g
<1>6. TasksOK'
  BY <1>3, <1>4, <1>5, ReplaceTask, Zenon DEF IInv, service
<1>7. MemoryOK' /\ FileOK' /\ ServiceOK' /\ (latest \in Token)'
  BY <1>1, <1>4 DEF IInv, MemoryOK, FileOK, ServiceOK, service
<1>8. FlagsOK'
  BY <1>4, Zenon DEF IInv, FlagsOK
<1> QED BY <1>6, <1>7, <1>8 DEF IInv

\* The steps that change the token file and one task.
LEMMA FileStep ==
  ASSUME IInv, NEW t \in Tasks, NEW x, Good(x, issued),
         task' = [task EXCEPT ![t] = x],
         file' \in {file, NoFile, Garbled, task[t].buf},
         blemish' \in BOOLEAN,
         UNCHANGED <<memory, recent, hasKeys, service, latest>>
  PROVE  IInv'
<1>1. TasksOK'
  BY ReplaceTask, Zenon DEF IInv, service
<1>2. FileOK'
  <2>1. Good(task[t], issued) /\ task[t].buf \in Contents
    BY InvFacts DEF Good, Task
  <2>2. issued' = issued /\ issued \in Nat
    BY InvFacts DEF service
  <2> QED BY <2>1, <2>2, Constants DEF IInv, FileOK, Good
<1>3. MemoryOK' /\ ServiceOK' /\ (latest \in Token)'
  BY DEF IInv, MemoryOK, ServiceOK, memory, service
<1>4. FlagsOK'
  BY DEF IInv, FlagsOK
<1> QED BY <1>1, <1>2, <1>3, <1>4 DEF IInv

LEMMA PersistInv ==
  ASSUME IInv, NEW t \in Tasks,
         OpenTokenFile(t) \/ WriteTokenFile(t) \/ WriteFails(t)
  PROVE  IInv'
<1>1. Good(task[t], issued) /\ issued \in Nat
  BY InvFacts
<1>2. blemish \in BOOLEAN
  BY DEF IInv, FlagsOK
<1>3. CASE OpenTokenFile(t)
  <2> DEFINE x == [task[t] EXCEPT !.pc = "writing"]
  <2>1. Good(x, issued)
    BY <1>1 DEF Good, Task, PCs
  <2>2. /\ task' = [task EXCEPT ![t] = x] /\ file' = NoFile
        /\ blemish' = blemish
        /\ UNCHANGED <<memory, recent, hasKeys, service, latest>>
    BY <1>3 DEF OpenTokenFile, history, IInv, TasksOK
  <2> HIDE DEF x
  <2> QED BY <1>2, <2>1, <2>2, FileStep, Zenon
<1>4. CASE WriteTokenFile(t)
  <2>1. Good(TokensUpdated(task[t], access), issued)
    BY <1>1, InvFacts, TokensUpdatedGood
  <2>2. /\ task' = [task EXCEPT ![t] = TokensUpdated(task[t], access)]
        /\ file' \in {task[t].buf, Garbled}
        /\ blemish' = blemish
        /\ UNCHANGED <<memory, recent, hasKeys, service, latest>>
    BY <1>4 DEF WriteTokenFile, history
  <2> QED BY <1>2, <2>1, <2>2, FileStep, Zenon
<1>5. CASE WriteFails(t)
  <2> DEFINE y == [task[t] EXCEPT !.pc = "persist", !.tries = 1]
             x == IF task[t].tries = 0 THEN y ELSE Fail(task[t])
  <2>1. Good(y, issued)
    <3>1. 1 \in 0..1
      OBVIOUS
    <3>2. y \in Task /\ y.buf = task[t].buf /\ y.grant = task[t].grant
      BY <1>1, <3>1, ZenonT(60) DEF Good, Task, PCs
    <3> QED BY <1>1, <3>2 DEF Good
  <2>2. Good(Fail(task[t]), issued)
    BY <1>1, FailGood
  <2>3. Good(x, issued)
    BY <2>1, <2>2
  <2>4. /\ task' = [task EXCEPT ![t] = x]
        /\ file' \in {file, Garbled}
        /\ blemish' = TRUE
        /\ UNCHANGED <<memory, recent, hasKeys, service, latest>>
    BY <1>5 DEF WriteFails
  <2> HIDE DEF x
  <2> QED BY <2>3, <2>4, FileStep, Zenon
<1> QED BY <1>3, <1>4, <1>5

LEMMA CrashInv ==
  ASSUME IInv, Crash
  PROVE  IInv'
<1>1. issued \in Nat /\ issued' = issued
  BY InvFacts DEF Crash, service
<1>2. TasksOK'
  <2>1. Good(Idle, issued) /\ Idle \in Task
    BY <1>1, IdleGood DEF Good
  <2> QED BY <1>1, <2>1 DEF Crash, TasksOK
<1>3. MemoryOK' /\ ServiceOK' /\ (latest \in Token)'
  BY <1>1, Constants DEF Crash, IInv, MemoryOK, ServiceOK, service
<1>4. FileOK'
  BY <1>1, Constants DEF Crash, IInv, FileOK
<1>5. FlagsOK'
  <2>1. recent' = FALSE /\ hasKeys' = hasKeys
        /\ blemish' = (blemish \/ \E t \in Tasks : Persisting(task[t]))
    BY DEF Crash
  <2> QED BY <2>1, Zenon DEF IInv, FlagsOK
<1> QED BY <1>2, <1>3, <1>4, <1>5 DEF IInv

LEMMA DebouncePassesInv ==
  ASSUME IInv, DebouncePasses
  PROVE  IInv'
<1>1. MemoryOK' /\ FileOK' /\ ServiceOK' /\ (latest \in Token)'
  BY DEF DebouncePasses, IInv, MemoryOK, FileOK, ServiceOK, memory, service,
         history
<1>2. TasksOK'
  BY DEF DebouncePasses, IInv, TasksOK, Good, service
<1>3. FlagsOK'
  BY ZenonT(60) DEF DebouncePasses, IInv, FlagsOK, history
<1> QED BY <1>1, <1>2, <1>3 DEF IInv

LEMMA StutterInv ==
  ASSUME IInv, UNCHANGED vars
  PROVE  IInv'
<1>1. MemoryOK' /\ FileOK' /\ ServiceOK' /\ (latest \in Token)'
  BY DEF vars, IInv, MemoryOK, FileOK, ServiceOK
<1>2. TasksOK' /\ FlagsOK'
  BY DEF vars, IInv, TasksOK, Good, FlagsOK
<1> QED BY <1>1, <1>2 DEF IInv

LEMMA StepInv == IInv /\ [Next]_vars => IInv'
<1> SUFFICES ASSUME IInv, [Next]_vars PROVE IInv'
  OBVIOUS
<1>1. ASSUME NEW c \in Calls, NEW kind \in CallKinds, Begin(c, kind) PROVE IInv'
  BY <1>1, BeginInv
<1>2. ASSUME NEW b \in Background, Timer(b) PROVE IInv'
  BY <1>2, TimerInv
<1>3. ASSUME NEW t \in Tasks, Step(t) PROVE IInv'
  BY <1>3, ReadTokenFileInv, LoadPersistedTokensInv, DebounceInv, HandlerInv,
     ClearingInv, UpdateTokensInv, PersistInv DEF Step
<1>4. ASSUME NEW t \in Tasks, Issue(t) PROVE IInv'
  BY <1>4, IssueInv
<1>5. ASSUME NEW g \in 1..MaxGrants, Expire(g) PROVE IInv'
  BY <1>5, ExpireInv
<1> QED BY <1>1, <1>2, <1>3, <1>4, <1>5, DebouncePassesInv, CrashInv,
           StutterInv DEF Next

LEMMA Invariance == Spec => []IInv
  BY InitInv, StepInv, PTL DEF Spec

-----------------------------------------------------------------------------
(* Theorems *)

\* Every reachable state of the token session is well typed: the tokens in
\* memory, the token file, the record of every call and the books of the
\* service.
THEOREM TypeCorrect == Spec => []TypeOK
<1>1. IInv => TypeOK
  BY DEF IInv, MemoryOK, FileOK, TasksOK, FlagsOK, ServiceOK, TypeOK
<1> QED BY <1>1, Invariance, PTL

\* However calls, background logins, the refresh timer, file operations, faults
\* and restarts interleave, memory, token file and file buffers hold the two
\* tokens of one issued grant (_updateTokens, _persistTokens,
\* _loadPersistedTokens).
THEOREM TokensOfOneGrant == Spec => []OneGrant
<1>1. IInv => OneGrant
  BY DEF IInv, MemoryOK, FileOK, TasksOK, Good, OneGrant
<1> QED BY <1>1, Invariance, PTL

=============================================================================
