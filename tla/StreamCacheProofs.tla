------------------------- MODULE StreamCacheProofs -------------------------
(***************************************************************************)
(* Proofs about StreamCache, for any callers, cameras and lifetimes.       *)
(***************************************************************************)
EXTENDS StreamCache, SequenceTheorems, TLAPS

Arrival == [key : Keys, age : 0..Longest]
Arrivals == {xs \in Seq(Arrival) : Len(xs) <= MaxAnswers}

\* An entry under key k: a live one will be gone before its answer is too old.
EntryOK(e, k, xs) ==
  /\ e \in Entry /\ e.n <= Len(xs)
  /\ e.n # 0 => xs[e.n].key = k
  /\ e.left > 0 => e.n # 0 /\ e.left + xs[e.n].age <= Longest

\* What a running call was asked.
Asked(r) ==
  /\ r.kind \in Kinds /\ r.key \in Keys /\ r.limit \in Limits
  /\ r.kind # "info" => r.key = <<r.key[1], Main>>

\* How often a running call has tried.  Before it fetches it has fetched at
\* most once in each of the attempts that are over.
Tried(r) ==
  /\ r.attempt = 0 \/ r.attempt < r.limit
  /\ r.fetches <= r.attempt + 1
  /\ r.pc \notin {"fetch", "capture"} => r.fetches <= r.attempt

\* What a call that is over has got.
Got(r, xs) ==
  r.n # 0 => /\ r.n <= Len(xs) /\ xs[r.n].key = r.key
             /\ r.cached => r.age < Longest /\ ~r.noCache
             /\ ~r.cached => r.n > r.began

CallOK(r, xs) ==
  /\ r \in Record /\ r.began <= Len(xs)
  /\ Active(r) => Asked(r) /\ Tried(r)
  /\ ~Active(r) => r.fetches = 0
  /\ r.pc = "returned" => Got(r, xs)
  /\ r.pc = "capture" => r.kind # "info"

IInv ==
  /\ info \in [Keys -> Entry] /\ snap \in [Macs -> Entry]
  /\ call \in [Callers -> Record] /\ answers \in Arrivals
  /\ \A k \in Keys : EntryOK(info[k], k, answers)
  /\ \A m \in Macs : EntryOK(snap[m], <<m, Main>>, answers)
  /\ \A c \in Callers : CallOK(call[c], answers)

-----------------------------------------------------------------------------
(* Answers arrive and grow older *)

\* ys is xs some time later: what was there still answers the same question.
Extends(xs, ys) ==
  /\ Len(xs) <= Len(ys)
  /\ \A i \in 1..Len(xs) : ys[i].key = xs[i].key

LEMMA CallKept ==
  ASSUME NEW xs \in Arrivals, NEW ys \in Arrivals, Extends(xs, ys),
         NEW r, CallOK(r, xs)
  PROVE  CallOK(r, ys)
<1>1. Len(xs) \in Nat /\ Len(ys) \in Nat /\ Len(xs) <= Len(ys)
  BY LenProperties DEF Arrivals, Extends
<1>2. r \in Record /\ r.began \in Nat /\ r.n \in Nat
  BY DEF CallOK, Record
<1>3. r.began <= Len(ys)
  BY <1>1, <1>2 DEF CallOK
<1>4. Got(r, xs) => Got(r, ys)
  BY <1>1, <1>2 DEF Got, Extends
<1> QED BY <1>2, <1>3, <1>4 DEF CallOK

LEMMA EntryKept ==
  ASSUME NEW xs \in Arrivals, NEW ys \in Arrivals, Extends(xs, ys),
         \A i \in 1..Len(xs) : ys[i].age = xs[i].age,
         NEW e, NEW k, EntryOK(e, k, xs)
  PROVE  EntryOK(e, k, ys)
<1>1. Len(xs) \in Nat /\ Len(ys) \in Nat /\ Len(xs) <= Len(ys)
  BY LenProperties DEF Arrivals, Extends
<1>2. e \in Entry /\ e.n \in Nat /\ e.left \in Nat
  BY DEF EntryOK, Entry
<1> QED BY <1>1, <1>2 DEF EntryOK, Extends

LEMMA AnswerArrives ==
  ASSUME NEW xs \in Arrivals, Len(xs) < MaxAnswers, NEW key \in Keys
  PROVE  LET ys == Append(xs, [key |-> key, age |-> 0])
             n == Len(xs) + 1
         IN /\ ys \in Arrivals /\ Extends(xs, ys)
            /\ \A i \in 1..Len(xs) : ys[i].age = xs[i].age
            /\ n \in Nat /\ n # 0 /\ n \in 0..MaxAnswers /\ Len(ys) = n
            /\ ys[n].key = key /\ ys[n].age = 0
<1> DEFINE a == [key |-> key, age |-> 0]
           ys == Append(xs, a)
<1>1. xs \in Seq(Arrival) /\ Len(xs) \in Nat
  BY LenProperties DEF Arrivals
<1>2. a \in Arrival /\ a.key = key /\ a.age = 0
  BY CacheAssumption DEF Arrival
<1> HIDE DEF a
<1>3. /\ ys \in Seq(Arrival) /\ Len(ys) = Len(xs) + 1
      /\ \A i \in 1..Len(xs) : ys[i] = xs[i]
      /\ ys[Len(xs) + 1] = a
  BY <1>1, <1>2, AppendProperties
<1> HIDE DEF ys
<1>4. ys \in Arrivals /\ Extends(xs, ys)
  BY <1>1, <1>3, CacheAssumption DEF Arrivals, Extends
<1>5. Len(xs) + 1 \in 0..MaxAnswers
  BY <1>1, CacheAssumption
<1> QED BY <1>1, <1>2, <1>3, <1>4, <1>5 DEF a, ys

-----------------------------------------------------------------------------
(* What a call does up to its next wait *)

LEMMA BlankFacts ==
  /\ Blank \in Record /\ Blank.pc = "idle" /\ Blank.fetches = 0 /\ Blank.n = 0
  /\ Blank.began = 0 /\ Blank.attempt = 0 /\ Blank.nap = 0
  BY CacheAssumption DEF Blank, Record, PCs

LEMMA FailedBlankOK ==
  ASSUME NEW xs \in Arrivals
  PROVE  CallOK([Blank EXCEPT !.pc = "failed"], xs)
<1> DEFINE s == [Blank EXCEPT !.pc = "failed"]
<1>1. s \in Record
  BY BlankFacts DEF Record, PCs
<1>2. s.pc = "failed" /\ s.fetches = 0 /\ s.began = 0
  BY BlankFacts DEF Blank
<1>3. Len(xs) \in Nat
  BY LenProperties DEF Arrivals
<1> HIDE DEF s
<1>4. CallOK(s, xs)
  BY <1>1, <1>2, <1>3 DEF CallOK, Active
<1> QED BY <1>4 DEF s

LEMMA ReturnOK ==
  ASSUME NEW xs \in Arrivals, NEW r \in Record, r.began <= Len(xs),
         NEW n \in 0..MaxAnswers, n <= Len(xs), n # 0 => xs[n].key = r.key,
         NEW age \in 0..Longest, NEW cached \in BOOLEAN,
         n # 0 /\ cached => age < Longest /\ ~r.noCache,
         n # 0 /\ ~cached => n > r.began
  PROVE  CallOK(Return(r, n, age, cached), xs)
<1> DEFINE s == Return(r, n, age, cached)
<1>1. s \in Record
  BY BlankFacts, ZenonT(60) DEF Return, Record, PCs
<1>2. /\ s.pc = "returned" /\ s.fetches = 0 /\ s.began = r.began /\ s.n = n
      /\ s.key = r.key /\ s.noCache = r.noCache /\ s.age = age /\ s.cached = cached
  BY DEF Return, Blank
<1> HIDE DEF s
<1>3. Got(s, xs)
  BY <1>2 DEF Got
<1>4. CallOK(s, xs)
  BY <1>1, <1>2, <1>3 DEF CallOK, Active
<1> QED BY <1>4 DEF s

\* The call goes on to another wait of the same attempt.
LEMMA GoOnOK ==
  ASSUME NEW xs, NEW r, CallOK(r, xs), Active(r),
         r.pc \in {"list", "download", "lookup"} \/ r.pc = "fetch",
         NEW pc \in {"list", "download", "lookup", "capture"},
         r.pc = "fetch" => pc = "capture", pc = "capture" => r.kind # "info"
  PROVE  CallOK([r EXCEPT !.pc = pc], xs)
<1> DEFINE s == [r EXCEPT !.pc = pc]
<1>0. r \in Record
  BY DEF CallOK
<1>1. s \in Record
  BY <1>0 DEF Record, PCs
<1>2. /\ s.pc = pc /\ s.kind = r.kind /\ s.key = r.key /\ s.limit = r.limit
      /\ s.attempt = r.attempt /\ s.fetches = r.fetches /\ s.began = r.began
  BY <1>0 DEF Record
<1> HIDE DEF s
<1>3. Asked(s) /\ Tried(s)
  BY <1>2 DEF CallOK, Asked, Tried
<1>4. CallOK(s, xs)
  BY <1>1, <1>2, <1>3 DEF CallOK, Active
<1> QED BY <1>4 DEF s

\* r stands for a call that is about to use the cache, the retry included.
LEMMA UseCacheOK ==
  ASSUME IInv, NEW r \in Record, r.began <= Len(answers), Asked(r),
         r.attempt = 0 \/ r.attempt < r.limit, r.fetches <= r.attempt
  PROVE  CallOK(UseCache(r), answers)
<1> DEFINE entry == IF r.kind = "info" THEN info[r.key] ELSE snap[r.key[1]]
<1>0. answers \in Arrivals /\ Len(answers) \in Nat /\ answers \in [1..Len(answers) -> Arrival]
  BY LenProperties DEF IInv, Arrivals
<1>1. r.key \in Keys /\ r.key[1] \in Macs
  BY DEF Asked, Keys
<1>2. EntryOK(entry, r.key, answers)
  BY <1>1, Zenon DEF Asked, IInv
<1> HIDE DEF entry
<1>3. CASE ~r.noCache /\ Valid(entry)
  <2>1. /\ entry.n \in 0..MaxAnswers /\ entry.n # 0 /\ entry.n <= Len(answers)
        /\ entry.left \in Nat /\ entry.left > 0 /\ answers[entry.n].key = r.key
        /\ entry.left + answers[entry.n].age <= Longest
    BY <1>2, <1>3 DEF EntryOK, Entry, Valid
  <2>2. answers[entry.n].age \in 0..Longest
    BY <1>0, <2>1 DEF Arrival
  <2>3. answers[entry.n].age < Longest
    BY <2>1, <2>2, CacheAssumption
  <2>4. CallOK(Return(r, entry.n, answers[entry.n].age, TRUE), answers)
    BY <1>0, <1>3, <2>1, <2>2, <2>3, ReturnOK, Zenon
  <2> QED BY <1>3, <2>4, Zenon DEF UseCache, entry
<1>4. CASE ~(~r.noCache /\ Valid(entry))
  <2> DEFINE s == [r EXCEPT !.pc = "fetch", !.fetches = @ + 1]
  <2>0. r.attempt \in Nat /\ r.fetches \in Nat /\ r.fetches + 1 \in Nat
    BY DEF Record
  <2>1. s \in Record
    BY <2>0, Zenon DEF Record, PCs
  <2>2. /\ s.pc = "fetch" /\ s.kind = r.kind /\ s.key = r.key /\ s.limit = r.limit
        /\ s.attempt = r.attempt /\ s.fetches = r.fetches + 1 /\ s.began = r.began
    BY DEF Record
  <2>3. UseCache(r) = s
    BY <1>4, Zenon DEF UseCache, entry
  <2> HIDE DEF s
  <2>4. Asked(s) /\ Tried(s)
    BY <2>0, <2>2 DEF Asked, Tried
  <2>5. CallOK(s, answers)
    BY <2>1, <2>2, <2>4 DEF CallOK, Active
  <2> QED BY <2>3, <2>5
<1> QED BY <1>3, <1>4

LEMMA EnterOK ==
  ASSUME IInv, NEW r \in Record, r.began <= Len(answers), Asked(r),
         r.attempt = 0 \/ r.attempt < r.limit, r.fetches <= r.attempt
  PROVE  CallOK(Enter(r), answers)
<1>1. CASE r.kind = "image"
  <2> DEFINE pc == IF r.cloud THEN "list" ELSE "lookup"
             s == [r EXCEPT !.pc = pc]
  <2>0. r.attempt \in Nat /\ r.fetches \in Nat /\ pc \in {"list", "lookup"}
    BY DEF Record
  <2> HIDE DEF pc
  <2>1. s \in Record
    BY <2>0, SMTT(30) DEF Record, PCs
  <2>2. /\ s.pc = pc /\ s.kind = r.kind /\ s.key = r.key /\ s.limit = r.limit
        /\ s.attempt = r.attempt /\ s.fetches = r.fetches /\ s.began = r.began
    BY DEF Record
  <2>3. Enter(r) = s
    BY <1>1 DEF Enter, pc
  <2> HIDE DEF s
  <2>4. Asked(s) /\ Tried(s)
    BY <2>0, <2>2 DEF Asked, Tried
  <2>5. CallOK(s, answers)
    BY <2>0, <2>1, <2>2, <2>4 DEF CallOK, Active
  <2> QED BY <2>3, <2>5
<1>2. CASE r.kind # "image"
  BY <1>2, UseCacheOK DEF Enter
<1> QED BY <1>1, <1>2

LEMMA FailedOK ==
  ASSUME IInv, NEW r, CallOK(r, answers), Active(r)
  PROVE  CallOK(Failed(r), answers)
<1>0. /\ r \in Record /\ r.attempt \in Nat /\ r.fetches \in Nat /\ r.limit \in Nat
      /\ r.limit \in Limits /\ r.fetches <= r.attempt + 1 /\ r.began <= Len(answers)
      /\ Asked(r)
  BY DEF CallOK, Asked, Tried, Record
<1>1. CASE r.attempt + 1 >= r.limit
  BY <1>1, FailedBlankOK DEF Failed, IInv
<1>2. CASE ~(r.attempt + 1 >= r.limit)
  <2> DEFINE k == r.attempt + 1
             d == Delay(k)
             s == [r EXCEPT !.pc = "backoff", !.attempt = k, !.nap = d]
  <2>1. k \in Nat /\ k \in 1..r.limit /\ k < r.limit /\ k = r.attempt + 1
    BY <1>0, <1>2
  <2>2. d \in Nat
    BY <1>0, <2>1, CacheAssumption
  <2>3. Failed(r) = s
    BY <1>2 DEF Failed
  <2> HIDE DEF k, d
  <2>4. s \in Record
    BY <1>0, <2>1, <2>2, ZenonT(60) DEF Record, PCs
  <2>5. /\ s.pc = "backoff" /\ s.kind = r.kind /\ s.key = r.key /\ s.limit = r.limit
        /\ s.attempt = k /\ s.fetches = r.fetches /\ s.began = r.began
    BY <1>0 DEF Record
  <2> HIDE DEF s
  <2>6. Asked(s) /\ Tried(s)
    BY <1>0, <2>1, <2>5 DEF Asked, Tried
  <2>7. CallOK(s, answers)
    BY <1>0, <2>4, <2>5, <2>6 DEF CallOK, Active
  <2> QED BY <2>3, <2>7
<1> QED BY <1>1, <1>2

-----------------------------------------------------------------------------
(* One lemma per kind of step *)

LEMMA OneCall ==
  ASSUME IInv, NEW c \in Callers, NEW s, CallOK(s, answers),
         call' = [call EXCEPT ![c] = s], UNCHANGED <<info, snap, answers>>
  PROVE  IInv'
<1>1. s \in Record /\ call \in [Callers -> Record]
  BY DEF CallOK, IInv
<1>2. call' \in [Callers -> Record]
  BY <1>1
<1>3. \A d \in Callers : CallOK(call'[d], answers)
  BY <1>1 DEF IInv
<1> QED BY <1>2, <1>3 DEF IInv

LEMMA BeginInv == ASSUME IInv, NEW c \in Callers, Begin(c) PROVE IInv'
<1>1. PICK kind \in Kinds, key \in Keys, noCache \in BOOLEAN,
           lifetime \in Lifetimes, limit \in Limits, cloud \in BOOLEAN :
        /\ kind = "info" \/ key[2] = Main
        /\ cloud => kind = "image"
        /\ call' = [call EXCEPT ![c] =
                      Enter([Blank EXCEPT !.kind = kind, !.key = key,
                               !.noCache = noCache, !.cloud = cloud,
                               !.lifetime = lifetime, !.limit = limit,
                               !.began = Len(answers)])]
  BY Zenon DEF Begin
<1> DEFINE b == Len(answers)
           r == [Blank EXCEPT !.kind = kind, !.key = key, !.noCache = noCache,
                   !.cloud = cloud, !.lifetime = lifetime, !.limit = limit, !.began = b]
<1>2. b \in Nat /\ b \in 0..MaxAnswers /\ b <= Len(answers)
  BY LenProperties, CacheAssumption DEF IInv, Arrivals
<1>3. lifetime \in 0..Longest /\ limit \in Nat
  BY CacheAssumption
<1> HIDE DEF b
<1>4. r \in Record
  BY <1>2, <1>3, BlankFacts, ZenonT(60) DEF Record
<1>5. /\ r.kind = kind /\ r.key = key /\ r.limit = limit /\ r.began = b
      /\ r.attempt = 0 /\ r.fetches = 0
  BY DEF Blank
<1> HIDE DEF r
<1>6. Asked(r)
  BY <1>1, <1>5 DEF Asked, Keys
<1>7. CallOK(Enter(r), answers)
  BY <1>2, <1>4, <1>5, <1>6, EnterOK
<1> QED BY <1>1, <1>7, OneCall, Zenon DEF Begin, r, b

LEMMA LookingInv ==
  ASSUME IInv, NEW c \in Callers, ListCameras(c) \/ DownloadThumbnail(c)
  PROVE  IInv'
<1> DEFINE r == call[c]
<1>0. /\ call \in [Callers -> Record] /\ CallOK(r, answers) /\ r.pc \in {"list", "download"}
      /\ UNCHANGED <<info, snap, answers>> /\ r \in Record /\ Active(r)
  BY Zenon DEF IInv, ListCameras, DownloadThumbnail, Active
<1>1. ASSUME NEW pc \in {"list", "download", "lookup"}, call' = [call EXCEPT ![c].pc = pc]
      PROVE  IInv'
  <2>1. CallOK([r EXCEPT !.pc = pc], answers)
    BY <1>0, GoOnOK, Zenon
  <2>2. call' = [call EXCEPT ![c] = [r EXCEPT !.pc = pc]]
    BY <1>0, <1>1
  <2> QED BY <1>0, <2>1, <2>2, OneCall, Zenon
<1>2. CASE call' = [call EXCEPT ![c] = Failed(r)]
  BY <1>0, <1>2, FailedOK, OneCall, Zenon
<1>3. CASE call' = [call EXCEPT ![c] = Return(r, 0, 0, FALSE)]
  <2>1. /\ 0 \in 0..MaxAnswers /\ 0 \in 0..Longest /\ 0 <= Len(answers)
        /\ r.began <= Len(answers) /\ answers \in Arrivals
    BY <1>0, LenProperties, CacheAssumption DEF IInv, Arrivals, CallOK
  <2>2. CallOK(Return(r, 0, 0, FALSE), answers)
    BY <1>0, <2>1, ReturnOK, Zenon
  <2> QED BY <1>0, <1>3, <2>2, OneCall, Zenon
<1> QED BY <1>1, <1>2, <1>3, Zenon DEF ListCameras, DownloadThumbnail

LEMMA LookUpInv == ASSUME IInv, NEW c \in Callers, LookUpCamera(c) PROVE IInv'
<1> DEFINE r == call[c]
<1>0. /\ CallOK(r, answers) /\ r.pc = "lookup" /\ Active(r) /\ r \in Record
      /\ UNCHANGED <<info, snap, answers>>
  BY DEF IInv, LookUpCamera, Active
<1>1. /\ r.began <= Len(answers) /\ Asked(r) /\ r.fetches <= r.attempt
      /\ r.attempt = 0 \/ r.attempt < r.limit
  BY <1>0 DEF CallOK, Tried
<1>2. CallOK(UseCache(r), answers)
  BY <1>0, <1>1, UseCacheOK
<1>3. CallOK(Failed(r), answers)
  BY <1>0, FailedOK
<1> QED BY <1>0, <1>2, <1>3, OneCall DEF LookUpCamera

LEMMA RetryInv == ASSUME IInv, NEW c \in Callers, Retry(c) PROVE IInv'
<1> DEFINE r == call[c]
<1>0. /\ CallOK(r, answers) /\ r.pc = "backoff" /\ Active(r) /\ r \in Record
      /\ UNCHANGED <<info, snap, answers>>
  BY DEF IInv, Retry, Active
<1>1. /\ r.began <= Len(answers) /\ Asked(r) /\ r.fetches <= r.attempt
      /\ r.attempt = 0 \/ r.attempt < r.limit
  BY <1>0 DEF CallOK, Tried
<1>2. CallOK(Enter(r), answers)
  BY <1>0, <1>1, EnterOK
<1> QED BY <1>0, <1>2, OneCall, Zenon DEF Retry

LEMMA StreamFailsInv == ASSUME IInv, NEW c \in Callers, StreamFails(c) PROVE IInv'
<1>1. CallOK(call[c], answers) /\ Active(call[c])
  BY DEF IInv, StreamFails, Active
<1> QED BY <1>1, FailedOK, OneCall, ZenonT(60) DEF StreamFails

\* The entry that an answer leaves in a cache.
LEMMA StoreOK ==
  ASSUME NEW xs, NEW n \in 0..MaxAnswers, n # 0, n <= Len(xs), NEW k, xs[n].key = k,
         xs[n].age = 0, NEW lifetime \in 0..Longest
  PROVE  EntryOK(Store(n, lifetime), k, xs)
<1> DEFINE e == Store(n, lifetime)
<1>1. e \in Entry /\ e.n = n /\ e.left = lifetime
  BY DEF Store, Entry
<1> HIDE DEF e
<1>2. EntryOK(e, k, xs)
  BY <1>1, CacheAssumption DEF EntryOK
<1> QED BY <1>2 DEF e

\* An answer to call c arrives, and one of the caches may take it.
LEMMA ArrivalInv ==
  ASSUME IInv, NEW c \in Callers, call[c].pc \in {"fetch", "capture"},
         Len(answers) < MaxAnswers, answers' = Answer(call[c]),
         call' = [call EXCEPT ![c] = Return(call[c], Len(answers) + 1, 0, FALSE)],
         LET e == Store(Len(answers) + 1, call[c].lifetime)
         IN \/ UNCHANGED <<info, snap>>
            \/ info' = [info EXCEPT ![call[c].key] = e] /\ UNCHANGED snap
            \/ /\ call[c].kind # "info"
               /\ snap' = [snap EXCEPT ![call[c].key[1]] = e] /\ UNCHANGED info
  PROVE  IInv'
<1> DEFINE r == call[c]
           n == Len(answers) + 1
           e == Store(n, r.lifetime)
           s == Return(r, n, 0, FALSE)
<1>0. /\ r \in Record /\ CallOK(r, answers) /\ Asked(r) /\ answers \in Arrivals
      /\ r.began \in Nat /\ r.began <= Len(answers) /\ r.lifetime \in 0..Longest
      /\ Len(answers) \in Nat /\ 0 \in 0..Longest /\ call \in [Callers -> Record]
  <2>1. /\ CallOK(r, answers) /\ answers \in Arrivals /\ answers \in Seq(Arrival)
        /\ call \in [Callers -> Record]
    BY DEF IInv, Arrivals
  <2>2. Len(answers) \in Nat
    BY <2>1, LenProperties
  <2>3. r \in Record /\ Asked(r) /\ r.began <= Len(answers)
    BY <2>1 DEF CallOK, Active
  <2>4. r.began \in Nat /\ r.lifetime \in 0..Longest
    BY <2>3, SMTT(30) DEF Record
  <2> QED BY <2>1, <2>2, <2>3, <2>4, CacheAssumption
<1>1. r.key \in Keys
  BY <1>0 DEF Asked
<1>2. /\ answers' \in Arrivals /\ Extends(answers, answers')
      /\ \A i \in 1..Len(answers) : answers'[i].age = answers[i].age
      /\ n \in Nat /\ n # 0 /\ n \in 0..MaxAnswers /\ Len(answers') = n
      /\ answers'[n].key = r.key /\ answers'[n].age = 0
  BY <1>0, <1>1, AnswerArrives DEF Answer
<1>3. n <= Len(answers') /\ n > r.began /\ r.began <= Len(answers')
  BY <1>0, <1>2
<1> HIDE DEF n
<1>4. CallOK(s, answers')
  BY <1>0, <1>2, <1>3, ReturnOK, Zenon
<1>5. EntryOK(e, r.key, answers')
  BY <1>0, <1>2, <1>3, StoreOK
<1>6. \A d \in Callers : CallOK(call[d], answers')
  BY <1>0, <1>2, CallKept DEF IInv
<1>7. call' = [call EXCEPT ![c] = s]
  BY DEF n
<1> HIDE DEF s
<1>8. (\A d \in Callers : CallOK(call'[d], answers')) /\ call' \in [Callers -> Record]
  BY <1>0, <1>4, <1>6, <1>7, ZenonT(60) DEF CallOK
<1>9. \A k \in Keys : EntryOK(info[k], k, answers')
  BY <1>0, <1>2, EntryKept DEF IInv
<1>10. \A m \in Macs : EntryOK(snap[m], <<m, Main>>, answers')
  BY <1>0, <1>2, EntryKept DEF IInv
<1>11. info \in [Keys -> Entry] /\ snap \in [Macs -> Entry] /\ e \in Entry
  BY <1>5 DEF IInv, EntryOK
<1>12. \/ UNCHANGED <<info, snap>>
       \/ info' = [info EXCEPT ![r.key] = e] /\ UNCHANGED snap
       \/ /\ r.kind # "info"
          /\ snap' = [snap EXCEPT ![r.key[1]] = e] /\ UNCHANGED info
  BY DEF n
<1> HIDE DEF e
<1>13. CASE UNCHANGED <<info, snap>>
  BY <1>2, <1>8, <1>9, <1>10, <1>11, <1>13, Zenon DEF IInv
<1>14. CASE info' = [info EXCEPT ![r.key] = e] /\ UNCHANGED snap
  <2>1. info' \in [Keys -> Entry] /\ \A k \in Keys : EntryOK(info'[k], k, answers')
    BY <1>1, <1>5, <1>9, <1>11, <1>14
  <2> QED BY <1>2, <1>8, <1>10, <1>11, <1>14, <2>1, ZenonT(60) DEF IInv
<1>15. CASE r.kind # "info" /\ snap' = [snap EXCEPT ![r.key[1]] = e] /\ UNCHANGED info
  <2>1. r.key = <<r.key[1], Main>> /\ r.key[1] \in Macs
    BY <1>0, <1>1, <1>15 DEF Asked, Keys
  <2>2. EntryOK(e, <<r.key[1], Main>>, answers')
    BY <1>5, <2>1
  <2>3. /\ snap' \in [Macs -> Entry]
        /\ \A m \in Macs : EntryOK(snap'[m], <<m, Main>>, answers')
    BY <1>10, <1>11, <1>15, <2>1, <2>2
  <2> QED BY <1>2, <1>8, <1>9, <1>11, <1>15, <2>3, ZenonT(60) DEF IInv
<1> QED BY <1>12, <1>13, <1>14, <1>15

LEMMA StreamInfoInv == ASSUME IInv, NEW c \in Callers, StreamInfoArrives(c) PROVE IInv'
<1> DEFINE r == call[c]
<1>0. /\ r.pc = "fetch" /\ Len(answers) < MaxAnswers /\ UNCHANGED snap
      /\ call \in [Callers -> Record] /\ CallOK(r, answers) /\ Active(r)
  BY DEF StreamInfoArrives, IInv, Active
<1>1. CASE r.kind = "info"
  BY <1>0, <1>1, ArrivalInv, Zenon DEF StreamInfoArrives
<1>2. CASE r.kind # "info"
  <2>1. /\ call' = [call EXCEPT ![c] = [r EXCEPT !.pc = "capture"]]
        /\ UNCHANGED <<info, snap, answers>>
    BY <1>0, <1>2, Zenon DEF StreamInfoArrives
  <2>2. CallOK([r EXCEPT !.pc = "capture"], answers)
    BY <1>0, <1>2, GoOnOK, Zenon
  <2> QED BY <2>1, <2>2, OneCall, Zenon
<1> QED BY <1>1, <1>2

LEMMA FrameInv == ASSUME IInv, NEW c \in Callers, FrameArrives(c) PROVE IInv'
<1>1. call[c].pc = "capture" /\ call[c].kind # "info"
  BY DEF FrameArrives, IInv, CallOK
<1> QED BY <1>1, ArrivalInv, ZenonT(60) DEF FrameArrives

LEMMA ClearInv == ASSUME IInv, NEW macs, ClearCameraStreamCache(macs) PROVE IInv'
<1>1. Absent \in Entry /\ Absent.n = 0 /\ Absent.left = 0
  BY CacheAssumption DEF Absent, Entry
<1>2. Len(answers) \in Nat
  BY LenProperties DEF IInv, Arrivals
<1>3. \A k : EntryOK(Absent, k, answers)
  BY <1>1, <1>2 DEF EntryOK
<1>4. info' \in [Keys -> Entry] /\ \A k \in Keys : EntryOK(info'[k], k, answers)
  BY <1>1, <1>3 DEF ClearCameraStreamCache, IInv
<1> QED BY <1>4 DEF ClearCameraStreamCache, IInv

\* While time passes, an entry loses what the age of its answer gains.
LEMMA PassedOK ==
  ASSUME NEW xs \in Arrivals, NEW ys \in Arrivals, Extends(xs, ys),
         \A i \in 1..Len(xs) :
           ys[i].age = (IF xs[i].age < Longest THEN xs[i].age + 1 ELSE xs[i].age),
         NEW e, NEW k, EntryOK(e, k, xs)
  PROVE  EntryOK(Passed(e), k, ys)
<1> DEFINE l == IF e.left > 0 THEN e.left - 1 ELSE 0
           d == [e EXCEPT !.left = l]
<1>0. /\ e \in Entry /\ e.n \in Nat /\ e.left \in 0..Longest /\ Longest \in Nat
      /\ Len(xs) \in Nat /\ Len(ys) \in Nat /\ e.n <= Len(xs) /\ Len(xs) <= Len(ys)
      /\ xs \in [1..Len(xs) -> Arrival]
  BY LenProperties, CacheAssumption DEF EntryOK, Entry, Arrivals, Extends
<1>1. l \in 0..Longest
  BY <1>0
<1>2. Passed(e) = d
  BY DEF Passed
<1>3. d \in Entry /\ d.n = e.n /\ d.left = l
  BY <1>0, <1>1 DEF Entry
<1> HIDE DEF d
<1>4. d.n <= Len(ys) /\ (d.n # 0 => ys[d.n].key = k)
  BY <1>0, <1>3 DEF EntryOK, Extends
<1>5. d.left > 0 => d.n # 0 /\ d.left + ys[d.n].age <= Longest
  <2> SUFFICES ASSUME d.left > 0 PROVE d.n # 0 /\ d.left + ys[d.n].age <= Longest
    OBVIOUS
  <2>1. e.left > 0 /\ d.left = e.left - 1
    BY <1>0, <1>3
  <2>2. e.n \in 1..Len(xs) /\ e.left + xs[e.n].age <= Longest
    BY <1>0, <2>1 DEF EntryOK
  <2>3. xs[e.n].age \in Nat
    BY <1>0, <2>2 DEF Arrival
  <2>4. xs[e.n].age < Longest
    BY <1>0, <2>1, <2>2, <2>3
  <2>5. ys[e.n].age = xs[e.n].age + 1
    BY <2>2, <2>4
  <2> QED BY <1>0, <1>3, <2>1, <2>2, <2>3, <2>5, SMTT(30)
<1> QED BY <1>2, <1>3, <1>4, <1>5 DEF EntryOK

LEMMA NappedOK ==
  ASSUME NEW xs, NEW r, CallOK(r, xs)
  PROVE  CallOK([r EXCEPT !.nap = IF @ > 0 THEN @ - 1 ELSE 0], xs)
<1> DEFINE w == IF r.nap > 0 THEN r.nap - 1 ELSE 0
           s == [r EXCEPT !.nap = w]
<1>0. r \in Record /\ r.nap \in Nat
  BY DEF CallOK, Record
<1>1. w \in Nat
  BY <1>0
<1> HIDE DEF w
<1>2. s \in Record
  BY <1>0, <1>1, SMTT(30) DEF Record
<1>3. /\ s.pc = r.pc /\ s.kind = r.kind /\ s.key = r.key /\ s.limit = r.limit
      /\ s.attempt = r.attempt /\ s.fetches = r.fetches /\ s.began = r.began
      /\ s.n = r.n /\ s.cached = r.cached /\ s.age = r.age /\ s.noCache = r.noCache
  BY <1>0 DEF Record
<1> HIDE DEF s
<1>4. (Active(s) <=> Active(r)) /\ (Asked(r) => Asked(s)) /\ (Tried(r) => Tried(s))
  BY <1>3 DEF Active, Asked, Tried
<1>5. Got(r, xs) => Got(s, xs)
  BY <1>3, Zenon DEF Got
<1>6. CallOK(s, xs)
  BY <1>2, <1>3, <1>4, <1>5 DEF CallOK
<1> QED BY <1>6 DEF s, w

LEMMA TickInv == ASSUME IInv, Tick PROVE IInv'
<1> DEFINE Older(a) == [a EXCEPT !.age = IF @ < Longest THEN @ + 1 ELSE @]
           n == Len(answers)
<1>0. /\ answers \in Arrivals /\ answers \in Seq(Arrival) /\ n \in Nat /\ n <= MaxAnswers
      /\ DOMAIN answers = 1..n /\ answers \in [1..n -> Arrival]
  BY LenProperties DEF IInv, Arrivals
<1>1. \A a \in Arrival : /\ Older(a) \in Arrival /\ Older(a).key = a.key
                         /\ Older(a).age = IF a.age < Longest THEN a.age + 1 ELSE a.age
  <2> SUFFICES ASSUME NEW a \in Arrival
               PROVE  /\ Older(a) \in Arrival /\ Older(a).key = a.key
                      /\ Older(a).age = IF a.age < Longest THEN a.age + 1 ELSE a.age
    OBVIOUS
  <2> DEFINE g == IF a.age < Longest THEN a.age + 1 ELSE a.age
  <2>1. g \in 0..Longest
    BY CacheAssumption DEF Arrival
  <2> HIDE DEF g
  <2>2. [a EXCEPT !.age = g] \in Arrival
    BY <2>1 DEF Arrival
  <2>3. [a EXCEPT !.age = g].key = a.key /\ [a EXCEPT !.age = g].age = g
    BY DEF Arrival
  <2> QED BY <2>2, <2>3 DEF g
<1>2. answers' = [i \in 1..n |-> Older(answers[i])]
  BY <1>0 DEF Tick
<1> HIDE DEF Older
<1>3. answers' \in [1..n -> Arrival]
  BY <1>0, <1>1, <1>2
<1>4. answers' \in Seq(Arrival) /\ Len(answers') = n
  BY <1>0, <1>3, SeqDef
<1> HIDE DEF n
<1>5. answers' \in Arrivals
  BY <1>0, <1>4 DEF Arrivals
<1>6. \A i \in 1..n : answers[i] \in Arrival /\ answers'[i] = Older(answers[i])
  BY <1>0, <1>2
<1>7. Extends(answers, answers')
  BY <1>0, <1>1, <1>4, <1>6 DEF Extends, n
<1>8. \A i \in 1..Len(answers) :
        answers'[i].age = (IF answers[i].age < Longest THEN answers[i].age + 1
                                                       ELSE answers[i].age)
  BY <1>1, <1>6 DEF n
<1>9. \A k \in Keys : EntryOK(info'[k], k, answers')
  <2>1. \A k \in Keys : info'[k] = Passed(info[k]) /\ EntryOK(info[k], k, answers)
    BY DEF Tick, IInv
  <2> QED BY <1>0, <1>5, <1>7, <1>8, <2>1, PassedOK
<1>10. \A m \in Macs : EntryOK(snap'[m], <<m, Main>>, answers')
  <2>1. \A m \in Macs : /\ snap'[m] = Passed(snap[m])
                        /\ EntryOK(snap[m], <<m, Main>>, answers)
    BY DEF Tick, IInv
  <2> QED BY <1>0, <1>5, <1>7, <1>8, <2>1, PassedOK
<1>11. \A c \in Callers : CallOK(call'[c], answers')
  <2> SUFFICES ASSUME NEW c \in Callers PROVE CallOK(call'[c], answers')
    OBVIOUS
  <2>1. CallOK(call[c], answers')
    BY <1>0, <1>5, <1>7, CallKept DEF IInv
  <2>2. call'[c] = [call[c] EXCEPT !.nap = IF @ > 0 THEN @ - 1 ELSE 0]
    BY DEF Tick
  <2> QED BY <2>1, <2>2, NappedOK
<1>12. info' \in [Keys -> Entry]
  BY <1>9 DEF Tick, EntryOK
<1>13. snap' \in [Macs -> Entry]
  BY <1>10 DEF Tick, EntryOK
<1>14. call' \in [Callers -> Record]
  BY <1>11, Zenon DEF Tick, CallOK
<1> QED BY <1>5, <1>9, <1>10, <1>11, <1>12, <1>13, <1>14 DEF IInv

-----------------------------------------------------------------------------
LEMMA StepInv == IInv /\ [Next]_vars => IInv'
<1> SUFFICES ASSUME IInv, [Next]_vars PROVE IInv'
  OBVIOUS
<1>1. CASE UNCHANGED vars
  BY <1>1 DEF vars, IInv
<1>2. ASSUME NEW c \in Callers, Begin(c) \/ Proceed(c) PROVE IInv'
  BY <1>2, BeginInv, LookingInv, LookUpInv, StreamInfoInv, FrameInv, StreamFailsInv,
     RetryInv DEF Proceed
<1> QED BY <1>1, <1>2, ClearInv, TickInv, ZenonT(60) DEF Next

LEMMA InitInv == Init => IInv
<1> SUFFICES ASSUME Init PROVE IInv
  OBVIOUS
<1>1. Absent \in Entry /\ Absent.n = 0 /\ Absent.left = 0
  BY CacheAssumption DEF Absent, Entry
<1>2. answers = <<>> /\ answers \in Seq(Arrival) /\ Len(answers) = 0
  BY EmptySeq DEF Init
<1>3. answers \in Arrivals
  BY <1>2, CacheAssumption DEF Arrivals
<1>4. CallOK(Blank, answers)
  BY <1>2, BlankFacts DEF CallOK, Active
<1>5. \A k : EntryOK(Absent, k, answers)
  BY <1>1, <1>2 DEF EntryOK
<1>6. /\ info \in [Keys -> Entry] /\ snap \in [Macs -> Entry] /\ call \in [Callers -> Record]
      /\ \A k \in Keys : info[k] = Absent
      /\ \A m \in Macs : snap[m] = Absent
      /\ \A c \in Callers : call[c] = Blank
  BY <1>1, BlankFacts DEF Init
<1> QED BY <1>3, <1>4, <1>5, <1>6 DEF IInv

LEMMA InvHolds == Spec => []IInv
  BY InitInv, StepInv, PTL DEF Spec

\* Type correctness of the stream caches.
THEOREM TypeCorrect == Spec => []TypeOK
<1>1. IInv => TypeOK
  BY DEF IInv, TypeOK, Arrivals, Arrival
<1> QED BY <1>1, InvHolds, PTL

\* For any callers and cameras, connection info and frames belong to the camera
\* that was asked for.
THEOREM CameraIsRight == Spec => []RightCamera
<1>1. IInv => RightCamera
  <2> SUFFICES ASSUME IInv PROVE RightCamera
    OBVIOUS
  <2>1. \A k \in Keys : info[k].n # 0 => answers[info[k].n].key = k
    BY DEF IInv, EntryOK
  <2>2. \A m \in Macs : snap[m].n # 0 => answers[snap[m].n].key[1] = m
    BY DEF IInv, EntryOK
  <2>3. \A c \in Callers : call[c].pc = "returned" /\ call[c].n # 0
                            => answers[call[c].n].key = call[c].key
    BY DEF IInv, CallOK, Got
  <2> QED BY <2>1, <2>2, <2>3 DEF RightCamera
<1> QED BY <1>1, InvHolds, PTL

\* For any lifetimes, a cached answer is younger than the longest of them and
\* every other answer arrived during the call.
THEOREM AnswersFresh == Spec => []AnswersAreFresh
<1>1. IInv => AnswersAreFresh
  <2> SUFFICES ASSUME IInv, NEW c \in Callers, call[c].pc = "returned", call[c].n # 0
               PROVE  IF call[c].cached THEN call[c].age < Longest /\ ~call[c].noCache
                                        ELSE call[c].n > call[c].began
    BY DEF AnswersAreFresh
  <2>1. Got(call[c], answers)
    BY DEF IInv, CallOK
  <2> QED BY <2>1 DEF Got
<1> QED BY <1>1, InvHolds, PTL

\* For any limits, a call makes at most one request per attempt and no more
\* attempts than its limit allows.
THEOREM AttemptsAreBounded == Spec => []AttemptsBounded
<1>1. IInv => AttemptsBounded
  <2> SUFFICES ASSUME IInv, NEW c \in Callers
               PROVE  /\ call[c].fetches <= call[c].attempt + 1
                      /\ Active(call[c]) => call[c].attempt < call[c].limit
                                              \/ call[c].attempt = 0
    BY ZenonT(60) DEF AttemptsBounded
  <2>1. CallOK(call[c], answers) /\ call[c].attempt \in Nat
    BY DEF IInv, CallOK, Record
  <2> QED BY <2>1 DEF CallOK, Tried
<1> QED BY <1>1, InvHolds, PTL
=============================================================================
