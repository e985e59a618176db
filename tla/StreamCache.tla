---------------------------- MODULE StreamCache ----------------------------
(***************************************************************************)
(* The caches of camera streaming in src/index.js: connection info per     *)
(* camera, model and substream (getCameraWebRTCConnectionInfo), captured   *)
(* frames per camera (cameraCaptureSnapshot), the image lookup in front of *)
(* the latter (getCameraSnapshotImage), clearCameraStreamCache() and the   *)
(* retries of cameraStreamWithReconnect().                                 *)
(*                                                                         *)
(* A step is the code between two waits, as in module TokenSession, whose  *)
(* kind "stream" is the request of cameraGetStreamInfo().  Here that call  *)
(* and captureStreamFrame() answer or fail.  Answers are numbered in the   *)
(* order in which they arrive.                                             *)
(***************************************************************************)
EXTENDS Naturals, Sequences

CONSTANTS
  Callers,     \* concurrent calls
  Kinds,       \* subset of {"info", "snapshot", "image"}
  Macs,        \* cameras
  Variants,    \* pairs of model and substream
  Main,        \* the variant of a snapshot: the model, not the substream
  Lifetimes,   \* values of options.cacheTtlMs
  Longest,     \* a bound on them
  Limits,      \* values of retryOptions.maxAttempts
  BaseDelay,   \* retryOptions.baseDelayMs
  MaxAnswers   \* bound: answers of cameras and service

\* The wait before the attempt that follows attempt k.
Delay(k) == BaseDelay * 2^(k - 1)

ASSUME CacheAssumption ==
  /\ Kinds \subseteq {"info", "snapshot", "image"}
  /\ Main \in Variants
  /\ Longest \in Nat /\ Lifetimes \subseteq 0..Longest
  /\ Limits \subseteq Nat
  /\ BaseDelay \in Nat /\ MaxAnswers \in Nat
  /\ \A limit \in Limits : \A k \in 1..limit : Delay(k) \in Nat

VARIABLES
  info,     \* this._streamInfoCache
  snap,     \* this._snapshotCaptureCache
  call,     \* what each caller is doing
  answers   \* history: what arrived, with its age

vars == <<info, snap, call, answers>>

Keys == Macs \X Variants

\* Entries keep the time they have left instead of the time they expire.
Absent == [n |-> 0, left |-> 0]

\* Mutant: an entry is used whatever its age.
Valid_Unexpiring(entry) == entry.n # 0
Valid(entry) == entry.left > 0

\* Mutant: an entry lives one unit of time too long.
Store_TooLong(n, lifetime) == [n |-> n, left |-> lifetime + 1]
Store(n, lifetime) == [n |-> n, left |-> lifetime]

PCs == {"idle", "list", "download", "lookup", "fetch", "capture", "backoff",
        "returned", "failed"}

Blank == [kind |-> "none", pc |-> "idle", key |-> <<>>, noCache |-> FALSE,
          cloud |-> FALSE, lifetime |-> 0, limit |-> 0, attempt |-> 0,
          nap |-> 0, began |-> 0, fetches |-> 0, n |-> 0, cached |-> FALSE,
          age |-> 0]

Active(r) == r.pc \notin {"idle", "returned", "failed"}

-----------------------------------------------------------------------------
(* What a call does up to its next wait, as functions of its record *)

\* Of a call that is over only what it was asked and what it got is kept.
Return(r, n, age, cached) ==
  [Blank EXCEPT !.kind = r.kind, !.pc = "returned", !.key = r.key,
                !.noCache = r.noCache, !.began = r.began,
                !.n = n, !.age = age, !.cached = cached]

\* The cache lookups of getCameraWebRTCConnectionInfo() and
\* cameraCaptureSnapshot(); the latter always fetches connection info anew.
UseCache(r) ==
  LET entry == IF r.kind = "info" THEN info[r.key] ELSE snap[r.key[1]]
  IN  IF ~r.noCache /\ Valid(entry)
      THEN Return(r, entry.n, answers[entry.n].age, TRUE)
      ELSE [r EXCEPT !.pc = "fetch", !.fetches = @ + 1]

\* fn() of cameraStreamWithReconnect(); r.cloud is ~options.skipCloud.
Enter(r) ==
  IF r.kind = "image"
  THEN [r EXCEPT !.pc = IF r.cloud THEN "list" ELSE "lookup"]
  ELSE UseCache(r)

\* Mutant: the limit counts retries, not attempts.
Failed_OneMore(r) ==
  IF r.attempt >= r.limit
  THEN [Blank EXCEPT !.pc = "failed"]
  ELSE [r EXCEPT !.pc = "backoff", !.attempt = @ + 1,
                 !.nap = Delay(r.attempt + 1)]

\* The catch of cameraStreamWithReconnect().  A call without it behaves like
\* one with a limit of 1.
Failed(r) ==
  LET attempt == r.attempt + 1
  IN  IF attempt >= r.limit
      THEN [Blank EXCEPT !.pc = "failed"]
      ELSE [r EXCEPT !.pc = "backoff", !.attempt = attempt,
                     !.nap = Delay(attempt)]

-----------------------------------------------------------------------------
Init ==
  /\ info = [k \in Keys |-> Absent]
  /\ snap = [m \in Macs |-> Absent]
  /\ call = [c \in Callers |-> Blank]
  /\ answers = <<>>

Begin(c) ==
  /\ ~Active(call[c])
  /\ \E kind \in Kinds, key \in Keys, noCache \in BOOLEAN,
        lifetime \in Lifetimes, limit \in Limits, cloud \in BOOLEAN :
       /\ kind = "info" \/ key[2] = Main
       /\ cloud => kind = "image"
       /\ call' = [call EXCEPT ![c] =
                     Enter([Blank EXCEPT !.kind = kind, !.key = key,
                              !.noCache = noCache, !.cloud = cloud,
                              !.lifetime = lifetime, !.limit = limit,
                              !.began = Len(answers)])]
  /\ UNCHANGED <<info, snap, answers>>

\* getCameraSnapshot(): no thumbnail, a thumbnail, or an error.
ListCameras(c) ==
  /\ call[c].pc = "list"
  /\ \/ call' = [call EXCEPT ![c].pc = "lookup"]
     \/ call' = [call EXCEPT ![c].pc = "download"]
     \/ call' = [call EXCEPT ![c] = Failed(@)]
  /\ UNCHANGED <<info, snap, answers>>

\* Mutant: a failed download asks for the thumbnail again.
DownloadThumbnail_AskAgain(c) ==
  /\ call[c].pc = "download"
  /\ \/ call' = [call EXCEPT ![c] = Return(@, 0, 0, FALSE)]
     \/ call' = [call EXCEPT ![c].pc = "list"]
  /\ UNCHANGED <<info, snap, answers>>

\* The download of the thumbnail; its error is caught.
DownloadThumbnail(c) ==
  /\ call[c].pc = "download"
  /\ \/ call' = [call EXCEPT ![c] = Return(@, 0, 0, FALSE)]
     \/ call' = [call EXCEPT ![c].pc = "lookup"]
  /\ UNCHANGED <<info, snap, answers>>

\* getCamera() finds the camera, or throws like a camera that is not there.
LookUpCamera(c) ==
  /\ call[c].pc = "lookup"
  /\ \/ call' = [call EXCEPT ![c] = UseCache(@)]
     \/ call' = [call EXCEPT ![c] = Failed(@)]
  /\ UNCHANGED <<info, snap, answers>>

Answer(r) == Append(answers, [key |-> r.key, age |-> 0])

\* cameraGetStreamInfo() returns.
StreamInfoArrives(c) ==
  LET r == call[c]
      n == Len(answers) + 1
  IN  /\ r.pc = "fetch" /\ Len(answers) < MaxAnswers
      /\ \/ /\ r.kind = "info"
            /\ answers' = Answer(r)
            /\ info' = IF r.noCache THEN info
                       ELSE [info EXCEPT ![r.key] = Store(n, r.lifetime)]
            /\ call' = [call EXCEPT ![c] = Return(r, n, 0, FALSE)]
         \/ /\ r.kind # "info"
            /\ call' = [call EXCEPT ![c].pc = "capture"]
            /\ UNCHANGED <<info, answers>>
      /\ UNCHANGED snap

\* Mutant: the frame is cached for every camera.
FrameArrives_OneEntry(c) ==
  LET r == call[c]
      n == Len(answers) + 1
  IN  /\ r.pc = "capture" /\ Len(answers) < MaxAnswers
      /\ answers' = Answer(r)
      /\ snap' = IF r.noCache THEN snap
                 ELSE [m \in Macs |-> Store(n, r.lifetime)]
      /\ call' = [call EXCEPT ![c] = Return(r, n, 0, FALSE)]
      /\ UNCHANGED info

\* captureStreamFrame() returns.
FrameArrives(c) ==
  LET r == call[c]
      n == Len(answers) + 1
  IN  /\ r.pc = "capture" /\ Len(answers) < MaxAnswers
      /\ answers' = Answer(r)
      /\ snap' = IF r.noCache THEN snap
                 ELSE [snap EXCEPT ![r.key[1]] = Store(n, r.lifetime)]
      /\ call' = [call EXCEPT ![c] = Return(r, n, 0, FALSE)]
      /\ UNCHANGED info

\* cameraGetStreamInfo() or captureStreamFrame() throws.
StreamFails(c) ==
  /\ call[c].pc \in {"fetch", "capture"}
  /\ call' = [call EXCEPT ![c] = Failed(@)]
  /\ UNCHANGED <<info, snap, answers>>

\* The delay before the next attempt is over.
Retry(c) ==
  /\ call[c].pc = "backoff" /\ call[c].nap = 0
  /\ call' = [call EXCEPT ![c] = Enter(@)]
  /\ UNCHANGED <<info, snap, answers>>

\* clearCameraStreamCache(mac), or of all cameras.
ClearCameraStreamCache(macs) ==
  /\ info' = [k \in Keys |-> IF k[1] \in macs THEN Absent ELSE info[k]]
  /\ UNCHANGED <<snap, call, answers>>

Passed(entry) == [entry EXCEPT !.left = IF @ > 0 THEN @ - 1 ELSE 0]

Tick ==
  /\ info' = [k \in Keys |-> Passed(info[k])]
  /\ snap' = [m \in Macs |-> Passed(snap[m])]
  /\ call' = [c \in Callers |->
                [call[c] EXCEPT !.nap = IF @ > 0 THEN @ - 1 ELSE 0]]
  /\ answers' = [n \in DOMAIN answers |->
                   [answers[n] EXCEPT !.age = IF @ < Longest THEN @ + 1 ELSE @]]

Proceed(c) ==
  \/ ListCameras(c) \/ DownloadThumbnail(c) \/ LookUpCamera(c)
  \/ StreamInfoArrives(c) \/ FrameArrives(c) \/ StreamFails(c) \/ Retry(c)

Next ==
  \/ \E c \in Callers : Begin(c) \/ Proceed(c)
  \/ \E m \in Macs : ClearCameraStreamCache({m})
  \/ ClearCameraStreamCache(Macs)
  \/ Tick

Spec == Init /\ [][Next]_vars

\* Time passes; services and cameras answer or fail, and timers fire.
FairSpec == Spec /\ WF_vars(Tick) /\ \A c \in Callers : WF_vars(Proceed(c))

-----------------------------------------------------------------------------
(* Properties *)

Entry == [n : 0..MaxAnswers, left : 0..Longest]

Record ==
  [kind : Kinds \cup {"none"}, pc : PCs, key : Keys \cup {<<>>},
   noCache : BOOLEAN, cloud : BOOLEAN, lifetime : 0..Longest,
   limit : Nat, attempt : Nat, nap : Nat, began : 0..MaxAnswers, fetches : Nat,
   n : 0..MaxAnswers, cached : BOOLEAN, age : 0..Longest]

\* Type invariant: entries refer to answers and never live longer than the
\* lifetime they were stored with.
TypeOK ==
  /\ info \in [Keys -> Entry]
  /\ snap \in [Macs -> Entry]
  /\ answers \in Seq([key : Keys, age : 0..Longest])
  /\ Len(answers) <= MaxAnswers
  /\ call \in [Callers -> Record]

\* Whatever other callers store and clear meanwhile, a caller gets connection
\* info of the camera, model and stream it asked for, or a frame of the camera
\* it asked for, and the caches hold nothing else under their keys.
RightCamera ==
  /\ \A k \in Keys : info[k].n # 0 => answers[info[k].n].key = k
  /\ \A m \in Macs : snap[m].n # 0 => answers[snap[m].n].key[1] = m
  /\ \A c \in Callers : call[c].pc = "returned" /\ call[c].n # 0
                          => answers[call[c].n].key = call[c].key

\* An answer from a cache is younger than the longest lifetime in use, however
\* answers overtake each other; every other answer arrived during the call.
AnswersAreFresh ==
  \A c \in Callers : call[c].pc = "returned" /\ call[c].n # 0 =>
    IF call[c].cached THEN call[c].age < Longest /\ ~call[c].noCache
                      ELSE call[c].n > call[c].began

\* A call sends a request to its camera at most once per attempt and makes no
\* more than maxAttempts attempts (one when that is 0), cache hits of a later
\* attempt included.
AttemptsBounded ==
  \A c \in Callers : /\ call[c].fetches <= call[c].attempt + 1
                     /\ Active(call[c]) => call[c].attempt < call[c].limit
                                             \/ call[c].attempt = 0

\* Every call settles: no failure of a service or camera keeps it retrying.
CallsSettle == \A c \in Callers : Active(call[c]) ~> ~Active(call[c])

\* What wiki/Snapshot-Capture.md says: "rapid repeat calls share one capture".
SharedCapture ==
  \A c, d \in Callers :
    /\ c # d
    /\ call[c].pc = "capture" /\ ~call[c].noCache
    /\ call[d].pc = "capture" /\ ~call[d].noCache
    => call[c].key # call[d].key
=============================================================================
