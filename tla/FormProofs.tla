----------------------------- MODULE FormProofs -----------------------------
(***************************************************************************)
(* Proofs about jQuery.ajax and the form plugin, for any calls, settings   *)
(* and kinds of upload: a call has one outcome, success is given the       *)
(* answer to its own call, and jQuery.active counts the calls under way.   *)
(***************************************************************************)
EXTENDS FormSubmit, FiniteSetTheorems, TLAPS

-----------------------------------------------------------------------------
(* The records of a query and of an upload, and what the code does to them. *)

Page == [active : Int, shown : BOOLEAN]

LEMMA PageTypes ==
  ASSUME NEW p \in Page, NEW g
  PROVE  Watch(p, g) \in Page /\ Unwatch(p, g) \in Page
  BY DEF Page, Watch, Unwatch

LEMMA TwoType == ASSUME NEW n \in 0 .. 2 PROVE AtMostTwo(n) \in 0 .. 2
  BY DEF AtMostTwo

LEMMA QueryFields ==
  ASSUME NEW c \in Query
  PROVE  /\ c.s \in Settings \cup {None} /\ c.xhr \in XhrStates
         /\ c.requestDone \in BOOLEAN /\ c.timer \in BOOLEAN /\ c.threw \in BOOLEAN
         /\ c.vetoed \in BOOLEAN /\ c.got \in SUBSET (Req \cup {None})
         /\ c.errors \in 0 .. 2 /\ c.completes \in 0 .. 2
  BY DEF Query

LEMMA ToldTypes ==
  ASSUME NEW c \in Query, NEW a \in Req \cup {None}
  PROVE  success(c, a) \in Query /\ handleError(c) \in Query /\ complete(c) \in Query
  BY DEF success, handleError, complete, Query, AtMostTwo

LEMMA DoneTypes ==
  ASSUME NEW c \in Query
  PROVE  [c EXCEPT !.requestDone = TRUE, !.xhr = "done"] \in Query
  BY DEF Query, XhrStates

LEMMA SettleTypes ==
  ASSUME NEW c \in Query, NEW r \in Req, NEW answer
  PROVE  Settle(c, r, answer) \in Query
<1> DEFINE done == [c EXCEPT !.requestDone = TRUE, !.xhr = "done"]
<1>1. done \in Query
  BY DoneTypes
<1> HIDE DEF done
<1>2. handleError(done) \in Query /\ success(done, None) \in Query /\ success(done, r) \in Query
  BY <1>1, ToldTypes
<1>3. Settle(c, r, answer) \in {handleError(done), done, success(done, None), success(done, r)}
  BY DEF Settle, done
<1> QED
  BY <1>1, <1>2, <1>3

LEMMA FinishTypes ==
  ASSUME NEW c \in Query
  PROVE  Finish(c) \in Query /\ Aborted(c) \in Query
<1>1. complete(c) \in Query
  BY ToldTypes
<1>2. /\ [complete(c) EXCEPT !.xhr = "null"] \in Query
      /\ [complete(c) EXCEPT !.requestDone = TRUE] \in Query
  BY <1>1 DEF Query, XhrStates
<1> QED
  BY <1>1, <1>2 DEF Finish, Aborted

LEMMA SettingFields ==
  ASSUME NEW s \in Settings
  PROVE  /\ s.kind \in Kinds /\ s.remote \in BOOLEAN /\ s.global \in BOOLEAN
         /\ s.async \in BOOLEAN /\ s.timeout \in BOOLEAN /\ s.shared \in BOOLEAN
         /\ s # None
  BY SettingsAreRecords, NamesAreDistinct

LEMMA CalledTypes ==
  ASSUME NEW r \in Req, NEW s \in Settings
  PROVE  /\ Called(r, s) \in Query /\ Called(r, s).s = s
         /\ \A f \in {"xhr", "requestDone", "timer", "threw", "vetoed", "got", "errors", "completes"} :
              Called(r, s)[f] = Unused[f]
<1>1. Unused \in Query
  BY DEF Unused, Query, XhrStates
<1>2. \A c \in Query : [c EXCEPT !.s = s] \in Query
  BY DEF Query
<1> QED
  BY <1>1, <1>2 DEF Called, Query
LEMMA UploadFields ==
  ASSUME NEW u \in Upload
  PROVE  /\ u.phase \in Phases /\ u.global \in BOOLEAN /\ u.timeout \in BOOLEAN
         /\ u.aborted \in BOOLEAN /\ u.cbInvoked \in 0 .. 2 /\ u.timedOut \in BOOLEAN
         /\ u.timer \in BOOLEAN /\ u.retry \in BOOLEAN /\ u.domCheckCount \in 0 .. DomChecks
         /\ u.listening \in BOOLEAN /\ u.blank \in BOOLEAN /\ u.nav \in BOOLEAN
         /\ u.doc \in {"empty", "good", "bad"} /\ u.successes \in 0 .. 2
         /\ u.errors \in 0 .. 2 /\ u.completes \in 0 .. 2
  BY DEF Upload

LEMMA UploadSet ==
  ASSUME NEW u \in Upload
  PROVE  /\ \A x \in Phases : [u EXCEPT !.phase = x] \in Upload
         /\ \A x \in BOOLEAN :
              /\ [u EXCEPT !.global = x] \in Upload /\ [u EXCEPT !.timeout = x] \in Upload
              /\ [u EXCEPT !.aborted = x] \in Upload /\ [u EXCEPT !.timedOut = x] \in Upload
              /\ [u EXCEPT !.timer = x] \in Upload /\ [u EXCEPT !.retry = x] \in Upload
              /\ [u EXCEPT !.listening = x] \in Upload /\ [u EXCEPT !.blank = x] \in Upload
              /\ [u EXCEPT !.nav = x] \in Upload
         /\ \A x \in 0 .. 2 :
              /\ [u EXCEPT !.cbInvoked = x] \in Upload /\ [u EXCEPT !.successes = x] \in Upload
              /\ [u EXCEPT !.errors = x] \in Upload /\ [u EXCEPT !.completes = x] \in Upload
         /\ \A x \in 0 .. DomChecks : [u EXCEPT !.domCheckCount = x] \in Upload
         /\ \A x \in {"empty", "good", "bad"} : [u EXCEPT !.doc = x] \in Upload
<1>1. \A x \in Phases : [u EXCEPT !.phase = x] \in Upload
  BY DEF Upload
<1>2. \A x \in BOOLEAN : /\ [u EXCEPT !.global = x] \in Upload /\ [u EXCEPT !.timeout = x] \in Upload
                         /\ [u EXCEPT !.aborted = x] \in Upload
  BY DEF Upload
<1>3. \A x \in BOOLEAN : /\ [u EXCEPT !.timedOut = x] \in Upload /\ [u EXCEPT !.timer = x] \in Upload
                         /\ [u EXCEPT !.retry = x] \in Upload
  BY DEF Upload
<1>4. \A x \in BOOLEAN : /\ [u EXCEPT !.listening = x] \in Upload /\ [u EXCEPT !.blank = x] \in Upload
                         /\ [u EXCEPT !.nav = x] \in Upload
  BY DEF Upload
<1>5. \A x \in 0 .. 2 : /\ [u EXCEPT !.cbInvoked = x] \in Upload /\ [u EXCEPT !.successes = x] \in Upload
                        /\ [u EXCEPT !.errors = x] \in Upload /\ [u EXCEPT !.completes = x] \in Upload
  BY DEF Upload
<1>6. \A x \in 0 .. DomChecks : [u EXCEPT !.domCheckCount = x] \in Upload
  BY DEF Upload
<1>7. \A x \in {"empty", "good", "bad"} : [u EXCEPT !.doc = x] \in Upload
  BY DEF Upload
<1> QED
  BY <1>1, <1>2, <1>3, <1>4, <1>5, <1>6, <1>7

LEMMA NoUploadType == NoUpload \in Upload
<1>1. DomChecks \in 0 .. DomChecks
  BY ChecksArePositive
<1> QED
  BY <1>1 DEF NoUpload, Upload, Phases

LEMMA UploadToldTypes ==
  ASSUME NEW u \in Upload
  PROVE  /\ handleError(u) \in Upload /\ complete(u) \in Upload
         /\ [u EXCEPT !.successes = AtMostTwo(@)] \in Upload
<1>1. AtMostTwo(u.errors) \in 0 .. 2 /\ AtMostTwo(u.completes) \in 0 .. 2
      /\ AtMostTwo(u.successes) \in 0 .. 2
  BY UploadFields, TwoType
<1> QED
  BY <1>1, UploadSet, Zenon DEF handleError, complete

LEMMA LookType ==
  ASSUME NEW v \in Upload PROVE Look(v) \in Upload
<1>1. FALSE \in BOOLEAN /\ TRUE \in BOOLEAN /\ 0 \in 0 .. 2 /\ 0 \in 0 .. DomChecks
  BY ChecksArePositive
<1>2. CASE v.doc = "empty" /\ v.domCheckCount > 1
  <2>1. v.domCheckCount - 1 \in 0 .. DomChecks
    BY <1>2, UploadFields, ChecksArePositive
  <2>2. [v EXCEPT !.cbInvoked = 0, !.retry = TRUE, !.domCheckCount = @ - 1] \in Upload
    BY <1>1, <2>1, UploadSet, Zenon
  <2> QED
    BY <1>2, <2>2 DEF Look
<1>3. CASE v.doc = "empty" /\ ~(v.domCheckCount > 1)
  <2>1. [v EXCEPT !.domCheckCount = 0] \in Upload
    BY <1>1, UploadSet, Zenon
  <2> QED
    BY <1>3, <2>1 DEF Look
<1>4. CASE v.doc # "empty"
  BY <1>4, UploadToldTypes DEF Look
<1> QED
  BY <1>2, <1>3, <1>4

LEMMA cbType ==
  ASSUME NEW u \in Upload PROVE cb(u) \in Upload
<1> DEFINE v == [u EXCEPT !.cbInvoked = 1, !.listening = FALSE]
<1>1. FALSE \in BOOLEAN /\ 1 \in 0 .. 2 /\ 2 \in 0 .. 2
  OBVIOUS
<1>2. v \in Upload /\ [u EXCEPT !.cbInvoked = 2] \in Upload
  BY <1>1, UploadSet, Zenon
<1>3. handleError(v) \in Upload /\ Look(v) \in Upload
  BY <1>2, LookType, UploadToldTypes
<1> QED
  BY <1>2, <1>3, Zenon DEF cb
-----------------------------------------------------------------------------
(* Type correctness. *)

LEMMA InitFormTypeOK == Init => FormTypeOK
<1>1. Unused \in Query
  BY DEF Unused, Query, XhrStates
<1> QED
  BY <1>1, NoUploadType DEF Init, AjaxInit, FormTypeOK, TypeOK

\* A query made: the form of every alternative of ajax.
LEMMA CallTypeOK ==
  ASSUME FormTypeOK, NEW r \in Req, NEW s \in Settings, DefineJsonp(r, s),
         NEW c \in Query, query' = [query EXCEPT ![r] = c],
         page' \in Page, running' \in [req : Req, by : Callers] \cup {None},
         upload' \in [Req -> Upload]
  PROVE  FormTypeOK'
<1>1. Name(r, s) \in Req \cup {Shared}
  BY DEF Name
<1>2. window' \in [Req \cup {Shared} -> Req \cup {None}]
  BY <1>1 DEF DefineJsonp, FormTypeOK, TypeOK
<1>3. query' \in [Req -> Query]
  BY DEF FormTypeOK, TypeOK
<1> QED
  BY <1>2, <1>3 DEF FormTypeOK, TypeOK, Page

\* A step of one upload.
LEMMA UploadTypeOK ==
  ASSUME FormTypeOK, NEW r \in Req, NEW u \in Upload, upload' = [upload EXCEPT ![r] = u],
         page' \in Page, running' \in [req : Req, by : Callers] \cup {None},
         UNCHANGED <<query, window>>
  PROVE  FormTypeOK'
<1>1. upload' \in [Req -> Upload]
  BY DEF FormTypeOK
<1> QED
  BY <1>1 DEF FormTypeOK, TypeOK, Page

LEMMA RunType ==
  ASSUME NEW r \in Req, NEW by \in Callers
  PROVE  Run(r, by) \in [req : Req, by : Callers] \cup {None}
  BY DEF Run

\* What a call of ajax makes of the query's record.
Begun(r, s) ==
  {[Called(r, s) EXCEPT !.xhr = "script"], [Called(r, s) EXCEPT !.xhr = "missing"],
   [Called(r, s) EXCEPT !.xhr = "unsent", !.vetoed = TRUE],
   [Called(r, s) EXCEPT !.xhr = "sent", !.timer = s.timeout]}

LEMMA BegunType ==
  ASSUME NEW r \in Req, NEW s \in Settings, NEW c \in Begun(r, s)
  PROVE  c \in Query
<1>1. Called(r, s) \in Query /\ s.timeout \in BOOLEAN
  BY CalledTypes, SettingFields
<1>2. \A d \in Query : /\ [d EXCEPT !.xhr = "script"] \in Query
                       /\ [d EXCEPT !.xhr = "missing"] \in Query
                       /\ [d EXCEPT !.xhr = "unsent", !.vetoed = TRUE] \in Query
                       /\ \A t \in BOOLEAN : [d EXCEPT !.xhr = "sent", !.timer = t] \in Query
  BY DEF Query, XhrStates
<1> QED
  BY <1>1, <1>2, Zenon DEF Begun

LEMMA FailedTypes ==
  ASSUME NEW r \in Req, NEW s \in Settings
  PROVE  /\ \A state \in {"unsent", "open"} :
              [complete(handleError(Called(r, s)))
                 EXCEPT !.xhr = state, !.timer = s.timeout, !.threw = TRUE] \in Query
         /\ \A c \in Query : [c EXCEPT !.threw = TRUE, !.xhr = "done", !.requestDone = TRUE] \in Query
         /\ complete(handleError(Called(r, s))) \in Query
<1> DEFINE failed == complete(handleError(Called(r, s)))
<1>1. failed \in Query /\ s.timeout \in BOOLEAN
  BY CalledTypes, ToldTypes, SettingFields
<1> HIDE DEF failed
<1>2. \A c \in Query :
        /\ \A x \in {"unsent", "open", "done"} : [c EXCEPT !.xhr = x] \in Query
        /\ \A t \in BOOLEAN : [c EXCEPT !.timer = t] \in Query
        /\ [c EXCEPT !.threw = TRUE] \in Query
        /\ [c EXCEPT !.requestDone = TRUE] \in Query
  BY DEF Query, XhrStates
<1>3. \A state \in {"unsent", "open"} :
        [failed EXCEPT !.xhr = state, !.timer = s.timeout, !.threw = TRUE] \in Query
  BY <1>1, <1>2, Zenon
<1>4. \A c \in Query : [c EXCEPT !.threw = TRUE, !.xhr = "done", !.requestDone = TRUE] \in Query
  BY <1>2, Zenon
<1> QED
  BY <1>1, <1>3, <1>4 DEF failed
-----------------------------------------------------------------------------
(* What a step makes of the record of a query. *)

\* What a query is called with, and how the call of ajax ended, stays.
SameCall(c, d) ==
  d.s = c.s /\ d.threw = c.threw /\ d.vetoed = c.vetoed

LEMMA ToldFields ==
  ASSUME NEW c \in Query, NEW a \in Req \cup {None}
  PROVE  /\ LET d == success(c, a) IN
              /\ SameCall(c, d) /\ d.timer = c.timer /\ d.xhr = c.xhr /\ d.requestDone = c.requestDone
              /\ d.got = c.got \cup {a} /\ d.errors = c.errors /\ d.completes = c.completes
         /\ LET d == handleError(c) IN
              /\ SameCall(c, d) /\ d.timer = c.timer /\ d.xhr = c.xhr /\ d.requestDone = c.requestDone
              /\ d.got = c.got /\ d.errors = AtMostTwo(c.errors) /\ d.completes = c.completes
         /\ LET d == complete(c) IN
              /\ SameCall(c, d) /\ d.timer = c.timer /\ d.xhr = c.xhr /\ d.requestDone = c.requestDone
              /\ d.got = c.got /\ d.errors = c.errors /\ d.completes = AtMostTwo(c.completes)
  BY DEF success, handleError, complete, SameCall, Query

LEMMA SettleFields ==
  ASSUME NEW c \in Query, NEW r \in Req, NEW answer
  PROVE  LET d == Settle(c, r, answer) IN
         /\ SameCall(c, d) /\ d.timer = c.timer /\ d.xhr = "done" /\ d.requestDone
         /\ d.completes = c.completes
         /\ \/ d.got = c.got /\ d.errors \in {c.errors, AtMostTwo(c.errors)}
            \/ \E a \in {r, None} : d.got = c.got \cup {a} /\ d.errors = c.errors
<1> DEFINE done == [c EXCEPT !.requestDone = TRUE, !.xhr = "done"]
<1>1. /\ done \in Query /\ SameCall(c, done) /\ done.timer = c.timer
      /\ done.xhr = "done" /\ done.requestDone /\ done.completes = c.completes
      /\ done.got = c.got /\ done.errors = c.errors
  BY DoneTypes DEF SameCall, Query
<1>2. \/ Settle(c, r, answer) = handleError(done) \/ Settle(c, r, answer) = done
      \/ Settle(c, r, answer) = success(done, None) \/ Settle(c, r, answer) = success(done, r)
  BY DEF Settle, done
<1> HIDE DEF done
<1>3. /\ handleError(done) \in Query /\ success(done, None) \in Query /\ success(done, r) \in Query
  BY <1>1, ToldTypes
<1> QED
  BY <1>1, <1>2, ToldFields DEF SameCall

LEMMA FinishFields ==
  ASSUME NEW c \in Query
  PROVE  LET d == Finish(c) IN
         /\ SameCall(c, d) /\ d.timer = c.timer /\ d.requestDone = c.requestDone
         /\ d.xhr \in {c.xhr, "null"}
         /\ d.got = c.got /\ d.errors = c.errors /\ d.completes = AtMostTwo(c.completes)
<1>1. complete(c) \in Query
  BY ToldTypes
<1>2. \A d \in Query : LET e == [d EXCEPT !.xhr = "null"] IN
        /\ SameCall(d, e) /\ e.timer = d.timer /\ e.requestDone = d.requestDone
        /\ e.xhr = "null" /\ e.got = d.got /\ e.errors = d.errors /\ e.completes = d.completes
  BY DEF SameCall, Query
<1> QED
  BY <1>1, <1>2, ToldFields DEF Finish, SameCall

LEMMA AbortedFields ==
  ASSUME NEW c \in Query, ~c.requestDone
  PROVE  LET d == Aborted(c) IN
         /\ SameCall(c, d) /\ d.timer = c.timer /\ d.requestDone /\ d.xhr = c.xhr
         /\ d.got = c.got /\ d.errors = c.errors /\ d.completes = AtMostTwo(c.completes)
<1>1. complete(c) \in Query
  BY ToldTypes
<1>2. \A d \in Query : LET e == [d EXCEPT !.requestDone = TRUE] IN
        /\ SameCall(d, e) /\ e.timer = d.timer /\ e.requestDone
        /\ e.xhr = d.xhr /\ e.got = d.got /\ e.errors = d.errors /\ e.completes = d.completes
  BY DEF SameCall, Query
<1> QED
  BY <1>1, <1>2, ToldFields DEF Aborted, SameCall

-----------------------------------------------------------------------------
(* The invariant of a query. *)

Untold(c) == c.got = {} /\ c.errors = 0 /\ c.completes = 0

OneTold(c) ==
  /\ c.completes <= 1
  /\ \/ c.errors <= 1 /\ c.got = {}
     \/ c.errors = 0 /\ \E a \in Req \cup {None} : c.got = {a}

\* Regular(r), said of the record.
RegularCall(c) ==
  /\ ~c.threw
  /\ c.s # None /\ c.s.kind = "jsonp" => c.s.remote /\ ~c.s.shared

\* Where a query can be, and what its flags say there.
CallPlaced(c) ==
  /\ c.xhr = "none" => c = Unused
  /\ c.xhr # "none" => c.s # None
  /\ c.xhr = "sent" => ~ByScript(c.s) /\ ~c.requestDone
  /\ c.xhr = "script" => ByScript(c.s)
  /\ c.xhr = "open" => c.threw
  /\ c.xhr = "unsent" /\ ~c.requestDone /\ ~c.threw => c.vetoed
  /\ c.vetoed => c.xhr = "unsent" /\ ~c.timer /\ ~c.requestDone

CallInv(r, c) ==
  /\ c \in Query /\ CallPlaced(c)
  /\ RegularCall(c) => OneTold(c) /\ (~c.requestDone => Untold(c))
  /\ c.s # None /\ ~c.s.shared => c.got \subseteq {r, None}

LEMMA UnusedFields ==
  /\ Unused.s = None /\ Unused.xhr = "none" /\ ~Unused.requestDone /\ ~Unused.timer
  /\ ~Unused.threw /\ ~Unused.vetoed /\ Unused.got = {} /\ Unused.errors = 0
  /\ Unused.completes = 0
  BY DEF Unused

LEMMA UnusedInv == \A r \in Req : CallInv(r, Unused)
  BY UnusedFields DEF CallInv, CallPlaced, OneTold, Untold, Query, Unused, XhrStates

\* A query called in one of the four ordinary ways.
LEMMA BegunFields ==
  ASSUME NEW r \in Req, NEW s \in Settings, NEW c \in Begun(r, s)
  PROVE  /\ c.s = s /\ ~c.requestDone /\ ~c.threw /\ Untold(c)
         /\ c.xhr \in {"script", "missing", "unsent", "sent"}
         /\ c.vetoed <=> c.xhr = "unsent"
         /\ c.vetoed => ~c.timer
<1>1. /\ Called(r, s) \in Query /\ Called(r, s).s = s /\ ~Called(r, s).requestDone
      /\ ~Called(r, s).threw /\ Untold(Called(r, s)) /\ ~Called(r, s).vetoed /\ ~Called(r, s).timer
  BY CalledTypes, UnusedFields DEF Untold
<1> DEFINE Same(d, e) ==
        /\ e.s = d.s /\ e.requestDone = d.requestDone /\ e.threw = d.threw
        /\ e.got = d.got /\ e.errors = d.errors /\ e.completes = d.completes
<1>2. \A d \in Query : LET e == [d EXCEPT !.xhr = "script"] IN
        Same(d, e) /\ e.xhr = "script" /\ e.vetoed = d.vetoed
  BY DEF Query
<1>4. \A d \in Query : LET e == [d EXCEPT !.xhr = "missing"] IN
        Same(d, e) /\ e.xhr = "missing" /\ e.vetoed = d.vetoed
  BY DEF Query
<1>5. \A d \in Query : LET e == [d EXCEPT !.xhr = "unsent", !.vetoed = TRUE] IN
        Same(d, e) /\ e.xhr = "unsent" /\ e.vetoed /\ e.timer = d.timer
  BY DEF Query
<1>6. \A d \in Query, t \in BOOLEAN : LET e == [d EXCEPT !.xhr = "sent", !.timer = t] IN
        Same(d, e) /\ e.xhr = "sent" /\ e.vetoed = d.vetoed
  BY DEF Query
<1>3. s.timeout \in BOOLEAN
  BY SettingFields
<1> HIDE DEF Same
<1>7. \A e : Same(Called(r, s), e) => e.s = s /\ ~e.requestDone /\ ~e.threw /\ Untold(e)
  BY <1>1 DEF Same, Untold
<1>8. \/ Same(Called(r, s), c) /\ c.xhr \in {"script", "missing", "sent"} /\ ~c.vetoed
      \/ Same(Called(r, s), c) /\ c.xhr = "unsent" /\ c.vetoed /\ ~c.timer
  <2>1. CASE c = [Called(r, s) EXCEPT !.xhr = "script"]
    BY <1>1, <1>2, <2>1
  <2>2. CASE c = [Called(r, s) EXCEPT !.xhr = "missing"]
    BY <1>1, <1>4, <2>2
  <2>3. CASE c = [Called(r, s) EXCEPT !.xhr = "unsent", !.vetoed = TRUE]
    BY <1>1, <1>5, <2>3
  <2>4. CASE c = [Called(r, s) EXCEPT !.xhr = "sent", !.timer = s.timeout]
    BY <1>1, <1>3, <1>6, <2>4
  <2> QED
    BY <2>1, <2>2, <2>3, <2>4 DEF Begun
<1> QED
  BY <1>7, <1>8

LEMMA BegunInv ==
  ASSUME NEW r \in Req, NEW s \in Settings, NEW c \in Begun(r, s),
         c.xhr = "script" => ByScript(s), c.xhr = "sent" => ~ByScript(s)
  PROVE  CallInv(r, c)
  BY BegunFields, BegunType, SettingFields DEF CallInv, CallPlaced, OneTold, Untold

\* A query that is settled: by an answer, or by its timer.
LEMMA SettledInv ==
  ASSUME NEW r \in Req, NEW c \in Query, NEW d \in Query,
         c.s # None, SameCall(c, d), d.xhr = "done", d.requestDone,
         ~c.vetoed, d.completes = c.completes, RegularCall(c) => Untold(c),
         c.s.shared \/ c.got \subseteq {r, None},
         \/ d.got = c.got /\ d.errors \in {c.errors, AtMostTwo(c.errors)}
         \/ \E a \in {r, None} : d.got = c.got \cup {a} /\ d.errors = c.errors
  PROVE  CallInv(r, d)
  BY QueryFields DEF CallInv, CallPlaced, OneTold, Untold, SameCall, RegularCall, AtMostTwo

\* ajax has been called for r: its record is c, the counter moves unless the
\* call was vetoed, and a synchronous query runs its callback at once.
CallMade(r, s, c) ==
  /\ query[r].xhr = "none" /\ DefineJsonp(r, s)
  /\ query' = [query EXCEPT ![r] = c]
  /\ CallInv(r, c) /\ c.s = s /\ c.xhr # "none"
  /\ \/ c.threw /\ running' = running /\ page' \in Page
     \/ /\ c.vetoed /\ running' = running
        /\ page' = Unwatch(Watch(page, s.global), s.global)
     \/ /\ ~c.vetoed /\ c.completes = 0 /\ page' = Watch(page, s.global)
        /\ \/ running' = running
           \/ /\ running = None /\ running' = Run(r, "answer")
              /\ c.xhr = "done" /\ c.requestDone

LEMMA CallsBegin ==
  ASSUME NEW r \in Req, NEW s \in Settings,
         AjaxScript(r, s) \/ AjaxNoXhr(r, s) \/ AjaxVetoed(r, s) \/ AjaxSend(r, s)
  PROVE  \E c \in Query : CallMade(r, s, c)
<1> DEFINE script == [Called(r, s) EXCEPT !.xhr = "script"]
           missing == [Called(r, s) EXCEPT !.xhr = "missing"]
           vetoed == [Called(r, s) EXCEPT !.xhr = "unsent", !.vetoed = TRUE]
           sent == [Called(r, s) EXCEPT !.xhr = "sent", !.timer = s.timeout]
<1>1. {script, missing, vetoed, sent} \subseteq Begun(r, s)
  BY DEF Begun
<1>2. /\ script.xhr = "script" /\ missing.xhr = "missing"
      /\ vetoed.xhr = "unsent" /\ sent.xhr = "sent"
  BY CalledTypes DEF Query
<1>3. /\ query[r].xhr = "none" /\ DefineJsonp(r, s) /\ running' = running
      /\ \/ ByScript(s) /\ query' = [query EXCEPT ![r] = script] /\ page' = Watch(page, s.global)
         \/ query' = [query EXCEPT ![r] = missing] /\ page' = Watch(page, s.global)
         \/ /\ query' = [query EXCEPT ![r] = vetoed]
            /\ page' = Unwatch(Watch(page, s.global), s.global)
         \/ ~ByScript(s) /\ query' = [query EXCEPT ![r] = sent] /\ page' = Watch(page, s.global)
  BY DEF AjaxScript, AjaxNoXhr, AjaxVetoed, AjaxSend
<1> HIDE DEF script, missing, vetoed, sent
<1>4. \A c \in Begun(r, s) :
        /\ c \in Query /\ c.s = s /\ c.completes = 0 /\ c.xhr # "none"
        /\ c.vetoed <=> c.xhr = "unsent"
        /\ (c.xhr = "script" => ByScript(s)) /\ (c.xhr = "sent" => ~ByScript(s)) => CallInv(r, c)
  BY BegunType, BegunInv, BegunFields DEF Untold
<1> QED
  BY <1>1, <1>2, <1>3, <1>4 DEF CallMade

LEMMA FailedFields ==
  ASSUME NEW r \in Req, NEW s \in Settings
  PROVE  LET failed == complete(handleError(Called(r, s))) IN
         /\ failed \in Query /\ failed.s = s /\ failed.got = {} /\ ~failed.vetoed
         /\ ~failed.requestDone
<1>1. Called(r, s) \in Query /\ handleError(Called(r, s)) \in Query
      /\ complete(handleError(Called(r, s))) \in Query
  BY CalledTypes, ToldTypes, FailedTypes
<1>2. /\ Called(r, s).s = s /\ Called(r, s).got = {} /\ ~Called(r, s).vetoed
      /\ ~Called(r, s).requestDone
  BY CalledTypes, UnusedFields
<1> QED
  BY <1>1, <1>2, ToldFields DEF SameCall

LEMMA ThrewInv ==
  ASSUME NEW r \in Req, NEW c \in Query, c.threw, c.s # None, ~c.vetoed,
         c.xhr \in {"unsent", "open", "done"}, c.got \subseteq {r, None}
  PROVE  CallInv(r, c)
  BY DEF CallInv, CallPlaced, RegularCall

LEMMA CallThrows ==
  ASSUME page \in Page, NEW r \in Req, NEW s \in Settings, NEW state \in {"unsent", "open"},
         AjaxSendThrows(r, s, state)
  PROVE  \E c \in Query : CallMade(r, s, c)
<1> DEFINE failed == complete(handleError(Called(r, s)))
           c == [failed EXCEPT !.xhr = state, !.timer = s.timeout, !.threw = TRUE]
<1>1. /\ query[r].xhr = "none" /\ DefineJsonp(r, s) /\ running' = running
      /\ query' = [query EXCEPT ![r] = c]
      /\ page' = Unwatch(Watch(page, s.global), s.global)
  BY DEF AjaxSendThrows
<1>2. page' \in Page
  BY <1>1, PageTypes
<1>3. failed \in Query /\ failed.s = s /\ failed.got = {} /\ ~failed.vetoed
  BY FailedFields
<1>4. c \in Query
  BY FailedTypes
<1> HIDE DEF failed
<1>5. /\ c.threw /\ c.s = failed.s /\ c.vetoed = failed.vetoed /\ c.got = failed.got
      /\ c.xhr = state
  BY <1>3 DEF Query
<1> HIDE DEF c
<1>6. CallInv(r, c)
  BY <1>3, <1>4, <1>5, ThrewInv, SettingFields
<1> QED
  BY <1>1, <1>2, <1>3, <1>4, <1>5, <1>6 DEF CallMade

LEMMA CallIsSync ==
  ASSUME page \in Page, NEW r \in Req, NEW s \in Settings, NEW answer, AjaxSync(r, s, answer)
  PROVE  \E c \in Query : CallMade(r, s, c)
<1> DEFINE c == Settle(Called(r, s), r, answer)
<1>1. /\ query[r].xhr = "none" /\ DefineJsonp(r, s)
      /\ running = None /\ running' = Run(r, "answer")
      /\ query' = [query EXCEPT ![r] = c] /\ page' = Watch(page, s.global)
  BY DEF AjaxSync, DefineJsonp
<1>2. /\ Called(r, s) \in Query /\ Called(r, s).s = s /\ Called(r, s).s # None
      /\ ~Called(r, s).vetoed /\ Untold(Called(r, s))
  BY CalledTypes, UnusedFields, SettingFields DEF Untold
<1>3. /\ c \in Query /\ SameCall(Called(r, s), c) /\ c.xhr = "done" /\ c.requestDone
      /\ c.completes = Called(r, s).completes
      /\ \/ c.got = Called(r, s).got /\ c.errors \in {Called(r, s).errors, AtMostTwo(Called(r, s).errors)}
         \/ \E a \in {r, None} : c.got = Called(r, s).got \cup {a} /\ c.errors = Called(r, s).errors
  BY <1>2, SettleTypes, SettleFields
<1> HIDE DEF c
<1>4. Called(r, s).got \subseteq {r, None}
  BY <1>2 DEF Untold
<1>5. CallInv(r, c)
  BY <1>2, <1>3, <1>4, SettledInv
<1>6. c.s = s /\ ~c.vetoed /\ c.completes = 0 /\ c.xhr # "none"
  BY <1>2, <1>3 DEF SameCall, Untold
<1> QED
  BY <1>1, <1>3, <1>5, <1>6 DEF CallMade

LEMMA SyncCallThrows ==
  ASSUME page \in Page, NEW r \in Req, NEW s \in Settings, NEW answer,
         AjaxSyncThrows(r, s, answer)
  PROVE  \E c \in Query : CallMade(r, s, c)
<1> DEFINE failed == complete(handleError(Called(r, s)))
           again == IF answer = "aborted" THEN Aborted(failed)
                    ELSE Finish(Settle(failed, r, "lost"))
           c == [again EXCEPT !.threw = TRUE, !.xhr = "done", !.requestDone = TRUE]
<1>1. /\ query[r].xhr = "none" /\ DefineJsonp(r, s) /\ running' = running
      /\ query' = [query EXCEPT ![r] = c]
      /\ page' = Unwatch(Unwatch(Watch(page, s.global), s.global), s.global)
  BY DEF AjaxSyncThrows, DefineJsonp
<1>2. page' \in Page
  BY <1>1, PageTypes
<1>3. /\ failed \in Query /\ failed.s = s /\ failed.got = {} /\ ~failed.vetoed
      /\ ~failed.requestDone
  BY FailedFields
<1> HIDE DEF failed
<1>4. again \in Query /\ SameCall(failed, again) /\ again.got \subseteq {r, None}
  <2>1. CASE answer = "aborted"
    BY <1>3, <2>1, FinishTypes, AbortedFields
  <2>2. CASE answer # "aborted"
    <3> DEFINE d == Settle(failed, r, "lost")
    <3>1. d \in Query /\ SameCall(failed, d) /\ d.got \subseteq {r, None}
      BY <1>3, SettleTypes, SettleFields
    <3> HIDE DEF d
    <3>2. Finish(d) \in Query /\ SameCall(d, Finish(d)) /\ Finish(d).got = d.got
      BY <3>1, FinishTypes, FinishFields
    <3>3. again = Finish(d)
      BY <2>2 DEF d
    <3> QED
      BY <3>1, <3>2, <3>3 DEF SameCall
  <2> QED
    BY <2>1, <2>2
<1> HIDE DEF again
<1>5. c \in Query
  BY <1>4, FailedTypes
<1>6. /\ c.threw /\ c.s = again.s /\ c.vetoed = again.vetoed /\ c.got = again.got
      /\ c.xhr = "done"
  BY <1>4 DEF Query
<1> HIDE DEF c
<1>7. CallInv(r, c)
  BY <1>3, <1>4, <1>5, <1>6, ThrewInv, SettingFields DEF SameCall
<1> QED
  BY <1>1, <1>2, <1>3, <1>4, <1>5, <1>6, <1>7 DEF CallMade, SameCall

LEMMA ajaxIsMade ==
  ASSUME page \in Page, NEW r \in Req, ajax(r)
  PROVE  \E s \in Settings : \E c \in Query : CallMade(r, s, c)
<1>1. PICK s \in Settings :
        \/ AjaxScript(r, s) \/ AjaxNoXhr(r, s) \/ AjaxVetoed(r, s) \/ AjaxSend(r, s)
        \/ \E state \in {"unsent", "open"} : AjaxSendThrows(r, s, state)
        \/ \E answer \in Answers \ {"lost"} : AjaxSync(r, s, answer)
        \/ \E answer \in {"aborted", "lost"} : AjaxSyncThrows(r, s, answer)
  BY Zenon DEF ajax
<1> QED
  BY <1>1, CallsBegin, CallThrows, CallIsSync, SyncCallThrows

\* A step of the query r, whose record becomes d: completes and the counter
\* move together, if the query is one the library gets right.
QueryMoves(r, d) ==
  /\ query[r].s # None
  /\ query' = [query EXCEPT ![r] = d]
  /\ d \in Query /\ CallInv(r, d) /\ SameCall(query[r], d)
  /\ page' \in Page
  /\ RegularCall(d) =>
       \/ page' = page /\ d.completes = query[r].completes
       \/ /\ query[r].completes = 0 /\ ~query[r].vetoed /\ d.completes = 1
          /\ page' = Unwatch(page, query[r].s.global)

\* The callback that is running was told of once, and complete is still to come.
Running(c) ==
  c.s # None /\ (RegularCall(c) => c.requestDone /\ c.completes = 0 /\ c.xhr \in {"done", "script"})

LEMMA AnswerMoves ==
  ASSUME page \in Page, NEW r \in Req, CallInv(r, query[r]), NEW answer, OnAnswer(r, answer)
  PROVE  \E d \in Query :
           /\ QueryMoves(r, d) /\ running = None /\ running' = Run(r, "answer")
           /\ d.xhr = "done" /\ Running(d) /\ UNCHANGED window
<1> DEFINE c == query[r]
           d == Settle(c, r, answer)
<1>1. /\ running = None /\ c.xhr = "sent" /\ ~c.requestDone /\ UNCHANGED <<page, window>>
      /\ query' = [query EXCEPT ![r] = d] /\ running' = Run(r, "answer")
  BY DEF OnAnswer, Awaited
<1>2. /\ c \in Query /\ c.s # None /\ ~c.vetoed /\ (c.s.shared \/ c.got \subseteq {r, None})
      /\ RegularCall(c) => Untold(c)
  BY <1>1 DEF CallInv, CallPlaced
<1>3. /\ d \in Query /\ SameCall(c, d) /\ d.xhr = "done" /\ d.requestDone /\ d.completes = c.completes
      /\ \/ d.got = c.got /\ d.errors \in {c.errors, AtMostTwo(c.errors)}
         \/ \E a \in {r, None} : d.got = c.got \cup {a} /\ d.errors = c.errors
  BY <1>2, SettleTypes, SettleFields
<1> HIDE DEF c, d
<1>4. CallInv(r, d)
  BY <1>2, <1>3, SettledInv
<1> QED
  BY <1>1, <1>2, <1>3, <1>4 DEF QueryMoves, Running, RegularCall, SameCall, Untold, c

LEMMA TimerOff ==
  ASSUME NEW c \in Query
  PROVE  LET d == [c EXCEPT !.timer = FALSE] IN
         /\ d \in Query /\ SameCall(c, d) /\ ~d.timer /\ d.xhr = c.xhr
         /\ d.requestDone = c.requestDone
         /\ d.got = c.got /\ d.errors = c.errors /\ d.completes = c.completes
  BY DEF Query, SameCall

LEMMA TimeoutMoves ==
  ASSUME page \in Page, NEW r \in Req, CallInv(r, query[r]), OnTimeout(r)
  PROVE  \E d \in Query :
           /\ QueryMoves(r, d) /\ running = None /\ UNCHANGED window
           /\ \/ running' = running
              \/ running' = Run(r, "answer") /\ d.xhr = "done" /\ Running(d)
<1> DEFINE c == query[r]
           off == [c EXCEPT !.timer = FALSE]
<1>1. /\ running = None /\ c.timer /\ UNCHANGED window
      /\ \/ query' = [query EXCEPT ![r] = off] /\ UNCHANGED <<page, running>>
         \/ /\ ~off.requestDone /\ off.xhr = "unsent" /\ UNCHANGED running
            /\ query' = [query EXCEPT ![r] = Aborted(off)] /\ page' = PageAfterAbort(page, off)
         \/ /\ ~off.requestDone /\ off.xhr \in {"sent", "open"} /\ UNCHANGED page
            /\ query' = [query EXCEPT ![r] = Settle(off, r, "timeout")]
            /\ running' = Run(r, "answer")
  BY DEF OnTimeout
<1>2. /\ c \in Query /\ c.xhr # "none" /\ c.s # None /\ ~c.vetoed
      /\ (c.s.shared \/ c.got \subseteq {r, None})
  BY <1>1, UnusedFields DEF CallInv, CallPlaced
<1>3. /\ off \in Query /\ SameCall(c, off) /\ ~off.timer /\ off.xhr = c.xhr
      /\ off.requestDone = c.requestDone
      /\ off.got = c.got /\ off.errors = c.errors /\ off.completes = c.completes
  BY <1>2, TimerOff
<1> HIDE DEF off
<1>4. CASE query' = [query EXCEPT ![r] = off] /\ UNCHANGED <<page, running>>
  <2>1. CallInv(r, off)
    BY <1>2, <1>3 DEF CallInv, CallPlaced, RegularCall, SameCall, OneTold, Untold
  <2> QED
    BY <1>1, <1>2, <1>3, <1>4, <2>1 DEF QueryMoves
<1>5. CASE /\ ~off.requestDone /\ off.xhr = "unsent" /\ UNCHANGED running
           /\ query' = [query EXCEPT ![r] = Aborted(off)] /\ page' = PageAfterAbort(page, off)
  <2>1. off.threw
    BY <1>2, <1>3, <1>5 DEF CallInv, CallPlaced, SameCall
  <2>2. /\ Aborted(off) \in Query /\ SameCall(off, Aborted(off)) /\ Aborted(off).xhr = "unsent"
        /\ Aborted(off).got = c.got
    BY <1>3, <1>5, FinishTypes, AbortedFields
  <2>3. CallInv(r, Aborted(off))
    BY <1>2, <1>3, <2>1, <2>2 DEF CallInv, CallPlaced, RegularCall, SameCall
  <2>4. page' \in Page
    BY <1>5, PageTypes DEF PageAfterAbort
  <2> QED
    BY <1>1, <1>2, <1>3, <1>5, <2>1, <2>2, <2>3, <2>4 DEF QueryMoves, SameCall, RegularCall
<1>6. CASE /\ ~off.requestDone /\ off.xhr \in {"sent", "open"} /\ UNCHANGED page
           /\ query' = [query EXCEPT ![r] = Settle(off, r, "timeout")]
           /\ running' = Run(r, "answer")
  <2> DEFINE d == Settle(off, r, "timeout")
  <2>1. /\ d \in Query /\ SameCall(off, d) /\ d.xhr = "done" /\ d.requestDone
        /\ d.completes = off.completes
        /\ \/ d.got = off.got /\ d.errors \in {off.errors, AtMostTwo(off.errors)}
           \/ \E a \in {r, None} : d.got = off.got \cup {a} /\ d.errors = off.errors
    BY <1>3, SettleTypes, SettleFields
  <2> HIDE DEF d
  <2>2. RegularCall(off) => Untold(off)
    BY <1>2, <1>3, <1>6 DEF CallInv, RegularCall, SameCall, Untold
  <2>3. CallInv(r, d)
    BY <1>2, <1>3, <2>1, <2>2, SettledInv DEF SameCall
  <2>4. query' = [query EXCEPT ![r] = d]
    BY <1>6 DEF d
  <2>5. Running(d) /\ SameCall(c, d) /\ d.completes = c.completes
    BY <1>2, <1>3, <2>1, <2>2 DEF Running, RegularCall, SameCall, Untold
  <2> QED
    BY <1>1, <1>2, <1>6, <2>1, <2>3, <2>4, <2>5 DEF QueryMoves
<1> QED
  BY <1>1, <1>4, <1>5, <1>6

LEMMA AbortMoves ==
  ASSUME page \in Page, NEW r \in Req, CallInv(r, query[r]), AbortSilently(r)
  PROVE  \E d \in Query :
           /\ QueryMoves(r, d) /\ UNCHANGED <<window, running>>
           /\ query[r].xhr \in {"sent", "open", "unsent"}
<1> DEFINE c == query[r]
           d == [Aborted(c) EXCEPT !.xhr = "unsent"]
<1>1. /\ c.xhr \in {"sent", "open", "unsent"} /\ ~c.vetoed /\ UNCHANGED <<window, running>>
      /\ query' = [query EXCEPT ![r] = d] /\ page' = PageAfterAbort(page, c)
  BY DEF AbortSilently
<1>2. c \in Query /\ c.s # None
  BY <1>1 DEF CallInv, CallPlaced
<1>3. Aborted(c) \in Query
  BY <1>2, FinishTypes
<1>4. /\ d \in Query /\ SameCall(Aborted(c), d) /\ d.xhr = "unsent"
      /\ d.requestDone = Aborted(c).requestDone /\ d.got = Aborted(c).got
      /\ d.errors = Aborted(c).errors /\ d.completes = Aborted(c).completes
  BY <1>3 DEF Query, SameCall, XhrStates
<1>5. page' \in Page
  BY <1>1, PageTypes DEF PageAfterAbort
<1> HIDE DEF d
<1>6. CASE c.requestDone
  <2>1. Aborted(c) = c /\ page' = page
    BY <1>1, <1>6 DEF Aborted, PageAfterAbort
  <2>2. CallInv(r, d)
    BY <1>1, <1>2, <1>4, <1>6, <2>1 DEF CallInv, CallPlaced, RegularCall, SameCall, OneTold, Untold
  <2> QED
    BY <1>1, <1>2, <1>4, <1>5, <2>1, <2>2 DEF QueryMoves
<1>7. CASE ~c.requestDone
  <2>1. /\ SameCall(c, Aborted(c)) /\ Aborted(c).requestDone
        /\ Aborted(c).got = c.got /\ Aborted(c).errors = c.errors
        /\ Aborted(c).completes = AtMostTwo(c.completes) /\ page' = Unwatch(page, c.s.global)
    BY <1>1, <1>2, <1>7, AbortedFields DEF PageAfterAbort
  <2>2. SameCall(c, d) /\ d.requestDone /\ d.got = c.got /\ d.errors = c.errors
        /\ d.completes = AtMostTwo(c.completes)
    BY <1>4, <2>1 DEF SameCall
  <2>3. RegularCall(d) => Untold(c) /\ d.completes = 1
    BY <1>7, <2>2 DEF CallInv, RegularCall, SameCall, Untold, AtMostTwo
  <2>4. CallInv(r, d)
    BY <1>1, <1>2, <1>4, <2>2, <2>3 DEF CallInv, CallPlaced, RegularCall, SameCall, OneTold, Untold
  <2> QED
    BY <1>1, <1>2, <1>4, <1>5, <2>1, <2>2, <2>3, <2>4 DEF QueryMoves, Untold
<1> QED
  BY <1>6, <1>7

LEMMA ScriptMoves ==
  ASSUME page \in Page, NEW r \in Req, CallInv(r, query[r]), OnScript(r)
  PROVE  \E d \in Query :
           /\ QueryMoves(r, d) /\ running = None /\ running' = Run(r, "script")
           /\ Running(d) /\ UNCHANGED window
<1> DEFINE c == query[r]
           d == [success(c, r) EXCEPT !.requestDone = TRUE]
<1>1. /\ running = None /\ c.xhr = "script" /\ ~c.requestDone /\ UNCHANGED <<page, window>>
      /\ query' = [query EXCEPT ![r] = d] /\ running' = Run(r, "script")
  BY DEF OnScript
<1>2. c \in Query /\ c.s # None /\ ~c.vetoed
  BY <1>1 DEF CallInv, CallPlaced
<1>3. success(c, r) \in Query
  BY <1>2, ToldTypes
<1>4. /\ d \in Query /\ SameCall(success(c, r), d) /\ d.xhr = success(c, r).xhr /\ d.requestDone
      /\ d.got = success(c, r).got /\ d.errors = success(c, r).errors
      /\ d.completes = success(c, r).completes
  BY <1>3 DEF Query, SameCall
<1> HIDE DEF d
<1>5. /\ SameCall(c, d) /\ d.xhr = "script" /\ d.got = c.got \cup {r} /\ d.errors = c.errors
      /\ d.completes = c.completes
  BY <1>1, <1>2, <1>4, ToldFields DEF SameCall
<1>6. RegularCall(d) => Untold(c)
  BY <1>1, <1>5 DEF CallInv, RegularCall, SameCall
<1>7. CallInv(r, d)
  BY <1>1, <1>2, <1>4, <1>5, <1>6 DEF CallInv, CallPlaced, RegularCall, SameCall, OneTold, Untold
<1> QED
  BY <1>1, <1>2, <1>4, <1>5, <1>6, <1>7 DEF QueryMoves, Running, Untold, SameCall

-----------------------------------------------------------------------------
(* The JSONP names, and the callback that is running. *)

CallsInv == \A r \in Req : CallInv(r, query[r])

\* A name stands for a call that gives that name.
NameInv ==
  \A n \in Req \cup {Shared} : window[n] # None =>
    LET o == window[n] IN
    query[o].s # None /\ query[o].s.kind = "jsonp" /\ Name(o, query[o].s) = n

QueryRunning ==
  running # None /\ running.by # "upload" =>
    /\ Running(query[running.req])
    /\ running.by = "answer" => query[running.req].xhr = "done"

LEMMA CallbackMoves ==
  ASSUME page \in Page, running \in [req : Req, by : Callers] \cup {None},
         CallInv(running.req, query[running.req]), QueryRunning, CallbackReturns
  PROVE  /\ running.req \in Req /\ running' = None
         /\ \E d \in Query : QueryMoves(running.req, d)
         /\ \/ window' = window
            \/ window' = [window EXCEPT ![Name(running.req, query[running.req].s)] = None]
<1> DEFINE r == running.req
           c == query[r]
           d == IF running.by = "answer" THEN Finish(c) ELSE complete(c)
<1>1. /\ running # None /\ running.by # "upload" /\ running' = None
      /\ query' = [query EXCEPT ![r] = d] /\ page' = Unwatch(page, c.s.global)
      /\ \/ window' = window
         \/ window' = [window EXCEPT ![Name(r, query[r].s)] = None]
  BY DEF CallbackReturns
<1>2. r \in Req
  BY <1>1
<1>3. /\ c \in Query /\ c.s # None /\ Running(c)
      /\ running.by = "answer" => c.xhr = "done"
  BY <1>1 DEF QueryRunning, Running, CallInv
<1>4. /\ d \in Query /\ SameCall(c, d) /\ d.timer = c.timer /\ d.requestDone = c.requestDone
      /\ d.got = c.got /\ d.errors = c.errors /\ d.completes = AtMostTwo(c.completes)
      /\ IF running.by = "answer" THEN d.xhr \in {"done", "null"} ELSE d.xhr = c.xhr
  BY <1>3, ToldTypes, ToldFields, FinishTypes, FinishFields
<1>5. page' \in Page
  BY <1>1, PageTypes
<1> HIDE DEF d
<1>6. RegularCall(d) => c.completes = 0 /\ ~c.vetoed /\ c.requestDone
  BY <1>3, <1>4 DEF Running, RegularCall, SameCall, CallInv, CallPlaced
<1>7. CallInv(r, d)
  <2>1. CallPlaced(d)
    <3>1. CASE running.by = "answer"
      BY <1>3, <1>4, <3>1 DEF CallInv, CallPlaced, SameCall
    <3>2. CASE running.by # "answer"
      BY <1>3, <1>4, <3>2, UnusedFields DEF CallInv, CallPlaced, SameCall
    <3> QED
      BY <3>1, <3>2
  <2>2. RegularCall(d) => OneTold(d) /\ (~d.requestDone => Untold(d))
    BY <1>3, <1>4, <1>6 DEF CallInv, RegularCall, SameCall, OneTold, AtMostTwo
  <2> QED
    BY <1>3, <1>4, <2>1, <2>2 DEF CallInv, SameCall
<1>8. RegularCall(d) => d.completes = 1
  BY <1>4, <1>6 DEF AtMostTwo
<1>9. QueryMoves(r, d)
  BY <1>1, <1>3, <1>4, <1>5, <1>6, <1>7, <1>8 DEF QueryMoves
<1> QED
  BY <1>1, <1>2, <1>4, <1>9

\* Calls of one JSONP name answer each other: what the step does to them is
\* well typed and well placed, and one of them is not regular.
NamesMeet ==
  /\ query' \in [Req -> Query]
  /\ \A q \in Req : CallInv(q, query'[q]) /\ SameCall(query[q], query'[q])
  /\ \E q \in Req : ~RegularCall(query'[q])
  /\ page' \in Page

\* The function under the name of r is that of r itself, or the name is shared.
LEMMA NamedCalls ==
  ASSUME CallsInv, NameInv, NEW r \in Req, query[r].s # None, query[r].s.kind = "jsonp",
         \A n \in Req \cup {Shared} : window[n] \in Req \cup {None},
         NEW o \in Req, o = window[Name(r, query[r].s)]
  PROVE  /\ query[o].s # None /\ query[o].s.kind = "jsonp"
         /\ o = r \/ (query[r].s.shared /\ query[o].s.shared)
         /\ Name(r, query[r].s) \in Req \cup {Shared}
<1>1. Name(r, query[r].s) \in Req \cup {Shared} /\ o # None
  BY NamesAreDistinct DEF Name
<1>2. /\ query[o].s # None /\ query[o].s.kind = "jsonp"
      /\ Name(o, query[o].s) = Name(r, query[r].s)
  BY <1>1 DEF NameInv
<1>3. query[r].s \in Settings /\ query[o].s \in Settings
  BY <1>2, QueryFields DEF CallsInv, CallInv
<1>4. query[r].s.shared \in BOOLEAN /\ query[o].s.shared \in BOOLEAN
  BY <1>3, SettingFields
<1> QED
  BY <1>1, <1>2, <1>4, NamesAreDistinct DEF Name

\* success told to a call whose name is shared
LEMMA SharedTold ==
  ASSUME NEW o \in Req, NEW r \in Req, CallInv(o, query[o]), query[o].s # None,
         query[o].s.kind = "jsonp", query[o].s.shared
  PROVE  /\ \A d \in {success(query[o], r), complete(success(query[o], r))} :
              CallInv(o, d) /\ SameCall(query[o], d) /\ ~RegularCall(d)
<1> DEFINE c == query[o]
<1>1. c \in Query /\ c.xhr # "none"
  BY UnusedFields DEF CallInv, CallPlaced
<1>2. success(c, r) \in Query /\ complete(success(c, r)) \in Query
  BY <1>1, ToldTypes
<1>3. \A d \in {success(c, r), complete(success(c, r))} :
        SameCall(c, d) /\ d.timer = c.timer /\ d.xhr = c.xhr /\ d.requestDone = c.requestDone
  BY <1>1, <1>2, ToldFields DEF SameCall
<1>4. \A d \in Query : SameCall(c, d) /\ d.timer = c.timer /\ d.xhr = c.xhr
                       /\ d.requestDone = c.requestDone => CallInv(o, d) /\ ~RegularCall(d)
  BY <1>1 DEF CallInv, CallPlaced, SameCall, RegularCall
<1> QED
  BY <1>2, <1>3, <1>4

WindowTyped == \A n \in Req \cup {Shared} : window[n] \in Req \cup {None}

LEMMA ScriptRan ==
  ASSUME NEW r \in Req, CallInv(r, query[r]), query[r].xhr = "script", ~query[r].requestDone
  PROVE  LET c == query[r]
             d == [c EXCEPT !.requestDone = TRUE]
             e == success(d, r)
         IN  /\ c.s # None /\ ~c.vetoed
             /\ CallInv(r, d) /\ SameCall(c, d) /\ d.completes = c.completes
             /\ CallInv(r, e) /\ SameCall(c, e) /\ e.completes = c.completes /\ Running(e)
<1> DEFINE c == query[r]
           d == [c EXCEPT !.requestDone = TRUE]
           e == success(d, r)
<1>1. c \in Query /\ c.s # None /\ ~c.vetoed /\ (RegularCall(c) => Untold(c))
  BY DEF CallInv, CallPlaced
<1>2. /\ d \in Query /\ SameCall(c, d) /\ d.xhr = "script" /\ d.timer = c.timer /\ d.requestDone
      /\ d.got = c.got /\ d.errors = c.errors /\ d.completes = c.completes
  BY <1>1 DEF Query, SameCall
<1> HIDE DEF d
<1>3. CallInv(r, d)
  BY <1>1, <1>2 DEF CallInv, CallPlaced, RegularCall, SameCall, OneTold, Untold
<1>4. /\ e \in Query /\ SameCall(c, e) /\ e.xhr = "script" /\ e.timer = c.timer /\ e.requestDone
      /\ e.got = c.got \cup {r} /\ e.errors = c.errors /\ e.completes = c.completes
  BY <1>2, ToldTypes, ToldFields DEF SameCall
<1> HIDE DEF e
<1>5. CallInv(r, e)
  BY <1>1, <1>4 DEF CallInv, CallPlaced, RegularCall, SameCall, OneTold, Untold
<1>6. Running(e)
  BY <1>1, <1>4 DEF Running, RegularCall, SameCall, Untold
<1> QED
  BY <1>1, <1>2, <1>3, <1>4, <1>5, <1>6 DEF d, e

LEMMA SameAgain ==
  ASSUME CallsInv, NEW q \in Req
  PROVE  CallInv(q, query[q]) /\ SameCall(query[q], query[q])
  BY DEF CallsInv, SameCall

LEMMA RemoteJsonpMoves ==
  ASSUME page \in Page, query \in [Req -> Query], CallsInv, NameInv, WindowTyped,
         NEW r \in Req, OnRemoteJsonp(r)
  PROVE  /\ running = None /\ UNCHANGED window
         /\ \/ /\ running' = running
               /\ \E d \in Query : QueryMoves(r, d)
            \/ \E o \in Req :
                 /\ running' = Run(o, "jsonp")
                 /\ Running(query'[o])
                 /\ (o = r /\ \E d \in Query : QueryMoves(r, d)) \/ NamesMeet
<1> DEFINE c == query[r]
           o == window[Name(r, c.s)]
           d == [c EXCEPT !.requestDone = TRUE]
           ran == [query EXCEPT ![r] = d]
<1>1. /\ running = None /\ c.xhr = "script" /\ c.s.kind = "jsonp" /\ ~c.requestDone
      /\ UNCHANGED <<page, window>>
      /\ \/ o = None /\ query' = ran /\ UNCHANGED running
         \/ /\ o # None /\ query' = [ran EXCEPT ![o] = success(@, r)]
            /\ running' = Run(o, "jsonp")
  BY DEF OnRemoteJsonp
<1>2. CallInv(r, c) /\ c \in Query /\ c.s # None
  BY <1>1 DEF CallsInv, CallInv, CallPlaced
<1>3. /\ CallInv(r, d) /\ SameCall(c, d) /\ d.completes = c.completes
      /\ CallInv(r, success(d, r)) /\ SameCall(c, success(d, r))
      /\ success(d, r).completes = c.completes /\ Running(success(d, r))
  BY <1>1, <1>2, ScriptRan
<1>4. d \in Query /\ success(d, r) \in Query
  BY <1>3 DEF CallInv
<1> HIDE DEF d
<1>5. CASE o = None
  <2>1. QueryMoves(r, d)
    BY <1>1, <1>2, <1>3, <1>4, <1>5 DEF QueryMoves
  <2> QED
    BY <1>1, <1>4, <1>5, <2>1
<1>6. CASE o = r
  <2>1. query' = [query EXCEPT ![r] = success(d, r)] /\ running' = Run(r, "jsonp")
    <3>1. o # None /\ ran[r] = d
      BY <1>6, NamesAreDistinct
    <3>2. query' = [ran EXCEPT ![r] = success(d, r)] /\ running' = Run(r, "jsonp")
      BY <1>1, <1>6, <3>1
    <3> QED
      BY <3>2
  <2>2. QueryMoves(r, success(d, r))
    BY <1>1, <1>2, <1>3, <1>4, <2>1 DEF QueryMoves
  <2>3. query'[r] = success(d, r)
    BY <2>1
  <2> QED
    BY <1>1, <1>3, <1>4, <2>1, <2>2, <2>3
<1>7. CASE o # None /\ o # r
  <2>1. o \in Req
    BY <1>2, <1>7, QueryFields, SettingFields DEF WindowTyped, Name
  <2>2. /\ query[o].s # None /\ query[o].s.kind = "jsonp"
        /\ c.s.shared /\ query[o].s.shared
    BY <1>1, <1>2, <1>7, <2>1, NamedCalls DEF WindowTyped
  <2>3. /\ query' = [ran EXCEPT ![o] = success(query[o], r)] /\ running' = Run(o, "jsonp")
    BY <1>1, <1>7, <2>1
  <2>4. \A q \in Req : query'[q] = IF q = o THEN success(query[o], r)
                                   ELSE IF q = r THEN d ELSE query[q]
    BY <2>1, <2>3
  <2>5. /\ CallInv(o, success(query[o], r)) /\ SameCall(query[o], success(query[o], r))
        /\ ~RegularCall(success(query[o], r))
    BY <2>1, <2>2, SharedTold DEF CallsInv
  <2>6. success(query[o], r) \in Query
    BY <2>5 DEF CallInv
  <2>7. query' \in [Req -> Query]
    BY <1>4, <2>3, <2>6
  <2>8. \A q \in Req : CallInv(q, query'[q]) /\ SameCall(query[q], query'[q])
    BY <1>3, <2>4, <2>5, SameAgain
  <2>9. NamesMeet
    BY <1>1, <2>1, <2>4, <2>5, <2>7, <2>8 DEF NamesMeet
  <2>10. Running(query'[o])
    BY <2>1, <2>2, <2>4, <2>5 DEF Running, SameCall
  <2> QED
    BY <1>1, <2>1, <2>3, <2>9, <2>10
<1> QED
  BY <1>5, <1>6, <1>7

LEMMA LocalJsonpMoves ==
  ASSUME page \in Page, query \in [Req -> Query], CallsInv, NameInv, WindowTyped,
         NEW r \in Req, NEW answer, OnLocalJsonp(r, answer)
  PROVE  /\ running = None /\ running' = running /\ NamesMeet
         /\ \/ window' = window
            \/ window' = [window EXCEPT ![Name(r, query[r].s)] = None]
<1> DEFINE c == query[r]
           o == IF answer = "ok" THEN window[Name(r, c.s)] ELSE None
           told == IF o = None THEN query
                   ELSE [query EXCEPT ![o] = complete(success(@, r))]
           paid == IF o = None THEN page ELSE Unwatch(page, query[o].s.global)
           d == Finish(Settle(told[r], r, answer))
<1>1. /\ running = None /\ c.xhr = "sent" /\ ~c.requestDone /\ c.s.kind = "jsonp"
      /\ running' = running
      /\ query' = [told EXCEPT ![r] = d]
      /\ page' = Unwatch(paid, c.s.global)
      /\ \/ window' = window
         \/ window' = [window EXCEPT ![Name(r, query[r].s)] = None]
  BY DEF OnLocalJsonp, Awaited
<1>2. /\ c \in Query /\ c.s # None /\ ~c.s.remote /\ ~c.vetoed
      /\ (c.s.shared \/ c.got \subseteq {r, None})
  BY <1>1 DEF CallsInv, CallInv, CallPlaced, ByScript
<1>3. page' \in Page
  BY <1>1, PageTypes
<1>4. o \in Req \cup {None}
  BY <1>2, QueryFields, SettingFields DEF WindowTyped, Name
<1>5. o # None => /\ query[o].s # None /\ query[o].s.kind = "jsonp"
                  /\ o = r \/ (c.s.shared /\ query[o].s.shared)
  BY <1>1, <1>2, <1>4, NamedCalls DEF WindowTyped
<1>6. \A q \in Req : told[q] = IF q = o THEN complete(success(query[q], r)) ELSE query[q]
  BY <1>4, NamesAreDistinct
<1>7. told \in [Req -> Query]
  <2>1. CASE o = None
    BY <2>1
  <2>2. CASE o # None
    <3>1. o \in Req /\ complete(success(query[o], r)) \in Query
      BY <1>4, <2>2, ToldTypes
    <3> QED
      BY <2>2, <3>1
  <2> QED
    BY <2>1, <2>2
<1> HIDE DEF told
<1>8. /\ told[r] \in Query /\ SameCall(c, told[r])
      /\ told[r].got \subseteq c.got \cup {r}
  <2>1. CASE o = r
    <3>1. success(c, r) \in Query
      BY <1>2, ToldTypes
    <3> QED
      BY <1>2, <1>6, <1>7, <2>1, <3>1, ToldFields DEF SameCall
  <2>2. CASE o # r
    BY <1>2, <1>6, <2>2 DEF SameCall
  <2> QED
    BY <2>1, <2>2
<1>9. LET e == Settle(told[r], r, answer) IN
      /\ e \in Query /\ SameCall(told[r], e) /\ e.xhr = "done" /\ e.requestDone
      /\ e.got \subseteq c.got \cup {r, None}
  BY <1>8, SettleTypes, SettleFields
<1>10. /\ d \in Query /\ SameCall(c, d) /\ d.xhr \in {"done", "null"}
       /\ d.got \subseteq c.got \cup {r, None}
  BY <1>8, <1>9, FinishTypes, FinishFields DEF SameCall
<1> HIDE DEF d
<1>11. CallInv(r, d) /\ ~RegularCall(d)
  BY <1>1, <1>2, <1>10 DEF CallInv, CallPlaced, SameCall, RegularCall
<1>12. /\ query' \in [Req -> Query]
       /\ \A q \in Req : query'[q] = IF q = r THEN d ELSE told[q]
  BY <1>1, <1>7, <1>10
<1>13. \A q \in Req : CallInv(q, query'[q]) /\ SameCall(query[q], query'[q])
  <2> SUFFICES ASSUME NEW q \in Req
               PROVE  CallInv(q, query'[q]) /\ SameCall(query[q], query'[q])
    OBVIOUS
  <2>1. CASE q = r
    BY <1>10, <1>11, <1>12, <2>1
  <2>2. CASE q # r /\ q = o
    <3>1. q # None
      BY NamesAreDistinct
    <3>2. /\ query[q].s # None /\ query[q].s.kind = "jsonp" /\ query[q].s.shared
      BY <1>5, <2>2, <3>1
    <3>3. query'[q] = complete(success(query[q], r))
      BY <1>6, <1>12, <2>2
    <3> QED
      BY <3>2, <3>3, SharedTold DEF CallsInv
  <2>3. CASE q # r /\ q # o
    BY <1>6, <1>12, <2>3, SameAgain
  <2> QED
    BY <2>1, <2>2, <2>3
<1>14. NamesMeet
  BY <1>3, <1>11, <1>12, <1>13 DEF NamesMeet
<1> QED
  BY <1>1, <1>14

-----------------------------------------------------------------------------
(* The names and the callback, after each kind of step. *)

LEMMA NamesAfterCall ==
  ASSUME CallsInv, NameInv, WindowTyped, query \in [Req -> Query], window \in [Req \cup {Shared} -> Req \cup {None}],
         NEW r \in Req, NEW s \in Settings, NEW c \in Query, CallMade(r, s, c)
  PROVE  NameInv'
<1> SUFFICES ASSUME NEW n \in Req \cup {Shared}, window'[n] # None
             PROVE  LET o == window'[n] IN
                    /\ query'[o].s # None /\ query'[o].s.kind = "jsonp"
                    /\ Name(o, query'[o].s) = n
  BY DEF NameInv, Name
<1>1. /\ query'[r].s = s /\ s # None
      /\ \A q \in Req \ {r} : query'[q] = query[q]
  BY SettingFields DEF CallMade
<1>2. query[r].s = None
  BY UnusedFields DEF CallMade, CallsInv, CallInv, CallPlaced
<1>3. CASE window'[n] = window[n]
  <2>1. window[n] \in Req /\ window[n] # None
    BY <1>3 DEF WindowTyped
  <2>2. window[n] # r
    BY <1>2, <2>1 DEF NameInv
  <2> QED
    BY <1>1, <1>3, <2>1, <2>2 DEF NameInv
<1>4. CASE window'[n] # window[n]
  <2>1. s.kind = "jsonp" /\ n = Name(r, s) /\ window'[n] = r
    <3>1. Name(r, s) \in Req \cup {Shared}
      BY DEF Name
    <3> QED
      BY <1>4, <3>1 DEF CallMade, DefineJsonp
  <2> QED
    BY <1>1, <2>1
<1> QED
  BY <1>3, <1>4

LEMMA NamesKept ==
  ASSUME NameInv, WindowTyped, \A q \in Req : SameCall(query[q], query'[q]),
         \A n \in Req \cup {Shared} : window'[n] \in {window[n], None}
  PROVE  NameInv'
<1> SUFFICES ASSUME NEW n \in Req \cup {Shared}, window'[n] # None
             PROVE  LET o == window'[n] IN
                    /\ query'[o].s # None /\ query'[o].s.kind = "jsonp"
                    /\ Name(o, query'[o].s) = n
  BY DEF NameInv, Name
<1>1. window'[n] = window[n] /\ window[n] \in Req
  BY DEF WindowTyped
<1> QED
  BY <1>1 DEF NameInv, SameCall

-----------------------------------------------------------------------------
(* The invariant of an upload. *)

\* Where an upload can be, and what its flags say there.
UploadInv(u) ==
  /\ u \in Upload
  /\ u.phase \in {"none", "closing"} => ~u.global
  /\ u.phase # "posted" =>
       u.cbInvoked = 0 /\ ~u.timer /\ ~u.retry /\ ~u.listening /\ ~u.blank /\ ~u.nav
  /\ u.cbInvoked = 0 => UploadOutcomes(u) = 0
  /\ u.completes <= UploadOutcomes(u) /\ UploadOutcomes(u) <= 1

UploadsInv == \A r \in Req : UploadInv(upload[r])

UploadRunning ==
  running # None /\ running.by = "upload" =>
    LET u == upload[running.req] IN
    u.phase = "posted" /\ u.completes = 0 /\ UploadOutcomes(u) = 1

\* All that the counting, and what the callbacks were told, depend on.
SameUpload(u, v) ==
  /\ v.phase = u.phase /\ v.global = u.global /\ v.cbInvoked = u.cbInvoked
  /\ v.errors = u.errors /\ v.successes = u.successes /\ v.completes = u.completes

LEMMA NoUploadInv == UploadInv(NoUpload)
<1>1. NoUpload \in Upload
  BY NoUploadType
<1> QED
  BY <1>1 DEF NoUpload, UploadInv, UploadOutcomes

\* Changes of the other fields keep the invariant of an upload that is posted.
LEMMA SameUploadInv ==
  ASSUME NEW u, UploadInv(u), u.phase = "posted", NEW v \in Upload, SameUpload(u, v)
  PROVE  UploadInv(v)
  BY UploadFields DEF UploadInv, SameUpload, UploadOutcomes

LEMMA LookFields ==
  ASSUME NEW v \in Upload
  PROVE  LET w == Look(v) IN
         /\ w.phase = v.phase /\ w.global = v.global /\ w.completes = v.completes
         /\ \/ /\ w.errors = v.errors /\ w.successes = v.successes
               /\ w.cbInvoked \in {0, v.cbInvoked}
            \/ /\ w.errors = AtMostTwo(v.errors) /\ w.successes = v.successes
               /\ w.cbInvoked = v.cbInvoked
            \/ /\ w.errors = v.errors /\ w.successes = AtMostTwo(v.successes)
               /\ w.cbInvoked = v.cbInvoked
<1>1. CASE v.doc = "empty" /\ v.domCheckCount > 1
  BY <1>1 DEF Look, Upload
<1>2. CASE v.doc = "empty" /\ ~(v.domCheckCount > 1)
  BY <1>2 DEF Look, Upload
<1>3. CASE v.doc # "empty"
  BY <1>3 DEF Look, Upload, handleError
<1> QED
  BY <1>1, <1>2, <1>3

\* A run of cb tells at most one callback, and only if none was told before.
LEMMA cbFields ==
  ASSUME NEW u, UploadInv(u), u.phase = "posted"
  PROVE  LET v == cb(u) IN
         /\ UploadInv(v) /\ v.phase = "posted" /\ v.global = u.global
         /\ v.completes = u.completes
         /\ Told(u, v) => v.completes = 0 /\ UploadOutcomes(v) = 1
<1>1. u \in Upload
  BY DEF UploadInv
<1>2. CASE u.cbInvoked > 0
  <2>1. cb(u) = [u EXCEPT !.cbInvoked = 2] /\ cb(u) \in Upload
    BY <1>1, <1>2, cbType DEF cb
  <2> DEFINE v == cb(u)
  <2>2. /\ v.phase = u.phase /\ v.global = u.global /\ v.cbInvoked = 2
        /\ v.errors = u.errors /\ v.successes = u.successes /\ v.completes = u.completes
    BY <1>1, <2>1 DEF Upload
  <2>3. v \in Upload
    BY <2>1
  <2> HIDE DEF v
  <2>4. UploadInv(v) /\ (Told(u, v) => v.completes = 0 /\ UploadOutcomes(v) = 1)
    BY <2>2, <2>3, UploadFields DEF UploadInv, UploadOutcomes, Told
  <2> QED
    BY <2>2, <2>4 DEF v
<1>3. CASE ~(u.cbInvoked > 0)
  <2> DEFINE a == [u EXCEPT !.cbInvoked = 1, !.listening = FALSE]
             v == cb(u)
  <2>1. v = handleError(a) \/ v = Look(a)
    <3>1. cb(u) = IF u.cbInvoked > 0 THEN [u EXCEPT !.cbInvoked = 2]
                  ELSE IF a.timedOut THEN handleError(a) ELSE Look(a)
      BY DEF cb
    <3> HIDE DEF a
    <3> QED
      BY <1>3, <3>1
  <2>8. v \in Upload
    BY <1>1, cbType
  <2>2. a \in Upload
    <3>1. FALSE \in BOOLEAN /\ 1 \in 0 .. 2
      OBVIOUS
    <3> QED
      BY <1>1, <3>1, UploadSet, Zenon
  <2>3. /\ a.phase = u.phase /\ a.global = u.global /\ a.cbInvoked = 1
        /\ a.errors = u.errors /\ a.successes = u.successes /\ a.completes = u.completes
    BY <1>1 DEF Upload
  <2> HIDE DEF a
  <2>4. /\ handleError(a).phase = a.phase /\ handleError(a).global = a.global
        /\ handleError(a).completes = a.completes /\ handleError(a).cbInvoked = a.cbInvoked
        /\ handleError(a).errors = AtMostTwo(a.errors) /\ handleError(a).successes = a.successes
    BY <2>2 DEF handleError, Upload
  <2>5. /\ v.phase = a.phase /\ v.global = a.global /\ v.completes = a.completes
        /\ \/ /\ v.errors = a.errors /\ v.successes = a.successes
              /\ v.cbInvoked \in {0, a.cbInvoked}
           \/ /\ v.errors = AtMostTwo(a.errors) /\ v.successes = a.successes
              /\ v.cbInvoked = a.cbInvoked
           \/ /\ v.errors = a.errors /\ v.successes = AtMostTwo(a.successes)
              /\ v.cbInvoked = a.cbInvoked
    BY <2>1, <2>2, <2>4, LookFields
  <2> HIDE DEF v
  <2>6. u.errors = 0 /\ u.successes = 0 /\ u.completes = 0
    BY <1>1, <1>3, UploadFields DEF UploadInv, UploadOutcomes
  <2>7. UploadInv(v) /\ (Told(u, v) => UploadOutcomes(v) = 1)
    BY <2>3, <2>5, <2>6, <2>8 DEF UploadInv, UploadOutcomes, Told, AtMostTwo
  <2> QED
    BY <2>3, <2>5, <2>6, <2>7 DEF v
<1> QED
  BY <1>2, <1>3

CountedUpload(u) == u.global /\ u.completes = 0 /\ u.phase # "vetoed"

\* An upload begins: vetoed, given up, or under way.
FilesSent(r, u) ==
  /\ upload' = [upload EXCEPT ![r] = u] /\ UploadInv(u)
  /\ upload[r].phase \in {"none", "closing"} /\ u.phase \in {"vetoed", "left", "breath"}
  /\ u.completes = 0 /\ u.global \in BOOLEAN
  /\ IF u.phase = "vetoed" /\ u.global
     THEN page' = [Watch(page, TRUE) EXCEPT !.active = @ - 1]
     ELSE page' = Watch(page, u.global)
  /\ UNCHANGED <<query, window, running>>

LEMMA FilesAreSent ==
  ASSUME NEW r \in Req, upload[r].phase \in {"none", "closing"}, FileUpload(r)
  PROVE  \E u \in Upload : FilesSent(r, u)
<1>1. PICK opts \in Uploads :
        LET u == [NoUpload EXCEPT !.global = opts.global, !.timeout = opts.timeout]
            busy == Watch(page, opts.global)
        IN /\ \/ /\ page' = IF opts.global THEN [busy EXCEPT !.active = @ - 1] ELSE busy
                 /\ upload' = [upload EXCEPT ![r] = [u EXCEPT !.phase = "vetoed"]]
              \/ /\ page' = busy
                 /\ upload' = [upload EXCEPT ![r] = [u EXCEPT !.phase = "left"]]
              \/ /\ page' = busy
                 /\ upload' = [upload EXCEPT ![r] = [u EXCEPT !.phase = "breath"]]
           /\ UNCHANGED <<query, window, running>>
  BY Zenon DEF FileUpload
<1> DEFINE u == [NoUpload EXCEPT !.global = opts.global, !.timeout = opts.timeout]
           At(phase) == [u EXCEPT !.phase = phase]
<1>2. opts.global \in BOOLEAN /\ opts.timeout \in BOOLEAN
  BY UploadsAreRecords
<1>3. u \in Upload
  BY <1>2, NoUploadType, UploadSet, Zenon
<1>4. /\ u.global = opts.global /\ u.completes = 0 /\ u.cbInvoked = 0 /\ u.errors = 0
      /\ u.successes = 0 /\ ~u.timer /\ ~u.retry /\ ~u.listening /\ ~u.blank /\ ~u.nav
  <2>1. /\ u.global = opts.global /\ u.completes = NoUpload.completes
        /\ u.cbInvoked = NoUpload.cbInvoked /\ u.errors = NoUpload.errors
        /\ u.successes = NoUpload.successes /\ u.timer = NoUpload.timer
        /\ u.retry = NoUpload.retry /\ u.listening = NoUpload.listening
        /\ u.blank = NoUpload.blank /\ u.nav = NoUpload.nav
    BY NoUploadType DEF Upload
  <2> QED
    BY <2>1 DEF NoUpload
<1> HIDE DEF u
<1>5. \A phase \in {"vetoed", "left", "breath"} :
        /\ At(phase) \in Upload /\ At(phase).phase = phase
        /\ At(phase).global = opts.global /\ At(phase).completes = 0
        /\ UploadInv(At(phase))
  <2> SUFFICES ASSUME NEW phase \in {"vetoed", "left", "breath"}
               PROVE  /\ At(phase) \in Upload /\ At(phase).phase = phase
                      /\ At(phase).global = opts.global /\ At(phase).completes = 0
                      /\ UploadInv(At(phase))
    OBVIOUS
  <2> DEFINE v == At(phase)
  <2>1. phase \in Phases
    BY DEF Phases
  <2>2. v \in Upload
    BY <1>3, <2>1, UploadSet
  <2>3. /\ v.phase = phase /\ v.global = u.global /\ v.completes = u.completes
        /\ v.cbInvoked = u.cbInvoked /\ v.errors = u.errors /\ v.successes = u.successes
        /\ v.timer = u.timer /\ v.retry = u.retry /\ v.listening = u.listening
        /\ v.blank = u.blank /\ v.nav = u.nav
    BY <1>3 DEF Upload
  <2> HIDE DEF v
  <2>4. UploadInv(v)
    BY <1>4, <2>2, <2>3 DEF UploadInv, UploadOutcomes
  <2> QED
    BY <1>4, <2>2, <2>3, <2>4 DEF v
<1>6. UNCHANGED <<query, window, running>>
  BY <1>1
<1>7. \/ /\ page' = IF opts.global THEN [Watch(page, opts.global) EXCEPT !.active = @ - 1]
                    ELSE Watch(page, opts.global)
         /\ upload' = [upload EXCEPT ![r] = At("vetoed")]
      \/ /\ page' = Watch(page, opts.global)
         /\ \E phase \in {"left", "breath"} : upload' = [upload EXCEPT ![r] = At(phase)]
  BY <1>1 DEF u
<1> HIDE DEF At
<1>8. opts.global => opts.global = TRUE
  BY <1>2
<1> QED
  BY <1>2, <1>5, <1>6, <1>7, <1>8 DEF FilesSent

\* A step of an upload that the counter does not see.
UploadGoesOn(r, v) ==
  /\ upload' = [upload EXCEPT ![r] = v] /\ UploadInv(v)
  /\ upload[r].phase \in {"breath", "posted"} /\ v.phase \in {upload[r].phase, "posted"}
  /\ v.global = upload[r].global /\ v.completes = upload[r].completes
  /\ UNCHANGED <<page, query, window>>

LEMMA PostGoesOn ==
  ASSUME NEW r \in Req, UploadInv(upload[r]), Post(r)
  PROVE  \E v \in Upload : UploadGoesOn(r, v) /\ running = None /\ running' = running
<1> DEFINE u == upload[r]
<1>1. PICK blank \in BOOLEAN :
        upload' = [upload EXCEPT ![r].phase = "posted", ![r].timer = upload[r].timeout,
                                 ![r].listening = TRUE, ![r].blank = blank, ![r].nav = TRUE]
  BY Zenon DEF Post
<1>2. /\ running = None /\ u.phase = "breath" /\ UNCHANGED <<page, query, window, running>>
  BY DEF Post
<1> DEFINE v == [u EXCEPT !.phase = "posted", !.timer = u.timeout, !.listening = TRUE,
                          !.blank = blank, !.nav = TRUE]
<1>3. upload' = [upload EXCEPT ![r] = v]
  BY <1>1
<1>4. u \in Upload
  BY DEF UploadInv
<1>5. v \in Upload
  <2>1. "posted" \in Phases /\ TRUE \in BOOLEAN /\ u.timeout \in BOOLEAN
    BY <1>4, UploadFields DEF Phases
  <2> QED
    BY <1>4, <2>1, UploadSet, Zenon
<1>6. /\ v.phase = "posted" /\ v.global = u.global /\ v.completes = u.completes
      /\ v.cbInvoked = u.cbInvoked /\ v.errors = u.errors /\ v.successes = u.successes
  BY <1>4 DEF Upload
<1> HIDE DEF v
<1>7. UploadInv(v)
  BY <1>2, <1>4, <1>5, <1>6, UploadFields DEF UploadInv, UploadOutcomes
<1> QED
  BY <1>2, <1>3, <1>5, <1>6, <1>7 DEF UploadGoesOn

\* cb has run for r, on an upload like the one before: if it tells the page, it
\* is for the first time.
LEMMA InvokeGoesOn ==
  ASSUME NEW r \in Req, upload \in [Req -> Upload], UploadInv(upload[r]), upload[r].phase = "posted",
         NEW u \in Upload, SameUpload(upload[r], u), Invoke(r, u)
  PROVE  \E v \in Upload :
           /\ UploadGoesOn(r, v) /\ running = None
           /\ \/ running' = running
              \/ running' = Run(r, "upload") /\ v.phase = "posted" /\ v.completes = 0 /\ UploadOutcomes(v) = 1
<1>1. UploadInv(u) /\ u.phase = "posted"
  BY SameUploadInv DEF SameUpload
<1> DEFINE v == cb(u)
<1>2. /\ UploadInv(v) /\ v.phase = "posted" /\ v.global = u.global
      /\ v.completes = u.completes
      /\ Told(u, v) => v.completes = 0 /\ UploadOutcomes(v) = 1
  BY <1>1, cbFields
<1>3. /\ running = None /\ upload' = [upload EXCEPT ![r] = v]
      /\ running' = (IF Told(u, v) THEN Run(r, "upload") ELSE running)
      /\ UNCHANGED <<page, query, window>>
  BY DEF Invoke
<1> HIDE DEF v
<1> QED
  BY <1>2, <1>3 DEF UploadGoesOn, SameUpload, UploadInv

LEMMA LoadGoesOn ==
  ASSUME NEW r \in Req, upload \in [Req -> Upload], UploadInv(upload[r]),
         BlankLoads(r) \/ AnswerLoads(r) \/ LookAgain(r) \/ UploadTimeout(r)
  PROVE  \E v \in Upload :
           /\ UploadGoesOn(r, v) /\ running = None
           /\ \/ running' = running
              \/ running' = Run(r, "upload") /\ v.phase = "posted" /\ v.completes = 0 /\ UploadOutcomes(v) = 1
<1> DEFINE u == upload[r]
           Loaded(v) == v \in Upload /\ SameUpload(u, v)
<1>1. u \in Upload /\ TRUE \in BOOLEAN /\ FALSE \in BOOLEAN
  OBVIOUS
<1>2. u.phase = "posted"
  BY DEF BlankLoads, AnswerLoads, LookAgain, UploadTimeout, UploadInv
<1>3. Loaded([u EXCEPT !.blank = FALSE]) /\ Loaded([u EXCEPT !.retry = FALSE])
  <2>1. [u EXCEPT !.blank = FALSE] \in Upload /\ [u EXCEPT !.retry = FALSE] \in Upload
    BY <1>1, UploadSet
  <2>2. SameUpload(u, [u EXCEPT !.blank = FALSE]) /\ SameUpload(u, [u EXCEPT !.retry = FALSE])
    BY <1>1 DEF Upload, SameUpload
  <2> QED
    BY <2>1, <2>2
<1>4. \A doc \in {"good", "bad"} :
        Loaded([u EXCEPT !.nav = FALSE, !.blank = FALSE, !.doc = doc])
  <2> SUFFICES ASSUME NEW doc \in {"good", "bad"}
               PROVE  Loaded([u EXCEPT !.nav = FALSE, !.blank = FALSE, !.doc = doc])
    OBVIOUS
  <2>1. doc \in {"empty", "good", "bad"}
    OBVIOUS
  <2>2. [u EXCEPT !.nav = FALSE, !.blank = FALSE, !.doc = doc] \in Upload
    BY <1>1, <2>1, UploadSet, Zenon
  <2>3. SameUpload(u, [u EXCEPT !.nav = FALSE, !.blank = FALSE, !.doc = doc])
    BY <1>1 DEF Upload, SameUpload
  <2> QED
    BY <2>2, <2>3
<1>5. Loaded([u EXCEPT !.timer = FALSE, !.timedOut = TRUE])
  <2>1. [u EXCEPT !.timer = FALSE, !.timedOut = TRUE] \in Upload
    BY <1>1, UploadSet, Zenon
  <2>2. SameUpload(u, [u EXCEPT !.timer = FALSE, !.timedOut = TRUE])
    BY <1>1 DEF Upload, SameUpload
  <2> QED
    BY <2>1, <2>2
<1>6. \E v : Loaded(v) /\ (Loads(r, v) \/ Invoke(r, v))
  <2>1. CASE BlankLoads(r)
    BY <1>3, <2>1 DEF BlankLoads
  <2>2. CASE AnswerLoads(r)
    BY <1>4, <2>2 DEF AnswerLoads
  <2>3. CASE LookAgain(r)
    BY <1>3, <2>3 DEF LookAgain
  <2>4. CASE UploadTimeout(r)
    BY <1>5, <2>4 DEF UploadTimeout
  <2> QED
    BY <2>1, <2>2, <2>3, <2>4
<1>7. PICK v \in Upload : SameUpload(u, v) /\ (Loads(r, v) \/ Invoke(r, v))
  BY <1>6
<1>8. CASE Invoke(r, v)
  BY <1>2, <1>7, <1>8, InvokeGoesOn
<1>9. CASE /\ running = None /\ upload' = [upload EXCEPT ![r] = v]
           /\ UNCHANGED <<page, query, window, running>>
  <2>1. UploadInv(v)
    BY <1>2, <1>7, SameUploadInv
  <2> QED
    BY <1>2, <1>7, <1>9, <2>1 DEF UploadGoesOn, SameUpload
<1> QED
  BY <1>7, <1>8, <1>9 DEF Loads

LEMMA AbortGoesOn ==
  ASSUME NEW r \in Req, upload \in [Req -> Upload], UploadInv(upload[r]), UploadAbort(r)
  PROVE  \E v \in Upload : UploadGoesOn(r, v) /\ SameUpload(upload[r], v) /\ running' = running
<1> DEFINE u == upload[r]
           a == [u EXCEPT !.aborted = TRUE]
           b == [u EXCEPT !.aborted = TRUE, !.nav = FALSE, !.blank = TRUE, !.doc = "empty"]
           v == IF u.phase = "breath" THEN a ELSE b
<1>1. /\ u \in Upload /\ TRUE \in BOOLEAN /\ FALSE \in BOOLEAN /\ "empty" \in {"empty", "good", "bad"}
  OBVIOUS
<1>2. /\ u.phase \in {"breath", "posted"} /\ upload' = [upload EXCEPT ![r] = v]
      /\ UNCHANGED <<page, query, window, running>>
  BY DEF UploadAbort
<1>3. a \in Upload /\ b \in Upload
  BY <1>1, UploadSet, Zenon
<1>4. /\ SameUpload(u, a) /\ SameUpload(u, b)
      /\ a.timer = u.timer /\ a.retry = u.retry /\ a.listening = u.listening
      /\ a.blank = u.blank /\ a.nav = u.nav
  BY <1>1 DEF Upload, SameUpload
<1>5. v = a \/ (u.phase = "posted" /\ v = b)
  BY <1>2
<1> HIDE DEF a, b, v
<1>6. UploadInv(v)
  <2>1. CASE v = a
    BY <1>3, <1>4, <2>1, UploadFields DEF UploadInv, SameUpload, UploadOutcomes
  <2>2. CASE u.phase = "posted" /\ v = b
    BY <1>3, <1>4, <2>2, SameUploadInv
  <2> QED
    BY <1>5, <2>1, <2>2
<1>7. v \in Upload /\ SameUpload(u, v)
  BY <1>3, <1>4, <1>5
<1> QED
  BY <1>2, <1>6, <1>7 DEF UploadGoesOn, SameUpload

LEMMA UploadEnds ==
  ASSUME page \in Page, upload \in [Req -> Upload], UploadsInv, UploadRunning,
         running \in [req : Req, by : Callers] \cup {None}, UploadReturns
  PROVE  /\ running.req \in Req /\ running' = None /\ UNCHANGED <<query, window>>
         /\ \E v \in Upload :
              LET u == upload[running.req] IN
              /\ upload' = [upload EXCEPT ![running.req] = v] /\ UploadInv(v)
              /\ v.phase = u.phase /\ v.global = u.global
              /\ u.phase = "posted" /\ u.completes = 0 /\ v.completes = 1
              /\ page' = Unwatch(page, u.global)
<1> DEFINE r == running.req
           u == upload[r]
           v == complete(u)
<1>1. /\ running # None /\ running.by = "upload" /\ running' = None
      /\ upload' = [upload EXCEPT ![r] = v] /\ page' = Unwatch(page, u.global)
      /\ UNCHANGED <<query, window>>
  BY DEF UploadReturns
<1>2. r \in Req
  BY <1>1
<1>3. u.phase = "posted" /\ u.completes = 0 /\ UploadOutcomes(u) = 1 /\ UploadInv(u) /\ u \in Upload
  BY <1>1, <1>2 DEF UploadRunning, UploadsInv, UploadInv
<1>4. v \in Upload
  BY <1>3, UploadToldTypes
<1>5. /\ v.phase = u.phase /\ v.global = u.global /\ v.cbInvoked = u.cbInvoked
      /\ v.errors = u.errors /\ v.successes = u.successes /\ v.completes = AtMostTwo(u.completes)
  BY <1>3 DEF complete, Upload
<1> HIDE DEF v
<1>6. UploadInv(v) /\ v.completes = 1
  BY <1>3, <1>4, <1>5 DEF UploadInv, UploadOutcomes, AtMostTwo
<1> QED
  BY <1>1, <1>2, <1>3, <1>4, <1>5, <1>6

-----------------------------------------------------------------------------
(* Counting the calls under way. *)

CountedCall(c) == c.s # None /\ c.s.global /\ ~c.vetoed /\ c.completes = 0

One(b) == IF b THEN 1 ELSE 0

LEMMA Recount ==
  ASSUME NEW S \in SUBSET Req, NEW T \in SUBSET Req, NEW r \in Req, T \ {r} = S \ {r}
  PROVE  /\ Cardinality(S) \in Nat /\ Cardinality(T) \in Nat
         /\ Cardinality(T) = Cardinality(S) + One(r \in T) - One(r \in S)
<1>1. \A R \in SUBSET Req : IsFiniteSet(R) /\ Cardinality(R) \in Nat
  BY RequestsAreFinite, FS_Subset, FS_CardinalityType
<1>2. \A R \in SUBSET Req : r \in R => Cardinality(R \ {r}) = Cardinality(R) - 1
  BY <1>1, FS_RemoveElement
<1>3. \A R \in SUBSET Req : r \notin R => R \ {r} = R
  OBVIOUS
<1>4. \A R \in SUBSET Req : Cardinality(R \ {r}) = Cardinality(R) - One(r \in R)
  BY <1>1, <1>2, <1>3 DEF One
<1>5. Cardinality(S) - One(r \in S) = Cardinality(T) - One(r \in T)
  BY <1>4
<1> QED
  BY <1>1, <1>5 DEF One

Pending == Cardinality(PendingQueries) + Cardinality(PendingUploads)

LEMMA PendingSets ==
  /\ PendingQueries = {q \in Req : CountedCall(query[q])}
  /\ PendingUploads = {q \in Req : CountedUpload(upload[q])}
  BY DEF PendingQueries, PendingUploads, CountedCall, CountedUpload

LEMMA PendingIsCount ==
  /\ Pending \in Nat
  /\ Cardinality(PendingQueries) \in Nat /\ Cardinality(PendingUploads) \in Nat
<1>1. \A R \in SUBSET Req : Cardinality(R) \in Nat
  BY RequestsAreFinite, FS_Subset, FS_CardinalityType
<1>2. Cardinality(PendingQueries) \in Nat /\ Cardinality(PendingUploads) \in Nat
  BY <1>1, PendingSets
<1> QED
  BY <1>2 DEF Pending

\* A step of one query, or of one upload, moves the count by what that one is worth.
LEMMA QueryCounts ==
  ASSUME query \in [Req -> Query], NEW r \in Req, NEW d, query' = [query EXCEPT ![r] = d],
         PendingUploads' = PendingUploads
  PROVE  Pending' = Pending + One(CountedCall(d)) - One(CountedCall(query[r]))
<1>1. /\ PendingQueries = {q \in Req : CountedCall(query[q])}
      /\ PendingQueries' = {q \in Req : CountedCall(query'[q])}
  BY DEF PendingQueries, CountedCall
<1>2. query'[r] = d /\ \A q \in Req \ {r} : query'[q] = query[q]
  OBVIOUS
<1>3. PendingQueries' \ {r} = PendingQueries \ {r}
  BY <1>1, <1>2
<1>4. /\ PendingQueries \in SUBSET Req /\ PendingQueries' \in SUBSET Req
      /\ r \in PendingQueries <=> CountedCall(query[r])
      /\ r \in PendingQueries' <=> CountedCall(d)
  BY <1>1, <1>2
<1>5. /\ Cardinality(PendingQueries') \in Nat /\ Cardinality(PendingQueries) \in Nat
      /\ Cardinality(PendingQueries') = Cardinality(PendingQueries)
           + One(r \in PendingQueries') - One(r \in PendingQueries)
  BY <1>3, <1>4, Recount
<1>6. One(r \in PendingQueries') = One(CountedCall(d))
      /\ One(r \in PendingQueries) = One(CountedCall(query[r]))
  BY <1>4 DEF One
<1>7. Cardinality(PendingUploads) \in Nat
  BY PendingIsCount
<1>8. Pending' = Cardinality(PendingQueries') + Cardinality(PendingUploads)
  BY DEF Pending
<1> QED
  BY <1>5, <1>6, <1>7, <1>8 DEF Pending, One

LEMMA UploadCounts ==
  ASSUME upload \in [Req -> Upload], NEW r \in Req, NEW v, upload' = [upload EXCEPT ![r] = v],
         PendingQueries' = PendingQueries
  PROVE  Pending' = Pending + One(CountedUpload(v)) - One(CountedUpload(upload[r]))
<1>1. /\ PendingUploads = {q \in Req : CountedUpload(upload[q])}
      /\ PendingUploads' = {q \in Req : CountedUpload(upload'[q])}
  BY DEF PendingUploads, CountedUpload
<1>2. upload'[r] = v /\ \A q \in Req \ {r} : upload'[q] = upload[q]
  OBVIOUS
<1>3. PendingUploads' \ {r} = PendingUploads \ {r}
  BY <1>1, <1>2
<1>4. /\ PendingUploads \in SUBSET Req /\ PendingUploads' \in SUBSET Req
      /\ r \in PendingUploads <=> CountedUpload(upload[r])
      /\ r \in PendingUploads' <=> CountedUpload(v)
  BY <1>1, <1>2
<1>5. /\ Cardinality(PendingUploads') \in Nat /\ Cardinality(PendingUploads) \in Nat
      /\ Cardinality(PendingUploads') = Cardinality(PendingUploads)
           + One(r \in PendingUploads') - One(r \in PendingUploads)
  BY <1>3, <1>4, Recount
<1>6. One(r \in PendingUploads') = One(CountedUpload(v))
      /\ One(r \in PendingUploads) = One(CountedUpload(upload[r]))
  BY <1>4 DEF One
<1>7. Cardinality(PendingQueries) \in Nat
  BY PendingIsCount
<1>8. Pending' = Cardinality(PendingQueries) + Cardinality(PendingUploads')
  BY DEF Pending
<1> QED
  BY <1>5, <1>6, <1>7, <1>8 DEF Pending, One

\* jQuery.active is n, and the page sees it: PageSays is what CounterIsTruthful
\* says of the number of calls under way.
PageSays(p, n, vetoed) == p.active = n /\ (n > 0 => p.shown) /\ (p.shown => n > 0 \/ vetoed)

LEMMA PageCounts ==
  ASSUME NEW p \in Page, NEW n \in Nat, NEW vetoed \in BOOLEAN, PageSays(p, n, vetoed)
  PROVE  /\ \A g \in BOOLEAN :
              /\ PageSays(Watch(p, g), n + One(g), vetoed)
              /\ PageSays(Unwatch(Watch(p, g), g), n, vetoed)
              /\ n > 0 \/ ~g => PageSays(Unwatch(p, g), n - One(g), vetoed)
         /\ PageSays([Watch(p, TRUE) EXCEPT !.active = @ - 1], n, TRUE)
  BY DEF PageSays, Watch, Unwatch, One, Page

-----------------------------------------------------------------------------
(* The inductive invariant, and the steps one kind at a time. *)

AllRegular == \A r \in Req : RegularCall(query[r])

SomeVetoed == \E r \in Req : VetoedUpload(r)

CounterInv == AllRegular => PageSays(page, Pending, SomeVetoed)

FormInv ==
  /\ FormTypeOK
  /\ CallsInv /\ NameInv /\ QueryRunning
  /\ UploadsInv /\ UploadRunning
  /\ CounterInv

LEMMA InvParts ==
  ASSUME FormInv
  PROVE  /\ page \in Page /\ WindowTyped
         /\ query \in [Req -> Query] /\ upload \in [Req -> Upload]
         /\ window \in [Req \cup {Shared} -> Req \cup {None}]
         /\ running \in [req : Req, by : Callers] \cup {None}
  BY DEF FormInv, FormTypeOK, TypeOK, Page, WindowTyped

LEMMA ClosingInv ==
  ASSUME NEW u, UploadInv(u), u.phase = "none"
  PROVE  LET v == [u EXCEPT !.phase = "closing"] IN
         v \in Upload /\ UploadInv(v) /\ ~v.global /\ v.phase = "closing"
<1> DEFINE v == [u EXCEPT !.phase = "closing"]
<1>1. u \in Upload
  BY DEF UploadInv
<1>2. v \in Upload
  <2>1. "closing" \in Phases
    BY DEF Phases
  <2> QED
    BY <1>1, <2>1, UploadSet
<1>3. /\ v.phase = "closing" /\ v.global = u.global /\ v.completes = u.completes
      /\ v.cbInvoked = u.cbInvoked /\ v.errors = u.errors /\ v.successes = u.successes
      /\ v.timer = u.timer /\ v.retry = u.retry /\ v.listening = u.listening
      /\ v.blank = u.blank /\ v.nav = u.nav
  BY <1>1 DEF Upload
<1> HIDE DEF v
<1>4. UploadInv(v) /\ ~v.global
  BY <1>2, <1>3 DEF UploadInv, UploadOutcomes
<1> QED
  BY <1>2, <1>3, <1>4 DEF v

\* A call of ajax; with closeKeepAlive it also marks the upload it is made for.
LEMMA CallKeeps ==
  ASSUME FormInv, NEW r \in Req, NEW s \in Settings, NEW c \in Query, CallMade(r, s, c),
         upload[r].phase = "none",
         upload' = upload \/ upload' = [upload EXCEPT ![r].phase = "closing"]
  PROVE  FormInv'
<1>1. /\ page \in Page /\ WindowTyped /\ query \in [Req -> Query] /\ upload \in [Req -> Upload]
      /\ window \in [Req \cup {Shared} -> Req \cup {None}]
      /\ running \in [req : Req, by : Callers] \cup {None}
      /\ CallsInv /\ NameInv /\ QueryRunning /\ UploadsInv /\ UploadRunning /\ CounterInv
      /\ FormTypeOK
  BY InvParts DEF FormInv
<1>2. /\ query[r].xhr = "none" /\ DefineJsonp(r, s)
      /\ query' = [query EXCEPT ![r] = c] /\ CallInv(r, c) /\ c.s = s /\ c.xhr # "none"
  BY DEF CallMade
<1>3. /\ query'[r] = c /\ \A q \in Req \ {r} : query'[q] = query[q]
  BY <1>1, <1>2
<1>4. query[r] = Unused
  BY <1>1, <1>2 DEF CallsInv, CallInv, CallPlaced
<1>5. /\ upload' \in [Req -> Upload]
      /\ \A q \in Req : UploadInv(upload'[q])
      /\ \A q \in Req \ {r} : upload'[q] = upload[q]
      /\ ~upload[r].global /\ ~upload'[r].global /\ upload[r].phase # "posted"
  <2>1. UploadInv(upload[r]) /\ ~upload[r].global
    BY <1>1 DEF UploadsInv, UploadInv
  <2>2. CASE upload' = upload
    BY <1>1, <2>1, <2>2 DEF UploadsInv
  <2>3. CASE upload' # upload
    <3> DEFINE v == [upload[r] EXCEPT !.phase = "closing"]
    <3>1. upload' = [upload EXCEPT ![r] = v]
      BY <2>3
    <3>2. v \in Upload /\ UploadInv(v) /\ ~v.global
      BY <2>1, ClosingInv
    <3> HIDE DEF v
    <3> QED
      BY <1>1, <2>1, <3>1, <3>2 DEF UploadsInv
  <2> QED
    BY <2>2, <2>3
<1>6. page' \in Page /\ running' \in [req : Req, by : Callers] \cup {None}
  BY <1>1, PageTypes, RunType DEF CallMade, Callers
<1>7. FormTypeOK'
  BY <1>1, <1>2, <1>5, <1>6, CallTypeOK
<1>8. CallsInv'
  BY <1>1, <1>2, <1>3 DEF CallsInv
<1>9. NameInv'
  BY <1>1, NamesAfterCall
<1>10. QueryRunning'
  <2> SUFFICES ASSUME running' # None, running'.by # "upload"
               PROVE  /\ Running(query'[running'.req])
                      /\ running'.by = "answer" => query'[running'.req].xhr = "done"
    BY DEF QueryRunning, Running
  <2>1. CASE running' = running
    <3>1. Running(query[running.req]) /\ running.req \in Req
          /\ (running.by = "answer" => query[running.req].xhr = "done")
      BY <1>1, <2>1 DEF QueryRunning
    <3>2. running.req # r
      BY <1>4, <3>1, UnusedFields DEF Running
    <3> QED
      BY <1>3, <2>1, <3>1, <3>2
  <2>2. CASE /\ running' = Run(r, "answer") /\ c.xhr = "done" /\ c.requestDone
             /\ c.completes = 0
    <3>1. running'.req = r
      BY <2>2 DEF Run
    <3>2. c.s # None
      BY <1>2, SettingFields
    <3> QED
      BY <1>3, <2>2, <3>1, <3>2 DEF Running
  <2> QED
    BY <2>1, <2>2 DEF CallMade
<1>11. UploadsInv'
  BY <1>5 DEF UploadsInv
<1>12. UploadRunning'
  <2> SUFFICES ASSUME running' # None, running'.by = "upload"
               PROVE  /\ upload'[running'.req].phase = "posted"
                      /\ upload'[running'.req].completes = 0
                      /\ UploadOutcomes(upload'[running'.req]) = 1
    BY DEF UploadRunning, UploadOutcomes
  <2>1. running' = running
    BY DEF CallMade, Run
  <2>2. /\ upload[running.req].phase = "posted" /\ upload[running.req].completes = 0
        /\ UploadOutcomes(upload[running.req]) = 1 /\ running.req \in Req
    BY <1>1, <2>1 DEF UploadRunning
  <2>3. running.req # r
    BY <1>5, <2>2
  <2> QED
    BY <1>5, <2>1, <2>2, <2>3
<1>13. CounterInv'
  <2> SUFFICES ASSUME AllRegular' PROVE PageSays(page', Pending', SomeVetoed')
    BY DEF CounterInv
  <2>1. RegularCall(c) /\ \A q \in Req \ {r} : RegularCall(query[q])
    BY <1>3 DEF AllRegular
  <2>2. AllRegular
    BY <1>4, <2>1, UnusedFields DEF AllRegular, RegularCall
  <2>3. PageSays(page, Pending, SomeVetoed)
    BY <1>1, <2>2 DEF CounterInv
  <2>4. SomeVetoed' = SomeVetoed
    BY <1>5 DEF SomeVetoed, VetoedUpload
  <2>5. PendingUploads' = PendingUploads
    BY <1>5 DEF PendingUploads
  <2>6. ~CountedCall(query[r])
    BY <1>4, UnusedFields DEF CountedCall
  <2>7. Pending' = Pending + One(CountedCall(c))
    <3>1. Pending' = Pending + One(CountedCall(c)) - One(CountedCall(query[r]))
      BY <1>1, <1>2, <2>5, QueryCounts
    <3>2. One(CountedCall(query[r])) = 0 /\ One(CountedCall(c)) \in {0, 1}
      BY <2>6 DEF One
    <3> QED
      BY <3>1, <3>2, PendingIsCount
  <2>8. s.global \in BOOLEAN /\ s # None
    BY SettingFields
  <2>9. CountedCall(c) <=> s.global /\ ~c.vetoed /\ c.completes = 0
    BY <1>2, <2>8 DEF CountedCall
  <2>10. /\ Pending \in Nat /\ SomeVetoed \in BOOLEAN
    BY PendingIsCount DEF SomeVetoed
  <2>11. CASE c.vetoed /\ page' = Unwatch(Watch(page, s.global), s.global)
    <3>1. Pending' = Pending
      BY <2>7, <2>9, <2>10, <2>11 DEF One
    <3> QED
      BY <1>1, <2>3, <2>4, <2>8, <2>10, <2>11, <3>1, PageCounts
  <2>12. CASE ~c.vetoed /\ c.completes = 0 /\ page' = Watch(page, s.global)
    <3>1. Pending' = Pending + One(s.global)
      BY <2>7, <2>9, <2>12 DEF One
    <3> QED
      BY <1>1, <2>3, <2>4, <2>8, <2>10, <2>12, <3>1, PageCounts
  <2> QED
    BY <2>1, <2>11, <2>12 DEF CallMade, RegularCall
<1> QED
  BY <1>7, <1>8, <1>9, <1>10, <1>11, <1>12, <1>13 DEF FormInv

LEMMA PendingNext == Pending' \in Nat
<1>1. \A R \in SUBSET Req : Cardinality(R) \in Nat
  BY RequestsAreFinite, FS_Subset, FS_CardinalityType
<1>2. PendingQueries' \in SUBSET Req /\ PendingUploads' \in SUBSET Req
  BY DEF PendingQueries, PendingUploads
<1> QED
  BY <1>1, <1>2 DEF Pending

\* A step of one query.
LEMMA QueryKeeps ==
  ASSUME FormInv, NEW r \in Req, NEW d \in Query, QueryMoves(r, d), upload' = upload,
         \/ window' = window
         \/ window' = [window EXCEPT ![Name(r, query[r].s)] = None],
         \/ running' = None
         \/ running' = running /\ query[r].xhr \in {"sent", "open", "unsent"}
         \/ \E by \in {"answer", "script", "jsonp"} :
              /\ running' = Run(r, by) /\ Running(d)
              /\ by = "answer" => d.xhr = "done"
  PROVE  FormInv'
<1>1. /\ page \in Page /\ WindowTyped /\ query \in [Req -> Query] /\ upload \in [Req -> Upload]
      /\ window \in [Req \cup {Shared} -> Req \cup {None}]
      /\ running \in [req : Req, by : Callers] \cup {None}
      /\ CallsInv /\ NameInv /\ QueryRunning /\ UploadsInv /\ UploadRunning /\ CounterInv
      /\ FormTypeOK
  BY InvParts DEF FormInv
<1>2. /\ query[r].s # None /\ query' = [query EXCEPT ![r] = d]
      /\ CallInv(r, d) /\ SameCall(query[r], d) /\ page' \in Page
  BY DEF QueryMoves
<1>3. /\ query'[r] = d /\ \A q \in Req \ {r} : query'[q] = query[q]
  BY <1>1, <1>2
<1>4. \A q \in Req : SameCall(query[q], query'[q])
  BY <1>2, <1>3 DEF SameCall
<1>5. /\ window' \in [Req \cup {Shared} -> Req \cup {None}]
      /\ \A n \in Req \cup {Shared} : window'[n] \in {window[n], None}
  BY <1>1
<1>6. running' \in [req : Req, by : Callers] \cup {None}
  BY <1>1, RunType DEF Callers
<1>7. FormTypeOK'
  BY <1>1, <1>2, <1>5, <1>6 DEF FormTypeOK, TypeOK, Page
<1>8. CallsInv'
  BY <1>1, <1>2, <1>3 DEF CallsInv
<1>9. NameInv'
  BY <1>1, <1>4, <1>5, NamesKept
<1>10. QueryRunning'
  <2> SUFFICES ASSUME running' # None, running'.by # "upload"
               PROVE  /\ Running(query'[running'.req])
                      /\ running'.by = "answer" => query'[running'.req].xhr = "done"
    BY DEF QueryRunning, Running
  <2>1. CASE running' = running /\ query[r].xhr \in {"sent", "open", "unsent"}
    <3>1. Running(query[running.req]) /\ running.req \in Req
          /\ (running.by = "answer" => query[running.req].xhr = "done")
      BY <1>1, <2>1 DEF QueryRunning
    <3>2. CASE running.req = r
      BY <1>2, <1>3, <2>1, <3>1, <3>2 DEF Running, RegularCall, SameCall
    <3>3. CASE running.req # r
      BY <1>3, <2>1, <3>1, <3>3
    <3> QED
      BY <3>2, <3>3
  <2>2. CASE \E by \in {"answer", "script", "jsonp"} :
               /\ running' = Run(r, by) /\ Running(d)
               /\ by = "answer" => d.xhr = "done"
    BY <1>3, <2>2 DEF Run
  <2> QED
    BY <2>1, <2>2
<1>11. UploadsInv'
  BY <1>1 DEF UploadsInv
<1>12. UploadRunning'
  <2>1. running' # None /\ running'.by = "upload" => running' = running
    BY DEF Run
  <2> QED
    BY <1>1, <2>1 DEF UploadRunning, UploadOutcomes
<1>13. CounterInv'
  <2> SUFFICES ASSUME AllRegular' PROVE PageSays(page', Pending', SomeVetoed')
    BY DEF CounterInv
  <2>1. RegularCall(d) /\ \A q \in Req \ {r} : RegularCall(query[q])
    BY <1>3 DEF AllRegular
  <2>2. AllRegular
    BY <1>2, <2>1 DEF AllRegular, RegularCall, SameCall
  <2>3. PageSays(page, Pending, SomeVetoed)
    BY <1>1, <2>2 DEF CounterInv
  <2>4. SomeVetoed' = SomeVetoed /\ PendingUploads' = PendingUploads
    BY DEF SomeVetoed, VetoedUpload, PendingUploads
  <2>5. Pending' = Pending + One(CountedCall(d)) - One(CountedCall(query[r]))
    BY <1>1, <1>2, <2>4, QueryCounts
  <2>6. Pending \in Nat /\ SomeVetoed \in BOOLEAN
    BY PendingIsCount DEF SomeVetoed
  <2>7. CASE page' = page /\ d.completes = query[r].completes
    <3>1. One(CountedCall(d)) = One(CountedCall(query[r])) /\ One(CountedCall(d)) \in {0, 1}
      BY <1>2, <2>7 DEF One, CountedCall, SameCall
    <3> QED
      BY <2>3, <2>4, <2>5, <2>6, <2>7, <3>1
  <2>8. CASE /\ query[r].completes = 0 /\ ~query[r].vetoed /\ d.completes = 1
             /\ page' = Unwatch(page, query[r].s.global)
    <3>1. query[r].s.global \in BOOLEAN
      BY <1>1, <1>2, QueryFields, SettingFields
    <3>2. One(CountedCall(d)) = 0 /\ One(CountedCall(query[r])) = One(query[r].s.global)
          /\ One(query[r].s.global) \in {0, 1}
      BY <1>2, <2>8, <3>1 DEF One, CountedCall
    <3>3. Pending' = Pending - One(query[r].s.global)
      BY <2>5, <2>6, <3>2
    <3>4. Pending > 0 \/ ~query[r].s.global
      <4>1. Pending' \in Nat
        BY PendingNext
      <4> QED
        BY <2>6, <3>1, <3>3, <4>1 DEF One
    <3>5. PageSays(Unwatch(page, query[r].s.global), Pending - One(query[r].s.global), SomeVetoed)
      <4>1. PICK g, n, v : g = query[r].s.global /\ n = Pending /\ v = SomeVetoed
        OBVIOUS
      <4>2. g \in BOOLEAN /\ n \in Nat /\ v \in BOOLEAN /\ PageSays(page, n, v) /\ (n > 0 \/ ~g)
        BY <2>3, <2>6, <3>1, <3>4, <4>1
      <4>3. PageSays(Unwatch(page, g), n - One(g), v)
        BY <1>1, <4>2, PageCounts, ZenonT(60)
      <4> QED
        BY <4>1, <4>3
    <3> QED
      BY <2>4, <2>8, <3>3, <3>5
  <2> QED
    BY <2>1, <2>7, <2>8 DEF QueryMoves
<1> QED
  BY <1>7, <1>8, <1>9, <1>10, <1>11, <1>12, <1>13 DEF FormInv

\* A step in which calls of one JSONP name meet: the counter is then not
\* promised to be right any more.
LEMMA MeetingKeeps ==
  ASSUME FormInv, NamesMeet, upload' = upload,
         \/ window' = window
         \/ \E n : window' = [window EXCEPT ![n] = None],
         \/ running' = None
         \/ \E o \in Req : running' = Run(o, "jsonp") /\ Running(query'[o])
  PROVE  FormInv'
<1>1. /\ WindowTyped /\ window \in [Req \cup {Shared} -> Req \cup {None}]
      /\ CallsInv /\ NameInv /\ QueryRunning /\ UploadsInv /\ UploadRunning /\ FormTypeOK
  BY InvParts DEF FormInv
<1>2. /\ query' \in [Req -> Query] /\ page' \in Page
      /\ \A q \in Req : CallInv(q, query'[q]) /\ SameCall(query[q], query'[q])
      /\ \E q \in Req : ~RegularCall(query'[q])
  BY DEF NamesMeet
<1>3. /\ window' \in [Req \cup {Shared} -> Req \cup {None}]
      /\ \A n \in Req \cup {Shared} : window'[n] \in {window[n], None}
  BY <1>1
<1>4. running' \in [req : Req, by : Callers] \cup {None}
  BY RunType DEF Callers
<1>5. FormTypeOK'
  BY <1>1, <1>2, <1>3, <1>4 DEF FormTypeOK, TypeOK, Page
<1>6. CallsInv' /\ UploadsInv'
  BY <1>1, <1>2 DEF CallsInv, UploadsInv
<1>7. NameInv'
  BY <1>1, <1>2, <1>3, NamesKept
<1>8. QueryRunning' /\ UploadRunning'
  <2>1. running' # None => \E o \in Req : running'.req = o /\ running'.by = "jsonp" /\ Running(query'[o])
    BY DEF Run
  <2> QED
    BY <2>1 DEF QueryRunning, UploadRunning
<1>9. CounterInv'
  BY <1>2 DEF CounterInv, AllRegular
<1> QED
  BY <1>5, <1>6, <1>7, <1>8, <1>9 DEF FormInv

\* The part of the invariant that only the queries are in.
LEMMA QueriesStay ==
  ASSUME CallsInv, NameInv, UNCHANGED <<query, window>>
  PROVE  CallsInv' /\ NameInv' /\ AllRegular' = AllRegular /\ PendingQueries' = PendingQueries
  BY DEF CallsInv, NameInv, Name, AllRegular, PendingQueries

\* fileUpload, up to the 10 ms timer
LEMMA FilesKeep ==
  ASSUME FormInv, NEW r \in Req, NEW u \in Upload, FilesSent(r, u)
  PROVE  FormInv'
<1>1. /\ page \in Page /\ upload \in [Req -> Upload]
      /\ running \in [req : Req, by : Callers] \cup {None}
      /\ CallsInv /\ NameInv /\ QueryRunning /\ UploadsInv /\ UploadRunning /\ CounterInv
      /\ FormTypeOK
  BY InvParts DEF FormInv
<1>2. /\ upload' = [upload EXCEPT ![r] = u] /\ UploadInv(u)
      /\ upload[r].phase \in {"none", "closing"} /\ u.phase \in {"vetoed", "left", "breath"}
      /\ u.completes = 0 /\ u.global \in BOOLEAN
      /\ UNCHANGED <<query, window, running>>
      /\ \/ u.phase = "vetoed" /\ u.global /\ page' = [Watch(page, TRUE) EXCEPT !.active = @ - 1]
         \/ ~(u.phase = "vetoed" /\ u.global) /\ page' = Watch(page, u.global)
  BY DEF FilesSent
<1>3. upload'[r] = u /\ \A q \in Req \ {r} : upload'[q] = upload[q]
  BY <1>1, <1>2
<1>4. page' \in Page
  <2>1. Watch(page, TRUE) \in Page /\ Watch(page, u.global) \in Page
    BY <1>1, PageTypes
  <2>2. \A p \in Page : [p EXCEPT !.active = @ - 1] \in Page
    BY DEF Page
  <2> QED
    BY <1>2, <2>1, <2>2
<1>5. FormTypeOK'
  BY <1>1, <1>2, <1>4, UploadTypeOK
<1>6. /\ CallsInv' /\ NameInv' /\ QueryRunning'
      /\ AllRegular' = AllRegular /\ PendingQueries' = PendingQueries
  BY <1>1, <1>2, QueriesStay DEF QueryRunning
<1>7. UploadsInv'
  BY <1>1, <1>2, <1>3 DEF UploadsInv
<1>8. UploadRunning'
  <2> SUFFICES ASSUME running # None, running.by = "upload"
               PROVE  /\ upload'[running.req].phase = "posted"
                      /\ upload'[running.req].completes = 0
                      /\ UploadOutcomes(upload'[running.req]) = 1
    BY <1>2 DEF UploadRunning, UploadOutcomes
  <2>1. /\ upload[running.req].phase = "posted" /\ upload[running.req].completes = 0
        /\ UploadOutcomes(upload[running.req]) = 1 /\ running.req \in Req
    BY <1>1 DEF UploadRunning
  <2>2. running.req # r
    BY <1>2, <2>1
  <2> QED
    BY <1>3, <2>1, <2>2
<1>9. CounterInv'
  <2> SUFFICES ASSUME AllRegular PROVE PageSays(page', Pending', SomeVetoed')
    BY <1>6 DEF CounterInv
  <2>1. PageSays(page, Pending, SomeVetoed)
    BY <1>1 DEF CounterInv
  <2>2. ~upload[r].global
    BY <1>1, <1>2 DEF UploadsInv, UploadInv
  <2>3. Pending' = Pending + One(CountedUpload(u)) - One(CountedUpload(upload[r]))
    BY <1>1, <1>2, <1>6, UploadCounts
  <2>4. One(CountedUpload(upload[r])) = 0
    BY <2>2 DEF One, CountedUpload
  <2>5. Pending \in Nat /\ SomeVetoed \in BOOLEAN
    BY PendingIsCount DEF SomeVetoed
  <2>6. CASE u.phase = "vetoed" /\ u.global /\ page' = [Watch(page, TRUE) EXCEPT !.active = @ - 1]
    <3>1. SomeVetoed' = TRUE
      BY <1>3, <2>6 DEF SomeVetoed, VetoedUpload
    <3>2. Pending' = Pending
      BY <2>3, <2>4, <2>5, <2>6 DEF One, CountedUpload
    <3>3. PageSays([Watch(page, TRUE) EXCEPT !.active = @ - 1], Pending, TRUE)
      BY <1>1, <2>1, <2>5, PageCounts
    <3> QED
      BY <2>6, <3>1, <3>2, <3>3
  <2>7. CASE ~(u.phase = "vetoed" /\ u.global) /\ page' = Watch(page, u.global)
    <3>1. SomeVetoed' = SomeVetoed
      BY <1>2, <1>3, <2>2, <2>7 DEF SomeVetoed, VetoedUpload
    <3>2. Pending' = Pending + One(u.global)
      BY <1>2, <2>3, <2>4, <2>5, <2>7 DEF One, CountedUpload
    <3>3. PageSays(Watch(page, u.global), Pending + One(u.global), SomeVetoed)
      BY <1>1, <1>2, <2>1, <2>5, PageCounts
    <3> QED
      BY <2>7, <3>1, <3>2, <3>3
  <2> QED
    BY <1>2, <2>6, <2>7
<1> QED
  BY <1>5, <1>6, <1>7, <1>8, <1>9 DEF FormInv

\* A step of an upload that is under way.
LEMMA UploadKeeps ==
  ASSUME FormInv, NEW r \in Req, NEW v \in Upload, UploadGoesOn(r, v),
         \/ running' = running /\ (running = None \/ SameUpload(upload[r], v))
         \/ running' = Run(r, "upload") /\ v.phase = "posted" /\ v.completes = 0 /\ UploadOutcomes(v) = 1
  PROVE  FormInv'
<1>1. /\ page \in Page /\ upload \in [Req -> Upload]
      /\ running \in [req : Req, by : Callers] \cup {None}
      /\ CallsInv /\ NameInv /\ QueryRunning /\ UploadsInv /\ UploadRunning /\ CounterInv
      /\ FormTypeOK
  BY InvParts DEF FormInv
<1>2. /\ upload' = [upload EXCEPT ![r] = v] /\ UploadInv(v)
      /\ upload[r].phase \in {"breath", "posted"} /\ v.phase \in {upload[r].phase, "posted"}
      /\ v.global = upload[r].global /\ v.completes = upload[r].completes
      /\ UNCHANGED <<page, query, window>>
  BY DEF UploadGoesOn
<1>3. upload'[r] = v /\ \A q \in Req \ {r} : upload'[q] = upload[q]
  BY <1>1, <1>2
<1>4. running' \in [req : Req, by : Callers] \cup {None}
  BY <1>1, RunType DEF Callers
<1>5. FormTypeOK'
  BY <1>1, <1>2, <1>4, UploadTypeOK
<1>6. /\ CallsInv' /\ NameInv'
      /\ AllRegular' = AllRegular /\ PendingQueries' = PendingQueries
  BY <1>1, <1>2, QueriesStay
<1>7. QueryRunning'
  <2>1. running' # None /\ running'.by # "upload" => running' = running
    BY DEF Run
  <2> QED
    BY <1>1, <1>2, <2>1 DEF QueryRunning
<1>8. UploadsInv'
  BY <1>1, <1>2, <1>3 DEF UploadsInv
<1>9. UploadRunning'
  <2> SUFFICES ASSUME running' # None, running'.by = "upload"
               PROVE  /\ upload'[running'.req].phase = "posted"
                      /\ upload'[running'.req].completes = 0
                      /\ UploadOutcomes(upload'[running'.req]) = 1
    BY DEF UploadRunning, UploadOutcomes
  <2>1. CASE running' = running /\ (running = None \/ SameUpload(upload[r], v))
    <3>1. /\ upload[running.req].phase = "posted" /\ upload[running.req].completes = 0
          /\ UploadOutcomes(upload[running.req]) = 1 /\ running.req \in Req
      BY <1>1, <2>1 DEF UploadRunning
    <3>2. CASE running.req = r
      BY <1>3, <2>1, <3>1, <3>2 DEF SameUpload, UploadOutcomes
    <3>3. CASE running.req # r
      BY <1>3, <2>1, <3>1, <3>3
    <3> QED
      BY <3>2, <3>3
  <2>2. CASE /\ running' = Run(r, "upload") /\ v.phase = "posted"
             /\ v.completes = 0 /\ UploadOutcomes(v) = 1
    BY <1>3, <2>2 DEF Run
  <2> QED
    BY <2>1, <2>2
<1>10. CounterInv'
  <2>1. SomeVetoed' = SomeVetoed
    <3>1. \A q \in Req : VetoedUpload(q)' <=> VetoedUpload(q)
      BY <1>2, <1>3 DEF VetoedUpload
    <3> QED
      BY <3>1 DEF SomeVetoed
  <2>2. One(CountedUpload(v)) = One(CountedUpload(upload[r])) /\ One(CountedUpload(v)) \in {0, 1}
    BY <1>2 DEF One, CountedUpload
  <2>3. Pending' = Pending
    <3>1. Pending' = Pending + One(CountedUpload(v)) - One(CountedUpload(upload[r]))
      BY <1>1, <1>2, <1>6, UploadCounts
    <3> QED
      BY <2>2, <3>1, PendingIsCount
  <2> QED
    BY <1>1, <1>2, <1>6, <2>1, <2>3 DEF CounterInv
<1> QED
  BY <1>5, <1>6, <1>7, <1>8, <1>9, <1>10 DEF FormInv

\* The callback of an upload returns.
LEMMA UploadEndKeeps ==
  ASSUME FormInv, UploadReturns
  PROVE  FormInv'
<1>1. /\ page \in Page /\ upload \in [Req -> Upload]
      /\ running \in [req : Req, by : Callers] \cup {None}
      /\ CallsInv /\ NameInv /\ QueryRunning /\ UploadsInv /\ UploadRunning /\ CounterInv
      /\ FormTypeOK
  BY InvParts DEF FormInv
<1> DEFINE r == running.req
           u == upload[r]
<1>2. PICK v \in Upload :
        /\ upload' = [upload EXCEPT ![r] = v] /\ UploadInv(v)
        /\ v.phase = u.phase /\ v.global = u.global
        /\ u.phase = "posted" /\ u.completes = 0 /\ v.completes = 1
        /\ page' = Unwatch(page, u.global)
  BY <1>1, UploadEnds
<1>3. r \in Req /\ running' = None /\ UNCHANGED <<query, window>>
  BY <1>1, UploadEnds
<1> HIDE DEF r
<1>4. upload'[r] = v /\ \A q \in Req \ {r} : upload'[q] = upload[q]
  BY <1>1, <1>2, <1>3
<1>5. page' \in Page
  BY <1>1, <1>2, PageTypes
<1>6. FormTypeOK'
  BY <1>1, <1>2, <1>3, <1>5, UploadTypeOK
<1>7. /\ CallsInv' /\ NameInv' /\ QueryRunning' /\ UploadRunning'
      /\ AllRegular' = AllRegular /\ PendingQueries' = PendingQueries
  BY <1>1, <1>3, QueriesStay DEF QueryRunning, UploadRunning
<1>8. UploadsInv'
  BY <1>1, <1>2, <1>4 DEF UploadsInv
<1>9. CounterInv'
  <2> SUFFICES ASSUME AllRegular PROVE PageSays(page', Pending', SomeVetoed')
    BY <1>7 DEF CounterInv
  <2>1. PageSays(page, Pending, SomeVetoed)
    BY <1>1 DEF CounterInv
  <2>2. SomeVetoed' = SomeVetoed
    <3>1. \A q \in Req : VetoedUpload(q)' <=> VetoedUpload(q)
      BY <1>2, <1>4 DEF VetoedUpload
    <3> QED
      BY <3>1 DEF SomeVetoed
  <2>3. u.global \in BOOLEAN
    BY <1>1, <1>3, UploadFields
  <2>4. Pending' = Pending + One(CountedUpload(v)) - One(CountedUpload(u))
    BY <1>1, <1>2, <1>3, <1>7, UploadCounts
  <2>5. /\ One(CountedUpload(v)) = 0 /\ One(CountedUpload(u)) = One(u.global)
        /\ One(u.global) \in {0, 1} /\ (u.global => One(u.global) = 1)
    BY <1>2, <2>3 DEF One, CountedUpload
  <2>6. Pending \in Nat /\ Pending' \in Nat /\ SomeVetoed \in BOOLEAN
    BY PendingIsCount, PendingNext DEF SomeVetoed
  <2>7. Pending' = Pending - One(u.global) /\ (Pending > 0 \/ ~u.global)
    BY <2>4, <2>5, <2>6
  <2>8. PageSays(Unwatch(page, u.global), Pending - One(u.global), SomeVetoed)
    BY <1>1, <2>1, <2>3, <2>6, <2>7, PageCounts
  <2> QED
    BY <1>2, <2>2, <2>7, <2>8
<1> QED
  BY <1>6, <1>7, <1>8, <1>9 DEF FormInv

\* A callback throws, or nothing happens.
LEMMA ThrowKeeps ==
  ASSUME FormInv, UNCHANGED <<page, query, window, upload>>, running' = None \/ running' = running
  PROVE  FormInv'
<1>1. FormTypeOK'
  BY DEF FormInv, FormTypeOK, TypeOK
<1>2. /\ CallsInv' /\ NameInv'
      /\ AllRegular' = AllRegular /\ PendingQueries' = PendingQueries
  BY QueriesStay DEF FormInv
<1>3. QueryRunning' /\ UploadsInv' /\ UploadRunning'
  BY DEF FormInv, QueryRunning, UploadsInv, UploadRunning
<1>4. Pending' = Pending /\ SomeVetoed' = SomeVetoed
  BY <1>2 DEF Pending, PendingUploads, SomeVetoed, VetoedUpload
<1>5. CounterInv'
  BY <1>2, <1>4 DEF FormInv, CounterInv
<1> QED
  BY <1>1, <1>2, <1>3, <1>5 DEF FormInv

-----------------------------------------------------------------------------
(* Every step keeps the invariant. *)

LEMMA InitFormInv == Init => FormInv
<1> SUFFICES ASSUME Init PROVE FormInv
  OBVIOUS
<1>1. /\ page = [active |-> 0, shown |-> FALSE] /\ \A r \in Req : query[r] = Unused
      /\ \A n \in Req \cup {Shared} : window[n] = None
      /\ running = None /\ \A r \in Req : upload[r] = NoUpload
  BY DEF Init, AjaxInit
<1>2. CallsInv /\ NameInv /\ QueryRunning
  BY <1>1, UnusedInv DEF CallsInv, NameInv, QueryRunning
<1>3. UploadsInv /\ UploadRunning
  BY <1>1, NoUploadInv DEF UploadsInv, UploadRunning
<1>4. CounterInv
  <2>1. PendingQueries = {} /\ PendingUploads = {}
    BY <1>1, UnusedFields DEF PendingQueries, PendingUploads, NoUpload
  <2>2. Pending = 0
    BY <2>1, FS_EmptySet DEF Pending
  <2> QED
    BY <1>1, <2>2 DEF CounterInv, PageSays
<1> QED
  BY <1>2, <1>3, <1>4, InitFormTypeOK DEF FormInv

LEMMA SubmitKeeps ==
  ASSUME FormInv, NEW r \in Req, Submit(r)
  PROVE  FormInv'
<1>1. page \in Page
  BY InvParts
<1>2. CASE SubmitQuery(r)
  <2>1. upload[r].phase = "none" /\ ajax(r) /\ upload' = upload
    BY <1>2 DEF SubmitQuery, Fresh
  <2> QED
    BY <1>1, <2>1, ajaxIsMade, CallKeeps
<1>3. CASE SubmitKeepAlive(r)
  <2>1. /\ upload[r].phase = "none" /\ AjaxSend(r, PlainGet)
        /\ upload' = [upload EXCEPT ![r].phase = "closing"]
    BY <1>3 DEF SubmitKeepAlive, Fresh
  <2>2. PlainGet \in Settings
    BY PlainGetIsPlain
  <2>3. \E c \in Query : CallMade(r, PlainGet, c)
    BY <2>1, <2>2, CallsBegin
  <2> QED
    BY <2>1, <2>2, <2>3, CallKeeps
<1>4. CASE SubmitFiles(r)
  BY <1>4, FilesAreSent, FilesKeep DEF SubmitFiles, Fresh
<1>5. CASE KeepAliveClosed(r)
  BY <1>5, FilesAreSent, FilesKeep DEF KeepAliveClosed, Closing
<1> QED
  BY <1>2, <1>3, <1>4, <1>5 DEF Submit

LEMMA QueryEventKeeps ==
  ASSUME FormInv, NEW r \in Req, QueryEvent(r)
  PROVE  FormInv'
<1>1. /\ page \in Page /\ WindowTyped /\ query \in [Req -> Query]
      /\ CallsInv /\ NameInv /\ CallInv(r, query[r]) /\ upload' = upload
  BY InvParts DEF FormInv, CallsInv, QueryEvent
<1>2. CASE \E answer \in Answers : OnAnswer(r, answer)
  <2>1. \E d \in Query :
           /\ QueryMoves(r, d) /\ running' = Run(r, "answer")
           /\ d.xhr = "done" /\ Running(d) /\ UNCHANGED window
    BY <1>1, <1>2, AnswerMoves
  <2> QED
    BY <1>1, <2>1, QueryKeeps
<1>3. CASE \E answer \in Answers : OnLocalJsonp(r, answer)
  <2>1. /\ running' = None /\ NamesMeet
        /\ \/ window' = window
           \/ window' = [window EXCEPT ![Name(r, query[r].s)] = None]
    BY <1>1, <1>3, LocalJsonpMoves
  <2> QED
    BY <1>1, <2>1, MeetingKeeps
<1>4. CASE OnTimeout(r)
  <2>1. \E d \in Query :
           /\ QueryMoves(r, d) /\ running = None /\ UNCHANGED window
           /\ \/ running' = running
              \/ running' = Run(r, "answer") /\ d.xhr = "done" /\ Running(d)
    BY <1>1, <1>4, TimeoutMoves
  <2> QED
    BY <1>1, <2>1, QueryKeeps
<1>5. CASE OnScript(r)
  <2>1. \E d \in Query :
           QueryMoves(r, d) /\ running' = Run(r, "script") /\ Running(d) /\ UNCHANGED window
    BY <1>1, <1>5, ScriptMoves
  <2> QED
    BY <1>1, <2>1, QueryKeeps
<1>6. CASE OnRemoteJsonp(r)
  <2>1. /\ running = None /\ window' = window
        /\ \/ /\ running' = running
              /\ \E d \in Query : QueryMoves(r, d)
           \/ \E o \in Req :
                /\ running' = Run(o, "jsonp")
                /\ Running(query'[o])
                /\ (o = r /\ \E d \in Query : QueryMoves(r, d)) \/ NamesMeet
    BY <1>1, <1>6, RemoteJsonpMoves
  <2>2. CASE running' = None /\ \E d \in Query : QueryMoves(r, d)
    BY <1>1, <2>1, <2>2, QueryKeeps
  <2>3. CASE running' = Run(r, "jsonp") /\ Running(query'[r]) /\ \E d \in Query : QueryMoves(r, d)
    <3>1. PICK d \in Query : QueryMoves(r, d)
      BY <2>3
    <3>2. query'[r] = d
      BY <1>1, <3>1 DEF QueryMoves
    <3> QED
      BY <1>1, <2>1, <2>3, <3>1, <3>2, QueryKeeps
  <2>4. CASE NamesMeet /\ \E o \in Req : running' = Run(o, "jsonp") /\ Running(query'[o])
    BY <1>1, <2>1, <2>4, MeetingKeeps
  <2> QED
    BY <2>1, <2>2, <2>3, <2>4
<1>7. CASE AbortSilently(r)
  <2>1. \E d \in Query :
           /\ QueryMoves(r, d) /\ UNCHANGED <<window, running>>
           /\ query[r].xhr \in {"sent", "open", "unsent"}
    BY <1>1, <1>7, AbortMoves
  <2> QED
    BY <1>1, <2>1, QueryKeeps
<1> QED
  BY <1>2, <1>3, <1>4, <1>5, <1>6, <1>7 DEF QueryEvent, Answered

LEMMA UploadEventKeeps ==
  ASSUME FormInv, NEW r \in Req, UploadEvent(r)
  PROVE  FormInv'
<1>1. upload \in [Req -> Upload] /\ UploadInv(upload[r])
  BY InvParts DEF FormInv, UploadsInv
<1>2. CASE Post(r)
  BY <1>1, <1>2, PostGoesOn, UploadKeeps
<1>3. CASE BlankLoads(r) \/ AnswerLoads(r) \/ LookAgain(r) \/ UploadTimeout(r)
  <2>1. \E v \in Upload :
          /\ UploadGoesOn(r, v) /\ running = None
          /\ \/ running' = running
             \/ /\ running' = Run(r, "upload")
                /\ v.phase = "posted" /\ v.completes = 0 /\ UploadOutcomes(v) = 1
    BY <1>1, <1>3, LoadGoesOn
  <2> QED
    BY <2>1, UploadKeeps
<1>4. CASE UploadAbort(r)
  BY <1>1, <1>4, AbortGoesOn, UploadKeeps
<1> QED
  BY <1>2, <1>3, <1>4 DEF UploadEvent

LEMMA CallbackKeeps ==
  ASSUME FormInv, CallbackEnds
  PROVE  FormInv'
<1>1. upload' = upload
  BY DEF CallbackEnds
<1>2. CASE CallbackReturns
  <2>1. /\ page \in Page /\ running \in [req : Req, by : Callers] \cup {None}
        /\ CallsInv /\ QueryRunning
    BY InvParts DEF FormInv
  <2>2. running.req \in Req
    BY <1>2, <2>1 DEF CallbackReturns
  <2>3. CallInv(running.req, query[running.req])
    BY <2>1, <2>2 DEF CallsInv
  <2>4. /\ running' = None
        /\ \E d \in Query : QueryMoves(running.req, d)
        /\ \/ window' = window
           \/ window' = [window EXCEPT ![Name(running.req, query[running.req].s)] = None]
    BY <1>2, <2>1, <2>3, CallbackMoves
  <2> QED
    BY <1>1, <2>2, <2>4, QueryKeeps
<1>3. CASE CallbackThrows
  BY <1>1, <1>3, ThrowKeeps DEF CallbackThrows
<1> QED
  BY <1>2, <1>3 DEF CallbackEnds

LEMMA StepFormInv == FormInv /\ [Next]_vars => FormInv'
<1> SUFFICES ASSUME FormInv, [Next]_vars PROVE FormInv'
  OBVIOUS
<1>1. CASE UploadReturns
  BY <1>1, UploadEndKeeps
<1>2. CASE UploadThrows
  BY <1>2, ThrowKeeps DEF UploadThrows
<1>3. CASE UNCHANGED vars
  BY <1>3, ThrowKeeps DEF vars
<1> QED
  BY <1>1, <1>2, <1>3, SubmitKeeps, QueryEventKeeps, UploadEventKeeps, CallbackKeeps DEF Next

LEMMA FormInvariant == Spec => []FormInv
<1>1. FormInv /\ [Next]_vars => FormInv'
  BY StepFormInv
<1> QED
  BY <1>1, InitFormInv, PTL DEF Spec

LEMMA RegularIsRegular == \A r \in Req : Regular(r) <=> RegularCall(query[r])
  BY DEF Regular, RegularCall

-----------------------------------------------------------------------------
(* The theorems. *)

\* Whatever the settings of the calls, and whatever answers, timers, aborts and
\* looks into an iframe come in whatever order: a call is in a state the code
\* knows, an upload has one outcome, and so has every query but those whose
\* bookkeeping the library gets wrong (onreadystatechange, cb).
THEOREM CallsHaveOneOutcome == Spec => []CallsAreSound
<1>1. FormInv => CallsAreSound
  <2> SUFFICES ASSUME FormInv PROVE CallsAreSound
    OBVIOUS
  <2>1. \A r \in Req : CallInv(r, query[r]) /\ UploadInv(upload[r]) /\ query[r] \in Query
    BY DEF FormInv, CallsInv, UploadsInv, CallInv
  <2>2. \A r \in Req : upload[r].completes <= 1 /\ UploadOutcomes(upload[r]) <= 1
    <3> SUFFICES ASSUME NEW r \in Req
                 PROVE  upload[r].completes <= 1 /\ UploadOutcomes(upload[r]) <= 1
      OBVIOUS
    <3>1. upload[r] \in Upload
      BY <2>1 DEF UploadInv
    <3> QED
      BY <2>1, <3>1, UploadFields DEF UploadInv, UploadOutcomes
  <2>3. \A r \in Req : Regular(r) => query[r].completes <= 1 /\ QueryOutcomes(query[r]) <= 1
    <3> SUFFICES ASSUME NEW r \in Req, Regular(r)
                 PROVE  query[r].completes <= 1 /\ QueryOutcomes(query[r]) <= 1
      OBVIOUS
    <3>1. OneTold(query[r]) /\ query[r] \in Query
      BY <2>1, RegularIsRegular DEF CallInv
    <3>2. Cardinality({}) = 0 /\ \A a : Cardinality({a}) = 1
      BY FS_EmptySet, FS_Singleton
    <3>3. CASE query[r].errors <= 1 /\ query[r].got = {}
      BY <3>1, <3>2, <3>3, QueryFields DEF OneTold, QueryOutcomes
    <3>4. CASE query[r].errors = 0 /\ \E a \in Req \cup {None} : query[r].got = {a}
      <4>1. PICK a \in Req \cup {None} : query[r].got = {a}
        BY <3>4
      <4>2. Cardinality(query[r].got) = 1
        BY <3>2, <4>1
      <4> QED
        BY <3>1, <3>4, <4>2 DEF OneTold, QueryOutcomes
    <3> QED
      BY <3>1, <3>3, <3>4 DEF OneTold
  <2> QED
    BY <2>2, <2>3 DEF CallsAreSound, OneOutcome, FormInv
<1> QED
  BY <1>1, FormInvariant, PTL

\* success is given the answer to its own call, unless calls share the name of
\* a JSONP function: window[jsonp] is a function of the call that made it.
THEOREM AnswersAreOwn == Spec => []OwnAnswer
<1>1. FormInv => OwnAnswer
  BY DEF FormInv, CallsInv, CallInv, OwnAnswer
<1> QED
  BY <1>1, FormInvariant, PTL

\* As long as no query is one the library gets wrong, jQuery.active is the
\* number of queries and uploads under way, and the page has seen ajaxStart and
\* ajaxStop accordingly, for any number of calls (ajax, fileUpload and its cb,
\* which count together in one variable).
THEOREM ActiveCountsTheCalls == Spec => []CounterIsTruthful
<1>1. FormInv => CounterIsTruthful
  <2> SUFFICES ASSUME FormInv, \A r \in Req : Regular(r)
               PROVE  /\ page.active = Cardinality(PendingQueries) + Cardinality(PendingUploads)
                      /\ page.active > 0 => page.shown
                      /\ page.shown => page.active > 0 \/ \E r \in Req : VetoedUpload(r)
    BY DEF CounterIsTruthful
  <2>1. AllRegular
    BY RegularIsRegular DEF AllRegular
  <2>2. PageSays(page, Pending, SomeVetoed)
    BY <2>1 DEF FormInv, CounterInv
  <2> QED
    BY <2>2 DEF PageSays, Pending, SomeVetoed
<1> QED
  BY <1>1, FormInvariant, PTL
=============================================================================
