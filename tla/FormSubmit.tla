----------------------------- MODULE FormSubmit -----------------------------
(***************************************************************************)
(* The form plugin's ajaxSubmit, on top of jQuery.ajax: a form without     *)
(* files is sent by jQuery.ajax, a form with files is posted into a hidden *)
(* iframe by fileUpload, which does its own counting of jQuery.active, its *)
(* own timeout and its own callbacks.                                      *)
(*                                                                         *)
(* An upload is over when the iframe's load event has come, or its timer,  *)
(* or when the plugin has looked often enough into an iframe whose         *)
(* document stays empty.  Left out: two uploads named in one millisecond,  *)
(* which share an iframe, and the removal of the iframe, which nothing     *)
(* looks at any more.                                                      *)
(***************************************************************************)
EXTENDS AjaxQueries

CONSTANTS
  PlainGet,   \* the settings $.get( options.closeKeepAlive, ... ) amounts to
  Uploads,    \* the options of an upload: whether it is counted, whether it has a timeout
  DomChecks   \* domCheckCount: 50 in the code

ASSUME PlainGetIsPlain ==
  /\ PlainGet \in Settings
  /\ PlainGet.kind = "xhr" /\ PlainGet.async /\ PlainGet.global /\ ~PlainGet.timeout
ASSUME UploadsAreRecords == Uploads \subseteq [global : BOOLEAN, timeout : BOOLEAN]
ASSUME ChecksArePositive == DomChecks \in Nat \ {0}

VARIABLE upload  \* the closure of each call of fileUpload

vars == <<page, query, window, running, upload>>

\* closing: $.get( closeKeepAlive ) has not come back.  breath: the 10 ms before
\* the form is posted.  vetoed and left: beforeSend returned false, or aborted.
Phases == {"none", "closing", "breath", "posted", "vetoed", "left"}

\* blank: a load of the empty page is under way in the iframe.  nav: the answer
\* to the form has not come yet.  doc: what the iframe shows.  successes,
\* errors and completes count what the callbacks were told.
Upload ==
  [phase : Phases, global : BOOLEAN, timeout : BOOLEAN, aborted : BOOLEAN,
   cbInvoked : 0 .. 2, timedOut : BOOLEAN, timer : BOOLEAN, retry : BOOLEAN,
   domCheckCount : 0 .. DomChecks, listening : BOOLEAN,
   blank : BOOLEAN, nav : BOOLEAN, doc : {"empty", "good", "bad"},
   successes : 0 .. 2, errors : 0 .. 2, completes : 0 .. 2]

NoUpload ==
  [phase |-> "none", global |-> FALSE, timeout |-> FALSE, aborted |-> FALSE,
   cbInvoked |-> 0, timedOut |-> FALSE, timer |-> FALSE, retry |-> FALSE,
   domCheckCount |-> DomChecks, listening |-> FALSE,
   blank |-> FALSE, nav |-> FALSE, doc |-> "empty",
   successes |-> 0, errors |-> 0, completes |-> 0]

FormTypeOK == TypeOK /\ upload \in [Req -> Upload]

Init == AjaxInit /\ upload = [r \in Req |-> NoUpload]

-----------------------------------------------------------------------------
(* fileUpload: up to the 10 ms timer. *)

Fresh(r) == query[r].xhr = "none" /\ upload[r].phase = "none"

\* beforeSend may return false (active-- without ajaxStop), abort the mock xhr
\* (the early return leaves the counter as it is), or let the upload go on.
FileUpload(r) ==
  \E opts \in Uploads :
    /\ LET u == [NoUpload EXCEPT !.global = opts.global, !.timeout = opts.timeout]
           busy == Watch(page, opts.global)
       IN \/ /\ page' = IF opts.global THEN [busy EXCEPT !.active = @ - 1] ELSE busy
             /\ upload' = [upload EXCEPT ![r] = [u EXCEPT !.phase = "vetoed"]]
          \/ /\ page' = busy
             /\ upload' = [upload EXCEPT ![r] = [u EXCEPT !.phase = "left"]]
          \/ /\ page' = busy
             /\ upload' = [upload EXCEPT ![r] = [u EXCEPT !.phase = "breath"]]
    /\ UNCHANGED <<query, window, running>>

\* ajaxSubmit of a form with files, past its vetoes
SubmitFiles(r) == Fresh(r) /\ FileUpload(r)

\* The same with closeKeepAlive: fileUpload is the success callback of a get.
SubmitKeepAlive(r) ==
  /\ Fresh(r)
  /\ AjaxSend(r, PlainGet)
  /\ upload' = [upload EXCEPT ![r].phase = "closing"]

\* The get is back.  What an error means to the upload: it is never made.
Closing(r) == upload[r].phase = "closing" /\ query[r].got # {}

KeepAliveClosed(r) ==
  /\ running = Run(r, "answer") /\ Closing(r)
  /\ FileUpload(r)

\* ajaxSubmit of a form without files: $.ajax(options)
SubmitQuery(r) == Fresh(r) /\ ajax(r) /\ UNCHANGED upload

-----------------------------------------------------------------------------
(* The post. *)

\* mutant: the timeout is never set
PostMutant(r) ==
  /\ running = None /\ upload[r].phase = "breath"
  /\ upload' = [upload EXCEPT ![r].phase = "posted", ![r].listening = TRUE, ![r].nav = TRUE]
  /\ UNCHANGED <<page, query, window, running>>

\* The 10 ms are over: the iframe joins the document, its load event is listened
\* to, and the form is posted into it; the form's attributes are put back before
\* anyone can look.  Some browsers report the load of the empty page the iframe
\* starts with.  A form.submit that throws is a post no answer comes to.  Nobody
\* asks aborted.
Post(r) ==
  /\ running = None /\ upload[r].phase = "breath"
  /\ \E blank \in BOOLEAN :
       upload' = [upload EXCEPT ![r].phase = "posted", ![r].timer = upload[r].timeout,
                                ![r].listening = TRUE, ![r].blank = blank, ![r].nav = TRUE]
  /\ UNCHANGED <<page, query, window, running>>

-----------------------------------------------------------------------------
(* cb *)

\* A look into the iframe: it is done, it looks again in 100 ms, or it has
\* looked often enough and stops without a word.
Look(v) ==
  IF v.doc = "empty"
  THEN IF v.domCheckCount > 1
       THEN [v EXCEPT !.cbInvoked = 0, !.retry = TRUE, !.domCheckCount = @ - 1]
       ELSE [v EXCEPT !.domCheckCount = 0]
  ELSE IF v.doc = "good" THEN [v EXCEPT !.successes = AtMostTwo(@)] ELSE handleError(v)

cb(u) ==
  IF u.cbInvoked > 0 THEN [u EXCEPT !.cbInvoked = 2]
  ELSE LET v == [u EXCEPT !.cbInvoked = 1, !.listening = FALSE] IN
       IF u.timedOut THEN handleError(v) ELSE Look(v)

\* cb has come to a success or an error callback.
Told(before, after) == after.errors # before.errors \/ after.successes # before.successes

Invoke(r, u) ==
  /\ running = None
  /\ upload' = [upload EXCEPT ![r] = cb(u)]
  /\ running' = IF Told(u, cb(u)) THEN Run(r, "upload") ELSE running
  /\ UNCHANGED <<page, query, window>>

\* A load event of the iframe: of the empty page, or of the answer to the form
\* posted into it.  A load that nobody listens to and that cb will not look at
\* is left out.
Loads(r, u) ==
  \/ u.listening /\ Invoke(r, u)
  \/ /\ ~u.listening /\ u.retry /\ running = None
     /\ upload' = [upload EXCEPT ![r] = u]
     /\ UNCHANGED <<page, query, window, running>>

BlankLoads(r) == upload[r].blank /\ Loads(r, [upload[r] EXCEPT !.blank = FALSE])

AnswerLoads(r) ==
  /\ upload[r].nav
  /\ \E doc \in {"good", "bad"} :
       Loads(r, [upload[r] EXCEPT !.nav = FALSE, !.blank = FALSE, !.doc = doc])

\* setTimeout(cb, 100)
LookAgain(r) == upload[r].retry /\ Invoke(r, [upload[r] EXCEPT !.retry = FALSE])

\* timedOut = true; cb();
UploadTimeout(r) ==
  /\ upload[r].timer
  /\ Invoke(r, [upload[r] EXCEPT !.timer = FALSE, !.timedOut = TRUE])

\* xhr.abort() of the mock object: the iframe is sent to the empty page
UploadAbort(r) ==
  /\ upload[r].phase \in {"breath", "posted"} /\ ~upload[r].aborted
  /\ upload[r].completes = 0
  /\ upload' = [upload EXCEPT ![r] =
       IF @.phase = "breath" THEN [@ EXCEPT !.aborted = TRUE]
       ELSE [@ EXCEPT !.aborted = TRUE, !.nav = FALSE, !.blank = TRUE, !.doc = "empty"]]
  /\ UNCHANGED <<page, query, window, running>>

\* The success or error callback returns: ajaxComplete, active and ajaxStop,
\* then the complete callback.
UploadReturns ==
  /\ running # None /\ running.by = "upload"
  /\ LET r == running.req IN
     /\ page' = Unwatch(page, upload[r].global)
     /\ upload' = [upload EXCEPT ![r] = complete(@)]
  /\ running' = None
  /\ UNCHANGED <<query, window>>

UploadThrows ==
  /\ running # None /\ running.by = "upload"
  /\ running' = None
  /\ UNCHANGED <<page, query, window, upload>>

-----------------------------------------------------------------------------
QueryEvent(r) ==
  /\ \/ Answered(r) \/ OnTimeout(r) \/ OnScript(r) \/ OnRemoteJsonp(r)
     \/ (AbortSilently(r) /\ upload[r].phase # "closing")
  /\ UNCHANGED upload

CallbackEnds ==
  /\ running # None => ~Closing(running.req)
  /\ CallbackReturns \/ CallbackThrows
  /\ UNCHANGED upload

Submit(r) == SubmitQuery(r) \/ SubmitFiles(r) \/ SubmitKeepAlive(r) \/ KeepAliveClosed(r)

UploadEvent(r) ==
  Post(r) \/ BlankLoads(r) \/ AnswerLoads(r) \/ LookAgain(r) \/ UploadTimeout(r)
  \/ UploadAbort(r)

Next ==
  \/ \E r \in Req : Submit(r) \/ QueryEvent(r) \/ UploadEvent(r)
  \/ CallbackEnds \/ UploadReturns \/ UploadThrows

Spec == Init /\ [][Next]_vars

\* Timers fire and callbacks come to an end.
Fairness ==
  /\ \A r \in Req :
       /\ WF_vars(OnTimeout(r) /\ UNCHANGED upload)
       /\ WF_vars(Post(r)) /\ WF_vars(LookAgain(r)) /\ WF_vars(UploadTimeout(r))
       /\ WF_vars(KeepAliveClosed(r))
  /\ WF_vars(CallbackEnds) /\ WF_vars(UploadReturns \/ UploadThrows)

FairSpec == Spec /\ Fairness

-----------------------------------------------------------------------------
(* Properties. *)

\* The calls whose bookkeeping the library gets wrong, whatever else happens:
\* send threw while requestDone is still false; a JSONP query that went out on
\* XMLHttpRequest and is completed by its function and by its answer; JSONP
\* queries that share a name.
Regular(r) ==
  /\ ~query[r].threw
  /\ query[r].s # None /\ query[r].s.kind = "jsonp"
       => query[r].s.remote /\ ~query[r].s.shared

QueryOutcomes(c) == c.errors + Cardinality(c.got)
UploadOutcomes(u) == u.errors + u.successes

\* complete runs at most once for a call, and success and error together at most
\* once, whichever of the answer, the timer, the abort and the retries of the
\* iframe come, in whatever order (onreadystatechange's requestDone and cb's
\* cbInvoked).
OneOutcome ==
  \A r \in Req :
    /\ upload[r].completes <= 1 /\ UploadOutcomes(upload[r]) <= 1
    /\ Regular(r) => query[r].completes <= 1 /\ QueryOutcomes(query[r]) <= 1

\* A call is in a state the code knows, and has one outcome.
CallsAreSound == FormTypeOK /\ OneOutcome

\* The answer success is given is the answer to that call, unless calls share a
\* JSONP name.
OwnAnswer ==
  \A r \in Req : query[r].s # None /\ ~query[r].s.shared => query[r].got \subseteq {r, None}

\* The calls that have been counted and not been discounted.  An upload that
\* gave up, that was aborted in beforeSend or whose callback threw stays one.
PendingQueries ==
  {r \in Req : /\ query[r].s # None /\ query[r].s.global /\ ~query[r].vetoed
               /\ query[r].completes = 0}
PendingUploads ==
  {r \in Req : /\ upload[r].global /\ upload[r].completes = 0
               /\ upload[r].phase # "vetoed"}

VetoedUpload(r) == upload[r].phase = "vetoed" /\ upload[r].global

\* jQuery.active is the number of calls under way, plugin and core counting
\* together, and the page sees ajaxStart before the first of them and ajaxStop
\* after the last, save for the ajaxStop a vetoed upload leaves out.
CounterIsTruthful ==
  (\A r \in Req : Regular(r)) =>
    /\ page.active = Cardinality(PendingQueries) + Cardinality(PendingUploads)
    /\ page.active > 0 => page.shown
    /\ page.shown => page.active > 0 \/ \E r \in Req : VetoedUpload(r)

\* A call made with a timeout is settled in the end, whatever the server does:
\* its query is done, and its upload has told success or error, or has looked
\* DomChecks times into an empty iframe.
TimedCallsEnd ==
  \A r \in Req :
    /\ query[r].xhr = "sent" /\ query[r].timer ~> query[r].requestDone
    /\ upload[r].phase = "posted" /\ upload[r].timeout
         ~> UploadOutcomes(upload[r]) > 0 \/ upload[r].domCheckCount = 0
=============================================================================
