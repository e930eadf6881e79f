---------------------------- MODULE AjaxQueries -----------------------------
(***************************************************************************)
(* jQuery.ajax of jQuery 1.4.2: the queries of one page, the counter       *)
(* jQuery.active, and the events ajaxStart and ajaxStop a page hangs its   *)
(* "busy" indicator on.                                                    *)
(*                                                                         *)
(* A browser runs one task at a time: the call of ajax, an event of an     *)
(* XMLHttpRequest, a script that loads and a timer that fires are one step *)
(* each.  The exception is a task that calls back into the page: from the  *)
(* success or error callback of a query the page may start and abort other *)
(* queries before the library goes on to complete(), or it may throw, and  *)
(* then the library never goes on.  running is the query whose callback is *)
(* being run; while there is one, only what the callback may call happens. *)
(***************************************************************************)
EXTENDS Integers, FiniteSets

CONSTANTS
  Req,       \* the calls of jQuery.ajax a page makes
  Settings,  \* the settings a call may be made with
  Shared,    \* a name that several calls give as jsonpCallback
  None

Kinds == {"xhr", "script", "jsonp"}

ASSUME RequestsAreFinite == IsFiniteSet(Req)
ASSUME NamesAreDistinct ==
  None \notin Req \cup Settings /\ Shared \notin Req /\ None # Shared
ASSUME SettingsAreRecords ==
  Settings \subseteq [kind : Kinds, remote : BOOLEAN, global : BOOLEAN,
                      async : BOOLEAN, timeout : BOOLEAN, shared : BOOLEAN]

VARIABLES
  page,     \* active: jQuery.active;  shown: ajaxStart came after the last ajaxStop
  query,    \* the closure of each call
  window,   \* the function a JSONP name stands for: the call that made it, or None
  running   \* the query whose callback is running and what has called it, or None

\* What s.xhr() and the script element are to the closure.
XhrStates == {"none",    \* ajax has not been called
              "open",    \* readyState 1: send has thrown
              "unsent",  \* readyState 0: aborted
              "sent",    \* readyState 1 to 3: an answer is awaited
              "done",    \* readyState 4
              "null",    \* xhr = null: "stop memory leaks"
              "script",  \* a script element has been inserted
              "missing"} \* s.xhr() gave nothing

Query ==
  [s : Settings \cup {None}, xhr : XhrStates, requestDone : BOOLEAN, timer : BOOLEAN,
   threw : BOOLEAN, vetoed : BOOLEAN,
   got : SUBSET (Req \cup {None}), errors : 0 .. 2, completes : 0 .. 2]

\* A call not yet made.  got, errors and completes record what its callbacks
\* were told: whose answers success was given (None: no answer at all), and
\* how often error and complete ran.
Unused ==
  [s |-> None, xhr |-> "none", requestDone |-> FALSE, timer |-> FALSE,
   threw |-> FALSE, vetoed |-> FALSE, got |-> {}, errors |-> 0, completes |-> 0]

\* What runs a callback: onreadystatechange, a script that has loaded, a JSONP
\* function, or the form plugin's upload.
Callers == {"answer", "script", "jsonp", "upload"}

Run(r, by) == [req |-> r, by |-> by]

TypeOK ==
  /\ page \in [active : Int, shown : BOOLEAN]
  /\ query \in [Req -> Query]
  /\ window \in [Req \cup {Shared} -> Req \cup {None}]
  /\ running \in [req : Req, by : Callers] \cup {None}

AjaxInit ==
  /\ page = [active |-> 0, shown |-> FALSE]
  /\ query = [r \in Req |-> Unused]
  /\ window = [n \in Req \cup {Shared} |-> None]
  /\ running = None

-----------------------------------------------------------------------------
(* The counter and its two events. *)

\* if ( s.global && ! jQuery.active++ ) trigger( "ajaxStart" )
Watch(p, global) ==
  IF global THEN [active |-> p.active + 1, shown |-> p.shown \/ p.active = 0] ELSE p

\* if ( s.global && ! --jQuery.active ) trigger( "ajaxStop" )
Unwatch(p, global) ==
  IF global THEN [active |-> p.active - 1, shown |-> p.shown /\ p.active # 1] ELSE p

AtMostTwo(n) == IF n < 2 THEN n + 1 ELSE 2

\* success(), handleError() and complete(), as the callbacks of a query see them
success(c, answer) == [c EXCEPT !.got = @ \cup {answer}]
handleError(c) == [c EXCEPT !.errors = AtMostTwo(@)]
complete(c) == [c EXCEPT !.completes = AtMostTwo(@)]

-----------------------------------------------------------------------------
(* What an answer is taken for. *)

\* ok: 2xx with a body the data type accepts.  badbody: 2xx with one it does
\* not.  refused: 4xx or 5xx.  lost: no answer, status 0.
Answers == {"ok", "badbody", "refused", "lost"}

\* httpSuccess accepts status 0 along with 2xx, 304 and 1223
httpSuccess(answer) == answer # "refused"

\* An empty body is null to parseJSON and fine as text; what a script does when
\* globalEval runs it is not seen by httpData.
httpDataThrows(s, answer) == answer = "badbody" /\ s.kind = "xhr"

IsSuccess(s, answer) == httpSuccess(answer) /\ ~httpDataThrows(s, answer)

\* onreadystatechange at readyState 4 or at the timeout, up to the end of the
\* success or error callback.  if ( !jsonp ) success(): the answer of a JSONP
\* query is to call its function itself.
Settle(c, r, answer) ==
  LET done == [c EXCEPT !.requestDone = TRUE, !.xhr = "done"] IN
  IF answer = "timeout" \/ ~IsSuccess(c.s, answer)
  THEN handleError(done)
  ELSE IF c.s.kind = "jsonp" THEN done
  ELSE success(done, IF answer = "lost" THEN None ELSE r)

\* The rest of onreadystatechange: complete(), and xhr = null if it is async.
Finish(c) ==
  LET over == complete(c) IN
  IF c.s.async THEN [over EXCEPT !.xhr = "null"] ELSE over

\* mutant: requestDone is not asked, so an abort completes the query again
AbortedMutant(c) == [complete(c) EXCEPT !.requestDone = TRUE]

\* onreadystatechange( "abort" ), or with readyState 0
Aborted(c) ==
  IF c.requestDone THEN c
  ELSE [complete(c) EXCEPT !.requestDone = TRUE]

\* mutant: an abort always discounts
PageAfterAbortMutant(p, c) == Unwatch(p, c.s.global)

PageAfterAbort(p, c) == IF c.requestDone THEN p ELSE Unwatch(p, c.s.global)

-----------------------------------------------------------------------------
(* ajax *)

\* mutant: jsc is not counted up, so generated names are one name
NameMutant(r, s) == Shared

\* s.jsonpCallback || ("jsonp" + jsc++)
Name(r, s) == IF s.shared THEN Shared ELSE r

\* window[ jsonp ] = window[ jsonp ] || function( tmp ) ...
DefineJsonp(r, s) ==
  window' = IF s.kind = "jsonp" /\ window[Name(r, s)] = None
            THEN [window EXCEPT ![Name(r, s)] = r] ELSE window

ByScript(s) == s.kind # "xhr" /\ s.remote

Called(r, s) == [Unused EXCEPT !.s = s]

\* A remote script or JSONP query: a script element, no XMLHttpRequest and no
\* timer.
AjaxScript(r, s) ==
  /\ query[r].xhr = "none" /\ ByScript(s)
  /\ DefineJsonp(r, s)
  /\ page' = Watch(page, s.global)
  /\ query' = [query EXCEPT ![r] = [Called(r, s) EXCEPT !.xhr = "script"]]
  /\ UNCHANGED running

\* if ( !xhr ) return;
AjaxNoXhr(r, s) ==
  /\ query[r].xhr = "none" /\ ~ByScript(s)
  /\ DefineJsonp(r, s)
  /\ page' = Watch(page, s.global)
  /\ query' = [query EXCEPT ![r] = [Called(r, s) EXCEPT !.xhr = "missing"]]
  /\ UNCHANGED running

\* beforeSend returns false
AjaxVetoed(r, s) ==
  /\ query[r].xhr = "none" /\ ~ByScript(s)
  /\ DefineJsonp(r, s)
  /\ page' = Unwatch(Watch(page, s.global), s.global)
  /\ query' = [query EXCEPT ![r] = [Called(r, s) EXCEPT !.xhr = "unsent", !.vetoed = TRUE]]
  /\ UNCHANGED running

AjaxSend(r, s) ==
  /\ query[r].xhr = "none" /\ ~ByScript(s) /\ s.async
  /\ DefineJsonp(r, s)
  /\ page' = Watch(page, s.global)
  /\ query' = [query EXCEPT ![r] = [Called(r, s) EXCEPT !.xhr = "sent", !.timer = s.timeout]]
  /\ UNCHANGED running

\* xhr.send throws: beforeSend has aborted the request (readyState 0) or the
\* browser refuses it (readyState 1).  The timer has been set and requestDone
\* is still false.
AjaxSendThrows(r, s, state) ==
  /\ query[r].xhr = "none" /\ ~ByScript(s) /\ s.async
  /\ DefineJsonp(r, s)
  /\ page' = Unwatch(Watch(page, s.global), s.global)
  /\ query' = [query EXCEPT ![r] =
       [complete(handleError(Called(r, s)))
         EXCEPT !.xhr = state, !.timer = s.timeout, !.threw = TRUE]]
  /\ UNCHANGED running

\* A synchronous query: ajax itself calls onreadystatechange once send is back.
AjaxSync(r, s, answer) ==
  /\ query[r].xhr = "none" /\ ~ByScript(s) /\ ~s.async /\ s.kind = "xhr"
  /\ running = None
  /\ page' = Watch(page, s.global)
  /\ query' = [query EXCEPT ![r] = Settle(Called(r, s), r, answer)]
  /\ running' = Run(r, "answer")
  /\ UNCHANGED window

\* The same when send throws: error and complete, and then onreadystatechange
\* finds readyState 0 and completes again, or readyState 4 with status 0, which
\* is a success.
AjaxSyncThrows(r, s, answer) ==
  /\ query[r].xhr = "none" /\ ~ByScript(s) /\ ~s.async /\ s.kind = "xhr"
  /\ page' = Unwatch(Unwatch(Watch(page, s.global), s.global), s.global)
  /\ LET failed == complete(handleError(Called(r, s)))
         again == IF answer = "aborted" THEN Aborted(failed)
                  ELSE Finish(Settle(failed, r, "lost"))
     IN query' = [query EXCEPT ![r] =
          [again EXCEPT !.threw = TRUE, !.xhr = "done", !.requestDone = TRUE]]
  /\ UNCHANGED <<window, running>>

ajax(r) ==
  \E s \in Settings :
    \/ AjaxScript(r, s)
    \/ AjaxNoXhr(r, s)
    \/ AjaxVetoed(r, s)
    \/ AjaxSend(r, s)
    \/ \E state \in {"unsent", "open"} : AjaxSendThrows(r, s, state)
    \/ \E answer \in Answers \ {"lost"} : AjaxSync(r, s, answer)
    \/ \E answer \in {"aborted", "lost"} : AjaxSyncThrows(r, s, answer)

-----------------------------------------------------------------------------
(* What happens to a query. *)

Awaited(r) == running = None /\ query[r].xhr = "sent" /\ ~query[r].requestDone

\* readyState 4, with a success or an error callback.  A lost answer is also
\* what an abort() looks like in a browser that fires readyState 4 first: the
\* handler takes status 0 for an answer and the "abort" that follows finds it done.
OnAnswer(r, answer) ==
  /\ Awaited(r)
  /\ query[r].s.kind = "jsonp" => answer = "refused"
  /\ query' = [query EXCEPT ![r] = Settle(@, r, answer)]
  /\ running' = Run(r, "answer")
  /\ UNCHANGED <<page, window>>

\* readyState 4 of a JSONP query on XMLHttpRequest: httpData evaluates the
\* answer, and an answer that is ok calls the function under the name, which is
\* success() and complete() of the call that made it; after that
\* onreadystatechange completes r.
OnLocalJsonp(r, answer) ==
  /\ Awaited(r) /\ query[r].s.kind = "jsonp" /\ answer # "refused"
  /\ LET n == Name(r, query[r].s)
         o == IF answer = "ok" THEN window[n] ELSE None
         told == IF o = None THEN query
                 ELSE [query EXCEPT ![o] = complete(success(@, r))]
         paid == IF o = None THEN page ELSE Unwatch(page, query[o].s.global)
     IN /\ query' = [told EXCEPT ![r] = Finish(Settle(@, r, answer))]
        /\ page' = Unwatch(paid, query[r].s.global)
        /\ window' = IF o = None THEN window ELSE [window EXCEPT ![n] = None]
  /\ UNCHANGED running

\* The timer: nothing, if the query has settled; complete() alone, if its
\* XMLHttpRequest was aborted under it; else error and complete.
OnTimeout(r) ==
  /\ running = None /\ query[r].timer
  /\ LET c == [query[r] EXCEPT !.timer = FALSE] IN
     \/ /\ c.requestDone \/ c.xhr = "null"
        /\ query' = [query EXCEPT ![r] = c]
        /\ UNCHANGED <<page, running>>
     \/ /\ ~c.requestDone /\ c.xhr = "unsent"
        /\ query' = [query EXCEPT ![r] = Aborted(c)]
        /\ page' = PageAfterAbort(page, c)
        /\ UNCHANGED running
     \/ /\ ~c.requestDone /\ c.xhr \in {"sent", "open"}
        /\ query' = [query EXCEPT ![r] = Settle(c, r, "timeout")]
        /\ running' = Run(r, "answer")
        /\ UNCHANGED page
  /\ UNCHANGED window

\* The page calls abort() on what ajax returned, in a task of its own or from
\* a callback: no onreadystatechange from the browser, so the one call of the
\* overridden abort().
AbortSilently(r) ==
  /\ query[r].xhr \in {"sent", "open", "unsent"} /\ ~query[r].vetoed
  /\ query' = [query EXCEPT ![r] = [Aborted(@) EXCEPT !.xhr = "unsent"]]
  /\ page' = PageAfterAbort(page, query[r])
  /\ UNCHANGED <<window, running>>

\* A script element has run: its handler is removed with it.
OnScript(r) ==
  /\ running = None /\ query[r].xhr = "script" /\ query[r].s.kind = "script"
  /\ ~query[r].requestDone
  /\ query' = [query EXCEPT ![r] = [success(@, r) EXCEPT !.requestDone = TRUE]]
  /\ running' = Run(r, "script")
  /\ UNCHANGED <<page, window>>

\* A JSONP script has run: it calls the function that is under its name now.
OnRemoteJsonp(r) ==
  /\ running = None /\ query[r].xhr = "script" /\ query[r].s.kind = "jsonp"
  /\ ~query[r].requestDone
  /\ LET o == window[Name(r, query[r].s)]
         ran == [query EXCEPT ![r].requestDone = TRUE]
     IN IF o = None THEN query' = ran /\ UNCHANGED running
        ELSE query' = [ran EXCEPT ![o] = success(@, r)] /\ running' = Run(o, "jsonp")
  /\ UNCHANGED <<page, window>>

\* The callback returns: complete(), and the JSONP name is taken away.
CallbackReturns ==
  /\ running # None /\ running.by # "upload"
  /\ LET r == running.req IN
     /\ query' = [query EXCEPT ![r] =
          IF running.by = "answer" THEN Finish(@) ELSE complete(@)]
     /\ page' = Unwatch(page, query[r].s.global)
     /\ window' = IF running.by = "jsonp"
                  THEN [window EXCEPT ![Name(r, query[r].s)] = None] ELSE window
  /\ running' = None

\* The callback throws: nothing after it is run.
CallbackThrows ==
  /\ running # None /\ running.by # "upload"
  /\ running' = None
  /\ UNCHANGED <<page, query, window>>

Answered(r) == \E answer \in Answers : OnAnswer(r, answer) \/ OnLocalJsonp(r, answer)
=============================================================================
