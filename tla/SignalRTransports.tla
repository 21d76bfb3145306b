------------------------- MODULE SignalRTransports --------------------------
(***************************************************************************)
(* The transports of the browser client signalr.js: WebSocketTransport,    *)
(* ServerSentEventsTransport, LongPollingTransport and the XMLHttpRequest  *)
(* of DefaultHttpClient under them.  A transport is a record, and what a   *)
(* method or a browser event makes of it is a function: JavaScript runs to *)
(* completion, and SignalRClient composes these functions into the steps   *)
(* of the event loop.                                                      *)
(***************************************************************************)
EXTENDS Naturals

Kinds == {"WebSockets", "ServerSentEvents", "LongPolling"}

\* State of the socket, of the event source, or of the polling loop.  The loop
\* is open while a GET is outstanding, closed when it has ended, and aborted
\* when its request was: that promise is never settled.  The browser goes on
\* retrying an event source that failed before it opened.
Links == {"new", "connecting", "retrying", "open", "closing", "closed", "aborted"}

Transports ==
    [kind : Kinds,
     of : Nat,              \* which start() constructed it
     link : Links,
     held : BOOLEAN,        \* webSocket or eventSource is set; running
     wired : BOOLEAN,       \* onreceive and onclose are set
     told : 0 .. 2,         \* onclose calls, 2: more than one
     raised : BOOLEAN,      \* history: an event source reported closed, left open
     shutdown : BOOLEAN,    \* the shutdown timer is armed
     replies : {"none", "handshake", "messages"}]  \* what the server may send

constructTransport(kind, n) ==
    [kind |-> kind, of |-> n, link |-> "new", held |-> FALSE, wired |-> FALSE,
     told |-> 0, raised |-> FALSE, shutdown |-> FALSE, replies |-> "none"]

-----------------------------------------------------------------------------
(* HTTP *)

\* How a request ends: status 200, another 2xx, any other status or a network
\* error, the timeout that only polls set.
Answers == {"ok", "otherSuccess", "failed", "timeout"}

\* The promise of DefaultHttpClient.send is resolved, not rejected.
Resolves(answer) == answer \in {"ok", "otherSuccess"}

-----------------------------------------------------------------------------
(* connect, send and stop *)

\* Nothing comes over it any more.
Ended(t) == [t EXCEPT !.link = "closed", !.replies = "none"]

connect(t) == [t EXCEPT !.link = "connecting"]

\* webSocket.onopen, eventSource.onopen, the first poll answered with 200.
Opened(t) == [t EXCEPT !.link = "open", !.held = TRUE]

\* An error before that rejects the promise of connect.  An event source is not
\* closed then, and the browser may connect it again.
Refused(t, again) ==
    [t EXCEPT !.link = IF again /\ t.kind = "ServerSentEvents" THEN "retrying" ELSE "closed"]

\* The first poll answered with another 2xx: running is set to false, so that
\* poll() runs its close logic at once, before onclose has been set, and the
\* promise of connect is resolved all the same.
EndedAtOnce(t) == [t EXCEPT !.link = "closed"]

\* send does not reject before anything is sent.
SocketIsOpen(t) == t.held /\ t.link = "open"
CanSend(t) == IF t.kind = "WebSockets" THEN SocketIsOpen(t) ELSE t.held

\* send is a POST that is answered later; a socket takes the data at once.
Posts(t) == t.kind # "WebSockets"

\* Mutant: stop() forgets the socket, which is not told to close.
stopSocketLeft(t) == [t EXCEPT !.held = FALSE]

\* stop() up to its first await, of each kind.
stopSocket(t) ==
    [t EXCEPT !.held = FALSE, !.link = IF SocketIsOpen(t) THEN "closing" ELSE @]
closeSource(t) == IF t.held THEN [Ended(t) EXCEPT !.held = FALSE] ELSE t
stopPolling(t) == [t EXCEPT !.held = FALSE]

stop(t) ==
    CASE t.kind = "WebSockets" -> stopSocket(t)
      [] t.kind = "ServerSentEvents" -> closeSource(t)
      [] t.kind = "LongPolling" -> stopPolling(t)

\* The event source's stop() calls onclose itself; the others' is called later.
ClosesInStop(t) == t.kind = "ServerSentEvents" /\ t.held

\* The loop of poll() goes on after a poll that was answered, or did not.
PollsOn(t, throws) == t.held /\ ~throws

\* Mutant: the close logic runs, but the loop goes on.
PollNotEnded(t) == [t EXCEPT !.shutdown = FALSE]

\* The end of poll(): stopped is set, which ends the shutdown timer as well.
PollEnded(t) == [Ended(t) EXCEPT !.held = FALSE, !.shutdown = FALSE]

\* stop() after the answer to its DELETE, whichever it was.
ArmShutdown(t) == [t EXCEPT !.shutdown = t.link # "closed"]

\* The shutdown timer fires: AbortController.abort, xhr.abort.
AbortPoll(t) ==
    [t EXCEPT !.shutdown = FALSE, !.link = IF @ = "open" THEN "aborted" ELSE @]
=============================================================================
