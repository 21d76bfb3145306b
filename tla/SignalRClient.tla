--------------------------- MODULE SignalRClient ----------------------------
(***************************************************************************)
(* The browser client signalr.js of the UI example: HubConnection over     *)
(* HttpConnection over the transports, with the user of the client, the    *)
(* network and the server as its environment.                              *)
(*                                                                         *)
(* JavaScript runs to completion, so a step is one task of the event loop: *)
(* a call of the user, an answer to a request, an event of a socket, a     *)
(* timer; together with the continuations of the promises it settles.  An  *)
(* await is a step's end only where it waits for one of these.  Within a   *)
(* step the code is a pipeline of functions over a Client, the values of   *)
(* the variables at that point of the step.                                *)
(***************************************************************************)
EXTENDS SignalRTransports, SignalRHub

CONSTANTS
    Offers,         \* Offers[n]: lists of transports the server may offer at
                    \* the negotiation of the n-th start
    KindOf,         \* KindOf[n]: whether the n-th call is an "invoke" or a "stream"
    Supported,      \* transports the browser and the client's options allow
    MaxRedirects,   \* MAX_REDIRECTS
    MaxStarts,      \* accepted calls of start(): a bound of the model
    MaxStops        \* stop() calls that wait at once: a bound of the model

ASSUME OfferedKinds ==
    /\ Supported \subseteq Kinds
    /\ KindOf \in [Calls -> {"invoke", "stream"}]
    /\ \A n \in 1 .. MaxStarts : \A offer \in Offers[n] : offer \in Seq(Kinds)
ASSUME Bounds == {MaxRedirects, MaxStarts, MaxStops} \subseteq Nat

VARIABLES
    conn,       \* HttpConnection
    att,        \* the coroutine of start(): HubConnection.start to createTransport
    trs,        \* the transports constructed so far
    stops,      \* calls of HttpConnection.stop that wait for startPromise,
    deletes,    \* and those that wait for a transport's DELETE, oldest first
    hub         \* HubConnection

vars == <<conn, att, trs, stops, deletes, hub>>

None == 0       \* null, undefined

\* An error is named by the start() of the connection it was raised about.
Errors == 0 .. MaxStarts

Connections ==
    [state : {"Connecting", "Connected", "Disconnected"},
     transport : Nat,           \* index in trs
     stopError : Errors,
     keepAlive : BOOLEAN]       \* features.inherentKeepAlive

\* negotiate, renegotiate, connect and handshake wait for an answer.
StartPlaces ==
    {"idle", "negotiate", "renegotiate", "connect", "handshake", "started", "failed"}

\* Where startInternal, whose promise is startPromise, has not ended yet.
Starting == {"negotiate", "renegotiate", "connect"}

Client ==
    [conn |-> conn, att |-> att, trs |-> trs, stops |-> stops, deletes |-> deletes,
     hub |-> hub]

Become(s) ==
    /\ conn' = s.conn
    /\ att' = s.att
    /\ trs' = s.trs
    /\ stops' = s.stops
    /\ deletes' = s.deletes
    /\ hub' = s.hub

Init ==
    /\ conn = [state |-> "Disconnected", transport |-> None, stopError |-> None,
               keepAlive |-> FALSE]
    /\ att = [pc |-> "idle", no |-> 0, offer |-> <<>>, endpoint |-> 0,
              redirects |-> 0, lost |-> FALSE]
    /\ trs = <<>>
    /\ stops = <<>>
    /\ deletes = <<>>
    /\ hub = NewHub

-----------------------------------------------------------------------------
(* HttpConnection: the end of a connection *)

\* Mutant: the state is left as it is.
stopConnectionKeepsState(s, t) ==
    [s EXCEPT !.conn.transport = None,
              !.trs[t].told = IF @ < 2 THEN @ + 1 ELSE @,
              !.hub = connectionClosed(@)]

\* The transport's onclose: HttpConnection.stopConnection, which calls
\* HubConnection.connectionClosed with stopError or, if that is not set, with
\* the error of the transport.
stopConnection(s, t) ==
    [s EXCEPT !.conn.transport = None,
              !.conn.state = "Disconnected",
              !.trs[t].told = IF @ < 2 THEN @ + 1 ELSE @,
              !.hub = connectionClosed(@)]

FireOnclose(s, t) == IF s.trs[t].wired THEN stopConnection(s, t) ELSE s

\* HttpConnection.stop after startPromise, for the calls in list, oldest first:
\* none finds the transport null before the first has stopped it, except that
\* an event source calls onclose from within stop().
StopTransport(s, list) ==
    LET t == s.conn.transport
    IN  IF list = <<>> \/ t = None THEN s
        ELSE LET closes == ClosesInStop(s.trs[t])
                 error == IF closes THEN Head(list).error ELSE list[Len(list)].error
                 stopped == [s EXCEPT !.conn.stopError = error, !.trs[t] = stop(@)]
             IN  IF s.trs[t].kind = "LongPolling"
                   THEN [stopped EXCEPT !.deletes = @ \o
                           [i \in 1 .. Len(list) |->
                              [by |-> list[i].by, transport |-> t]]]
                   ELSE [IF closes THEN FireOnclose(stopped, t) ELSE stopped
                           EXCEPT !.conn.transport = None]

\* Mutant: stop() does not wait for startPromise.
StopAtOnce(s, error, by) ==
    StopTransport([s EXCEPT !.conn.state = "Disconnected"],
                  <<[error |-> error, by |-> by]>>)

\* HttpConnection.stop(error) by the user or by the HubConnection.
Stop(s, error, by) ==
    LET call == [error |-> error, by |-> by]
        marked == [s EXCEPT !.conn.state = "Disconnected"]
    IN  IF s.att.pc \in Starting THEN [marked EXCEPT !.stops = Append(@, call)]
                                 ELSE StopTransport(marked, <<call>>)

\* The stop() calls that waited for startPromise go on.
StartSettled(s) == StopTransport([s EXCEPT !.stops = <<>>], s.stops)

-----------------------------------------------------------------------------
(* HttpConnection and HubConnection: start *)

\* startInternal has ended, and its local variables are gone.
Left(s, pc) ==
    [s EXCEPT !.att = [pc |-> pc, no |-> @.no, offer |-> <<>>, endpoint |-> 0,
                       redirects |-> 0, lost |-> FALSE]]

\* Mutant: the error is reported, but startPromise is not settled.
FailStartUnsettled(s) ==
    [Left(s, "failed") EXCEPT !.conn.state = "Disconnected", !.conn.transport = None]

\* startInternal throws, and start() rejects.
FailStart(s) ==
    StartSettled([Left(s, "failed") EXCEPT !.conn.state = "Disconnected",
                                           !.conn.transport = None])

\* HubConnection.start after connection.start: send the handshake request.
SendHandshake(s) ==
    LET t == s.conn.transport
    IN  IF s.conn.state # "Connected" \/ t = None THEN Left(s, "failed")
        ELSE IF ~CanSend(s.trs[t]) THEN Left(s, "failed")
        ELSE IF Posts(s.trs[t])
               THEN [Left(s, "handshake") EXCEPT !.trs[t].replies = "handshake"]
               ELSE [Left(s, "started") EXCEPT
                       !.trs[t].replies = "handshake",
                       !.hub = Watch(@, s.conn.keepAlive)]

changeState(s, from, to) == [s EXCEPT !.conn.state = IF @ = from THEN to ELSE @]

\* transport.connect has resolved: the rest of createTransport and startInternal.
Connected(s) ==
    LET t == s.conn.transport
        changed == changeState(s, "Connecting", "Connected")
    IN  IF t = None THEN FailStart(changed)
        ELSE StartSettled(SendHandshake(
               [changed EXCEPT !.trs[t].wired = TRUE,
                               !.conn.keepAlive = @ \/ s.trs[t].kind = "LongPolling"]))

resolveTransport(endpoint) == endpoint \in Supported

\* The loop of createTransport from endpoint i on, without what the client does
\* not support; a connection id used once must be replaced.
NextEndpoint(s, i) ==
    LET usable == {j \in i .. Len(s.att.offer) : resolveTransport(s.att.offer[j])}
    IN  IF usable = {} THEN FailStart(s)
        ELSE LET j == CHOOSE j \in usable : \A k \in usable : j <= k
                 new == constructTransport(s.att.offer[j], s.att.no)
             IN  [s EXCEPT !.conn.state = "Connecting",
                           !.conn.transport = Len(s.trs) + 1,
                           !.trs = Append(@, IF s.att.lost THEN new ELSE connect(new)),
                           !.att.endpoint = j,
                           !.att.pc = IF s.att.lost THEN "renegotiate" ELSE "connect"]

\* transport.connect has rejected: the next endpoint, with a new connection id.
ConnectFailed(s) ==
    NextEndpoint([s EXCEPT !.conn.state = "Disconnected", !.att.lost = TRUE],
                 s.att.endpoint + 1)

-----------------------------------------------------------------------------
(* The user *)

\* stop() of the user waits, for the one or the other.
UserStops ==
    \/ \E i \in DOMAIN stops : stops[i].by = "user"
    \/ \E i \in DOMAIN deletes : deletes[i].by = "user"

MoreStops == Len(stops) + Len(deletes) < MaxStops

\* The user waits for the promise of one start() before the next.
StartEnded == att.pc \in {"idle", "started", "failed"}

\* start() looks at the state alone: what stop() has told to close may not have
\* closed yet.  The handshake flag is reset before HttpConnection.start looks, and
\* perhaps rejects.
StartAccepted ==
    /\ StartEnded
    /\ conn.state = "Disconnected"
    /\ att.no < MaxStarts
    /\ Become([Client EXCEPT !.hub.received = FALSE,
                             !.conn.state = "Connecting",
                             !.att = [pc |-> "negotiate", no |-> @.no + 1,
                                      offer |-> <<>>, endpoint |-> 0,
                                      redirects |-> 0, lost |-> FALSE]])

StartRejected ==
    /\ StartEnded
    /\ conn.state # "Disconnected"
    /\ Become([Client EXCEPT !.hub.received = FALSE])

\* stop(), one at a time.
UserStop ==
    /\ ~UserStops
    /\ MoreStops
    /\ Become(Stop([Client EXCEPT !.hub = cleanupTimeout(@)], None, "user"))

\* HttpConnection.send for call n, which is registered: it throws, and the call
\* gets the fate thrown; it rejects; or it sends.
send(h, n, thrown) ==
    LET t == conn.transport
    IN  IF conn.state # "Connected" \/ t = None THEN [h EXCEPT !.calls[n].fate = thrown]
        ELSE IF ~CanSend(trs[t]) THEN SendRejected([h EXCEPT !.calls[n].fate = "pending"], n)
        ELSE [h EXCEPT !.calls[n].fate = "pending",
                       !.calls[n].over = t,
                       !.calls[n].post = IF Posts(trs[t]) THEN "out" ELSE "none"]

\* The user makes the calls in order, one at a time.
MayCall(n) ==
    /\ hub.calls[n].fate = "unused"
    /\ \A m \in 1 .. n - 1 : hub.calls[m].fate \notin {"unused", "pending"}

\* invoke(): what throws rejects the promise.
Invoke(n) ==
    /\ KindOf[n] = "invoke"
    /\ MayCall(n)
    /\ hub' = send(Register(hub, n, "invoke"), n, "settled")
    /\ UNCHANGED <<conn, att, trs, stops, deletes>>

\* stream(): what throws leaves nothing that could be observed.
Stream(n) ==
    /\ KindOf[n] = "stream"
    /\ MayCall(n)
    /\ hub' = send(Register(hub, n, "stream"), n, "unheard")
    /\ UNCHANGED <<conn, att, trs, stops, deletes>>

\* dispose() of the only subscription of a stream: the callback is deleted, then
\* a CancelInvocation is sent, or not, which changes nothing here.
Dispose(n) ==
    /\ hub.calls[n].kind = "stream"
    /\ hub.calls[n].fate = "pending"
    /\ hub' = Forget([hub EXCEPT !.calls[n].fate = "unheard"], hub.calls[n].id)
    /\ UNCHANGED <<conn, att, trs, stops, deletes>>

-----------------------------------------------------------------------------
(* Answers to the requests of start() *)

\* Negotiation: an error, a redirection, or the transports on offer.
Negotiated ==
    /\ att.pc = "negotiate"
    /\ \/ Become(FailStart(Client))
       \/ \* stop() was called: startInternal returns, and send throws.
          /\ conn.state = "Disconnected"
          /\ Become(StartSettled(Left(Client, "failed")))
       \/ /\ conn.state # "Disconnected"
          /\ \/ \E offer \in Offers[att.no] :
                  Become(NextEndpoint([Client EXCEPT !.att.offer = offer], 1))
             \/ /\ att.redirects + 1 < MaxRedirects
                /\ Become([Client EXCEPT !.att.redirects = @ + 1])
             \/ /\ att.redirects + 1 = MaxRedirects
                /\ Become(FailStart(Client))

\* The negotiation for a new connection id, after the one was used.
Renegotiated ==
    /\ att.pc = "renegotiate"
    /\ \/ Become(FailStart(Client))
       \/ /\ conn.transport = None
          /\ Become(ConnectFailed(Client))
       \/ /\ conn.transport # None
          /\ Become([Client EXCEPT !.att.pc = "connect",
                                   !.trs[conn.transport] = connect(@)])

\* transport.connect is answered: the newest transport.
TransportAnswers ==
    LET t == Len(trs)
    IN  /\ att.pc = "connect"
        /\ \/ Become(Connected([Client EXCEPT !.trs[t] = Opened(@)]))
           \/ /\ trs[t].kind = "LongPolling"
              /\ Become(Connected([Client EXCEPT !.trs[t] = EndedAtOnce(@)]))
           \/ \E again \in BOOLEAN :
                Become(ConnectFailed([Client EXCEPT !.trs[t] = Refused(@, again)]))

\* The browser connects an event source again whose promise was rejected, and
\* onopen keeps it: nobody has set its onreceive or its onclose.
SourceReopens(t) ==
    /\ trs[t].link = "retrying"
    /\ Become([Client EXCEPT !.trs[t] = Opened(@)])

\* The POST with the handshake request.
HandshakePosted ==
    /\ att.pc = "handshake"
    /\ \E answer \in Answers \ {"timeout"} :
         IF Resolves(answer)
           THEN Become([Client EXCEPT !.att.pc = "started",
                          !.hub = Watch(@, conn.keepAlive)])
           ELSE Become([Client EXCEPT !.att.pc = "failed"])

\* The POST of a call.
CallPosted(n) ==
    /\ hub.calls[n].post = "out"
    /\ \E answer \in Answers \ {"timeout"} :
         hub' = IF Resolves(answer)
                  THEN [hub EXCEPT !.calls[n].post = "none"]
                  ELSE SendRejected([hub EXCEPT !.calls[n].post = "failed"], n)
    /\ UNCHANGED <<conn, att, trs, stops, deletes>>

-----------------------------------------------------------------------------
(* Data from the server *)

\* What the server may send next on transport t: the handshake response, alone
\* or together with a message; then messages, among them completions of
\* the calls it received there.
Handshakes ==
    {<<Message("handshake", TRUE, NoCall)>>}
      \cup {<<Message("handshake", FALSE, NoCall)>> \o rest :
              rest \in {<<>>, <<Message("close", TRUE, NoCall)>>,
                        <<Message("bad", FALSE, NoCall)>>}}
      \cup {<<Message("bad", FALSE, NoCall)>>}

Texts(t) ==
    CASE trs[t].replies = "handshake" -> Handshakes
      [] trs[t].replies = "messages" ->
           {<<Message(type, FALSE, NoCall)>> :
              type \in {"ping", "close", "bad"}}
             \cup {<<Message("close", TRUE, NoCall)>>}
             \cup {<<Message("completion", err, n)>> : err \in BOOLEAN, n \in
                     {m \in Calls : hub.calls[m].over = t}}
      [] OTHER -> {}

\* The answer of processIncomingData to text, with the handshake flag h.received:
\* what it makes of the hub, whether it raises, whether it calls stop and with
\* an error.
Processed(h, text) ==
    LET handshake == ~h.received
        response == parseHandshakeResponse(text)
        bad == handshake /\ response.fails
        refused == handshake /\ ~bad /\ response.error
        rest == IF handshake THEN response.remaining ELSE text
        raises == bad \/ \E i \in DOMAIN rest : Throws(rest[i])
        message == rest # <<>> /\ ~raises
        asks == message /\ AsksToStop(Head(rest))
        shaken == IF bad THEN h ELSE [h EXCEPT !.received = TRUE]
        cleaned == cleanupTimeout(shaken)
        read == IF message /\ Head(rest).type = "completion"
                  THEN Complete(cleaned, h.calls[Head(rest).call].id, Head(rest).call)
                  ELSE cleaned
    IN  [hub |-> IF raises THEN [read EXCEPT !.raised = TRUE]
                           ELSE configureTimeout(read, conn.keepAlive),
         raises |-> raises,
         stops |-> bad \/ refused \/ asks,
         error |-> bad \/ refused \/ (asks /\ Head(rest).err)]

\* onmessage of a socket or event source, or a poll answered with content.  An
\* exception ends the connection, but leaves the event source open, and the
\* socket as it is.  A poll that is answered after stop() is the last.
Receive(t, text) ==
    LET result == Processed(hub, text)
        error == IF result.error THEN trs[t].of ELSE None
        s == [Client EXCEPT !.hub = result.hub,
                            !.trs[t].replies = "messages",
                            !.conn.state = IF result.stops THEN "Disconnected" ELSE @]
        closed ==
          CASE trs[t].kind = "LongPolling" /\ ~PollsOn(trs[t], result.raises) ->
                 FireOnclose([s EXCEPT !.trs[t] = PollEnded(@)], t)
            [] trs[t].kind = "ServerSentEvents" /\ result.raises ->
                 FireOnclose([s EXCEPT !.trs[t].raised = TRUE], t)
            [] OTHER -> s
    IN  /\ trs[t].link = "open"
        /\ trs[t].wired
        /\ result.stops => MoreStops
        /\ Become(IF result.stops THEN Stop(closed, error, "hub") ELSE closed)

-----------------------------------------------------------------------------
(* Ends of connections *)

\* The socket begins to close, at the server's or the network's instance.
SocketCloses(t) ==
    /\ trs[t].kind = "WebSockets"
    /\ trs[t].link = "open"
    /\ Become([Client EXCEPT !.trs[t].link = "closing"])

\* webSocket.onclose, cleanly or not.
SocketClosed(t) ==
    /\ trs[t].kind = "WebSockets"
    /\ trs[t].link = "closing"
    /\ Become(FireOnclose([Client EXCEPT !.trs[t] = Ended(@)], t))

\* eventSource.onerror once it was open.
SourceFails(t) ==
    /\ trs[t].kind = "ServerSentEvents"
    /\ trs[t].link = "open"
    /\ Become(FireOnclose([Client EXCEPT !.trs[t] = stop(@)], t))

\* A poll is answered so that the loop of poll() ends: 204, another status, an
\* error, or the timeout after stop().
PollEnds(t) ==
    /\ trs[t].kind = "LongPolling"
    /\ trs[t].link = "open"
    /\ Become(FireOnclose([Client EXCEPT !.trs[t] = PollEnded(@)], t))

\* The DELETE of the transport's stop() is answered; HttpConnection.stop goes on
\* and sets the transport to null, whichever it is by now, or rejects.
DeleteAnswered(i) ==
    LET t == deletes[i].transport
    IN  \E answer \in Answers \ {"timeout"} :
          Become([Client EXCEPT
            !.deletes = [j \in 1 .. Len(@) - 1 |-> @[IF j < i THEN j ELSE j + 1]],
            !.trs[t] = ArmShutdown(@),
            !.conn.transport = IF Resolves(answer) THEN None ELSE @])

ShutdownTimeout(t) ==
    /\ trs[t].shutdown
    /\ Become([Client EXCEPT !.trs[t] = AbortPoll(@)])

\* A timer set by configureTimeout fires: serverTimeout.
ServerTimeout ==
    /\ hub.timers > 0
    /\ MoreStops
    /\ Become(Stop([Client EXCEPT !.hub.timers = @ - 1, !.hub.handle = FALSE],
                   att.no, "hub"))

-----------------------------------------------------------------------------

Next ==
    \/ StartAccepted \/ StartRejected \/ UserStop
    \/ \E n \in Calls : Invoke(n) \/ Stream(n) \/ Dispose(n)
    \/ Negotiated \/ Renegotiated \/ TransportAnswers \/ HandshakePosted
    \/ \E n \in Calls : CallPosted(n)
    \/ \E t \in DOMAIN trs :
         \/ \E text \in Texts(t) : Receive(t, text)
         \/ SocketCloses(t) \/ SocketClosed(t) \/ SourceFails(t) \/ PollEnds(t)
         \/ SourceReopens(t) \/ ShutdownTimeout(t)
    \/ \E i \in DOMAIN deletes : DeleteAnswered(i)
    \/ ServerTimeout

\* What the browser always answers in the end: the requests of start(), the POST
\* of a call, a socket that was told to close, and the poll of a stopped
\* transport, which ends with the DELETE or with a timeout; and the DELETE of a
\* stop(), which the user may repeat for ever.
Answered ==
    \/ Negotiated \/ Renegotiated \/ TransportAnswers \/ HandshakePosted
    \/ \E n \in Calls : CallPosted(n)
    \/ \E t \in DOMAIN trs : SocketClosed(t) \/ (~trs[t].held /\ PollEnds(t))
SomeDeleteAnswered == \E i \in DOMAIN deletes : DeleteAnswered(i)

Fairness == WF_vars(Answered) /\ WF_vars(SomeDeleteAnswered)

Spec == Init /\ [][Next]_vars /\ Fairness

-----------------------------------------------------------------------------
(* Properties *)

\* The records are what SignalRTransports and SignalRHub declare, and names of
\* transports are places in trs.
TypeOK ==
    /\ conn \in Connections
    /\ conn.transport \in 0 .. Len(trs)
    /\ att \in [pc : StartPlaces, no : 0 .. MaxStarts,
                offer : {<<>>} \cup UNION {Offers[n] : n \in 1 .. MaxStarts},
                endpoint : Nat, redirects : 0 .. MaxRedirects, lost : BOOLEAN]
    /\ trs \in Seq(Transports)
    /\ stops \in Seq([error : Errors, by : {"user", "hub"}])
    /\ deletes \in Seq([by : {"user", "hub"}, transport : 1 .. Len(trs)])
    /\ hub \in Hubs

\* configureTimeout overwrites timeoutHandle, and what it overwrites can never
\* be cleared: no server timeout is ever armed other than the one of the handle,
\* whether the first message comes before or after the end of start().
NoOrphanTimer == hub.timers = IF hub.handle THEN 1 ELSE 0

\* A server that goes silent is noticed: a started connection in use has a server
\* timeout armed, with two exceptions.  An exception in onreceive comes between
\* cleanupTimeout and configureTimeout, and leaves none until the next message.
\* Long polling needs none, but inherentKeepAlive outlives it: once a long polling
\* transport has been connected, no later connection is watched either.
Polled == \E t \in DOMAIN trs : trs[t].kind = "LongPolling" /\ trs[t].wired
Watched ==
    att.pc = "started" /\ conn.state = "Connected" /\ conn.transport # None =>
        hub.handle \/ hub.raised \/ Polled

\* The result of a call is the one the server gave for it, across reconnections:
\* ids are not used again while anything may still be answered under them.
ResultIsOwn == \A n \in Calls : hub.calls[n].fate # "mistaken"

\* The observers of a stream hear of its end once, of its completion, the end of
\* the connection or a failure to send; a POST that fails after the stream has
\* ended is reported once more.
EndsOnce == \A n \in Calls : hub.calls[n].ends = 2 => hub.calls[n].post = "failed"

\* onclose has still to be called for transport t, and will be when it ends.
CloseDue(t) ==
    trs[t].wired /\ trs[t].told = 0 /\ trs[t].link \in {"open", "closing"}

\* A call that waits can be ended: the onclose of the very transport it was sent
\* over is still to come, whatever became of its POST, its answer and that
\* transport.  Not so when the shutdown timer has aborted that transport's poll,
\* whose promise is never settled: nothing is left then that ends the call, short
\* of the end of another connection.
PendingHasPath ==
    \A n \in Calls : hub.calls[n].fate = "pending" =>
        CloseDue(hub.calls[n].over) \/ trs[hub.calls[n].over].link = "aborted"

\* Transport t is connecting or open, and the client cannot stop it any more.
Unknown(t) ==
    /\ t # conn.transport
    /\ trs[t].link = "connecting" \/ (trs[t].link = "open" /\ trs[t].held)

\* The client lets go of a connection that goes on in four ways only: the onclose
\* of a transport stopped before comes late, the answer to its DELETE does, an
\* exception in onreceive reports an event source closed, and the browser opens an
\* event source that was given up.  Whatever else happens, stop(), a failure or a
\* fallback at any point of start() included, the transport in use is stopped, or
\* has ended, before it is forgotten.
Reports(u) ==
    trs'[u].told > trs[u].told \/ (trs[u].told = 2 /\ conn'.state = "Disconnected")
Loses(t) ==
    \/ \E u \in DOMAIN trs \ {t} : Reports(u)
    \/ /\ Len(deletes') < Len(deletes)
       /\ \E i \in DOMAIN deletes : deletes[i].transport # t
    \/ trs'[t].raised /\ Reports(t)
    \/ trs[t].link = "retrying"
NothingLost ==
    [][\A t \in DOMAIN trs : ~Unknown(t) /\ Unknown(t)' => Loses(t)]_vars

\* onclose is called once for a connection, whether the server, the user, the
\* network or a timeout ends it, or several of them do; again only for an event
\* source that an exception in onreceive left open.
ReportedOnce == \A t \in DOMAIN trs : trs[t].told < 2 \/ trs[t].raised

\* send() reads the transport of a Connected connection unchecked.  stop() while
\* a transport fails to connect is undone by the next one, which sets the state
\* again; the connection is then Connected without a transport, but only until
\* onclose, which is to come, except from a first poll that was answered 204.
HasTransport ==
    conn.state = "Connected" /\ conn.transport = None =>
        \E t \in DOMAIN trs : trs[t].wired /\ trs[t].told = 0


\* stop() by the user settles: it waits for start(), which may go through
\* redirections, other transports and new negotiations, and sets the state back
\* to Connecting; then for the answer to a DELETE.
StopSettles == UserStops ~> ~UserStops

\* Once the connection is Disconnected, a call that waits is told, unless the poll
\* of its transport was aborted by the shutdown timer, or the client does not know
\* its transport any more.
Waits(n) ==
    LET t == hub.calls[n].over
    IN  hub.calls[n].fate = "pending" /\ trs[t].link # "aborted" /\ ~Unknown(t)
CallsSettle ==
    conn.state = "Disconnected" /\ (\E n \in Calls : Waits(n)) ~>
        ~ \E n \in Calls : Waits(n)
=============================================================================
