----------------------------- MODULE SignalRHub -----------------------------
(***************************************************************************)
(* HubConnection of signalr.js: the invocations and streams that wait for  *)
(* the server, the handshake flag and the timer that watches the server.   *)
(* As in SignalRTransports the object is a record and its methods are      *)
(* functions from records to records.                                      *)
(***************************************************************************)
EXTENDS Naturals, FiniteSets, Sequences

CONSTANTS
    MaxCalls        \* calls of invoke and stream: a bound of the model

ASSUME MaxCallsIsNat == MaxCalls \in Nat

Calls == 1 .. MaxCalls
Ids == 0 .. MaxCalls        \* values of HubConnection.id and of invocationId
NoCall == 0

\* What the caller knows of a call: it waits, it was told how the call ended, it
\* was told the end of another call, or there is no observer to tell.
Fates == {"unused", "pending", "settled", "mistaken", "unheard"}

CallStates ==
    [kind : {"none", "invoke", "stream"},
     id : Ids,
     over : Nat,                               \* transport it was sent over
     post : {"none", "out", "failed"}, \* its POST, while it is out or when it failed
     fate : Fates,
     ends : 0 .. 2]                            \* ends its observers heard, 2: more than one

Hubs ==
    [received : BOOLEAN,                  \* receivedHandshakeResponse
     timers : 0 .. 2,                     \* armed server timeouts
     handle : BOOLEAN,                    \* timeoutHandle is one of them
     raised : BOOLEAN,                    \* history: an exception left none armed
     id : Ids,                            \* of the next call
     callbacks : [Ids -> Calls \cup {NoCall}],
     calls : [Calls -> CallStates]]

NewHub ==
    [received |-> FALSE, timers |-> 0, handle |-> FALSE, raised |-> FALSE, id |-> 0,
     callbacks |-> [i \in Ids |-> NoCall],
     calls |-> [n \in Calls |->
                  [kind |-> "none", id |-> 0, over |-> 0, post |-> "none",
                   fate |-> "unused", ends |-> 0]]]

-----------------------------------------------------------------------------
(* The timer *)

\* Mutant: the handle is forgotten and the timer goes on.
cleanupTimeoutForgets(h) == [h EXCEPT !.handle = FALSE]

cleanupTimeout(h) ==
    IF h.handle THEN [h EXCEPT !.timers = @ - 1, !.handle = FALSE] ELSE h

configureTimeout(h, inherentKeepAlive) ==
    IF inherentKeepAlive THEN h
    ELSE [h EXCEPT !.timers = @ + 1, !.handle = TRUE, !.raised = FALSE]

\* Mutant: the timeout of a first message that came early is not cleaned up.
WatchTwice(h, inherentKeepAlive) == configureTimeout(h, inherentKeepAlive)

\* Mutant: the timeout is left to the first message.
WatchLater(h, inherentKeepAlive) == cleanupTimeout(h)

\* The end of start().
Watch(h, inherentKeepAlive) == configureTimeout(cleanupTimeout(h), inherentKeepAlive)

-----------------------------------------------------------------------------
(* Calls *)

\* A callback tells the caller the end of its call.  A promise is settled once,
\* the observers of a stream hear every end.
Notified(call, fate) ==
    [call EXCEPT !.fate = IF @ = "pending" THEN fate ELSE @,
                 !.ends = IF call.kind = "stream" /\ call.fate # "unheard" /\ @ < 2
                            THEN @ + 1 ELSE @]

\* Mutant: the id is used again.
RegisterSameId(h, n, kind) ==
    [h EXCEPT !.callbacks[h.id] = n,
              !.calls[n].kind = kind,
              !.calls[n].id = h.id]

\* createInvocation or createStreamInvocation, and the callback.
Register(h, n, kind) ==
    [h EXCEPT !.id = @ + 1,
              !.callbacks[h.id] = n,
              !.calls[n].kind = kind,
              !.calls[n].id = h.id]

\* Mutant: the callback stays.
ForgetNot(h, id) == h

Forget(h, id) == [h EXCEPT !.callbacks[id] = NoCall]

\* The catch clause of a send that was rejected.
SendRejected(h, n) ==
    Forget([h EXCEPT !.calls[n] = Notified(@, "settled")], h.calls[n].id)

\* A Completion from the server: for the callback registered under its id.
Complete(h, id, sentTo) ==
    LET n == h.callbacks[id]
    IN  IF n = NoCall THEN h
        ELSE Forget([h EXCEPT !.calls[n] =
                        Notified(@, IF n = sentTo THEN "settled" ELSE "mistaken")],
                    id)

\* Mutant: the callbacks are dropped, not called.
connectionClosedSilently(h) ==
    cleanupTimeout([h EXCEPT !.callbacks = [id \in Ids |-> NoCall]])

connectionClosed(h) ==
    LET hit == {h.callbacks[id] : id \in Ids} \ {NoCall}
    IN  cleanupTimeout(
          [h EXCEPT !.callbacks = [id \in Ids |-> NoCall],
                    !.calls = [n \in Calls |->
                                 IF n \in hit THEN Notified(h.calls[n], "settled")
                                              ELSE h.calls[n]]])

-----------------------------------------------------------------------------
(* Messages of the server *)

\* What a received text may contain: the handshake response, with an error or
\* without; "ping" for what only proves the server alive, Ping and the messages
\* that are ignored or given to callbacks that return; Completion; "close" for
\* what makes the client stop: Close with an error or without, an Invocation that
\* requests a reply (an error), one whose handler calls stop() (none); "bad" for
\* what raises: text that cannot be parsed, an Invocation whose handler throws.
Message(type, err, call) == [type |-> type, err |-> err, call |-> call]

\* parseMessages, which rejects a second handshake response too, or a handler.
Throws(m) == m.type \in {"bad", "handshake"}

AsksToStop(m) == m.type = "close"

\* The first message is taken for the handshake response, whatever it is: it
\* cannot be parsed, it has an error or not, and what is left is text as usual.
parseHandshakeResponse(text) ==
    [fails |-> Head(text).type = "bad", error |-> Head(text).err, remaining |-> Tail(text)]
=============================================================================
