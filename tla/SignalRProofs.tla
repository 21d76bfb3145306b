--------------------------- MODULE SignalRProofs ----------------------------
(***************************************************************************)
(* Theorems about SignalRClient, for any number of calls, starts and stops *)
(* that wait, any transports on offer and any limit of redirections.  The  *)
(* invariant speaks of a Client, like the functions a step is made of: a   *)
(* lemma for each of them says what it keeps, and a step composes them.    *)
(***************************************************************************)
EXTENDS SignalRClient, TLAPS, SequenceTheorems, WellFoundedInduction

----------------------------------------------------------------------------
(* The invariant *)

Attempts ==
    [pc : StartPlaces, no : 0 .. MaxStarts,
     offer : {<<>>} \cup UNION {Offers[n] : n \in 1 .. MaxStarts},
     endpoint : Nat, redirects : 0 .. MaxRedirects, lost : BOOLEAN]
StopCalls == [error : Errors, by : {"user", "hub"}]
DeleteCalls == [by : {"user", "hub"}, transport : Nat]

Clients ==
    [conn : Connections, att : Attempts, trs : Seq(Transports), stops : Seq(StopCalls),
     deletes : Seq(DeleteCalls), hub : Hubs]

\* Names of transports are places in trs; errors and transports are of a start.
Placed(s) ==
    /\ s.conn.transport \in 0 .. Len(s.trs)
    /\ \A i \in 1 .. Len(s.deletes) : s.deletes[i].transport \in 1 .. Len(s.trs)
    /\ s.att.pc # "idle" => s.att.no \in 1 .. MaxStarts

\* The timer of the handle is the only one.
TimerKnown(h) == h.timers = IF h.handle THEN 1 ELSE 0

\* The n-th call that was made has the id n - 1.  Its callback is registered under
\* that id, and as long as it is, the call was not told an end.
CallOK(h, n) ==
    LET call == h.calls[n]
    IN  /\ call.fate = "unused" <=> n > h.id
        /\ n > h.id => call.over = 0 /\ call.post = "none" /\ call.ends = 0
        /\ n <= h.id => call.id = n - 1
        /\ h.callbacks[n - 1] = n => n <= h.id /\ call.ends = 0
        /\ call.fate = "pending" => h.callbacks[n - 1] = n
        /\ call.ends = 2 => call.post = "failed"
        /\ call.fate # "mistaken"
CallsOK(h) ==
    /\ \A i \in Ids : h.callbacks[i] \in {NoCall, i + 1}
    /\ \A n \in Calls : CallOK(h, n)

HubOK(h) == h \in Hubs /\ TimerKnown(h) /\ CallsOK(h)

Unopened == {"new", "connecting", "retrying"}

\* A transport that has not opened is not held and has no onclose; onclose is
\* called once, when nothing comes any more, unless onreceive raised; the shutdown
\* timer is that of a polling loop that was stopped.
TransportOK(x) ==
    /\ x.of \in Errors
    /\ x.kind = "ServerSentEvents" => (x.held <=> x.link = "open")
    /\ x.kind = "LongPolling" /\ x.held => x.link = "open"
    /\ x.link \in Unopened => ~x.held /\ ~x.wired
    /\ x.link = "retrying" => x.kind = "ServerSentEvents"
    /\ x.link = "closing" => x.kind = "WebSockets"
    /\ x.shutdown => x.kind = "LongPolling" /\ ~x.held /\ x.link \in {"open", "aborted"}
    /\ x.told > 0 => x.wired
    /\ ~x.raised => (x.told > 0 => x.link = "closed") /\ x.told < 2

\* onclose is still to be called, or would be if the poll were not aborted.
ToCome(x) == x.wired /\ x.told = 0 /\ x.link \in {"open", "closing", "aborted"}

\* A DELETE is that of a polling loop that was stopped.
DeletesOK(s) ==
    \A i \in 1 .. Len(s.deletes) :
        LET x == s.trs[s.deletes[i].transport]
        IN  x.kind = "LongPolling" /\ ~x.held /\ x.link \notin Unopened

\* The transport in use is that of the start that runs, or has opened; a start
\* begins without one that is held.
InUse(s) ==
    LET t == s.conn.transport
    IN  t # None =>
          /\ s.trs[t].link \in Unopened => s.att.pc \in {"renegotiate", "connect"}
          /\ s.att.pc = "negotiate" => ~s.trs[t].held

\* A Connected connection is that of the newest transport.
ConnectedOK(s) ==
    s.conn.state = "Connected" =>
        /\ s.trs # <<>>
        /\ s.trs[Len(s.trs)].wired /\ s.trs[Len(s.trs)].told = 0
        /\ s.conn.transport \in {None, Len(s.trs)}

WatchOK(s) ==
    s.att.pc = "started" /\ s.conn.state = "Connected" /\ s.conn.transport # None =>
        s.hub.handle \/ s.conn.keepAlive \/ s.hub.raised

\* inherentKeepAlive is set by a long polling transport that was connected.
PolledOK(s) ==
    s.conn.keepAlive =>
        \E t \in 1 .. Len(s.trs) : s.trs[t].kind = "LongPolling" /\ s.trs[t].wired

\* A call that waits was sent over a transport whose onclose is still to come.
PathOK(s) ==
    \A n \in Calls : s.hub.calls[n].fate = "pending" =>
        /\ s.hub.calls[n].over \in 1 .. Len(s.trs)
        /\ ToCome(s.trs[s.hub.calls[n].over])

\* While the newest transport is to be connected.
StartOK(s) ==
    s.att.pc \in {"renegotiate", "connect"} =>
        /\ s.trs # <<>>
        /\ s.trs[Len(s.trs)].link =
             IF s.att.pc = "connect" THEN "connecting" ELSE "new"
        /\ s.conn.transport \in {None, Len(s.trs)}

\* What stop() leaves: once the state is Disconnected, the transport in use has been
\* stopped, or will be when start() has ended.
StoppedOK(s) ==
    s.conn.transport # None /\ s.conn.state = "Disconnected" =>
        IF s.att.pc \in Starting THEN s.stops # <<>>
                                 ELSE ~s.trs[s.conn.transport].held

Sound(s) ==
    /\ s \in Clients
    /\ Placed(s)
    /\ HubOK(s.hub)
    /\ \A t \in 1 .. Len(s.trs) : TransportOK(s.trs[t])
    /\ DeletesOK(s)
    /\ InUse(s)
    /\ ConnectedOK(s)
    /\ WatchOK(s)
    /\ PolledOK(s)
    /\ PathOK(s)

ClientInv == Sound(Client) /\ StartOK(Client) /\ StoppedOK(Client)

----------------------------------------------------------------------------
(* The hub: the timer *)

\* Nothing is done to the calls.
SameCalls(g, h) ==
    g \in Hubs /\ g.id = h.id /\ g.callbacks = h.callbacks /\ g.calls = h.calls

LEMMA SameCallsOK ==
    ASSUME NEW g, NEW h, HubOK(h), SameCalls(g, h), TimerKnown(g)
    PROVE  HubOK(g)
BY DEF HubOK, SameCalls, CallsOK, CallOK

\* A hub by its fields.
LEMMA HubFields ==
    ASSUME NEW h \in Hubs
    PROVE  /\ h = [received |-> h.received, timers |-> h.timers, handle |-> h.handle,
                   raised |-> h.raised, id |-> h.id, callbacks |-> h.callbacks,
                   calls |-> h.calls]
           /\ h.received \in BOOLEAN /\ h.timers \in 0 .. 2 /\ h.handle \in BOOLEAN
           /\ h.raised \in BOOLEAN /\ h.id \in Ids
           /\ h.callbacks \in [Ids -> Calls \cup {NoCall}]
           /\ h.calls \in [Calls -> CallStates]
BY DEF Hubs

LEMMA CleanupOK ==
    ASSUME NEW h, HubOK(h)
    PROVE  /\ HubOK(cleanupTimeout(h)) /\ SameCalls(cleanupTimeout(h), h)
           /\ cleanupTimeout(h).timers = 0 /\ ~cleanupTimeout(h).handle
           /\ cleanupTimeout(h).received = h.received
           /\ cleanupTimeout(h).raised = h.raised
<1>1. h \in Hubs /\ TimerKnown(h)
  BY DEF HubOK
<1>2. cleanupTimeout(h) \in Hubs
  <2>1. CASE h.handle
    <3>1. h.timers = 1 /\ h.timers - 1 = 0 /\ 0 \in 0 .. 2
      BY <1>1, <2>1 DEF TimerKnown
    <3>2. cleanupTimeout(h) = [h EXCEPT !.timers = 0, !.handle = FALSE]
      BY <2>1, <3>1 DEF cleanupTimeout
    <3> QED
      BY <1>1, <3>1, <3>2 DEF Hubs
  <2>2. CASE ~h.handle
    BY <1>1, <2>2 DEF cleanupTimeout
  <2> QED
    BY <2>1, <2>2
<1>3. /\ cleanupTimeout(h).timers = 0 /\ ~cleanupTimeout(h).handle
      /\ cleanupTimeout(h).received = h.received
      /\ cleanupTimeout(h).raised = h.raised
      /\ SameCalls(cleanupTimeout(h), h)
  BY <1>1, <1>2 DEF cleanupTimeout, TimerKnown, Hubs, SameCalls
<1> QED
  BY <1>3, SameCallsOK DEF TimerKnown

LEMMA ConfigureOK ==
    ASSUME NEW h, HubOK(h), ~h.handle, NEW keep \in BOOLEAN
    PROVE  /\ HubOK(configureTimeout(h, keep)) /\ SameCalls(configureTimeout(h, keep), h)
           /\ configureTimeout(h, keep).handle \/ keep
<1>1. h \in Hubs /\ TimerKnown(h)
  BY DEF HubOK
<1>2. /\ configureTimeout(h, keep) \in Hubs
      /\ TimerKnown(configureTimeout(h, keep))
      /\ configureTimeout(h, keep).handle \/ keep
  <2>1. CASE ~keep
    <3>1. h.timers = 0 /\ h.timers + 1 = 1 /\ 1 \in 0 .. 2
      BY <1>1 DEF TimerKnown
    <3>2. configureTimeout(h, keep) =
            [h EXCEPT !.timers = 1, !.handle = TRUE, !.raised = FALSE]
      BY <2>1, <3>1 DEF configureTimeout
    <3> QED
      BY <1>1, <2>1, <3>1, <3>2 DEF TimerKnown, Hubs
  <2>2. CASE keep
    BY <1>1, <2>2 DEF configureTimeout
  <2> QED
    BY <2>1, <2>2
<1>3. SameCalls(configureTimeout(h, keep), h)
  BY <1>1, <1>2 DEF configureTimeout, Hubs, SameCalls
<1> QED
  BY <1>2, <1>3, SameCallsOK

\* The end of start() leaves the connection watched, unless it need not be.
LEMMA WatchKeeps ==
    ASSUME NEW h, HubOK(h), NEW keep \in BOOLEAN
    PROVE  /\ HubOK(Watch(h, keep)) /\ SameCalls(Watch(h, keep), h)
           /\ Watch(h, keep).handle \/ keep
<1>1. HubOK(cleanupTimeout(h)) /\ SameCalls(cleanupTimeout(h), h) /\ ~cleanupTimeout(h).handle
  BY CleanupOK
<1> QED
  BY <1>1, ConfigureOK DEF Watch, SameCalls

----------------------------------------------------------------------------
(* The hub: calls *)

\* What a callback makes of a call.
LEMMA NotifiedCall ==
    ASSUME NEW call \in CallStates, NEW fate \in Fates \ {"pending"}
    PROVE  /\ Notified(call, fate) \in CallStates
           /\ Notified(call, fate).fate = IF call.fate = "pending" THEN fate ELSE call.fate
           /\ Notified(call, fate).ends \in {call.ends, call.ends + 1}
           /\ Notified(call, fate).id = call.id
           /\ Notified(call, fate).over = call.over
           /\ Notified(call, fate).post = call.post
           /\ Notified(call, fate).kind = call.kind
<1>1. CASE call.fate = "pending" /\ call.kind = "stream" /\ call.ends < 2
  <2>1. Notified(call, fate) = [call EXCEPT !.fate = fate, !.ends = call.ends + 1]
    BY <1>1 DEF Notified, CallStates
  <2>2. call.ends + 1 \in 0 .. 2
    BY <1>1 DEF CallStates
  <2> QED
    BY <1>1, <2>1, <2>2 DEF CallStates
<1>2. CASE call.fate = "pending" /\ ~(call.kind = "stream" /\ call.ends < 2)
  <2>1. Notified(call, fate) = [call EXCEPT !.fate = fate]
    BY <1>2 DEF Notified, CallStates
  <2> QED
    BY <1>2, <2>1 DEF CallStates
<1>3. CASE /\ call.fate # "pending"
           /\ call.kind = "stream" /\ call.fate # "unheard" /\ call.ends < 2
  <2>1. Notified(call, fate) = [call EXCEPT !.ends = call.ends + 1]
    BY <1>3 DEF Notified, CallStates
  <2>2. call.ends + 1 \in 0 .. 2
    BY <1>3 DEF CallStates
  <2> QED
    BY <1>3, <2>1, <2>2 DEF CallStates
<1>4. CASE /\ call.fate # "pending"
           /\ ~(call.kind = "stream" /\ call.fate # "unheard" /\ call.ends < 2)
  <2>1. Notified(call, fate) = call
    BY <1>4 DEF Notified, CallStates
  <2> QED
    BY <1>4, <2>1
<1> QED
  BY <1>1, <1>2, <1>3, <1>4

\* Whoever waits with g waits with h, and for the same transport.
StillWait(g, h) ==
    \A n \in Calls : g.calls[n].fate = "pending" =>
        h.calls[n].fate = "pending" /\ g.calls[n].over = h.calls[n].over

\* The callback of n is called, or the POST of n has failed, and the callback is gone.
Told(g, h, n) ==
    /\ g \in Hubs /\ g.id = h.id
    /\ g.timers = h.timers /\ g.handle = h.handle
    /\ g.raised = h.raised /\ g.received = h.received
    /\ g.callbacks = [h.callbacks EXCEPT ![n - 1] = NoCall]
    /\ \A m \in Calls \ {n} : g.calls[m] = h.calls[m]

LEMMA ToldOK ==
    ASSUME NEW h, HubOK(h), NEW g, NEW n \in Calls, Told(g, h, n),
           g.calls[n].fate = h.calls[n].fate \/ g.calls[n].fate \in {"settled", "unheard"},
           h.calls[n].fate # "unused", g.calls[n].fate # "pending",
           g.calls[n].id = h.calls[n].id,
           g.calls[n].ends = 2 => g.calls[n].post = "failed"
    PROVE  HubOK(g)
<1>1. h \in Hubs /\ CallsOK(h) /\ TimerKnown(g)
  BY DEF HubOK, Told, TimerKnown
<1>2. \A m \in Calls : m - 1 \in Ids /\ m \in Nat
  BY MaxCallsIsNat DEF Calls, Ids
<1>3. \A m \in Calls : CallOK(h, m)
  BY <1>1 DEF CallsOK
<1>4. /\ g.callbacks[n - 1] = NoCall
      /\ \A i \in Ids \ {n - 1} : g.callbacks[i] = h.callbacks[i]
  BY <1>1, <1>2 DEF Told, Hubs
<1>5. \A i \in Ids : g.callbacks[i] \in {NoCall, i + 1}
  BY <1>1, <1>4 DEF CallsOK
<1>6. ASSUME NEW m \in Calls \ {n} PROVE CallOK(g, m)
  <2>1. g.callbacks[m - 1] = h.callbacks[m - 1]
    BY <1>2, <1>4
  <2> QED
    BY <1>3, <2>1 DEF CallOK, Told
<1>7. CallOK(g, n)
  <2>1. n # NoCall /\ h.id \in Ids
    BY <1>1 DEF Calls, NoCall, Hubs
  <2>2. n <= h.id /\ g.calls[n].fate # "unused" /\ g.calls[n].fate # "mistaken"
    BY <1>2, <1>3, <2>1 DEF CallOK, Ids
  <2> QED
    BY <1>2, <1>3, <1>4, <2>1, <2>2 DEF CallOK, Told, Ids
<1> QED
  BY <1>1, <1>5, <1>6, <1>7 DEF HubOK, CallsOK, Told

\* The id of a call that was made is its place.
LEMMA CallMade ==
    ASSUME NEW h, HubOK(h), NEW n \in Calls, h.calls[n].fate # "unused"
    PROVE  /\ h \in Hubs /\ h.calls[n] \in CallStates
           /\ h.calls[n].id = n - 1 /\ n - 1 \in Ids /\ n # NoCall
           /\ h.callbacks[n - 1] \in {NoCall, n}
           /\ h.callbacks[n - 1] = n => h.calls[n].ends = 0
           /\ h.calls[n].ends = 2 => h.calls[n].post = "failed"
           /\ h.calls[n].ends \in 0 .. 2
<1>1. h \in Hubs /\ h.calls[n] \in CallStates /\ h.id \in Nat
  BY MaxCallsIsNat DEF HubOK, Hubs, Ids
<1>2. n - 1 \in Ids /\ n \in Nat /\ n # NoCall /\ (n - 1) + 1 = n
  BY MaxCallsIsNat DEF Calls, Ids, NoCall
<1>3. CallOK(h, n) /\ h.callbacks[n - 1] \in {NoCall, (n - 1) + 1}
  BY <1>2 DEF HubOK, CallsOK
<1>4. n <= h.id
  BY <1>1, <1>2, <1>3 DEF CallOK
<1> QED
  BY <1>1, <1>2, <1>3, <1>4 DEF CallOK, CallStates

\* The rejection of a send tells the caller, late perhaps, and forgets the call.
LEMMA SendRejectedOK ==
    ASSUME NEW h, HubOK(h), NEW n \in Calls, h.calls[n].fate # "unused",
           h.calls[n].post = "failed" \/ h.callbacks[n - 1] = n
    PROVE  /\ HubOK(SendRejected(h, n)) /\ Told(SendRejected(h, n), h, n)
           /\ SendRejected(h, n).calls[n].fate # "pending"
<1> DEFINE call == Notified(h.calls[n], "settled")
           g == [h EXCEPT !.calls = [h.calls EXCEPT ![n] = call],
                          !.callbacks = [h.callbacks EXCEPT ![n - 1] = NoCall]]
<1>1. /\ h \in Hubs /\ h.calls[n] \in CallStates
      /\ h.calls[n].id = n - 1 /\ n - 1 \in Ids
      /\ h.callbacks[n - 1] = n => h.calls[n].ends = 0
      /\ h.calls[n].ends = 2 => h.calls[n].post = "failed"
      /\ h.calls[n].ends \in 0 .. 2
  BY CallMade
<1>2. /\ call \in CallStates
      /\ call.fate = IF h.calls[n].fate = "pending" THEN "settled" ELSE h.calls[n].fate
      /\ call.ends \in {h.calls[n].ends, h.calls[n].ends + 1}
      /\ call.id = h.calls[n].id /\ call.post = h.calls[n].post
  BY <1>1, NotifiedCall DEF Fates
<1> HIDE DEF call
<1>3. SendRejected(h, n) = g
  BY <1>1 DEF SendRejected, Forget, call, Hubs
<1>4. /\ g \in Hubs /\ g.calls = [h.calls EXCEPT ![n] = call]
      /\ g.callbacks = [h.callbacks EXCEPT ![n - 1] = NoCall]
      /\ g.id = h.id /\ g.timers = h.timers /\ g.handle = h.handle
      /\ g.raised = h.raised /\ g.received = h.received
  BY <1>1, <1>2 DEF Hubs, NoCall
<1> HIDE DEF g
<1>5. g.calls[n] = call /\ \A m \in Calls \ {n} : g.calls[m] = h.calls[m]
  BY <1>1, <1>4 DEF Hubs
<1>6. Told(g, h, n)
  BY <1>4, <1>5 DEF Told
<1>7. call.ends = 2 => call.post = "failed"
  BY <1>1, <1>2
<1>8. HubOK(g)
  BY <1>1, <1>2, <1>5, <1>6, <1>7, ToldOK
<1> QED
  BY <1>2, <1>3, <1>5, <1>6, <1>8

\* A Completion is for the call it is sent to: nobody else has its id.
LEMMA CompleteOK ==
    ASSUME NEW h, HubOK(h), NEW n \in Calls, h.calls[n].fate # "unused"
    PROVE  LET g == Complete(h, h.calls[n].id, n)
           IN  /\ HubOK(g)
               /\ g = h \/ Told(g, h, n)
<1>1. /\ h.calls[n].id = n - 1 /\ h.callbacks[n - 1] \in {NoCall, n} /\ n # NoCall
      /\ h \in Hubs /\ h.calls[n] \in CallStates
  BY CallMade
<1>2. CASE h.callbacks[n - 1] = NoCall
  BY <1>1, <1>2 DEF Complete
<1>3. CASE h.callbacks[n - 1] = n
  <2>1. Complete(h, h.calls[n].id, n) = SendRejected(h, n)
    BY <1>1, <1>3 DEF Complete, SendRejected
  <2> QED
    BY <1>3, <2>1, SendRejectedOK
<1> QED
  BY <1>1, <1>2, <1>3

\* dispose() of a subscription.
LEMMA ForgetUnheardOK ==
    ASSUME NEW h, HubOK(h), NEW n \in Calls, h.calls[n].fate = "pending"
    PROVE  LET g == Forget([h EXCEPT !.calls[n].fate = "unheard"], h.calls[n].id)
           IN  HubOK(g) /\ Told(g, h, n) /\ g.calls[n].fate # "pending"
<1> DEFINE call == [h.calls[n] EXCEPT !.fate = "unheard"]
           g == [h EXCEPT !.calls = [h.calls EXCEPT ![n] = call],
                          !.callbacks = [h.callbacks EXCEPT ![n - 1] = NoCall]]
<1>1. /\ h \in Hubs /\ h.calls[n] \in CallStates
      /\ h.calls[n].id = n - 1 /\ n - 1 \in Ids
      /\ h.calls[n].ends = 2 => h.calls[n].post = "failed"
  BY CallMade
<1>2. /\ call \in CallStates /\ call.fate = "unheard" /\ call.ends = h.calls[n].ends
      /\ call.id = h.calls[n].id /\ call.post = h.calls[n].post
  BY <1>1 DEF CallStates, Fates
<1>3. Forget([h EXCEPT !.calls[n].fate = "unheard"], h.calls[n].id) = g
  BY <1>1 DEF Forget, Hubs
<1> HIDE DEF call
<1>4. /\ g \in Hubs /\ g.calls = [h.calls EXCEPT ![n] = call]
      /\ g.callbacks = [h.callbacks EXCEPT ![n - 1] = NoCall]
      /\ g.id = h.id /\ g.timers = h.timers /\ g.handle = h.handle
      /\ g.raised = h.raised /\ g.received = h.received
  BY <1>1, <1>2 DEF Hubs, NoCall
<1> HIDE DEF g
<1>5. g.calls[n] = call /\ \A m \in Calls \ {n} : g.calls[m] = h.calls[m]
  BY <1>1, <1>4 DEF Hubs
<1>6. Told(g, h, n)
  BY <1>4, <1>5 DEF Told
<1> QED
  BY <1>1, <1>2, <1>3, <1>5, <1>6, ToldOK

\* onclose of the connection: whoever waits is told, and nobody is twice.
LEMMA ConnectionClosedOK ==
    ASSUME NEW h, HubOK(h)
    PROVE  /\ HubOK(connectionClosed(h))
           /\ \A n \in Calls : connectionClosed(h).calls[n].fate # "pending"
           /\ connectionClosed(h).received = h.received
<1> DEFINE hit == {h.callbacks[id] : id \in Ids} \ {NoCall}
           calls == [n \in Calls |-> IF n \in hit THEN Notified(h.calls[n], "settled")
                                                  ELSE h.calls[n]]
           none == [id \in Ids |-> NoCall]
           g == [h EXCEPT !.callbacks = none, !.calls = calls]
<1>1. h \in Hubs /\ TimerKnown(h)
  BY DEF HubOK
<1>2. \A n \in Calls : n \in hit <=> h.callbacks[n - 1] = n
  <2> SUFFICES ASSUME NEW n \in Calls PROVE n \in hit <=> h.callbacks[n - 1] = n
    OBVIOUS
  <2>1. n - 1 \in Ids /\ n # NoCall
    BY MaxCallsIsNat DEF Calls, Ids, NoCall
  <2>2. ASSUME NEW i \in Ids, h.callbacks[i] = n PROVE i = n - 1
    BY <2>1, <2>2, MaxCallsIsNat DEF HubOK, CallsOK, Ids, NoCall, Calls
  <2> QED
    BY <2>1, <2>2
<1> HIDE DEF hit
<1>3. ASSUME NEW n \in Calls
      PROVE  /\ calls[n] \in CallStates
             /\ n \in hit => calls[n] = Notified(h.calls[n], "settled")
             /\ n \notin hit => calls[n] = h.calls[n]
  BY <1>1, NotifiedCall DEF Hubs, Fates
<1>4. ASSUME NEW n \in Calls
      PROVE  /\ (calls[n].fate = "unused" <=> h.calls[n].fate = "unused")
             /\ calls[n].fate \notin {"pending", "mistaken"}
             /\ calls[n].over = h.calls[n].over /\ calls[n].post = h.calls[n].post
             /\ calls[n].id = h.calls[n].id
             /\ calls[n].ends = h.calls[n].ends \/ (h.calls[n].ends = 0 /\ calls[n].ends = 1)
  <2>1. CallOK(h, n) /\ h.calls[n] \in CallStates
    BY <1>1 DEF HubOK, CallsOK, Hubs
  <2>2. CASE n \notin hit
    BY <1>2, <1>3, <2>1, <2>2 DEF CallOK
  <2>3. CASE n \in hit
    <3>1. h.calls[n].ends = 0
      BY <1>2, <2>1, <2>3 DEF CallOK
    <3>2. calls[n] = Notified(h.calls[n], "settled")
      BY <1>3, <2>3
    <3> HIDE DEF calls
    <3>3. "settled" \in Fates \ {"pending"}
      BY DEF Fates
    <3>4. /\ calls[n].fate = IF h.calls[n].fate = "pending" THEN "settled"
                                                          ELSE h.calls[n].fate
          /\ calls[n].ends \in {h.calls[n].ends, h.calls[n].ends + 1}
          /\ calls[n].over = h.calls[n].over /\ calls[n].post = h.calls[n].post
          /\ calls[n].id = h.calls[n].id
      BY <2>1, <3>2, <3>3, NotifiedCall
    <3>5. h.calls[n].fate # "mistaken"
      BY <2>1 DEF CallOK
    <3> QED
      BY <3>1, <3>4, <3>5
  <2> QED
    BY <2>2, <2>3
<1>5. calls \in [Calls -> CallStates] /\ none \in [Ids -> Calls \cup {NoCall}]
  BY <1>3
<1>6. \A i \in Ids : none[i] = NoCall
  OBVIOUS
<1> HIDE DEF calls, none
<1>7. /\ g \in Hubs /\ g.calls = calls /\ g.callbacks = none /\ g.id = h.id
      /\ g.timers = h.timers /\ g.handle = h.handle /\ g.received = h.received
  BY <1>1, <1>5 DEF Hubs
<1>8. connectionClosed(h) = cleanupTimeout(g)
  BY DEF connectionClosed, hit, calls, none
<1> HIDE DEF g
<1>9. ASSUME NEW n \in Calls PROVE CallOK(g, n)
  <2>1. CallOK(h, n) /\ h.calls[n] \in CallStates /\ h.id \in Nat
    BY <1>1, MaxCallsIsNat DEF HubOK, CallsOK, Hubs, Ids
  <2>2. n - 1 \in Ids /\ n # NoCall /\ n \in Nat
    BY MaxCallsIsNat DEF Calls, Ids, NoCall
  <2>3. g.calls[n] = calls[n] /\ g.callbacks[n - 1] = NoCall
    BY <1>6, <1>7, <2>2
  <2>4. n > g.id => g.calls[n].over = 0 /\ g.calls[n].post = "none" /\ g.calls[n].ends = 0
    <3>1. n > g.id => h.calls[n].fate = "unused" /\ n \notin hit
      BY <1>2, <1>7, <2>1, <2>2 DEF CallOK
    <3> QED
      BY <1>3, <1>7, <2>1, <2>3, <3>1 DEF CallOK
  <2> QED
    BY <1>4, <1>7, <2>1, <2>2, <2>3, <2>4 DEF CallOK
<1>10. CallsOK(g)
  BY <1>6, <1>7, <1>9 DEF CallsOK
<1>11. HubOK(g)
  BY <1>1, <1>7, <1>10 DEF HubOK, TimerKnown
<1>12. \A n \in Calls : g.calls[n].fate # "pending"
  BY <1>4, <1>7
<1> QED
  BY <1>7, <1>8, <1>11, <1>12, CleanupOK DEF SameCalls

\* The next call is made: its id is new.
LEMMA NextCallOK ==
    ASSUME NEW h, HubOK(h), NEW n \in Calls, n = h.id + 1, NEW x \in CallStates,
           x.id = n - 1, x.fate \in {"pending", "settled", "unheard"}, x.ends = 0
    PROVE  HubOK([h EXCEPT !.id = n, !.callbacks = [h.callbacks EXCEPT ![n - 1] = n],
                           !.calls = [h.calls EXCEPT ![n] = x]])
<1> DEFINE g == [h EXCEPT !.id = n, !.callbacks = [h.callbacks EXCEPT ![n - 1] = n],
                          !.calls = [h.calls EXCEPT ![n] = x]]
<1>1. h \in Hubs /\ TimerKnown(h) /\ h.id \in Nat
  BY MaxCallsIsNat DEF HubOK, Hubs, Ids
<1>2. \A m \in Calls : m - 1 \in Ids /\ m \in Ids /\ m \in Nat /\ m # NoCall
  BY MaxCallsIsNat DEF Calls, Ids, NoCall
<1>3. /\ g \in Hubs /\ g.id = n /\ g.timers = h.timers /\ g.handle = h.handle
      /\ g.callbacks = [h.callbacks EXCEPT ![n - 1] = n]
      /\ g.calls = [h.calls EXCEPT ![n] = x]
  BY <1>1, <1>2 DEF Hubs
<1> HIDE DEF g
<1>4. /\ g.callbacks[n - 1] = n /\ \A i \in Ids \ {n - 1} : g.callbacks[i] = h.callbacks[i]
      /\ g.calls[n] = x /\ \A m \in Calls \ {n} : g.calls[m] = h.calls[m]
  BY <1>1, <1>2, <1>3 DEF Hubs
<1>5. \A i \in Ids : g.callbacks[i] \in {NoCall, i + 1}
  BY <1>1, <1>2, <1>4 DEF HubOK, CallsOK
<1>6. ASSUME NEW m \in Calls \ {n} PROVE CallOK(g, m)
  <2>1. CallOK(h, m) /\ m - 1 # n - 1 /\ m \in Nat /\ m - 1 \in Ids
    BY <1>1, <1>2 DEF HubOK, CallsOK
  <2>2. m > h.id <=> m > n
    BY <1>1, <1>2
  <2> QED
    BY <1>1, <1>2, <1>3, <1>4, <2>1, <2>2 DEF CallOK
<1>7. CallOK(g, n)
  BY <1>2, <1>3, <1>4 DEF CallOK
<1>8. HubOK(g)
  BY <1>1, <1>3, <1>5, <1>6, <1>7 DEF HubOK, CallsOK, TimerKnown
<1> QED
  BY <1>8 DEF g

\* invoke() and stream(): a call waits only if it is sent over the transport in use.
LEMMA SendOK ==
    ASSUME HubOK(hub), conn \in Connections, NEW n \in Calls, MayCall(n),
           NEW kind \in {"invoke", "stream"}, NEW thrown \in {"settled", "unheard"}
    PROVE  LET g == send(Register(hub, n, kind), n, thrown)
           IN  /\ HubOK(g)
               /\ g.handle = hub.handle /\ g.raised = hub.raised
               /\ \A m \in Calls \ {n} : g.calls[m] = hub.calls[m]
               /\ g.calls[n].fate = "pending" =>
                     /\ conn.state = "Connected" /\ conn.transport # None
                     /\ CanSend(trs[conn.transport])
                     /\ g.calls[n].over = conn.transport
<1> DEFINE G(x) == [hub EXCEPT !.id = n, !.callbacks = [hub.callbacks EXCEPT ![n - 1] = n],
                               !.calls = [hub.calls EXCEPT ![n] = x]]
           made == [hub.calls[n] EXCEPT !.kind = kind, !.id = n - 1]
           t == conn.transport
           post == IF Posts(trs[t]) THEN "out" ELSE "none"
<1>1. hub \in Hubs /\ hub.id \in Nat /\ hub.calls[n] \in CallStates /\ n - 1 \in Ids
  BY MaxCallsIsNat DEF HubOK, Hubs, Ids, Calls
<1>2. n = hub.id + 1
  <2>1. n \in Nat /\ n > hub.id
    BY <1>1 DEF MayCall, HubOK, CallsOK, CallOK, Calls
  <2>2. CASE n = 1
    BY <1>1, <2>1, <2>2
  <2>3. CASE n # 1
    <3>1. n - 1 \in Calls /\ n - 1 \in 1 .. n - 1
      BY <2>1, <2>3, MaxCallsIsNat DEF Calls
    <3>2. hub.calls[n - 1].fate # "unused"
      BY <3>1 DEF MayCall
    <3>3. ~(n - 1 > hub.id)
      BY <3>1, <3>2 DEF HubOK, CallsOK, CallOK
    <3> QED
      BY <1>1, <2>1, <3>3
  <2> QED
    BY <2>2, <2>3
<1>3. hub.calls[n].ends = 0
  BY <1>1, <1>2 DEF HubOK, CallsOK, CallOK
<1>4. /\ made \in CallStates /\ made.id = n - 1 /\ made.ends = 0
      /\ Register(hub, n, kind) = G(made)
  <2>1. made \in CallStates /\ made.id = n - 1 /\ made.ends = 0
    BY <1>1, <1>3 DEF CallStates
  <2>2. hub.id = n - 1 /\ hub.id + 1 = n
    BY <1>1, <1>2
  <2>3. [hub.calls EXCEPT ![n] = made]
          = [[hub.calls EXCEPT ![n].kind = kind] EXCEPT ![n].id = n - 1]
    BY <1>1 DEF Hubs
  <2>4. Register(hub, n, kind)
          = [hub EXCEPT !.id = n, !.callbacks = [hub.callbacks EXCEPT ![n - 1] = n],
                        !.calls = [[hub.calls EXCEPT ![n].kind = kind]
                                     EXCEPT ![n].id = n - 1]]
    BY <1>1, <2>2 DEF Register, Hubs
  <2> HIDE DEF made
  <2> QED
    BY <2>1, <2>3, <2>4
<1> HIDE DEF made
<1>5. ASSUME NEW x
      PROVE  /\ G(x).calls[n] = x /\ \A m \in Calls \ {n} : G(x).calls[m] = hub.calls[m]
             /\ G(x).calls = [hub.calls EXCEPT ![n] = x]
             /\ G(x).handle = hub.handle /\ G(x).raised = hub.raised
             /\ G(x).callbacks[n - 1] = n
  BY <1>1 DEF Hubs
<1>6. ASSUME NEW x, NEW y PROVE [G(x) EXCEPT !.calls = [G(x).calls EXCEPT ![n] = y]] = G(y)
  <2>1. G(x).calls = [hub.calls EXCEPT ![n] = x]
    BY <1>5
  <2>2. [[hub.calls EXCEPT ![n] = x] EXCEPT ![n] = y] = [hub.calls EXCEPT ![n] = y]
    BY <1>1 DEF Hubs
  <2>3. [G(x) EXCEPT !.calls = [hub.calls EXCEPT ![n] = y]] = G(y)
    BY <1>1 DEF Hubs
  <2> HIDE DEF G
  <2> QED
    BY <2>1, <2>2, <2>3
<1>7. CASE conn.state # "Connected" \/ t = None
  <2> DEFINE x == [made EXCEPT !.fate = thrown]
  <2>1. x \in CallStates /\ x.id = n - 1 /\ x.ends = 0 /\ x.fate = thrown
    BY <1>4 DEF CallStates, Fates
  <2>2. send(Register(hub, n, kind), n, thrown)
          = [G(made) EXCEPT !.calls = [G(made).calls EXCEPT ![n] = x]]
    BY <1>4, <1>5, <1>7 DEF send
  <2> HIDE DEF x
  <2>3. send(Register(hub, n, kind), n, thrown) = G(x)
    BY <1>6, <2>2
  <2>4. HubOK(G(x))
    BY <1>2, <2>1, NextCallOK
  <2>5. /\ G(x).calls[n] = x /\ \A m \in Calls \ {n} : G(x).calls[m] = hub.calls[m]
        /\ G(x).handle = hub.handle /\ G(x).raised = hub.raised
    BY <1>5
  <2> HIDE DEF G
  <2> QED
    BY <2>1, <2>3, <2>4, <2>5
<1>8. CASE ~(conn.state # "Connected" \/ t = None) /\ ~CanSend(trs[t])
  <2> DEFINE x == [made EXCEPT !.fate = "pending"]
  <2>1. x \in CallStates /\ x.id = n - 1 /\ x.ends = 0 /\ x.fate = "pending"
    BY <1>4 DEF CallStates, Fates
  <2>2. send(Register(hub, n, kind), n, thrown)
          = SendRejected([G(made) EXCEPT !.calls = [G(made).calls EXCEPT ![n] = x]], n)
    BY <1>4, <1>5, <1>8 DEF send
  <2> HIDE DEF x
  <2>3. send(Register(hub, n, kind), n, thrown) = SendRejected(G(x), n)
    BY <1>6, <2>2
  <2>4. HubOK(G(x))
    BY <1>2, <2>1, NextCallOK
  <2>5. G(x).calls[n] = x /\ G(x).callbacks[n - 1] = n
    BY <1>5
  <2>6. /\ \A m \in Calls \ {n} : G(x).calls[m] = hub.calls[m]
        /\ G(x).handle = hub.handle /\ G(x).raised = hub.raised
    BY <1>5
  <2> HIDE DEF G
  <2>7. HubOK(SendRejected(G(x), n)) /\ Told(SendRejected(G(x), n), G(x), n)
    BY <2>1, <2>4, <2>5, SendRejectedOK
  <2>8. SendRejected(G(x), n).calls[n].fate # "pending"
    <3>1. n - 1 \in Ids /\ n # NoCall
      BY <1>1 DEF Calls, NoCall
    <3>2. SendRejected(G(x), n).callbacks[n - 1] = NoCall
      BY <2>4, <2>7, <3>1 DEF Told, HubOK, Hubs
    <3> QED
      BY <2>7, <3>1, <3>2 DEF HubOK, CallsOK, CallOK
  <2> QED
    BY <2>3, <2>6, <2>7, <2>8 DEF Told
<1>9. CASE ~(conn.state # "Connected" \/ t = None) /\ CanSend(trs[t])
  <2> DEFINE x == [made EXCEPT !.fate = "pending", !.over = t, !.post = post]
  <2>1. x \in CallStates /\ x.id = n - 1 /\ x.ends = 0 /\ x.fate = "pending" /\ x.over = t
    BY <1>4 DEF CallStates, Fates, Connections
  <2>2. send(Register(hub, n, kind), n, thrown)
          = [G(made) EXCEPT !.calls = [G(made).calls EXCEPT ![n] = x]]
    <3>1. send(Register(hub, n, kind), n, thrown)
            = [G(made) EXCEPT !.calls[n].fate = "pending", !.calls[n].over = t,
                              !.calls[n].post = post]
      BY <1>4, <1>9 DEF send
    <3>2. /\ G(made).calls \in [Calls -> CallStates] /\ G(made).calls[n] = made
          /\ "calls" \in DOMAIN G(made)
      BY <1>1, <1>4 DEF Hubs
    <3> HIDE DEF G, post
    <3> QED
      BY <3>1, <3>2, ZenonT(90)
  <2> HIDE DEF x
  <2>3. send(Register(hub, n, kind), n, thrown) = G(x)
    BY <1>6, <2>2
  <2>4. HubOK(G(x))
    BY <1>2, <2>1, NextCallOK
  <2>5. /\ G(x).calls[n] = x /\ \A m \in Calls \ {n} : G(x).calls[m] = hub.calls[m]
        /\ G(x).handle = hub.handle /\ G(x).raised = hub.raised
    BY <1>5
  <2> HIDE DEF G
  <2>6. HubOK(send(Register(hub, n, kind), n, thrown))
    BY <2>3, <2>4
  <2> QED
    BY <1>9, <2>1, <2>3, <2>5, <2>6, Zenon
<1> QED
  BY <1>7, <1>8, <1>9

\* Steps on a hub that touch neither its timer nor a callback.
LEMMA ReceivedOK ==
    ASSUME NEW h, HubOK(h), NEW received \in BOOLEAN
    PROVE  LET g == [h EXCEPT !.received = received]
           IN  /\ HubOK(g) /\ SameCalls(g, h)
               /\ g.handle = h.handle /\ g.raised = h.raised
<1> DEFINE g == [h EXCEPT !.received = received]
<1>1. h \in Hubs /\ TimerKnown(h)
  BY DEF HubOK
<1>2. g \in Hubs /\ SameCalls(g, h) /\ TimerKnown(g) /\ g.handle = h.handle
      /\ g.raised = h.raised
  BY <1>1 DEF Hubs, SameCalls, TimerKnown
<1> QED
  BY <1>2, SameCallsOK

LEMMA RaisedOK ==
    ASSUME NEW h, HubOK(h)
    PROVE  LET g == [h EXCEPT !.raised = TRUE]
           IN  HubOK(g) /\ SameCalls(g, h) /\ g.raised
<1> DEFINE g == [h EXCEPT !.raised = TRUE]
<1>1. h \in Hubs /\ TimerKnown(h)
  BY DEF HubOK
<1>2. g \in Hubs /\ SameCalls(g, h) /\ TimerKnown(g) /\ g.raised
  BY <1>1 DEF Hubs, SameCalls, TimerKnown
<1> QED
  BY <1>2, SameCallsOK

\* The timer that fires is that of the handle.
Fired(h) == [h EXCEPT !.timers = @ - 1, !.handle = FALSE]
LEMMA TimerFiresOK ==
    ASSUME NEW h, HubOK(h), h.timers > 0
    PROVE  HubOK(Fired(h)) /\ SameCalls(Fired(h), h)
<1>1. h \in Hubs /\ h.handle
  BY DEF HubOK, TimerKnown
<1>2. Fired(h) = cleanupTimeout(h)
  BY <1>1 DEF cleanupTimeout, Fired
<1> QED
  BY <1>2, CleanupOK

\* The answer to the POST of a call.
LEMMA PostOK ==
    ASSUME NEW h, HubOK(h), NEW n \in Calls, h.calls[n].post = "out",
           NEW post \in {"none", "failed"}
    PROVE  LET g == [h EXCEPT !.calls[n].post = post]
           IN  /\ HubOK(g) /\ g.handle = h.handle /\ g.raised = h.raised
               /\ StillWait(g, h)
               /\ g.calls[n].post = post /\ g.calls[n].fate # "unused"
<1> DEFINE x == [h.calls[n] EXCEPT !.post = post]
           g == [h EXCEPT !.calls = [h.calls EXCEPT ![n] = x]]
<1>1. h \in Hubs /\ TimerKnown(h) /\ h.calls[n] \in CallStates
  BY DEF HubOK, Hubs
<1>2. /\ x \in CallStates /\ x.over = h.calls[n].over /\ x.fate = h.calls[n].fate
      /\ x.id = h.calls[n].id /\ x.post = post /\ x.ends = h.calls[n].ends
  BY <1>1 DEF CallStates
<1>3. g = [h EXCEPT !.calls[n].post = post]
  BY <1>1 DEF Hubs
<1> HIDE DEF x
<1>4. /\ g \in Hubs /\ g.id = h.id /\ g.timers = h.timers /\ g.handle = h.handle
      /\ g.raised = h.raised /\ g.callbacks = h.callbacks
      /\ g.calls = [h.calls EXCEPT ![n] = x]
  BY <1>1, <1>2 DEF Hubs
<1> HIDE DEF g
<1>5. g.calls[n] = x /\ \A m \in Calls \ {n} : g.calls[m] = h.calls[m]
  BY <1>1, <1>4 DEF Hubs
<1>6. \A m \in Calls : CallOK(h, m)
  BY DEF HubOK, CallsOK
<1>7. h.calls[n].ends # 2 /\ ~(n > h.id)
  BY <1>6 DEF CallOK
<1>8. \A m \in Calls : CallOK(g, m)
  BY <1>2, <1>4, <1>5, <1>6, <1>7 DEF CallOK
<1>9. HubOK(g)
  BY <1>1, <1>4, <1>8 DEF HubOK, CallsOK, TimerKnown
<1>10. h.calls[n].fate # "unused"
  BY <1>6, <1>7 DEF CallOK
<1>11. StillWait(g, h)
  BY <1>2, <1>5 DEF StillWait
<1> QED
  BY <1>2, <1>3, <1>4, <1>5, <1>9, <1>10, <1>11

----------------------------------------------------------------------------
(* Messages *)

Texting ==
    [type : {"handshake", "ping", "completion", "close", "bad"}, err : BOOLEAN,
     call : Calls \cup {NoCall}]

\* A completion is of a call that was made.
Made(m) == m.type = "completion" => m.call \in Calls /\ hub.calls[m.call].fate # "unused"

LEMMA OneMessage ==
    ASSUME NEW a \in Texting, Made(a)
    PROVE  /\ <<a>> \in Seq(Texting) /\ <<a>> # <<>>
           /\ \A i \in 1 .. Len(<<a>>) : Made(<<a>>[i])
<1>1. Len(<<a>>) = 1 /\ <<a>>[1] = a
  OBVIOUS
<1> QED
  BY <1>1

LEMMA TwoMessages ==
    ASSUME NEW a \in Texting, NEW b \in Texting, Made(a), Made(b)
    PROVE  /\ <<a>> \o <<b>> \in Seq(Texting) /\ <<a>> \o <<b>> # <<>>
           /\ \A i \in 1 .. Len(<<a>> \o <<b>>) : Made((<<a>> \o <<b>>)[i])
<1>1. /\ <<a>> \in Seq(Texting) /\ <<b>> \in Seq(Texting)
      /\ Len(<<a>>) = 1 /\ Len(<<b>>) = 1 /\ <<a>>[1] = a /\ <<b>>[1] = b
  OBVIOUS
<1> DEFINE text == <<a>> \o <<b>>
<1>2. /\ text \in Seq(Texting) /\ Len(text) = 2
      /\ text[1] = a /\ text[2] = b
  <2>1. /\ text \in Seq(Texting) /\ Len(text) = Len(<<a>>) + Len(<<b>>)
        /\ \A i \in 1 .. Len(<<a>>) + Len(<<b>>) :
              text[i] = IF i <= Len(<<a>>) THEN <<a>>[i] ELSE <<b>>[i - Len(<<a>>)]
    BY <1>1, ConcatProperties
  <2> HIDE DEF text
  <2> QED
    BY <1>1, <2>1
<1> HIDE DEF text
<1>3. text # <<>> /\ \A i \in 1 .. Len(text) : Made(text[i])
  <2>1. \A i \in 1 .. 2 : i = 1 \/ i = 2
    OBVIOUS
  <2>2. \A i \in 1 .. Len(text) : Made(text[i])
    BY <1>2, <2>1
  <2>3. text # <<>>
    <3>1. Len(text) # Len(<<>>)
      BY <1>2
    <3> QED
      BY <3>1, Zenon
  <2> QED
    BY <2>2, <2>3
<1> QED
  BY <1>2, <1>3 DEF text

\* The completions in a text are of calls the server has received.
LEMMA TextShape ==
    ASSUME NEW t \in Nat \ {0}, NEW text \in Texts(t), HubOK(hub)
    PROVE  /\ text \in Seq(Texting) /\ text # <<>>
           /\ \A i \in 1 .. Len(text) : Made(text[i])
<1>1. ASSUME NEW n \in Calls, hub.calls[n].over = t PROVE hub.calls[n].fate # "unused"
  BY <1>1 DEF HubOK, CallsOK, CallOK
<1>2. CASE trs[t].replies = "handshake"
  <2> DEFINE refused == Message("handshake", TRUE, NoCall)
             accepted == Message("handshake", FALSE, NoCall)
             close == Message("close", TRUE, NoCall)
             bad == Message("bad", FALSE, NoCall)
  <2>1. /\ refused \in Texting /\ accepted \in Texting
        /\ close \in Texting /\ bad \in Texting
    BY DEF Message, Texting
  <2>2. Made(refused) /\ Made(accepted) /\ Made(close) /\ Made(bad)
    BY DEF Message, Made
  <2>3. \/ text \in {<<refused>>, <<bad>>, <<accepted>> \o <<>>}
        \/ text \in {<<accepted>> \o <<close>>, <<accepted>> \o <<bad>>}
    <3>1. text \in Handshakes
      BY <1>2 DEF Texts
    <3>2. Handshakes = {<<refused>>}
             \cup {<<accepted>> \o rest : rest \in {<<>>, <<close>>, <<bad>>}}
             \cup {<<bad>>}
      BY DEF Handshakes
    <3> HIDE DEF refused, accepted, close, bad
    <3>3. CASE text \in {<<accepted>> \o rest : rest \in {<<>>, <<close>>, <<bad>>}}
      <4>1. PICK rest \in {<<>>, <<close>>, <<bad>>} : text = <<accepted>> \o rest
        BY <3>3
      <4> QED
        BY <4>1
    <3> QED
      BY <3>1, <3>2, <3>3
  <2> HIDE DEF refused, accepted, close, bad
  <2>4. <<accepted>> \o <<>> = <<accepted>>
    OBVIOUS
  <2> QED
    BY <2>1, <2>2, <2>3, <2>4, OneMessage, TwoMessages
<1>3. CASE trs[t].replies = "messages"
  <2> DEFINE Found == {m \in Calls : hub.calls[m].over = t}
             Without == {<<Message(type, FALSE, NoCall)>> : type \in {"ping", "close", "bad"}}
             Close == {<<Message("close", TRUE, NoCall)>>}
             Completions == {<<Message("completion", err, n)>> : err \in BOOLEAN, n \in Found}
  <2>1. text \in Without \/ text \in Close \/ text \in Completions
    <3>1. Texts(t) = Without \cup Close \cup Completions
      BY <1>3 DEF Texts
    <3> HIDE DEF Without, Close, Completions
    <3> QED
      BY <3>1
  <2>2. \A type \in {"ping", "close", "bad"}, err \in BOOLEAN :
           Message(type, err, NoCall) \in Texting /\ Made(Message(type, err, NoCall))
    BY DEF Message, Texting, Made
  <2>3. ASSUME NEW err \in BOOLEAN, NEW n \in Calls, hub.calls[n].over = t
        PROVE  Message("completion", err, n) \in Texting /\ Made(Message("completion", err, n))
    BY <1>1, <2>3 DEF Message, Texting, Made
  <2>4. ASSUME NEW a, text = <<a>>, a \in Texting, Made(a)
        PROVE  text \in Seq(Texting) /\ text # <<>> /\ \A i \in 1 .. Len(text) : Made(text[i])
    BY <2>4, OneMessage
  <2>5. CASE text \in Without
    <3>1. PICK type \in {"ping", "close", "bad"} : text = <<Message(type, FALSE, NoCall)>>
      BY <2>5
    <3> QED
      BY <2>2, <2>4, <3>1
  <2>6. CASE text \in Close
    <3>1. text = <<Message("close", TRUE, NoCall)>>
      BY <2>6
    <3> QED
      BY <2>2, <2>4, <3>1
  <2>7. CASE text \in Completions
    <3>1. PICK err \in BOOLEAN, n \in Found : text = <<Message("completion", err, n)>>
      BY <2>7
    <3>2. n \in Calls /\ hub.calls[n].over = t
      OBVIOUS
    <3>3. Message("completion", err, n) \in Texting /\ Made(Message("completion", err, n))
      BY <2>3, <3>2
    <3> QED
      BY <2>4, <3>1, <3>3
  <2> HIDE DEF Without, Close, Completions
  <2> QED
    BY <2>1, <2>5, <2>6, <2>7
<1>4. CASE trs[t].replies # "handshake" /\ trs[t].replies # "messages"
  <2>1. Texts(t) = {}
    BY <1>4, SMT DEF Texts
  <2> QED
    BY <2>1
<1> QED
  BY <1>2, <1>3, <1>4

\* processIncomingData: a completion goes to its call, and the server timeout is
\* armed again, or an exception is to blame.
LEMMA ProcessedOK ==
    ASSUME HubOK(hub), conn \in Connections, NEW text \in Seq(Texting), text # <<>>,
           \A i \in 1 .. Len(text) : Made(text[i])
    PROVE  LET result == Processed(hub, text)
           IN  /\ HubOK(result.hub)
               /\ result.hub.handle \/ conn.keepAlive \/ result.hub.raised
               /\ StillWait(result.hub, hub)
               /\ result.raises \in BOOLEAN /\ result.stops \in BOOLEAN
               /\ result.error \in BOOLEAN
<1> DEFINE handshake == ~hub.received
           response == parseHandshakeResponse(text)
           bad == handshake /\ response.fails
           refused == handshake /\ ~bad /\ response.error
           rest == IF handshake THEN response.remaining ELSE text
           raises == bad \/ \E i \in DOMAIN rest : Throws(rest[i])
           message == rest # <<>> /\ ~raises
           asks == message /\ AsksToStop(Head(rest))
           shaken == IF bad THEN hub ELSE [hub EXCEPT !.received = TRUE]
           cleaned == cleanupTimeout(shaken)
           completed == Complete(cleaned, hub.calls[Head(rest).call].id, Head(rest).call)
           read == IF message /\ Head(rest).type = "completion" THEN completed ELSE cleaned
           after == IF raises THEN [read EXCEPT !.raised = TRUE]
                              ELSE configureTimeout(read, conn.keepAlive)
<1>1. HubOK(shaken) /\ SameCalls(shaken, hub)
  BY ReceivedOK DEF HubOK, SameCalls
<1> HIDE DEF shaken
<1>2. HubOK(cleaned) /\ SameCalls(cleaned, hub) /\ ~cleaned.handle
  BY <1>1, CleanupOK DEF SameCalls
<1> HIDE DEF cleaned
<1>3. rest # <<>> => Made(Head(rest))
  <2>1. CASE handshake
    <3>1. Tail(text) \in Seq(Texting) /\ Len(Tail(text)) = Len(text) - 1
          /\ \A i \in 1 .. Len(Tail(text)) : Tail(text)[i] = text[i + 1]
      BY HeadTailProperties
    <3>2. rest = Tail(text)
      BY <2>1 DEF parseHandshakeResponse
    <3> HIDE DEF rest
    <3>3. ASSUME rest # <<>> PROVE Made(Head(rest))
      <4>1. Len(rest) \in Nat \ {0} /\ Len(text) \in Nat
        BY <3>1, <3>2, <3>3, EmptySeq, LenProperties
      <4>2. Head(rest) = rest[1] /\ rest[1] = text[2] /\ 2 \in 1 .. Len(text)
        BY <3>1, <3>2, <3>3, <4>1
      <4> QED
        BY <4>2
    <3> QED
      BY <3>3
  <2>2. CASE ~handshake
    <3>1. Len(text) \in Nat \ {0} /\ Head(text) = text[1]
      BY EmptySeq, SMTT(30)
    <3> QED
      BY <2>2, <3>1
  <2> QED
    BY <2>1, <2>2
<1> HIDE DEF rest, bad, raises
<1>4. HubOK(read) /\ ~read.handle /\ StillWait(read, hub)
  <2>1. CASE message /\ Head(rest).type = "completion"
    <3> DEFINE n == Head(rest).call
    <3>1. n \in Calls /\ cleaned.calls = hub.calls /\ cleaned.calls[n].fate # "unused"
      BY <1>2, <1>3, <2>1 DEF Made, SameCalls
    <3> HIDE DEF n
    <3>2. /\ HubOK(Complete(cleaned, cleaned.calls[n].id, n))
          /\ \/ Complete(cleaned, cleaned.calls[n].id, n) = cleaned
             \/ Told(Complete(cleaned, cleaned.calls[n].id, n), cleaned, n)
      BY <1>2, <3>1, CompleteOK
    <3>3. read = Complete(cleaned, cleaned.calls[n].id, n)
      BY <2>1, <3>1 DEF n
    <3> HIDE DEF read
    <3>4. CASE read = cleaned
      BY <1>2, <3>1, <3>4 DEF StillWait
    <3>5. CASE Told(read, cleaned, n)
      <4>1. n - 1 \in Ids /\ n # NoCall
        BY MaxCallsIsNat, <3>1 DEF Calls, Ids, NoCall
      <4>2. read.callbacks[n - 1] = NoCall
        BY <1>2, <3>5, <4>1, SMTT(30) DEF Told, HubOK, Hubs
      <4>3. read.calls[n].fate # "pending"
        BY <3>1, <3>2, <3>3, <4>1, <4>2 DEF HubOK, CallsOK, CallOK
      <4> QED
        BY <1>2, <3>1, <3>2, <3>3, <3>5, <4>3 DEF Told, StillWait
    <3> QED
      BY <3>2, <3>3, <3>4, <3>5
  <2>2. CASE ~(message /\ Head(rest).type = "completion")
    BY <1>2, <2>2 DEF SameCalls, StillWait
  <2> QED
    BY <2>1, <2>2
<1> HIDE DEF read
<1>5. HubOK(after) /\ SameCalls(after, read) /\ (after.handle \/ conn.keepAlive \/ after.raised)
  <2>1. conn.keepAlive \in BOOLEAN
    BY DEF Connections
  <2> QED
    BY <1>4, <2>1, RaisedOK, ConfigureOK
<1>6. Processed(hub, text) = [hub |-> after, raises |-> raises,
                              stops |-> bad \/ refused \/ asks,
                              error |-> bad \/ refused \/ (asks /\ Head(rest).err)]
  BY DEF Processed, read, cleaned, shaken, rest, bad, raises
<1>7. raises \in BOOLEAN
  BY DEF raises
<1> HIDE DEF after
<1> QED
  BY <1>4, <1>5, <1>6, <1>7 DEF SameCalls, StillWait

----------------------------------------------------------------------------
(* Steps of a client *)

LEMMA ClientFields ==
    ASSUME NEW s \in Clients
    PROVE  /\ s.conn \in Connections /\ s.att \in Attempts /\ s.trs \in Seq(Transports)
           /\ s.stops \in Seq(StopCalls) /\ s.deletes \in Seq(DeleteCalls) /\ s.hub \in Hubs
           /\ Len(s.trs) \in Nat /\ Len(s.deletes) \in Nat
           /\ \A t \in 1 .. Len(s.trs) : s.trs[t] \in Transports
BY DEF Clients

\* A transport becomes another in the list.
LEMMA OneTransport ==
    ASSUME NEW trs1 \in Seq(Transports), NEW t \in 1 .. Len(trs1), NEW x \in Transports
    PROVE  LET q == [trs1 EXCEPT ![t] = x]
           IN  /\ q \in Seq(Transports) /\ Len(q) = Len(trs1)
               /\ q[t] = x /\ \A u \in 1 .. Len(trs1) : u # t => q[u] = trs1[u]
BY ExceptSeq

\* What may become of a transport that is not being connected.
Ages(x, y) ==
    /\ y.kind = x.kind /\ y.of = x.of /\ y.wired = x.wired
    /\ x.raised => y.raised
    /\ y.link \in Unopened => x.link \in Unopened
    /\ y.held => x.held \/ x.link = "retrying"

\* A step that connects no transport and ends no start() with success.
Follows(s, r) ==
    /\ r \in Clients /\ Placed(r) /\ HubOK(r.hub)
    /\ Len(r.trs) = Len(s.trs)
    /\ \A t \in 1 .. Len(s.trs) : Ages(s.trs[t], r.trs[t]) /\ TransportOK(r.trs[t])
    /\ DeletesOK(r)
    /\ InUse(r)
    /\ r.conn.transport \in {s.conn.transport, None}
    /\ r.conn.keepAlive = s.conn.keepAlive
    /\ r.conn.state = "Connected" =>
         s.conn.state = "Connected" /\ \A t \in 1 .. Len(s.trs) : r.trs[t].told = s.trs[t].told
    /\ WatchOK(r)
    /\ PathOK(r)

LEMMA FollowsKeeps ==
    ASSUME NEW s, Sound(s), NEW r, Follows(s, r)
    PROVE  Sound(r)
<1>1. /\ s \in Clients /\ r \in Clients /\ Len(r.trs) = Len(s.trs)
      /\ Len(s.trs) \in Nat /\ s.conn.transport \in 0 .. Len(s.trs)
      /\ r.trs \in Seq(Transports) /\ s.trs \in Seq(Transports)
  BY ClientFields DEF Sound, Follows, Placed
<1>2. ConnectedOK(r)
  <2>1. ASSUME r.conn.state = "Connected"
        PROVE  /\ r.trs # <<>>
               /\ r.trs[Len(r.trs)].wired /\ r.trs[Len(r.trs)].told = 0
               /\ r.conn.transport \in {None, Len(r.trs)}
    <3>1. /\ s.trs # <<>> /\ s.trs[Len(s.trs)].wired /\ s.trs[Len(s.trs)].told = 0
          /\ s.conn.transport \in {None, Len(s.trs)}
      BY <2>1 DEF Sound, Follows, ConnectedOK
    <3>2. Len(s.trs) \in 1 .. Len(s.trs)
      BY <1>1, <3>1, EmptySeq
    <3>3. Ages(s.trs[Len(s.trs)], r.trs[Len(s.trs)])
          /\ r.trs[Len(s.trs)].told = s.trs[Len(s.trs)].told
      BY <2>1, <3>2 DEF Follows
    <3>4. r.trs # <<>>
      BY <1>1, <3>2, EmptySeq
    <3>5. r.conn.transport \in {None, Len(r.trs)}
      BY <1>1, <3>1 DEF Follows
    <3> QED
      BY <1>1, <3>1, <3>3, <3>4, <3>5 DEF Ages
  <2> QED
    BY <2>1 DEF ConnectedOK
<1>3. PolledOK(r)
  BY <1>1 DEF Sound, Follows, PolledOK, Ages
<1> QED
  BY <1>1, <1>2, <1>3 DEF Sound, Follows

\* Whoever waits has a path, if nobody else waits than before and no path ends.
LEMMA PathKept ==
    ASSUME NEW s, NEW r, PathOK(s), Len(r.trs) = Len(s.trs),
           StillWait(r.hub, s.hub),
           \A t \in 1 .. Len(s.trs) : ToCome(s.trs[t]) => ToCome(r.trs[t])
    PROVE  PathOK(r)
BY DEF PathOK, StillWait

LEMMA SameWait ==
    ASSUME NEW h PROVE StillWait(h, h)
BY DEF StillWait

LEMMA SameAges ==
    ASSUME NEW x PROVE Ages(x, x)
BY DEF Ages

\* A transport that is connecting or open, and that the client could stop only if
\* it were the one in use.
Up(x) == x.link = "connecting" \/ (x.link = "open" /\ x.held)
Stray(s, t) == t # s.conn.transport /\ Up(s.trs[t])
Spent(s) == s.conn.transport # None => ~Up(s.trs[s.conn.transport])

\* A step that lets go of no transport.
Tidy(s, r) ==
    \A t \in 1 .. Len(s.trs) :
        /\ t \in 1 .. Len(r.trs)
        /\ Stray(r, t) => Stray(s, t)
        /\ r.trs[t].told >= s.trs[t].told
        /\ s.trs[t].raised => r.trs[t].raised

LEMMA Tolds ==
    ASSUME NEW s \in Clients, NEW t \in 1 .. Len(s.trs)
    PROVE  s.trs[t].told \in Nat /\ s.trs[t].told >= s.trs[t].told
<1>1. s.trs[t].told \in 0 .. 2
  BY ClientFields DEF Transports
<1> QED
  BY <1>1

LEMMA SameTidy ==
    ASSUME NEW s \in Clients, NEW r, r.trs = s.trs,
           r.conn.transport = s.conn.transport \/ Spent(s), s.conn.transport \in Nat
    PROVE  Tidy(s, r)
BY Tolds DEF Tidy, Stray, Spent, None, Clients

LEMMA TidyTwice ==
    ASSUME NEW s \in Clients, NEW q \in Clients, NEW r \in Clients, Tidy(s, q), Tidy(q, r)
    PROVE  Tidy(s, r)
<1> SUFFICES ASSUME NEW t \in 1 .. Len(s.trs)
             PROVE  /\ t \in 1 .. Len(r.trs) /\ (Stray(r, t) => Stray(s, t))
                    /\ r.trs[t].told >= s.trs[t].told
                    /\ s.trs[t].raised => r.trs[t].raised
  BY DEF Tidy
<1>1. /\ t \in 1 .. Len(q.trs) /\ (Stray(q, t) => Stray(s, t))
      /\ q.trs[t].told >= s.trs[t].told
      /\ s.trs[t].raised => q.trs[t].raised
  BY DEF Tidy
<1>2. /\ t \in 1 .. Len(r.trs) /\ (Stray(r, t) => Stray(q, t))
      /\ r.trs[t].told >= q.trs[t].told
      /\ q.trs[t].raised => r.trs[t].raised
  BY <1>1 DEF Tidy
<1>3. s.trs[t].told \in Nat /\ q.trs[t].told \in Nat /\ r.trs[t].told \in Nat
  BY <1>1, <1>2, Tolds
<1> QED
  BY <1>1, <1>2, <1>3

\* Nothing comes over a transport any more; but an event source whose onreceive
\* raised is only said to be closed.
Closes(x, y) ==
    /\ y.kind = x.kind /\ y.of = x.of /\ y.wired = x.wired /\ y.told = x.told
    /\ y.held => x.held
    /\ x.raised => y.raised
    /\ \/ /\ y.link = "closed" /\ ~y.shutdown
          /\ y.kind # "WebSockets" => ~y.held
       \/ y.raised /\ y.link = x.link /\ y.held = x.held /\ y.shutdown = x.shutdown

\* What a step leaves alone of the connection while start() runs.
StartSame(s, r) ==
    /\ r.att = s.att
    /\ StartOK(s) => StartOK(r)

LEMMA StopConnectionIs ==
    ASSUME NEW s \in Clients, NEW t \in DOMAIN s.trs
    PROVE  stopConnection(s, t) =
             [s EXCEPT !.conn = [s.conn EXCEPT !.transport = None, !.state = "Disconnected"],
                       !.trs = [s.trs EXCEPT ![t] =
                                  [s.trs[t] EXCEPT !.told = IF @ < 2 THEN @ + 1 ELSE @]],
                       !.hub = connectionClosed(s.hub)]
BY DEF stopConnection, Clients

With(s, t, x) == [s EXCEPT !.trs[t] = x]

\* A transport ends and calls onclose, if it has one.
LEMMA OncloseKeeps ==
    ASSUME NEW s, Sound(s), NEW t \in 1 .. Len(s.trs), NEW x \in Transports,
           s.trs[t].link \in {"open", "closing"}, Closes(s.trs[t], x),
           NEW result, result = FireOnclose(With(s, t, x), t)
    PROVE  /\ Sound(result) /\ StartSame(s, result)
           /\ result.stops = s.stops /\ result.deletes = s.deletes
           /\ Len(result.trs) = Len(s.trs)
           /\ \A u \in 1 .. Len(s.trs) : u # t => result.trs[u] = s.trs[u]
           /\ LET z == result.trs[t]
              IN  z.link = x.link /\ z.held = x.held /\ z.raised = x.raised /\ z.kind = x.kind
           /\ \/ result.conn = s.conn /\ result.trs[t].told = x.told
              \/ /\ result.conn.transport = None /\ result.conn.state = "Disconnected"
                 /\ \/ result.trs[t].told > x.told
                    \/ result.trs[t].told = 2 /\ x.told = 2
<1> DEFINE q == [s.trs EXCEPT ![t] = x]
           L == Len(s.trs)
<1>1. /\ s \in Clients /\ s.conn \in Connections /\ s.trs \in Seq(Transports)
      /\ s.hub \in Hubs /\ L \in Nat /\ t # None /\ t \in 1 .. L
      /\ s.conn.transport \in 0 .. L
  BY ClientFields DEF Sound, Placed, None, Connections
<1>2. /\ q \in Seq(Transports) /\ Len(q) = L /\ q[t] = x
      /\ \A u \in 1 .. L : u # t => q[u] = s.trs[u]
  BY <1>1, OneTransport
<1>3. \A u \in 1 .. L : TransportOK(s.trs[u])
  BY DEF Sound
<1>4. /\ TransportOK(x) /\ Ages(s.trs[t], x)
      /\ ~x.raised => x.link = "closed" /\ s.trs[t].told = 0
      /\ x.link \notin Unopened
  <2>1. TransportOK(s.trs[t]) /\ s.trs[t] \in Transports
    BY <1>1, <1>3, ClientFields
  <2> QED
    BY <2>1 DEF TransportOK, Closes, Ages, Transports, Unopened
<1>5. CASE ~s.trs[t].wired
  <2> DEFINE r == [s EXCEPT !.trs = q]
  <2>1. /\ r \in Clients /\ r.conn = s.conn /\ r.att = s.att /\ r.trs = q
        /\ r.stops = s.stops /\ r.deletes = s.deletes /\ r.hub = s.hub
    BY <1>1, <1>2 DEF Clients
  <2>2. result = r
    BY <1>2, <1>5, <2>1 DEF FireOnclose, Closes, With
  <2> HIDE DEF r, q
  <2>3. PathOK(r)
    BY <1>1, <1>2, <1>5, <2>1, PathKept, SameWait DEF Sound, ToCome
  <2>4. Placed(r) /\ HubOK(r.hub) /\ WatchOK(r)
    BY <1>1, <1>2, <1>4, <2>1 DEF Sound, Placed, WatchOK, None
  <2>10. InUse(r)
    BY <1>1, <1>2, <1>4, <2>1, SMTT(30) DEF Sound, InUse, Closes, None
  <2>5. DeletesOK(r)
    BY <1>1, <1>2, <1>4, <2>1, SMTT(30) DEF Sound, Placed, DeletesOK, Closes
  <2>6. \A u \in 1 .. L : /\ Ages(s.trs[u], r.trs[u]) /\ TransportOK(r.trs[u])
                          /\ r.trs[u].told = s.trs[u].told
    BY <1>2, <1>3, <1>4, <2>1, SameAges DEF Closes
  <2>7. Follows(s, r)
    BY <1>1, <1>2, <2>1, <2>3, <2>4, <2>5, <2>6, <2>10 DEF Follows
  <2>8. Sound(r)
    BY <2>7, FollowsKeeps
  <2>9. StartOK(s) => StartOK(r)
    <3>1. ASSUME s.att.pc \in {"renegotiate", "connect"}, StartOK(s) PROVE StartOK(r)
      <4>1. /\ s.trs # <<>> /\ s.trs[L].link \in {"new", "connecting"}
        BY <3>1 DEF StartOK
      <4>2. L \in 1 .. L /\ L # t /\ q # <<>>
        BY <1>1, <1>2, <4>1, EmptySeq
      <4> QED
        BY <1>2, <2>1, <3>1, <4>1, <4>2 DEF StartOK
    <3> QED
      BY <2>1, <3>1 DEF StartOK
  <2> QED
    BY <1>2, <2>1, <2>2, <2>8, <2>9 DEF StartSame
<1>6. CASE s.trs[t].wired
  <2> DEFINE y == [x EXCEPT !.told = IF @ < 2 THEN @ + 1 ELSE @]
             c == [s.conn EXCEPT !.transport = None, !.state = "Disconnected"]
             p == [s.trs EXCEPT ![t] = y]
             r == [s EXCEPT !.conn = c, !.trs = p, !.hub = connectionClosed(s.hub)]
  <2>1. /\ y \in Transports /\ y.told > 0
        /\ y.told = 1 \/ x.told > 0
        /\ y.told > x.told \/ (y.told = 2 /\ x.told = 2)
        /\ y.kind = x.kind /\ y.of = x.of /\ y.wired = x.wired /\ y.held = x.held
        /\ y.link = x.link /\ y.shutdown = x.shutdown /\ y.raised = x.raised
    <3>1. x.told \in 0 .. 2
      BY DEF Transports
    <3>2. CASE x.told < 2
      <4>1. x.told + 1 \in 0 .. 2 /\ y = [x EXCEPT !.told = x.told + 1]
        BY <3>1, <3>2
      <4> QED
        BY <3>1, <3>2, <4>1 DEF Transports
    <3>3. CASE ~(x.told < 2)
      <4>1. y = [x EXCEPT !.told = x.told] /\ x.told = 2
        BY <3>1, <3>3
      <4> QED
        BY <3>1, <3>3, <4>1 DEF Transports
    <3> QED
      BY <3>2, <3>3
  <2>2. /\ c \in Connections /\ c.state = "Disconnected" /\ c.transport = None
        /\ c.keepAlive = s.conn.keepAlive
    BY <1>1 DEF Connections, None
  <2>3. /\ HubOK(connectionClosed(s.hub)) /\ connectionClosed(s.hub) \in Hubs
        /\ \A n \in Calls : connectionClosed(s.hub).calls[n].fate # "pending"
    BY ConnectionClosedOK DEF Sound, HubOK
  <2>4. result = r
    <3>1. result = stopConnection([s EXCEPT !.trs[t] = x], t)
      BY <1>1, <1>2, <1>6 DEF FireOnclose, Closes, Clients, With
    <3> DEFINE z == [s EXCEPT !.trs = q]
    <3>2. z = [s EXCEPT !.trs[t] = x] /\ z.trs = q /\ z.conn = s.conn /\ z.hub = s.hub
          /\ z \in Clients
      BY <1>1, <1>2 DEF Clients
    <3>3. stopConnection(z, t) =
            [z EXCEPT !.conn = c, !.trs = [q EXCEPT ![t] = y], !.hub = connectionClosed(s.hub)]
      <4>1. z \in Clients /\ t \in DOMAIN z.trs /\ z.trs[t] = x
        BY <1>1, <1>2, <3>2, LenProperties
      <4> HIDE DEF z, q
      <4>2. stopConnection(z, t) =
             [z EXCEPT !.conn = [z.conn EXCEPT !.transport = None, !.state = "Disconnected"],
                       !.trs = [z.trs EXCEPT ![t] =
                                  [z.trs[t] EXCEPT !.told = IF @ < 2 THEN @ + 1 ELSE @]],
                       !.hub = connectionClosed(z.hub)]
        BY <4>1, StopConnectionIs
      <4> QED
        BY <3>2, <4>1, <4>2, ZenonT(60)
    <3>4. [q EXCEPT ![t] = y] = p
      <4> HIDE DEF y
      <4> QED
        BY <1>1, <1>2
    <3> HIDE DEF q, p, y, c
    <3> QED
      BY <1>1, <3>1, <3>2, <3>3, <3>4 DEF Clients
  <2> HIDE DEF y, c
  <2>5. /\ p \in Seq(Transports) /\ Len(p) = L /\ p[t] = y
        /\ \A u \in 1 .. L : u # t => p[u] = s.trs[u]
    BY <1>1, <2>1, OneTransport
  <2> HIDE DEF p
  <2>6. /\ r \in Clients /\ r.conn = c /\ r.att = s.att /\ r.trs = p
        /\ r.stops = s.stops /\ r.deletes = s.deletes /\ r.hub = connectionClosed(s.hub)
    BY <1>1, <2>2, <2>3, <2>5 DEF Clients
  <2> HIDE DEF r
  <2>7. Ages(s.trs[t], y) /\ TransportOK(y)
    <3>1. y.told # 0 /\ (~y.raised => y.told = 1 /\ y.link = "closed")
      BY <1>4, <2>1 DEF Closes, Transports
    <3>2. Ages(s.trs[t], y)
      BY <1>4, <2>1, <3>1 DEF Ages
    <3>3. y.wired
      BY <1>6, <2>1 DEF Closes
    <3> QED
      BY <1>4, <2>1, <3>1, <3>2, <3>3 DEF TransportOK
  <2>8. \A u \in 1 .. L : Ages(s.trs[u], r.trs[u]) /\ TransportOK(r.trs[u])
    BY <1>3, <2>5, <2>6, <2>7, SameAges
  <2>9. PathOK(r) /\ WatchOK(r) /\ HubOK(r.hub)
    BY <2>2, <2>3, <2>6 DEF PathOK, WatchOK
  <2>10. Placed(r) /\ InUse(r)
    BY <1>1, <2>2, <2>5, <2>6 DEF Sound, Placed, InUse, None
  <2>11. DeletesOK(r)
    <3> SUFFICES ASSUME NEW i \in 1 .. Len(r.deletes)
                 PROVE  LET z == r.trs[r.deletes[i].transport]
                        IN  z.kind = "LongPolling" /\ ~z.held /\ z.link \notin Unopened
      BY DEF DeletesOK
    <3>1. /\ r.deletes[i].transport \in 1 .. L
          /\ LET z == s.trs[r.deletes[i].transport]
             IN  z.kind = "LongPolling" /\ ~z.held /\ z.link \notin Unopened
      BY <2>6 DEF Sound, Placed, DeletesOK
    <3>2. CASE r.deletes[i].transport = t
      BY <1>4, <2>1, <2>5, <2>6, <3>1, <3>2 DEF Closes
    <3>3. CASE r.deletes[i].transport # t
      BY <2>5, <2>6, <3>1, <3>3
    <3> QED
      BY <3>2, <3>3
  <2>12. Follows(s, r)
    BY <1>1, <2>2, <2>5, <2>6, <2>8, <2>9, <2>10, <2>11 DEF Follows
  <2>13. Sound(r)
    BY <2>12, FollowsKeeps
  <2>14. StartOK(s) => StartOK(r)
    <3>1. ASSUME s.att.pc \in {"renegotiate", "connect"}, StartOK(s) PROVE StartOK(r)
      <4>1. /\ s.trs # <<>> /\ s.trs[L].link \in {"new", "connecting"}
            /\ s.trs[L].link = IF s.att.pc = "connect" THEN "connecting" ELSE "new"
        BY <3>1 DEF StartOK
      <4>2. L \in 1 .. L /\ L # t
        BY <1>1, <4>1, EmptySeq
      <4>3. p # <<>>
        BY <2>5, <4>2, EmptySeq
      <4> QED
        BY <2>2, <2>5, <2>6, <4>1, <4>2, <4>3 DEF StartOK
    <3> QED
      BY <2>6, <3>1 DEF StartOK
  <2> QED
    BY <2>1, <2>2, <2>4, <2>5, <2>6, <2>13, <2>14 DEF StartSame
<1> QED
  BY <1>5, <1>6

\* The onclose of t is called, once more perhaps.
Noticed(s, r, t) ==
    \/ r.trs[t].told > s.trs[t].told
    \/ r.trs[t].told = 2 /\ r.conn.state = "Disconnected"

\* Whatever the step lets go of, it is for the onclose of t.
Excused(s, r, t) ==
    \A u \in 1 .. Len(s.trs) : Stray(r, u) =>
        \/ Stray(s, u)
        \/ Noticed(s, r, t) /\ (u # t \/ r.trs[t].raised)

LEMMA OncloseExcuses ==
    ASSUME NEW s, Sound(s), NEW t \in 1 .. Len(s.trs), NEW x \in Transports,
           s.trs[t].link \in {"open", "closing"}, Closes(s.trs[t], x),
           NEW result, result = FireOnclose(With(s, t, x), t)
    PROVE  /\ StoppedOK(s) => StoppedOK(result)
           /\ Excused(s, result, t)
<1>1. /\ StartSame(s, result) /\ result.stops = s.stops
      /\ \A u \in 1 .. Len(s.trs) : u # t => result.trs[u] = s.trs[u]
      /\ LET z == result.trs[t]
         IN  z.link = x.link /\ z.held = x.held /\ z.raised = x.raised
      /\ \/ result.conn = s.conn
         \/ /\ result.conn.transport = None /\ result.conn.state = "Disconnected"
            /\ \/ result.trs[t].told > x.told
               \/ result.trs[t].told = 2 /\ x.told = 2
  BY OncloseKeeps
<1>2. /\ x.told = s.trs[t].told
      /\ x.held => s.trs[t].held
      /\ x.link = "closed" \/ (x.raised /\ x.link = s.trs[t].link /\ x.held = s.trs[t].held)
  BY DEF Closes
<1>3. ASSUME StoppedOK(s) PROVE StoppedOK(result)
  <2>1. CASE result.conn.transport = None
    BY <2>1 DEF StoppedOK
  <2>2. CASE result.conn.transport # None
    <3>1. result.conn = s.conn /\ result.att = s.att
      BY <1>1, <2>2 DEF StartSame
    <3>2. s.conn.transport \in 1 .. Len(s.trs)
      BY <2>2, <3>1, ClientFields DEF Sound, Placed, None
    <3>3. result.trs[s.conn.transport].held => s.trs[s.conn.transport].held
      BY <1>1, <1>2, <3>2
    <3> QED
      BY <1>1, <1>3, <3>1, <3>3 DEF StoppedOK
  <2> QED
    BY <2>1, <2>2
<1>4. ASSUME NEW u \in 1 .. Len(s.trs), Stray(result, u), ~Stray(s, u)
      PROVE  Noticed(s, result, t) /\ (u # t \/ result.trs[t].raised)
  <2>1. Up(result.trs[u]) /\ u # result.conn.transport
    BY <1>4 DEF Stray
  <2>2. Up(s.trs[u]) /\ (u # t \/ result.trs[t].raised)
    <3>1. CASE u # t
      BY <1>1, <2>1, <3>1
    <3>2. CASE u = t
      BY <1>1, <1>2, <2>1, <3>2 DEF Up
    <3> QED
      BY <3>1, <3>2
  <2>3. result.conn # s.conn
    BY <1>4, <2>1, <2>2 DEF Stray
  <2> QED
    BY <1>1, <1>2, <2>2, <2>3 DEF Noticed
<1> QED
  BY <1>3, <1>4 DEF Excused

\* A function on 1 .. n is a sequence.
LEMMA FunctionIsSeq ==
    ASSUME NEW S, NEW n \in Nat, NEW f \in [1 .. n -> S]
    PROVE  f \in Seq(S) /\ Len(f) = n
<1>1. f \in Seq(S)
  BY SeqDef
<1>2. Len(f) \in Nat /\ 1 .. Len(f) = 1 .. n
  BY <1>1, LenProperties
<1> QED
  BY <1>1, <1>2

\* stopError says nothing that the invariant speaks of.
LEMMA ConnKeeps ==
    ASSUME NEW s, Sound(s), NEW c \in Connections,
           c.transport = s.conn.transport, c.state \in {s.conn.state, "Disconnected"},
           c.keepAlive = s.conn.keepAlive
    PROVE  LET r == [s EXCEPT !.conn = c]
           IN  /\ Sound(r) /\ StartSame(s, r)
               /\ r \in Clients /\ r.conn = c /\ r.trs = s.trs /\ r.stops = s.stops
               /\ r.deletes = s.deletes /\ r.hub = s.hub /\ r.att = s.att
<1> DEFINE r == [s EXCEPT !.conn = c]
<1>1. s \in Clients /\ s.conn \in Connections
  BY ClientFields DEF Sound
<1>2. /\ r \in Clients /\ r.conn = c /\ r.att = s.att /\ r.trs = s.trs
      /\ r.stops = s.stops /\ r.deletes = s.deletes /\ r.hub = s.hub
  BY <1>1 DEF Clients
<1> HIDE DEF r
<1>3. \A t \in 1 .. Len(s.trs) :
        /\ Ages(s.trs[t], r.trs[t]) /\ TransportOK(r.trs[t])
        /\ r.trs[t].told = s.trs[t].told
  BY <1>1, <1>2, SameAges DEF Sound, Connections
<1>4. Placed(r) /\ HubOK(r.hub) /\ DeletesOK(r) /\ InUse(r)
  BY <1>2 DEF Sound, Placed, DeletesOK, InUse
<1>5. WatchOK(r) /\ PathOK(r)
  BY <1>2 DEF Sound, WatchOK, PathOK
<1>6. Follows(s, r)
  BY <1>2, <1>3, <1>4, <1>5 DEF Follows
<1>7. StartOK(s) => StartOK(r)
  BY <1>2 DEF StartOK
<1> QED
  BY <1>2, <1>6, <1>7, FollowsKeeps DEF StartSame, r

\* stop() of a transport: a socket or a polling loop is told to end, an event
\* source has ended.
LEMMA StoppedTransport ==
    ASSUME NEW x \in Transports, TransportOK(x)
    PROVE  /\ stop(x) \in Transports /\ TransportOK(stop(x)) /\ Ages(x, stop(x))
           /\ stop(x).told = x.told /\ ~stop(x).held
           /\ stop(x).link \in Unopened => x.link = stop(x).link
           /\ ~ClosesInStop(x) => (ToCome(x) => ToCome(stop(x)))
           /\ ClosesInStop(x) => /\ x.link = "open" /\ stop(x).link = "closed"
                                 /\ Closes(x, stop(x))
           /\ stop(x).kind = x.kind
<1>1. CASE x.kind = "WebSockets"
  <2>1. CASE SocketIsOpen(x)
    <3>1. stop(x) = [x EXCEPT !.held = FALSE, !.link = "closing"]
      BY <1>1, <2>1 DEF stop, stopSocket
    <3> QED
      BY <1>1, <2>1, <3>1 DEF Transports, Links, TransportOK, Ages, ToCome, Unopened, SocketIsOpen,
         ClosesInStop
  <2>2. CASE ~SocketIsOpen(x)
    <3>1. stop(x) = [x EXCEPT !.held = FALSE]
      BY <1>1, <2>2 DEF stop, stopSocket
    <3> QED
      BY <1>1, <2>2, <3>1 DEF Transports, TransportOK, Ages, ToCome, Unopened, ClosesInStop
  <2> QED
    BY <2>1, <2>2
<1>2. CASE x.kind = "ServerSentEvents"
  <2>1. CASE x.held
    <3>1. stop(x) = [x EXCEPT !.held = FALSE, !.link = "closed", !.replies = "none"]
      BY <1>2, <2>1 DEF stop, closeSource, Ended, Transports
    <3> QED
      BY <1>2, <2>1, <3>1 DEF Transports, Links, TransportOK, Ages, ToCome, Unopened,
         ClosesInStop, Closes
  <2>2. CASE ~x.held
    <3>1. stop(x) = x
      BY <1>2, <2>2 DEF stop, closeSource
    <3> QED
      BY <1>2, <2>2, <3>1, SameAges DEF ClosesInStop
  <2> QED
    BY <2>1, <2>2
<1>3. CASE x.kind = "LongPolling"
  <2>1. stop(x) = [x EXCEPT !.held = FALSE]
    BY <1>3 DEF stop, stopPolling
  <2> QED
    BY <1>3, <2>1 DEF Transports, TransportOK, Ages, ToCome, Unopened, ClosesInStop
<1> QED
  BY <1>1, <1>2, <1>3 DEF Transports, Kinds

\* A task that makes y of transport t, and connects none.
Touches(s, t, y, c, dl, h) ==
    /\ y \in Transports /\ c \in Connections /\ dl \in Seq(DeleteCalls) /\ HubOK(h)
    /\ TransportOK(y) /\ Ages(s.trs[t], y) /\ y.told = s.trs[t].told
    /\ ToCome(s.trs[t]) => ToCome(y)
    /\ c.state \in {s.conn.state, "Disconnected"}
    /\ c.transport \in {s.conn.transport, None}
    /\ c.keepAlive = s.conn.keepAlive
    /\ StillWait(h, s.hub)
    /\ s.hub.handle \/ s.conn.keepAlive \/ s.hub.raised => h.handle \/ c.keepAlive \/ h.raised
    /\ \A i \in 1 .. Len(dl) :
         /\ dl[i].transport \in 1 .. Len(s.trs)
         /\ LET x == IF dl[i].transport = t THEN y ELSE s.trs[dl[i].transport]
            IN  x.kind = "LongPolling" /\ ~x.held /\ x.link \notin Unopened

Touched(s, t, y, c, dl, h) ==
    [s EXCEPT !.conn = c, !.trs = [s.trs EXCEPT ![t] = y], !.deletes = dl, !.hub = h]

LEMMA StepKeeps ==
    ASSUME NEW s, Sound(s), NEW t \in 1 .. Len(s.trs), NEW y, NEW c, NEW dl, NEW h,
           Touches(s, t, y, c, dl, h), NEW r, r = Touched(s, t, y, c, dl, h)
    PROVE  /\ Sound(r)
           /\ y.link = s.trs[t].link \/ s.trs[t].link \notin {"new", "connecting"} =>
                StartSame(s, r)
           /\ StoppedOK(s) /\ c.state = s.conn.state => StoppedOK(r)
           /\ /\ Up(y) => Up(s.trs[t]) \/ c.transport = t
              /\ c.transport # s.conn.transport => s.conn.transport = t /\ ~Up(y)
              => Tidy(s, r)
           /\ r.conn = c /\ r.att = s.att
           /\ r.stops = s.stops /\ r.deletes = dl /\ r.hub = h
           /\ Len(r.trs) = Len(s.trs) /\ r.trs[t] = y
           /\ \A u \in 1 .. Len(s.trs) : u # t => r.trs[u] = s.trs[u]
<1> DEFINE q == [s.trs EXCEPT ![t] = y]
           L == Len(s.trs)
<1>0. r = [s EXCEPT !.conn = c, !.trs = q, !.deletes = dl, !.hub = h]
  BY DEF Touched
<1>1. /\ s \in Clients /\ s.conn \in Connections /\ s.trs \in Seq(Transports)
      /\ h \in Hubs /\ L \in Nat /\ t # None /\ t \in 1 .. L
      /\ s.conn.transport \in 0 .. L
      /\ y \in Transports /\ c \in Connections /\ dl \in Seq(DeleteCalls) /\ HubOK(h)
      /\ StillWait(h, s.hub)
  BY ClientFields DEF Sound, Placed, None, HubOK, Connections, Touches
<1>2. /\ q \in Seq(Transports) /\ Len(q) = L /\ q[t] = y
      /\ \A u \in 1 .. L : u # t => q[u] = s.trs[u]
  BY <1>1, OneTransport
<1> HIDE DEF q
<1>3. /\ r \in Clients /\ r.conn = c /\ r.att = s.att /\ r.trs = q
      /\ r.stops = s.stops /\ r.deletes = dl /\ r.hub = h
  BY <1>0, <1>1, <1>2, ZenonT(60) DEF Clients
<1>4. \A u \in 1 .. L : /\ Ages(s.trs[u], r.trs[u]) /\ TransportOK(r.trs[u])
                        /\ r.trs[u].told = s.trs[u].told
                        /\ ToCome(s.trs[u]) => ToCome(r.trs[u])
  BY <1>1, <1>2, <1>3, SameAges DEF Sound, Touches
<1>5. PathOK(r)
  BY <1>1, <1>2, <1>3, <1>4, PathKept DEF Sound
<1>6. Placed(r) /\ WatchOK(r) /\ HubOK(r.hub)
  BY <1>1, <1>2, <1>3 DEF Sound, Placed, WatchOK, None, Touches
<1>7. InUse(r)
  <2> DEFINE u == s.conn.transport
  <2> SUFFICES ASSUME r.conn.transport # None
               PROVE  /\ r.trs[u].link \in Unopened => s.att.pc \in {"renegotiate", "connect"}
                      /\ s.att.pc = "negotiate" => ~r.trs[u].held
                      /\ r.conn.transport = u
    BY <1>3 DEF InUse
  <2>1. r.conn.transport = u /\ u \in 1 .. L /\ u # None
    BY <1>1, <1>3 DEF None, Touches
  <2>2. Ages(s.trs[u], r.trs[u])
    BY <1>4, <2>1
  <2> HIDE DEF u
  <2>3. /\ s.trs[u].link \in Unopened => s.att.pc \in {"renegotiate", "connect"}
        /\ s.att.pc = "negotiate" => ~s.trs[u].held
    BY <2>1 DEF Sound, InUse, u
  <2> QED
    BY <2>1, <2>2, <2>3 DEF Ages, Unopened
<1>8. DeletesOK(r)
  BY <1>2, <1>3 DEF DeletesOK, Touches
<1>9. Follows(s, r)
  BY <1>1, <1>2, <1>3, <1>4, <1>5, <1>6, <1>7, <1>8 DEF Follows, Touches
<1>10. ASSUME y.link = s.trs[t].link \/ s.trs[t].link \notin {"new", "connecting"}
       PROVE  StartOK(s) => StartOK(r)
  <2>1. ASSUME s.att.pc \in {"renegotiate", "connect"}, StartOK(s) PROVE StartOK(r)
    <3>1. /\ s.trs # <<>> /\ s.trs[L].link \in {"new", "connecting"}
          /\ s.trs[L].link = IF s.att.pc = "connect" THEN "connecting" ELSE "new"
      BY <2>1 DEF StartOK
    <3>2. L \in 1 .. L
      BY <1>1, <3>1, EmptySeq
    <3>3. q # <<>> /\ q[L].link = s.trs[L].link
      BY <1>2, <1>10, <3>1, <3>2, EmptySeq
    <3>4. c.transport \in {None, L}
      BY <2>1 DEF StartOK, Touches
    <3> QED
      BY <1>2, <1>3, <3>1, <3>3, <3>4 DEF StartOK
  <2> QED
    BY <1>3, <2>1 DEF StartOK
<1>11. ASSUME StoppedOK(s), c.state = s.conn.state PROVE StoppedOK(r)
  <2> SUFFICES ASSUME c.transport # None, c.state = "Disconnected"
               PROVE  IF s.att.pc \in Starting THEN s.stops # <<>> ELSE ~r.trs[c.transport].held
    BY <1>3 DEF StoppedOK
  <2>1. c.transport = s.conn.transport /\ c.transport \in 1 .. L
    BY <1>1 DEF None, Touches
  <2>2. IF s.att.pc \in Starting THEN s.stops # <<>> ELSE ~s.trs[c.transport].held
    BY <1>11, <2>1 DEF StoppedOK
  <2>3. Ages(s.trs[c.transport], r.trs[c.transport])
    BY <1>4, <2>1
  <2>4. s.trs[c.transport].link = "retrying" => s.att.pc \in Starting
    BY <2>1 DEF Sound, InUse, Unopened, Starting
  <2> QED
    BY <2>2, <2>3, <2>4 DEF Ages
<1>12. ASSUME Up(y) => Up(s.trs[t]) \/ c.transport = t,
              c.transport # s.conn.transport => s.conn.transport = t /\ ~Up(y)
       PROVE  Tidy(s, r)
  <2> SUFFICES ASSUME NEW u \in 1 .. L
               PROVE  /\ u \in 1 .. Len(r.trs) /\ (Stray(r, u) => Stray(s, u))
                      /\ r.trs[u].told >= s.trs[u].told
                      /\ s.trs[u].raised => r.trs[u].raised
    BY DEF Tidy
  <2>1. r.trs[u].told >= s.trs[u].told /\ (s.trs[u].raised => r.trs[u].raised)
    BY <1>1, <1>4, Tolds DEF Ages
  <2>2. Stray(r, u) => Stray(s, u)
    BY <1>2, <1>3, <1>12 DEF Stray
  <2> QED
    BY <1>2, <1>3, <2>1, <2>2
<1> QED
  BY <1>2, <1>3, <1>9, <1>10, <1>11, <1>12, FollowsKeeps DEF StartSame, Touches, q

\* HttpConnection.stop goes on after start().
LEMMA StopTransportKeeps ==
    ASSUME NEW s, Sound(s), s.att.pc \notin Starting, NEW list \in Seq(StopCalls)
    PROVE  LET r == StopTransport(s, list)
           IN  /\ Sound(r) /\ Tidy(s, r) /\ r.att = s.att /\ r.stops = s.stops
               /\ r.conn.state \in {s.conn.state, "Disconnected"}
               /\ list # <<>> \/ StoppedOK(s) => StoppedOK(r)
<1> DEFINE t == s.conn.transport
           x == s.trs[t]
           y == stop(x)
           L == Len(s.trs)
           r == StopTransport(s, list)
<1>1. CASE list = <<>> \/ t = None
  <2>1. r = s /\ s \in Clients /\ s.conn.transport \in Nat
    BY <1>1, ClientFields DEF StopTransport, Sound, Connections
  <2> HIDE DEF r
  <2>2. Tidy(s, r)
    BY <2>1, SameTidy
  <2>3. list # <<>> \/ StoppedOK(s) => StoppedOK(s)
    BY <1>1 DEF StoppedOK
  <2> QED
    BY <2>1, <2>2, <2>3 DEF r
<1>2. CASE list # <<>> /\ t # None
  <2> DEFINE closes == ClosesInStop(x)
             error == IF closes THEN Head(list).error ELSE list[Len(list)].error
             stopped == [s EXCEPT !.conn.stopError = error, !.trs[t] = stop(@)]
             news == [i \in 1 .. Len(list) |-> [by |-> list[i].by, transport |-> t]]
  <2>1. /\ s \in Clients /\ s.conn \in Connections /\ s.trs \in Seq(Transports)
        /\ s.hub \in Hubs /\ HubOK(s.hub) /\ L \in Nat /\ t \in 1 .. L
        /\ x \in Transports /\ TransportOK(x)
        /\ s.deletes \in Seq(DeleteCalls) /\ Len(s.deletes) \in Nat
        /\ \A i \in 1 .. Len(s.deletes) : s.deletes[i].transport \in 1 .. L
    BY <1>2, ClientFields DEF Sound, Placed, None, Connections
  <2>2. /\ y \in Transports /\ TransportOK(y) /\ Ages(x, y)
        /\ y.told = x.told /\ ~y.held
        /\ y.link \in Unopened => x.link = y.link
        /\ ~ClosesInStop(x) => (ToCome(x) => ToCome(y))
        /\ ClosesInStop(x) => x.link = "open" /\ y.link = "closed" /\ Closes(x, y)
        /\ y.kind = x.kind
    BY <2>1, StoppedTransport
  <2>3. /\ x.link \notin Unopened /\ y.link \notin Unopened
        /\ ~Up(y) /\ s.att.pc \notin Starting
    BY <1>2, <2>2 DEF Sound, InUse, Starting, Up, Unopened
  <2>4. error \in Errors /\ Len(list) \in Nat
    <3>1. Len(list) \in Nat \ {0} /\ Head(list) = list[1]
      BY <1>2, EmptySeq, HeadTailProperties
    <3>2. \A i \in 1 .. Len(list) : list[i] \in StopCalls
      BY ElementOfSeq
    <3>3. list[1].error \in Errors /\ list[Len(list)].error \in Errors
      BY <3>1, <3>2 DEF StopCalls
    <3> QED
      BY <3>1, <3>3
  <2>5. r = IF x.kind = "LongPolling"
              THEN [stopped EXCEPT !.deletes = @ \o news]
              ELSE [IF closes THEN FireOnclose(stopped, t) ELSE stopped
                      EXCEPT !.conn.transport = None]
    BY <1>2 DEF StopTransport
  <2> HIDE DEF error, y, r, x, news
  <2>6. stopped = [s EXCEPT !.conn = [s.conn EXCEPT !.stopError = error],
                            !.trs = [s.trs EXCEPT ![t] = y]]
    BY <2>1 DEF Clients, y, x
  <2> HIDE DEF stopped
  <2>7. CASE closes
    <3> DEFINE c1 == [s.conn EXCEPT !.stopError = error]
               s1 == [s EXCEPT !.conn = c1]
    <3>1. c1 \in Connections /\ c1.transport = t /\ c1.state = s.conn.state
          /\ c1.keepAlive = s.conn.keepAlive
      BY <2>1, <2>4 DEF Connections
    <3> HIDE DEF c1
    <3>2. /\ Sound(s1) /\ s1.conn = c1 /\ s1.trs = s.trs /\ s1.stops = s.stops
          /\ s1.att = s.att
      BY <2>1, <3>1, ConnKeeps
    <3>3. With(s1, t, y) = stopped
      BY <2>1, <2>6, <3>2 DEF Clients, With, c1
    <3> HIDE DEF s1
    <3>4. x = s.trs[t] /\ x.link = "open" /\ Closes(s1.trs[t], y)
      BY <2>2, <2>7, <3>1, <3>2 DEF x
    <3>0. PICK s2 : s2 = FireOnclose(With(s1, t, y), t)
      OBVIOUS
    <3>5. /\ Sound(s2) /\ s2.att = s.att /\ s2.stops = s.stops
          /\ Len(s2.trs) = L
          /\ s2.trs[t].link = y.link /\ s2.trs[t].raised = y.raised
          /\ s2.trs[t].told = x.told \/ s2.trs[t].told > x.told \/ s2.trs[t].told = 2
          /\ \A u \in 1 .. L : u # t => s2.trs[u] = s.trs[u]
          /\ s2.conn.transport \in {t, None}
          /\ s2.conn.state \in {s.conn.state, "Disconnected"}
      <4>1. t \in 1 .. Len(s1.trs) /\ s1.trs[t].link \in {"open", "closing"}
        BY <2>1, <3>2, <3>4 DEF x
      <4> QED
        BY <2>2, <3>0, <3>1, <3>2, <3>4, <4>1, OncloseKeeps DEF StartSame
    <3>6. s2 = FireOnclose(stopped, t)
      BY <3>0, <3>3
    <3> DEFINE c2 == [s2.conn EXCEPT !.transport = None]
    <3>7. /\ s2.conn \in Connections /\ s2.deletes \in Seq(DeleteCalls) /\ s2 \in Clients
          /\ s2.trs[t] \in Transports /\ HubOK(s2.hub) /\ TransportOK(s2.trs[t])
      BY <2>1, <3>5, ClientFields DEF Sound
    <3>8. /\ c2 \in Connections /\ c2.transport = None /\ c2.state = s2.conn.state
          /\ c2.keepAlive = s2.conn.keepAlive
      BY <3>5, <3>7 DEF Connections, None
    <3>9. r = [s2 EXCEPT !.conn.transport = None] /\ y.kind = "ServerSentEvents"
      BY <2>2, <2>5, <2>7, <3>6 DEF ClosesInStop
    <3>10. s2.trs \in Seq(Transports) /\ [s2.trs EXCEPT ![t] = s2.trs[t]] = s2.trs
           /\ s2.hub \in Hubs
      BY <2>1, <3>5, <3>7, ClientFields
    <3>11. r = Touched(s2, t, s2.trs[t], c2, s2.deletes, s2.hub)
      BY <3>7, <3>9, <3>10 DEF Clients, Touched
    <3>13. \A i \in 1 .. Len(s2.deletes) :
             /\ s2.deletes[i].transport \in 1 .. Len(s2.trs)
             /\ LET z == IF s2.deletes[i].transport = t THEN s2.trs[t]
                                                        ELSE s2.trs[s2.deletes[i].transport]
                IN  z.kind = "LongPolling" /\ ~z.held /\ z.link \notin Unopened
      BY <3>5, SMTT(60) DEF Sound, Placed, DeletesOK
    <3>14. Ages(s2.trs[t], s2.trs[t]) /\ t \in 1 .. Len(s2.trs)
      BY <2>1, <3>5, SameAges
    <3> HIDE DEF c2
    <3>15. Touches(s2, t, s2.trs[t], c2, s2.deletes, s2.hub)
      BY <3>5, <3>7, <3>8, <3>13, <3>14, SameWait DEF Touches
    <3>16. /\ Sound(r) /\ r.att = s2.att /\ r.stops = s2.stops /\ r.conn = c2
           /\ Len(r.trs) = L /\ r.trs[t] = s2.trs[t]
           /\ \A u \in 1 .. L : u # t => r.trs[u] = s2.trs[u]
      BY <3>5, <3>11, <3>14, <3>15, StepKeeps
    <3>17. Tidy(s, r)
      <4> SUFFICES ASSUME NEW u \in 1 .. L
                   PROVE  /\ u \in 1 .. Len(r.trs) /\ (Stray(r, u) => Stray(s, u))
                          /\ r.trs[u].told >= s.trs[u].told
                          /\ s.trs[u].raised => r.trs[u].raised
        BY DEF Tidy
      <4>1. CASE u = t
        <5>1. x.told \in 0 .. 2 /\ s2.trs[t].told \in 0 .. 2
          BY <2>1, <3>7 DEF Transports
        <5>2. s2.trs[t].told >= x.told
          BY <3>5, <5>1
        <5>3. s2.trs[t].link = "closed" /\ (x.raised => s2.trs[t].raised)
          BY <2>2, <2>7, <3>5 DEF Closes
        <5> QED
          BY <3>16, <4>1, <5>2, <5>3 DEF Stray, Up, x
      <4>2. CASE u # t
        BY <2>1, <3>5, <3>16, <4>2, Tolds DEF Stray
      <4> QED
        BY <4>1, <4>2
    <3>18. StoppedOK(r) /\ r.conn.state \in {s.conn.state, "Disconnected"}
      BY <3>5, <3>8, <3>16 DEF StoppedOK
    <3> QED
      BY <3>5, <3>16, <3>17, <3>18 DEF r
  <2>8. CASE ~closes /\ x.kind # "LongPolling"
    <3> DEFINE c == [s.conn EXCEPT !.stopError = error, !.transport = None]
    <3>1. /\ c \in Connections /\ c.transport = None /\ c.state = s.conn.state
          /\ c.keepAlive = s.conn.keepAlive
      BY <2>1, <2>4 DEF Connections, None
    <3>2. r = [stopped EXCEPT !.conn.transport = None]
      BY <2>5, <2>8
    <3>3. r = Touched(s, t, y, c, s.deletes, s.hub)
      BY <2>1, <2>6, <3>2 DEF Clients, Touched
    <3>4. \A i \in 1 .. Len(s.deletes) :
             /\ s.deletes[i].transport \in 1 .. Len(s.trs)
             /\ LET z == IF s.deletes[i].transport = t THEN y
                                                       ELSE s.trs[s.deletes[i].transport]
                IN  z.kind = "LongPolling" /\ ~z.held /\ z.link \notin Unopened
      BY <2>1, <2>2, <2>3 DEF Sound, DeletesOK, x
    <3> HIDE DEF c
    <3>5. Ages(s.trs[t], y) /\ TransportOK(y) /\ y.told = s.trs[t].told
          /\ (ToCome(s.trs[t]) => ToCome(y))
      BY <2>2, <2>3, <2>8, <3>1 DEF x
    <3>6. Touches(s, t, y, c, s.deletes, s.hub)
      BY <1>2, <2>1, <2>2, <3>1, <3>4, <3>5, SameWait DEF Touches
    <3>7. Sound(r) /\ Tidy(s, r) /\ r.att = s.att /\ r.stops = s.stops /\ r.conn = c
      BY <2>1, <2>3, <3>3, <3>6, StepKeeps
    <3>8. StoppedOK(r)
      BY <3>1, <3>7 DEF StoppedOK
    <3> QED
      BY <3>1, <3>7, <3>8 DEF r
  <2>9. CASE x.kind = "LongPolling"
    <3> DEFINE c == [s.conn EXCEPT !.stopError = error]
               dl == s.deletes \o news
    <3>1. /\ c \in Connections /\ c.transport = s.conn.transport /\ c.state = s.conn.state
          /\ c.keepAlive = s.conn.keepAlive
      BY <2>1, <2>4 DEF Connections
    <3>2. \A i \in 1 .. Len(list) : list[i] \in StopCalls
      BY ElementOfSeq
    <3>3. news \in [1 .. Len(list) -> DeleteCalls]
          /\ \A i \in 1 .. Len(list) : news[i].transport = t
      BY <2>1, <3>2 DEF news, StopCalls, DeleteCalls
    <3>4. news \in Seq(DeleteCalls) /\ Len(news) = Len(list)
      BY <2>4, <3>3, FunctionIsSeq
    <3>5. /\ dl \in Seq(DeleteCalls) /\ Len(dl) = Len(s.deletes) + Len(news)
          /\ \A i \in 1 .. Len(dl) :
               dl[i] = IF i <= Len(s.deletes) THEN s.deletes[i]
                                              ELSE news[i - Len(s.deletes)]
      <4>1. \A p, q \in Seq(DeleteCalls) :
              /\ p \o q \in Seq(DeleteCalls) /\ Len(p \o q) = Len(p) + Len(q)
              /\ \A i \in 1 .. Len(p) + Len(q) :
                   (p \o q)[i] = IF i <= Len(p) THEN p[i] ELSE q[i - Len(p)]
        BY ConcatProperties
      <4> HIDE DEF news
      <4>2. /\ dl \in Seq(DeleteCalls) /\ Len(dl) = Len(s.deletes) + Len(news)
            /\ \A i \in 1 .. Len(s.deletes) + Len(news) :
                 dl[i] = IF i <= Len(s.deletes) THEN s.deletes[i]
                                                ELSE news[i - Len(s.deletes)]
        BY <2>1, <3>4, <4>1, Zenon
      <4> HIDE DEF dl
      <4> QED
        BY <4>2, Zenon
    <3> HIDE DEF dl
    <3>6. ASSUME NEW i \in 1 .. Len(dl)
          PROVE  /\ dl[i].transport \in 1 .. Len(s.trs)
                 /\ LET z == IF dl[i].transport = t THEN y ELSE s.trs[dl[i].transport]
                    IN  z.kind = "LongPolling" /\ ~z.held
                          /\ z.link \notin Unopened
      <4>1. CASE i <= Len(s.deletes)
        <5>1. dl[i] = s.deletes[i] /\ i \in 1 .. Len(s.deletes)
          BY <2>1, <3>5, <4>1
        <5> QED
          BY <2>1, <2>2, <2>3, <2>9, <5>1 DEF Sound, DeletesOK
      <4>2. CASE ~(i <= Len(s.deletes))
        <5>1. dl[i] = news[i - Len(s.deletes)] /\ i - Len(s.deletes) \in 1 .. Len(list)
          BY <2>1, <2>4, <3>4, <3>5, <4>2
        <5>2. dl[i].transport = t
          BY <3>3, <5>1
        <5> QED
          BY <2>1, <2>2, <2>3, <2>9, <5>2
      <4> QED
        BY <4>1, <4>2
    <3>7. r = [stopped EXCEPT !.deletes = @ \o news]
      BY <2>5, <2>9
    <3>8. r = Touched(s, t, y, c, dl, s.hub)
      BY <2>1, <2>6, <3>7 DEF Clients, Touched, dl
    <3> HIDE DEF c
    <3>9. Ages(s.trs[t], y) /\ TransportOK(y) /\ y.told = s.trs[t].told
          /\ (ToCome(s.trs[t]) => ToCome(y))
      BY <2>2, <2>3, <2>9, <3>1 DEF x, ClosesInStop
    <3>10. Touches(s, t, y, c, dl, s.hub)
      BY <2>1, <2>2, <3>1, <3>5, <3>6, <3>9, SameWait DEF Touches
    <3>11. /\ Sound(r) /\ Tidy(s, r) /\ r.att = s.att /\ r.stops = s.stops
           /\ r.conn = c /\ r.trs[t] = y
      BY <2>1, <2>3, <3>1, <3>8, <3>10, StepKeeps
    <3>12. StoppedOK(r)
      BY <2>2, <2>3, <3>1, <3>11 DEF StoppedOK
    <3> QED
      BY <3>1, <3>11, <3>12 DEF r
  <2> QED
    BY <2>7, <2>8, <2>9
<1> QED
  BY <1>1, <1>2

\* A task that leaves the transports and the stop() calls as they are.
Turns(s, c, a, h) ==
    /\ c \in Connections /\ a \in Attempts /\ HubOK(h)
    /\ a.pc # "idle" => a.no \in 1 .. MaxStarts
    /\ c.transport \in {s.conn.transport, None}
    /\ c.keepAlive = s.conn.keepAlive
    /\ c.transport # None =>
         /\ s.trs[c.transport].link \in Unopened => a.pc \in {"renegotiate", "connect"}
         /\ a.pc = "negotiate" => ~s.trs[c.transport].held
    /\ c.state = "Connected" => s.conn.state = "Connected"
    /\ StillWait(h, s.hub)
    /\ a.pc = "started" /\ c.state = "Connected" /\ c.transport # None =>
         h.handle \/ c.keepAlive \/ h.raised

Turned(s, c, a, h) == [s EXCEPT !.conn = c, !.att = a, !.hub = h]

LEMMA TurnKeeps ==
    ASSUME NEW s, Sound(s), NEW c, NEW a, NEW h, Turns(s, c, a, h),
           NEW r, r = Turned(s, c, a, h)
    PROVE  /\ Sound(r) /\ r.conn = c /\ r.att = a /\ r.hub = h
           /\ r.trs = s.trs /\ r.stops = s.stops /\ r.deletes = s.deletes
           /\ c.transport = s.conn.transport \/ Spent(s) => Tidy(s, r)
<1>1. /\ s \in Clients /\ s.conn \in Connections /\ s.trs \in Seq(Transports)
      /\ h \in Hubs /\ Len(s.trs) \in Nat
      /\ c \in Connections /\ a \in Attempts /\ HubOK(h)
      /\ s.conn.transport \in 0 .. Len(s.trs) /\ s.conn.transport \in Nat
      /\ c.transport \in {s.conn.transport, None}
      /\ StillWait(h, s.hub)
  BY ClientFields DEF Sound, Placed, HubOK, Turns, Connections
<1>2. /\ r \in Clients /\ r.conn = c /\ r.att = a /\ r.hub = h
      /\ r.trs = s.trs /\ r.stops = s.stops /\ r.deletes = s.deletes
  BY <1>1 DEF Clients, Turned
<1>3. Placed(r) /\ WatchOK(r)
  BY <1>1, <1>2 DEF Sound, Placed, WatchOK, Turns, None
<1>4. InUse(r)
  BY <1>1, <1>2 DEF InUse, Turns
<1>5. PathOK(r)
  BY <1>1, <1>2, PathKept DEF Sound
<1>6. /\ DeletesOK(r) /\ ConnectedOK(r) /\ PolledOK(r)
      /\ \A t \in 1 .. Len(r.trs) : TransportOK(r.trs[t])
  BY <1>1, <1>2 DEF Sound, DeletesOK, ConnectedOK, PolledOK, Turns
<1>7. c.transport = s.conn.transport \/ Spent(s) => Tidy(s, r)
  BY <1>1, <1>2, SameTidy
<1> QED
  BY <1>1, <1>2, <1>3, <1>4, <1>5, <1>6, <1>7 DEF Sound

LEMMA StopsChange ==
    ASSUME NEW s, Sound(s), NEW q \in Seq(StopCalls), NEW r, r = [s EXCEPT !.stops = q]
    PROVE  /\ Sound(r) /\ StartSame(s, r) /\ r.conn = s.conn /\ r.trs = s.trs
           /\ r.stops = q /\ r.deletes = s.deletes /\ r.hub = s.hub
           /\ Tidy(s, r)
<1>1. s \in Clients /\ s.conn.transport \in Nat
  BY ClientFields DEF Sound, Connections
<1>2. /\ r \in Clients /\ r.conn = s.conn /\ r.trs = s.trs /\ r.att = s.att
      /\ r.stops = q /\ r.deletes = s.deletes /\ r.hub = s.hub
  BY <1>1 DEF Clients
<1>3. Placed(r) /\ HubOK(r.hub) /\ DeletesOK(r) /\ InUse(r) /\ PolledOK(r)
  BY <1>2 DEF Sound, Placed, DeletesOK, InUse, PolledOK
<1>4. ConnectedOK(r) /\ WatchOK(r) /\ PathOK(r) /\ (StartOK(s) => StartOK(r))
  BY <1>2 DEF Sound, ConnectedOK, WatchOK, PathOK, StartOK
<1>5. Tidy(s, r)
  BY <1>1, <1>2, SameTidy
<1> QED
  BY <1>2, <1>3, <1>4, <1>5 DEF Sound, StartSame

\* stop(error): the state at once, the transport when start() has ended.
LEMMA StopKeeps ==
    ASSUME NEW s, Sound(s), StartOK(s), NEW error \in Errors, NEW by \in {"user", "hub"},
           NEW r, r = Stop(s, error, by)
    PROVE  /\ Sound(r) /\ StartOK(r) /\ StoppedOK(r) /\ Tidy(s, r)
           /\ r.conn.state = "Disconnected"
<1> DEFINE call == [error |-> error, by |-> by]
           c == [s.conn EXCEPT !.state = "Disconnected"]
<1>1. /\ s \in Clients /\ s.conn \in Connections /\ s.stops \in Seq(StopCalls)
      /\ call \in StopCalls /\ s.conn.transport \in Nat
  BY ClientFields DEF Sound, StopCalls, Connections
<1>2. /\ c \in Connections /\ c.transport = s.conn.transport /\ c.state = "Disconnected"
      /\ c.keepAlive = s.conn.keepAlive
  BY <1>1 DEF Connections
<1>3. PICK marked : marked = [s EXCEPT !.conn = c]
  OBVIOUS
<1>4. marked = [s EXCEPT !.conn.state = "Disconnected"]
  BY <1>1, <1>3 DEF Clients
<1> HIDE DEF c, call
<1>5. /\ Sound(marked) /\ StartSame(s, marked) /\ marked.stops = s.stops
      /\ marked \in Clients /\ marked.trs = s.trs /\ marked.conn = c
  BY <1>2, <1>3, ConnKeeps
<1>6. /\ StartOK(marked) /\ marked.att = s.att
  BY <1>5 DEF StartSame
<1>9. Tidy(s, marked)
  BY <1>1, <1>2, <1>5, SameTidy
<1>7. CASE s.att.pc \in Starting
  <2>1. PICK q : q = Append(s.stops, call)
    OBVIOUS
  <2>2. r = [marked EXCEPT !.stops = Append(@, call)]
    BY <1>4, <1>7 DEF Stop, call
  <2>3. r = [marked EXCEPT !.stops = q]
    BY <1>5, <2>1, <2>2
  <2>4. q \in Seq(StopCalls) /\ q # <<>>
    BY <1>1, <2>1, AppendProperties
  <2>5. /\ Sound(r) /\ StartSame(marked, r) /\ Tidy(marked, r) /\ r.conn = c
        /\ r.stops = q
    BY <1>5, <2>3, <2>4, StopsChange
  <2>6. StoppedOK(r)
    BY <1>6, <1>7, <2>4, <2>5 DEF StoppedOK, StartSame
  <2>7. Tidy(s, r)
    BY <1>1, <1>5, <1>9, <2>5, TidyTwice DEF Sound
  <2> QED
    BY <1>2, <1>6, <2>5, <2>6, <2>7 DEF StartSame
<1>8. CASE s.att.pc \notin Starting
  <2>1. PICK list : list = <<call>>
    OBVIOUS
  <2>2. r = StopTransport(marked, list)
    BY <1>4, <1>8, <2>1 DEF Stop, call
  <2>3. list \in Seq(StopCalls) /\ list # <<>>
    BY <1>1, <2>1
  <2>4. /\ Sound(r) /\ r.att = marked.att /\ Tidy(marked, r) /\ StoppedOK(r)
        /\ r.conn.state \in {marked.conn.state, "Disconnected"}
    BY <1>5, <1>6, <1>8, <2>2, <2>3, StopTransportKeeps
  <2>5. StartOK(r)
    BY <1>6, <1>8, <2>4 DEF StartOK, Starting
  <2>6. Tidy(s, r)
    BY <1>1, <1>5, <1>9, <2>4, TidyTwice DEF Sound
  <2> QED
    BY <1>2, <1>5, <2>4, <2>5, <2>6
<1> QED
  BY <1>7, <1>8

\* The stop() calls that waited go on.
LEMMA StartSettledKeeps ==
    ASSUME NEW s, Sound(s), s.att.pc \notin Starting, s.stops = <<>> => StoppedOK(s),
           NEW r, r = StartSettled(s)
    PROVE  Sound(r) /\ StartOK(r) /\ StoppedOK(r) /\ Tidy(s, r)
<1>1. s \in Clients /\ s.stops \in Seq(StopCalls) /\ <<>> \in Seq(StopCalls)
  BY ClientFields DEF Sound
<1>2. PICK q \in Seq(StopCalls) : q = <<>>
  BY <1>1
<1>9. PICK z : z = [s EXCEPT !.stops = q]
  OBVIOUS
<1>3. Sound(z) /\ StartSame(s, z) /\ Tidy(s, z) /\ z.conn = s.conn /\ z.trs = s.trs
  BY <1>9, StopsChange
<1>4. r = StopTransport(z, s.stops)
  BY <1>2, <1>9 DEF StartSettled
<1>5. s.stops # <<>> \/ StoppedOK(z)
  BY <1>3 DEF StoppedOK, StartSame
<1>6. Sound(r) /\ r.att = s.att /\ Tidy(z, r) /\ StoppedOK(r)
  BY <1>1, <1>3, <1>4, <1>5, StopTransportKeeps DEF StartSame
<1>7. Tidy(s, r)
  BY <1>3, <1>6, TidyTwice DEF Sound
<1>8. StartOK(r)
  BY <1>6 DEF StartOK, Starting
<1> QED
  BY <1>6, <1>7, <1>8

----------------------------------------------------------------------------
(* Steps of start() *)

LEMMA Smallest ==
    ASSUME NEW T, T \subseteq Nat, T # {}
    PROVE  \E j \in T : \A k \in T : j <= k
<1> DEFINE R == OpToRel(<, Nat)
<1>1. IsWellFoundedOn(R, Nat)
  BY NatLessThanWellFounded
<1>2. \A x, y \in Nat : x < y => <<x, y>> \in R
  BY DEF OpToRel
<1> HIDE DEF R
<1>3. PICK j \in T : \A k \in T : ~ (<<k, j>> \in R)
  BY <1>1, WFMin
<1>4. \A k \in T : ~ (k < j) /\ k \in Nat /\ j \in Nat
  BY <1>2, <1>3
<1>5. \A k \in T : j <= k
  BY <1>4
<1> QED
  BY <1>5

\* The att of a start() that has ended.
Leaving(s, pc) ==
    [pc |-> pc, no |-> s.att.no, offer |-> <<>>, endpoint |-> 0, redirects |-> 0,
     lost |-> FALSE]

LEMMA LeavingOK ==
    ASSUME NEW s \in Clients, NEW pc \in StartPlaces
    PROVE  Leaving(s, pc) \in Attempts
BY Bounds, ClientFields DEF Leaving, Attempts

\* startInternal returns while stop() waits for it.
LEMMA LeftKeeps ==
    ASSUME NEW s, Sound(s), s.att.pc = "negotiate", StoppedOK(s),
           NEW r, r = Left(s, "failed")
    PROVE  /\ Sound(r) /\ r.att.pc = "failed" /\ Tidy(s, r)
           /\ r.stops = <<>> => StoppedOK(r)
<1> DEFINE a == Leaving(s, "failed")
<1>1. /\ s \in Clients /\ s.conn \in Connections /\ s.hub \in Hubs /\ a \in Attempts
      /\ s.att.no \in 1 .. MaxStarts
  BY ClientFields, LeavingOK DEF Sound, Placed, StartPlaces
<1>2. r = Turned(s, s.conn, a, s.hub)
  BY <1>1 DEF Left, Turned, Clients, Leaving
<1>3. a.pc = "failed" /\ a.no = s.att.no
  BY DEF Leaving
<1> HIDE DEF a
<1>4. Turns(s, s.conn, a, s.hub)
  BY <1>1, <1>3, SameWait DEF Turns, Sound, InUse
<1>5. Sound(r) /\ r.att = a /\ r.conn = s.conn /\ r.stops = s.stops /\ Tidy(s, r)
  BY <1>2, <1>4, TurnKeeps
<1>6. r.stops = <<>> => StoppedOK(r)
  BY <1>5 DEF StoppedOK, Starting
<1> QED
  BY <1>3, <1>5, <1>6

LEMMA FailStartKeeps ==
    ASSUME NEW s, Sound(s), s.att.pc \in Starting, Spent(s), NEW r, r = FailStart(s)
    PROVE  Sound(r) /\ StartOK(r) /\ StoppedOK(r) /\ Tidy(s, r)
<1> DEFINE a == Leaving(s, "failed")
           c == [s.conn EXCEPT !.state = "Disconnected", !.transport = None]
<1>1. /\ s \in Clients /\ s.conn \in Connections /\ s.hub \in Hubs /\ a \in Attempts
      /\ s.att.no \in 1 .. MaxStarts /\ HubOK(s.hub)
  BY ClientFields, LeavingOK DEF Sound, Placed, StartPlaces, Starting
<1>0. PICK left : left = [Left(s, "failed") EXCEPT !.conn.state = "Disconnected",
                                                   !.conn.transport = None]
  OBVIOUS
<1>2. left = Turned(s, c, a, s.hub)
  BY <1>0, <1>1 DEF Left, Turned, Clients, Leaving
<1>3. a.pc = "failed" /\ a.no = s.att.no
  BY DEF Leaving
<1>4. /\ c \in Connections /\ c.state = "Disconnected" /\ c.transport = None
      /\ c.keepAlive = s.conn.keepAlive
  BY <1>1 DEF Connections, None
<1> HIDE DEF a, c
<1>6. Turns(s, c, a, s.hub)
  BY <1>1, <1>3, <1>4, SameWait DEF Turns, Starting
<1>7. Sound(left) /\ left.att = a /\ Tidy(s, left) /\ left.conn = c
  BY <1>2, <1>6, TurnKeeps
<1>8. r = StartSettled(left)
  BY <1>0 DEF FailStart
<1>9. StoppedOK(left)
  BY <1>4, <1>7 DEF StoppedOK
<1>10. Sound(r) /\ StartOK(r) /\ StoppedOK(r) /\ Tidy(left, r)
  BY <1>3, <1>7, <1>8, <1>9, StartSettledKeeps DEF Starting
<1> QED
  BY <1>7, <1>10, TidyTwice DEF Sound

\* createTransport constructs a transport for an endpoint.
LEMMA ConstructedKeeps ==
    ASSUME NEW s, Sound(s), s.att.pc \in Starting, Spent(s), NEW kind \in Kinds, NEW j \in Nat,
           NEW x, x = IF s.att.lost THEN constructTransport(kind, s.att.no)
                                    ELSE connect(constructTransport(kind, s.att.no)),
           NEW r,
           r = [s EXCEPT !.conn.state = "Connecting",
                         !.conn.transport = Len(s.trs) + 1,
                         !.trs = Append(@, x),
                         !.att.endpoint = j,
                         !.att.pc = IF s.att.lost THEN "renegotiate" ELSE "connect"]
    PROVE  Sound(r) /\ StartOK(r) /\ StoppedOK(r) /\ Tidy(s, r)
<1> DEFINE L == Len(s.trs)
           q == Append(s.trs, x)
           c == [s.conn EXCEPT !.state = "Connecting", !.transport = L + 1]
           a == [s.att EXCEPT !.endpoint = j,
                              !.pc = IF s.att.lost THEN "renegotiate" ELSE "connect"]
<1>1. /\ s \in Clients /\ s.conn \in Connections /\ s.trs \in Seq(Transports)
      /\ s.att \in Attempts /\ s.hub \in Hubs /\ HubOK(s.hub) /\ L \in Nat
      /\ s.att.no \in 1 .. MaxStarts /\ s.att.lost \in BOOLEAN
      /\ MaxStarts \in Nat /\ s.conn.transport \in 0 .. L
  BY ClientFields, Bounds DEF Sound, Placed, Starting, Attempts
<1>2. /\ x \in Transports /\ TransportOK(x) /\ ~x.wired /\ ~x.held
      /\ x.link = IF s.att.lost THEN "new" ELSE "connecting"
  <2>1. constructTransport(kind, s.att.no) \in Transports
    BY <1>1 DEF constructTransport, Transports, Links
  <2>2. /\ x \in Transports /\ x.of = s.att.no /\ x.told = 0 /\ ~x.wired /\ ~x.held
        /\ x.kind = kind /\ ~x.shutdown
        /\ x.link = IF s.att.lost THEN "new" ELSE "connecting"
    BY <1>1, <2>1 DEF constructTransport, connect, Transports, Links
  <2> QED
    BY <1>1, <2>2 DEF TransportOK, Errors
<1>3. /\ q \in Seq(Transports) /\ Len(q) = L + 1 /\ q[L + 1] = x /\ q # <<>>
      /\ \A t \in 1 .. L : q[t] = s.trs[t]
  BY <1>1, <1>2, AppendProperties
<1>4. /\ c \in Connections /\ c.state = "Connecting" /\ c.transport = L + 1
      /\ c.keepAlive = s.conn.keepAlive
  <2>1. L + 1 \in Nat
    BY <1>1
  <2> HIDE DEF L
  <2>2. PICK m \in Nat : m = L + 1
    BY <2>1
  <2>3. c = [s.conn EXCEPT !.state = "Connecting", !.transport = m]
    BY <2>2
  <2> QED
    BY <1>1, <2>2, <2>3 DEF Connections
<1>5. /\ a \in Attempts /\ a.no = s.att.no
      /\ a.pc = IF s.att.lost THEN "renegotiate" ELSE "connect"
  BY <1>1 DEF Attempts, StartPlaces
<1>6. r = [s EXCEPT !.conn = c, !.trs = q, !.att = a]
  BY <1>1 DEF Clients
<1> HIDE DEF c, a, q
<1>7. /\ r \in Clients /\ r.conn = c /\ r.trs = q /\ r.att = a /\ r.hub = s.hub
      /\ r.stops = s.stops /\ r.deletes = s.deletes
  BY <1>1, <1>3, <1>4, <1>5, <1>6 DEF Clients
<1>8. \A t \in 1 .. L : t \in 1 .. Len(r.trs) /\ r.trs[t] = s.trs[t]
  BY <1>1, <1>3, <1>7
<1>9. \A t \in 1 .. L + 1 : t = L + 1 \/ t \in 1 .. L
  BY <1>1
<1>10. \A t \in 1 .. Len(r.trs) : TransportOK(r.trs[t])
  BY <1>2, <1>3, <1>7, <1>9 DEF Sound
<1>11. Placed(r)
  BY <1>1, <1>3, <1>4, <1>5, <1>7 DEF Sound, Placed
<1>12. DeletesOK(r)
  BY <1>1, <1>3, <1>7 DEF Sound, Placed, DeletesOK
<1>13. PolledOK(r)
  BY <1>4, <1>7, <1>8 DEF Sound, PolledOK
<1>14. PathOK(r)
  BY <1>7, <1>8 DEF Sound, PathOK
<1>15. InUse(r)
  BY <1>2, <1>3, <1>4, <1>5, <1>7 DEF InUse
<1>17. ConnectedOK(r) /\ WatchOK(r) /\ StoppedOK(r)
  BY <1>4, <1>7 DEF ConnectedOK, WatchOK, StoppedOK
<1>16. StartOK(r)
  BY <1>2, <1>3, <1>4, <1>5, <1>7 DEF StartOK
<1>18. Tidy(s, r)
  <2> SUFFICES ASSUME NEW t \in 1 .. L
               PROVE  /\ t \in 1 .. Len(r.trs) /\ (Stray(r, t) => Stray(s, t))
                      /\ r.trs[t].told >= s.trs[t].told
                      /\ s.trs[t].raised => r.trs[t].raised
    BY DEF Tidy
  <2>1. r.trs[t] = s.trs[t] /\ t \in 1 .. Len(r.trs) /\ t # None
    BY <1>8 DEF None
  <2>2. Stray(r, t) => Stray(s, t)
    BY <2>1 DEF Stray, Spent
  <2> QED
    BY <1>1, <2>1, <2>2, Tolds
<1> QED
  BY <1>1, <1>7, <1>10, <1>11, <1>12, <1>13, <1>14, <1>15, <1>16, <1>17, <1>18 DEF Sound

LEMMA NextEndpointKeeps ==
    ASSUME NEW s, Sound(s), s.att.pc \in Starting, Spent(s), NEW i \in Nat \ {0},
           NEW r, r = NextEndpoint(s, i)
    PROVE  Sound(r) /\ StartOK(r) /\ StoppedOK(r) /\ Tidy(s, r)
<1> DEFINE usable == {j \in i .. Len(s.att.offer) : resolveTransport(s.att.offer[j])}
<1>1. CASE usable = {}
  BY <1>1, FailStartKeeps DEF NextEndpoint
<1>2. CASE usable # {}
  <2> DEFINE j == CHOOSE j \in usable : \A k \in usable : j <= k
             new == constructTransport(s.att.offer[j], s.att.no)
             x == IF s.att.lost THEN new ELSE connect(new)
  <2>1. usable \subseteq Nat /\ \A k \in usable : s.att.offer[k] \in Kinds
    <3>1. ASSUME NEW k \in usable PROVE k \in Nat /\ s.att.offer[k] \in Kinds
      <4>1. k \in i .. Len(s.att.offer) /\ resolveTransport(s.att.offer[k])
        OBVIOUS
      <4> QED
        BY <4>1, OfferedKinds DEF resolveTransport
    <3> QED
      BY <3>1
  <2>2. r = [s EXCEPT !.conn.state = "Connecting",
                      !.conn.transport = Len(s.trs) + 1,
                      !.trs = Append(@, x),
                      !.att.endpoint = j,
                      !.att.pc = IF s.att.lost THEN "renegotiate" ELSE "connect"]
    BY <1>2 DEF NextEndpoint
  <2> HIDE DEF usable
  <2>3. \E k \in usable : \A m \in usable : k <= m
    BY <1>2, <2>1, Smallest
  <2>4. j \in usable
    BY <2>3
  <2> HIDE DEF j
  <2>5. j \in Nat /\ s.att.offer[j] \in Kinds
    BY <2>1, <2>4
  <2>6. PICK kind, y : kind = s.att.offer[j] /\ y = x
    OBVIOUS
  <2>7. y = IF s.att.lost THEN constructTransport(kind, s.att.no)
                          ELSE connect(constructTransport(kind, s.att.no))
    BY <2>6
  <2> HIDE DEF x
  <2> QED
    BY <2>2, <2>5, <2>6, <2>7, ConstructedKeeps
<1> QED
  BY <1>1, <1>2

\* The connection failed: on to the next endpoint, with a new connection id.
LEMMA ConnectFailedKeeps ==
    ASSUME NEW s, Sound(s), s.att.pc \in Starting, Spent(s), NEW r, r = ConnectFailed(s)
    PROVE  Sound(r) /\ StartOK(r) /\ StoppedOK(r) /\ Tidy(s, r)
<1> DEFINE c == [s.conn EXCEPT !.state = "Disconnected"]
           a == [s.att EXCEPT !.lost = TRUE]
<1>1. /\ s \in Clients /\ s.conn \in Connections /\ s.att \in Attempts /\ HubOK(s.hub)
      /\ s.hub \in Hubs /\ s.att.endpoint \in Nat
  BY ClientFields DEF Sound, Attempts
<1>2. /\ c \in Connections /\ c.transport = s.conn.transport /\ c.state = "Disconnected"
      /\ c.keepAlive = s.conn.keepAlive
  BY <1>1 DEF Connections
<1>3. a \in Attempts /\ a.pc = s.att.pc /\ a.no = s.att.no /\ a.endpoint = s.att.endpoint
  BY <1>1 DEF Attempts
<1>4. PICK q : q = Turned(s, c, a, s.hub)
  OBVIOUS
<1>5. q = [s EXCEPT !.conn.state = "Disconnected", !.att.lost = TRUE]
  BY <1>1, <1>4 DEF Clients, Turned
<1> HIDE DEF c, a
<1>6. Turns(s, c, a, s.hub)
  BY <1>1, <1>2, <1>3, SameWait DEF Turns, Sound, Placed, InUse, Starting
<1>7. Sound(q) /\ q.att = a /\ q.conn = c /\ q.trs = s.trs /\ Tidy(s, q)
  BY <1>2, <1>4, <1>6, TurnKeeps
<1>8. r = NextEndpoint(q, s.att.endpoint + 1) /\ s.att.endpoint + 1 \in Nat \ {0}
  BY <1>1, <1>5 DEF ConnectFailed
<1>9. Spent(q)
  BY <1>2, <1>7 DEF Spent
<1>10. Sound(r) /\ StartOK(r) /\ StoppedOK(r) /\ Tidy(q, r)
  BY <1>3, <1>7, <1>8, <1>9, NextEndpointKeeps
<1> QED
  BY <1>7, <1>10, TidyTwice DEF Sound

\* start() ends, or waits for its handshake, with the newest transport connected.
Arrives(s, z, c, a, h) ==
    /\ z \in Transports /\ TransportOK(z) /\ z.told = 0
    /\ z.link \in {"open", "closed"}
    /\ s.trs[Len(s.trs)].raised => z.raised
    /\ c \in Connections
    /\ c.transport = s.conn.transport
    /\ c.transport # None => z.wired
    /\ c.state = "Connected" => c.transport # None
    /\ c.keepAlive => s.conn.keepAlive \/ (z.kind = "LongPolling" /\ z.wired)
    /\ a \in Attempts /\ a.pc \in {"handshake", "started", "failed"} /\ a.no = s.att.no
    /\ HubOK(h)
    /\ StillWait(h, s.hub)
    /\ a.pc = "started" => h.handle \/ c.keepAlive

Arrived(s, z, c, a, h) ==
    [s EXCEPT !.conn = c, !.att = a, !.trs = [s.trs EXCEPT ![Len(s.trs)] = z], !.hub = h]

LEMMA ArrivedKeeps ==
    ASSUME NEW s, Sound(s), StartOK(s), s.att.pc = "connect",
           NEW z, NEW c, NEW a, NEW h, Arrives(s, z, c, a, h),
           NEW r, r = Arrived(s, z, c, a, h)
    PROVE  /\ Sound(r) /\ r.att = a /\ r.conn = c /\ r.stops = s.stops
           /\ Tidy(s, r)
<1> DEFINE L == Len(s.trs)
           q == [s.trs EXCEPT ![L] = z]
<1>1. /\ s \in Clients /\ s.conn \in Connections /\ s.trs \in Seq(Transports)
      /\ L \in Nat /\ s.att.no \in 1 .. MaxStarts
      /\ z \in Transports /\ c \in Connections /\ a \in Attempts /\ HubOK(h)
      /\ h \in Hubs /\ s.conn.transport \in 0 .. L
      /\ StillWait(h, s.hub)
  BY ClientFields DEF Sound, Placed, Arrives, HubOK
<1>2. s.trs # <<>> /\ s.trs[L].link = "connecting" /\ s.conn.transport \in {None, L}
  BY DEF StartOK
<1>3. L \in 1 .. L
  BY <1>1, <1>2, EmptySeq
<1>6. ~s.trs[L].wired /\ s.trs[L].told = 0
  <2>1. TransportOK(s.trs[L]) /\ s.trs[L].told \in 0 .. 2
    BY <1>1, <1>3, ClientFields DEF Sound, Transports
  <2> QED
    BY <1>2, <2>1 DEF TransportOK, Unopened
<1>4. /\ q \in Seq(Transports) /\ Len(q) = L /\ q[L] = z
      /\ \A t \in 1 .. L : t # L => q[t] = s.trs[t]
  BY <1>1, <1>3, OneTransport
<1> HIDE DEF q
<1>5. /\ r \in Clients /\ r.conn = c /\ r.att = a /\ r.trs = q /\ r.hub = h
      /\ r.stops = s.stops /\ r.deletes = s.deletes
  BY <1>1, <1>4 DEF Clients, Arrived, q
<1>7. \A t \in 1 .. Len(r.trs) : TransportOK(r.trs[t])
  BY <1>3, <1>4, <1>5 DEF Sound, Arrives
<1>8. Placed(r) /\ WatchOK(r)
  BY <1>1, <1>4, <1>5 DEF Sound, Placed, WatchOK, Arrives
<1>9. InUse(r)
  BY <1>2, <1>4, <1>5 DEF InUse, Arrives, Unopened
<1>10. DeletesOK(r)
  <2> SUFFICES ASSUME NEW i \in 1 .. Len(r.deletes)
               PROVE  LET x == r.trs[r.deletes[i].transport]
                      IN  x.kind = "LongPolling" /\ ~x.held /\ x.link \notin Unopened
    BY DEF DeletesOK
  <2>1. /\ r.deletes[i].transport \in 1 .. L
        /\ LET x == s.trs[r.deletes[i].transport]
           IN  x.kind = "LongPolling" /\ ~x.held /\ x.link \notin Unopened
    BY <1>5 DEF Sound, Placed, DeletesOK
  <2>2. r.deletes[i].transport # L
    BY <1>2, <2>1 DEF Unopened
  <2> QED
    BY <1>4, <1>5, <2>1, <2>2
<1>11. PolledOK(r)
  <2>1. CASE s.conn.keepAlive
    <3>1. PICK t \in 1 .. L : s.trs[t].kind = "LongPolling" /\ s.trs[t].wired
      BY <2>1 DEF Sound, PolledOK
    <3>2. t # L
      BY <1>6, <3>1
    <3> QED
      BY <1>4, <1>5, <3>1, <3>2 DEF PolledOK
  <2>2. CASE ~s.conn.keepAlive
    BY <1>3, <1>4, <1>5, <2>2 DEF PolledOK, Arrives
  <2> QED
    BY <2>1, <2>2
<1>12. ConnectedOK(r)
  <2>1. ASSUME r.conn.state = "Connected"
        PROVE  /\ r.trs # <<>> /\ r.trs[Len(r.trs)].wired /\ r.trs[Len(r.trs)].told = 0
               /\ r.conn.transport \in {None, Len(r.trs)}
    <3>1. q # <<>>
      BY <1>1, <1>3, <1>4, EmptySeq
    <3> QED
      BY <1>2, <1>4, <1>5, <2>1, <3>1 DEF Arrives
  <2> QED
    BY <2>1 DEF ConnectedOK
<1>13. PathOK(r)
  <2>1. \A t \in 1 .. L : ToCome(s.trs[t]) => ToCome(r.trs[t])
    BY <1>2, <1>4, <1>5 DEF ToCome
  <2> QED
    BY <1>1, <1>4, <1>5, <2>1, PathKept DEF Sound
<1>14. Tidy(s, r)
  <2> SUFFICES ASSUME NEW t \in 1 .. L
               PROVE  /\ t \in 1 .. Len(r.trs) /\ (Stray(r, t) => Stray(s, t))
                      /\ r.trs[t].told >= s.trs[t].told
                      /\ s.trs[t].raised => r.trs[t].raised
    BY DEF Tidy
  <2>1. CASE t = L
    <3>1. r.trs[t] = z /\ r.conn.transport = s.conn.transport /\ z.told = 0
      BY <1>4, <1>5, <2>1 DEF Arrives
    <3>2. Stray(r, t) => Stray(s, t)
      BY <1>2, <2>1, <3>1 DEF Stray, Up
    <3>3. s.trs[t].raised => z.raised
      BY <2>1 DEF Arrives
    <3> QED
      BY <1>4, <1>5, <1>6, <2>1, <3>1, <3>2, <3>3
  <2>2. CASE t # L
    BY <1>1, <1>4, <1>5, <2>2, Tolds DEF Stray, Arrives
  <2> QED
    BY <2>1, <2>2
<1> QED
  BY <1>1, <1>5, <1>7, <1>8, <1>9, <1>10, <1>11, <1>12, <1>13, <1>14 DEF Sound

\* onreceive and onclose are set; the handshake request is sent.
Wired(y) == [y EXCEPT !.wired = TRUE]
Shaken(y) == [y EXCEPT !.wired = TRUE, !.replies = "handshake"]

\* What the answer to connect() may be of a transport.
LEMMA AnsweredTransport ==
    ASSUME NEW x \in Transports, TransportOK(x), x.link = "connecting",
           NEW y \in {Opened(x), EndedAtOnce(x)},
           NEW w, w = Wired(y), NEW v, v = Shaken(y)
    PROVE  /\ y \in Transports /\ y.kind = x.kind /\ y.of = x.of
           /\ y.link \in {"open", "closed"} /\ ~y.wired /\ y.told = 0 /\ ~y.shutdown
           /\ TransportOK(y) /\ y.raised = x.raised
           /\ w \in Transports /\ TransportOK(w) /\ w.link = y.link /\ w.wired /\ w.told = 0
           /\ w.raised = x.raised /\ w.kind = y.kind
           /\ v \in Transports /\ TransportOK(v) /\ v.link = y.link /\ v.wired /\ v.told = 0
           /\ v.raised = x.raised /\ v.kind = y.kind
<1>1. x.told = 0 /\ ~x.wired /\ ~x.held /\ ~x.shutdown
  BY DEF TransportOK, Transports, Unopened
<1>2. /\ y \in Transports /\ y.kind = x.kind /\ y.of = x.of
      /\ y.link \in {"open", "closed"} /\ ~y.wired /\ y.told = 0 /\ ~y.shutdown
      /\ y.raised = x.raised
      /\ y.held <=> y.link = "open"
  <2>1. CASE y = Opened(x)
    BY <1>1, <2>1 DEF Opened, Transports, Links
  <2>2. CASE y = EndedAtOnce(x)
    BY <1>1, <2>2 DEF EndedAtOnce, Transports, Links
  <2> QED
    BY <2>1, <2>2
<1>3. x.of \in Errors
  BY DEF TransportOK
<1>4. ASSUME NEW z \in Transports, z.of \in Errors, z.link \in {"open", "closed"},
             z.held <=> z.link = "open", z.told = 0, ~z.shutdown
      PROVE  TransportOK(z)
  BY <1>4 DEF TransportOK, Unopened
<1>5. /\ w \in Transports /\ w.of = y.of /\ w.link = y.link /\ w.wired /\ w.told = 0
      /\ ~w.shutdown /\ w.held = y.held /\ w.raised = y.raised /\ w.kind = y.kind
      /\ v \in Transports /\ v.of = y.of /\ v.link = y.link /\ v.wired /\ v.told = 0
      /\ ~v.shutdown /\ v.held = y.held /\ v.raised = y.raised /\ v.kind = y.kind
  BY <1>2 DEF Transports, Wired, Shaken
<1> QED
  BY <1>2, <1>3, <1>4, <1>5

\* The end of createTransport, of startInternal and of start().
LEMMA ConnectedKeeps ==
    ASSUME NEW s, Sound(s), StartOK(s), StoppedOK(s), s.att.pc = "connect",
           NEW y \in {Opened(s.trs[Len(s.trs)]), EndedAtOnce(s.trs[Len(s.trs)])},
           NEW r, r = Connected(With(s, Len(s.trs), y))
    PROVE  Sound(r) /\ StartOK(r) /\ StoppedOK(r) /\ Tidy(s, r)
<1> DEFINE L == Len(s.trs)
           failed == Leaving(s, "failed")
<1>1. /\ s \in Clients /\ s.conn \in Connections /\ s.trs \in Seq(Transports)
      /\ s.att \in Attempts /\ L \in Nat /\ s.att.no \in 1 .. MaxStarts
      /\ HubOK(s.hub) /\ s.hub \in Hubs
  BY ClientFields DEF Sound, Placed, Connections
<1>2. /\ s.trs # <<>> /\ s.trs[L].link = "connecting" /\ s.conn.transport \in {None, L}
  BY DEF StartOK
<1>3. L \in 1 .. L /\ L # None
  BY <1>1, <1>2, EmptySeq DEF None
<1>4. s.trs[L] \in Transports /\ TransportOK(s.trs[L])
  BY <1>1, <1>3, ClientFields DEF Sound
<1>0. PICK x, w, v : x = s.trs[L] /\ w = Wired(y) /\ v = Shaken(y)
  OBVIOUS
<1>5. /\ y \in Transports /\ y.link \in {"open", "closed"} /\ y.told = 0
      /\ TransportOK(y) /\ y.raised = s.trs[L].raised
      /\ w \in Transports /\ TransportOK(w) /\ w.link = y.link /\ w.wired /\ w.told = 0
      /\ w.raised = s.trs[L].raised /\ w.kind = y.kind
      /\ v \in Transports /\ TransportOK(v) /\ v.link = y.link /\ v.wired /\ v.told = 0
      /\ v.raised = s.trs[L].raised /\ v.kind = y.kind
  <2>1. x \in Transports /\ TransportOK(x) /\ x.link = "connecting"
        /\ y \in {Opened(x), EndedAtOnce(x)}
    BY <1>0, <1>1, <1>2, <1>4
  <2> QED
    BY <1>0, <2>1, AnsweredTransport
<1>17. v = [w EXCEPT !.replies = "handshake"]
  BY <1>0, <1>5 DEF Transports, Wired, Shaken
<1>6. PICK s0 : s0 = With(s, L, y)
  OBVIOUS
<1>14. \A z \in Transports : /\ [s.trs EXCEPT ![L] = z] \in Seq(Transports)
                             /\ [s.trs EXCEPT ![L] = z][L] = z
  BY <1>1, <1>3, OneTransport
<1>7. /\ s0 = [s EXCEPT !.trs = [s.trs EXCEPT ![L] = y]] /\ s0 \in Clients
      /\ s0.conn = s.conn /\ s0.att = s.att /\ s0.hub = s.hub
      /\ s0.trs = [s.trs EXCEPT ![L] = y] /\ s0.trs[L] = y
  <2>1. PICK q : q = [s.trs EXCEPT ![L] = y]
    OBVIOUS
  <2>2. q \in Seq(Transports) /\ q[L] = y
    BY <1>5, <1>14, <2>1
  <2>3. s0 = [s EXCEPT !.trs = q]
    BY <1>1, <1>6, <2>1 DEF With, Clients
  <2> QED
    BY <1>1, <2>1, <2>2, <2>3 DEF Clients
<1> DEFINE c1 == [s.conn EXCEPT !.state = IF @ = "Connecting" THEN "Connected" ELSE @]
<1>8. /\ c1 \in Connections /\ c1.transport = s.conn.transport
      /\ c1.keepAlive \in BOOLEAN
      /\ c1.state = "Disconnected" => s.conn.state = "Disconnected"
  BY <1>1 DEF Connections
<1>9. changeState(s0, "Connecting", "Connected") = [s0 EXCEPT !.conn = c1]
  BY <1>7 DEF changeState, Clients
<1>15. PICK b : b = [s0 EXCEPT !.conn = c1]
  OBVIOUS
<1>16. /\ b \in Clients /\ b.conn = c1 /\ b.att = s.att /\ b.trs = s0.trs /\ b.hub = s.hub
       /\ b.stops = s.stops /\ b.deletes = s.deletes
  <2>1. s0.stops = s.stops /\ s0.deletes = s.deletes
    BY <1>1, <1>7 DEF Clients
  <2> HIDE DEF c1
  <2> QED
    BY <1>7, <1>8, <1>15, <2>1 DEF Clients
<1>10. failed \in Attempts /\ failed.pc = "failed" /\ failed.no = s.att.no
  BY <1>1, LeavingOK DEF Leaving, StartPlaces
<1>11. CASE s.conn.transport = None
  <2> DEFINE c == [s.conn EXCEPT !.state = "Disconnected", !.transport = None]
  <2>1. c \in Connections /\ c.transport = None /\ c.state = "Disconnected"
        /\ c.keepAlive = s.conn.keepAlive
    BY <1>1 DEF Connections, None
  <2>2. PICK q : q = Arrived(s, y, c, failed, s.hub)
    OBVIOUS
  <2>3. r = FailStart(b)
    BY <1>6, <1>7, <1>9, <1>11, <1>15 DEF Connected
  <2>4. [Left(b, "failed") EXCEPT !.conn.state = "Disconnected", !.conn.transport = None]
          = [s0 EXCEPT !.conn = c, !.att = failed]
    <3>1. Left(b, "failed") = [b EXCEPT !.att = failed]
      BY <1>16 DEF Left, Leaving, Clients
    <3>2. [c1 EXCEPT !.state = "Disconnected", !.transport = None] = c
      BY <1>1 DEF Connections
    <3> HIDE DEF c1, c, failed
    <3>3. [Left(b, "failed") EXCEPT !.conn.state = "Disconnected", !.conn.transport = None]
            = [b EXCEPT !.att = failed, !.conn = c]
      BY <1>16, <3>1, <3>2 DEF Clients
    <3> QED
      BY <1>7, <1>15, <1>16, <3>3 DEF Clients
  <2>5. [s0 EXCEPT !.conn = c, !.att = failed] = q
    <3> HIDE DEF c, failed
    <3> QED
      BY <1>1, <1>7, <2>2 DEF Arrived, Clients
  <2>6. r = StartSettled(q)
    BY <2>3, <2>4, <2>5 DEF FailStart
  <2> HIDE DEF c, failed
  <2>7. Arrives(s, y, c, failed, s.hub)
    BY <1>1, <1>2, <1>3, <1>5, <1>10, <1>11, <2>1, SameWait DEF Arrives
  <2>8. Sound(q) /\ q.att = failed /\ q.conn = c /\ Tidy(s, q)
    BY <2>2, <2>7, ArrivedKeeps
  <2>9. StoppedOK(q)
    BY <2>1, <2>8 DEF StoppedOK
  <2>10. Sound(r) /\ StartOK(r) /\ StoppedOK(r) /\ Tidy(q, r)
    BY <1>10, <2>6, <2>8, <2>9, StartSettledKeeps DEF Starting
  <2> QED
    BY <1>1, <2>8, <2>10, TidyTwice DEF Sound
<1>12. CASE s.conn.transport # None
  <2> DEFINE keep == s.conn.keepAlive \/ y.kind = "LongPolling"
             c == [c1 EXCEPT !.keepAlive = keep]
             started == Leaving(s, "started")
             shaking == Leaving(s, "handshake")
             s1 == [s0 EXCEPT !.conn = c, !.trs = [s.trs EXCEPT ![L] = w]]
  <2>1. s.conn.transport = L
    BY <1>2, <1>12
  <2>2. /\ c \in Connections /\ c.transport = L /\ c.keepAlive = keep
        /\ keep \in BOOLEAN /\ c.state = c1.state
        /\ keep => s.conn.keepAlive \/ y.kind = "LongPolling"
    BY <1>1, <1>8, <2>1 DEF Connections
  <2> HIDE DEF keep
  <2>3. r = StartSettled(SendHandshake(s1))
    <3>1. r = StartSettled(SendHandshake([b EXCEPT
                 !.trs[L].wired = TRUE,
                 !.conn.keepAlive = @ \/ s0.trs[L].kind = "LongPolling"]))
      <4>1. s0.conn.transport = L /\ L # None /\ b = changeState(s0, "Connecting", "Connected")
        BY <1>3, <1>7, <1>9, <1>15, <2>1
      <4>2. r = Connected(s0)
        BY <1>6
      <4> HIDE DEF L, c1
      <4> QED
        BY <4>1, <4>2 DEF Connected
    <3>2. c1.keepAlive = s.conn.keepAlive
      BY <1>1 DEF Connections
    <3>3. [b.trs EXCEPT ![L].wired = TRUE] = [s.trs EXCEPT ![L] = w]
      <4>1. b.trs = [s.trs EXCEPT ![L] = y] /\ b.trs[L] = y
        BY <1>7, <1>16
      <4> QED
        BY <1>0, <1>1, <1>3, <4>1 DEF Wired
    <3>4. [c1 EXCEPT !.keepAlive = @ \/ y.kind = "LongPolling"] = c
      BY <3>2 DEF keep
    <3> HIDE DEF c1, c
    <3>5. [b EXCEPT !.trs[L].wired = TRUE,
                    !.conn.keepAlive = @ \/ s0.trs[L].kind = "LongPolling"]
            = [b EXCEPT !.trs = [s.trs EXCEPT ![L] = w], !.conn = c]
      BY <1>7, <1>16, <3>3, <3>4 DEF Clients
    <3>6. [b EXCEPT !.trs = [s.trs EXCEPT ![L] = w], !.conn = c] = s1
      BY <1>7, <1>15, <1>16 DEF Clients
    <3> QED
      BY <3>1, <3>5, <3>6
  <2>13. s.stops = <<>> => c.state # "Disconnected"
    BY <1>8, <1>12, <2>2 DEF StoppedOK, Starting
  <2> HIDE DEF c1
  <2>4. /\ started \in Attempts /\ started.pc = "started" /\ started.no = s.att.no
        /\ shaking \in Attempts /\ shaking.pc = "handshake" /\ shaking.no = s.att.no
    BY <1>1, LeavingOK DEF Leaving, StartPlaces
  <2>5. /\ s1 \in Clients /\ s1.conn = c /\ s1.att = s.att /\ s1.hub = s.hub
        /\ s1.trs = [s.trs EXCEPT ![L] = w] /\ s1.trs[L] = w
    <3>1. PICK q : q = [s.trs EXCEPT ![L] = w]
      OBVIOUS
    <3>2. q \in Seq(Transports) /\ q[L] = w
      BY <1>5, <1>14, <3>1
    <3> HIDE DEF c
    <3>3. s1 = [s0 EXCEPT !.conn = c, !.trs = q]
      BY <3>1
    <3> QED
      BY <1>7, <2>2, <3>1, <3>2, <3>3 DEF Clients
  <2> HIDE DEF failed, started, shaking
  <2>6. ASSUME SendHandshake(s1) = Arrived(s, w, c, failed, s.hub)
        PROVE  Sound(r) /\ StartOK(r) /\ StoppedOK(r) /\ Tidy(s, r)
    <3>1. Arrives(s, w, c, failed, s.hub)
      BY <1>1, <1>3, <1>5, <1>10, <2>1, <2>2, SameWait DEF Arrives
    <3>2. PICK q : q = Arrived(s, w, c, failed, s.hub)
      OBVIOUS
    <3>3. Sound(q) /\ q.att = failed /\ q.conn = c /\ q.stops = s.stops /\ Tidy(s, q)
      BY <3>1, <3>2, ArrivedKeeps
    <3>4. q.stops = <<>> => StoppedOK(q)
      BY <2>13, <3>3 DEF StoppedOK
    <3>5. Sound(r) /\ StartOK(r) /\ StoppedOK(r) /\ Tidy(q, r)
      BY <1>10, <2>3, <2>6, <3>2, <3>3, <3>4, StartSettledKeeps DEF Starting
    <3> QED
      BY <1>1, <3>3, <3>5, TidyTwice DEF Sound
  <2>7. ASSUME SendHandshake(s1) = Arrived(s, v, c, shaking, s.hub)
        PROVE  Sound(r) /\ StartOK(r) /\ StoppedOK(r) /\ Tidy(s, r)
    <3>1. Arrives(s, v, c, shaking, s.hub)
      BY <1>1, <1>3, <1>5, <2>1, <2>2, <2>4, SameWait DEF Arrives
    <3>2. PICK q : q = Arrived(s, v, c, shaking, s.hub)
      OBVIOUS
    <3>3. Sound(q) /\ q.att = shaking /\ q.conn = c /\ q.stops = s.stops /\ Tidy(s, q)
      BY <3>1, <3>2, ArrivedKeeps
    <3>4. q.stops = <<>> => StoppedOK(q)
      BY <2>13, <3>3 DEF StoppedOK
    <3>5. Sound(r) /\ StartOK(r) /\ StoppedOK(r) /\ Tidy(q, r)
      BY <2>3, <2>4, <2>7, <3>2, <3>3, <3>4, StartSettledKeeps DEF Starting
    <3> QED
      BY <1>1, <3>3, <3>5, TidyTwice DEF Sound
  <2>8. ASSUME SendHandshake(s1) = Arrived(s, v, c, started, Watch(s.hub, keep))
        PROVE  Sound(r) /\ StartOK(r) /\ StoppedOK(r) /\ Tidy(s, r)
    <3>1. PICK h : h = Watch(s.hub, keep)
      OBVIOUS
    <3>2. HubOK(h) /\ SameCalls(h, s.hub) /\ (h.handle \/ keep)
      BY <1>1, <2>2, <3>1, WatchKeeps
    <3>3. Arrives(s, v, c, started, h)
      BY <1>1, <1>3, <1>5, <2>1, <2>2, <2>4, <3>2 DEF Arrives, SameCalls, StillWait
    <3>4. PICK q : q = Arrived(s, v, c, started, h)
      OBVIOUS
    <3>5. Sound(q) /\ q.att = started /\ q.conn = c /\ q.stops = s.stops /\ Tidy(s, q)
      BY <3>3, <3>4, ArrivedKeeps
    <3>6. q.stops = <<>> => StoppedOK(q)
      BY <2>13, <3>5 DEF StoppedOK
    <3>7. Sound(r) /\ StartOK(r) /\ StoppedOK(r) /\ Tidy(q, r)
      BY <2>3, <2>4, <2>8, <3>1, <3>4, <3>5, <3>6, StartSettledKeeps DEF Starting
    <3> QED
      BY <1>1, <3>5, <3>7, TidyTwice DEF Sound
  <2>9. Left(s1, "failed") = Arrived(s, w, c, failed, s.hub)
    BY <1>1, <1>7, <2>5 DEF Left, Leaving, Arrived, Clients, failed
  <2>10. [Left(s1, "handshake") EXCEPT !.trs[L].replies = "handshake"]
           = Arrived(s, v, c, shaking, s.hub)
    <3>1. [s1.trs EXCEPT ![L].replies = "handshake"] = [s.trs EXCEPT ![L] = v]
      BY <1>1, <1>3, <1>5, <1>17, <2>5
    <3>2. Left(s1, "handshake") = [s1 EXCEPT !.att = shaking]
      BY <2>5 DEF Left, Leaving, Clients, shaking
    <3> HIDE DEF s1
    <3>3. [Left(s1, "handshake") EXCEPT !.trs[L].replies = "handshake"]
            = [s1 EXCEPT !.att = shaking, !.trs = [s.trs EXCEPT ![L] = v]]
      BY <2>5, <3>1, <3>2 DEF Clients
    <3> QED
      BY <1>1, <1>7, <3>3 DEF Arrived, Clients, s1
  <2>11. [Left(s1, "started") EXCEPT !.trs[L].replies = "handshake",
                                     !.hub = Watch(@, c.keepAlive)]
           = Arrived(s, v, c, started, Watch(s.hub, keep))
    <3>1. [s1.trs EXCEPT ![L].replies = "handshake"] = [s.trs EXCEPT ![L] = v]
      BY <1>1, <1>3, <1>5, <1>17, <2>5
    <3>2. Left(s1, "started") = [s1 EXCEPT !.att = started]
      BY <2>5 DEF Left, Leaving, Clients, started
    <3> HIDE DEF s1, c
    <3>3. [Left(s1, "started") EXCEPT !.trs[L].replies = "handshake",
                                      !.hub = Watch(@, c.keepAlive)]
            = [s1 EXCEPT !.att = started, !.trs = [s.trs EXCEPT ![L] = v],
                         !.hub = Watch(s.hub, keep)]
      BY <2>2, <2>5, <3>1, <3>2 DEF Clients
    <3> QED
      BY <1>1, <1>7, <3>3 DEF Arrived, Clients, s1
  <2>12. SendHandshake(s1) \in
           {Left(s1, "failed"),
            [Left(s1, "handshake") EXCEPT !.trs[L].replies = "handshake"],
            [Left(s1, "started") EXCEPT !.trs[L].replies = "handshake",
                                        !.hub = Watch(@, c.keepAlive)]}
    <3> HIDE DEF s1, c
    <3> QED
      BY <2>1, <2>2, <2>5 DEF SendHandshake
  <2> HIDE DEF s1, c
  <2> QED
    BY <2>6, <2>7, <2>8, <2>9, <2>10, <2>11, <2>12
<1> QED
  BY <1>11, <1>12

----------------------------------------------------------------------------
(* Steps of the specification *)

LEMMA ClientIs ==
    /\ Client.conn = conn /\ Client.att = att /\ Client.trs = trs
    /\ Client.stops = stops /\ Client.deletes = deletes /\ Client.hub = hub
BY DEF Client

\* No transport is let go of but for the reasons that Loses names.
Lossless == \A t \in DOMAIN trs : ~Unknown(t) /\ Unknown(t)' => Loses(t)

LEMMA BecomeLoses ==
    ASSUME ClientInv, NEW r, Sound(r), StartOK(r), StoppedOK(r), Become(r),
           \A t \in DOMAIN trs : Stray(r, t) => Stray(Client, t) \/ Loses(t)
    PROVE  ClientInv' /\ Lossless
<1>1. r \in Clients
  BY DEF Sound
<1>2. Client' = r
  BY <1>1 DEF Become, Client, Clients
<1>3. ClientInv'
  BY <1>2 DEF ClientInv
<1>4. ASSUME NEW t \in DOMAIN trs, ~Unknown(t), Unknown(t)' PROVE Loses(t)
  <2>1. ~Stray(Client, t)
    BY <1>4, ClientIs DEF Unknown, Stray, Up
  <2>2. Stray(r, t)
    BY <1>4 DEF Unknown, Stray, Up, Become
  <2> QED
    BY <2>1, <2>2
<1> QED
  BY <1>3, <1>4 DEF Lossless

LEMMA BecomeKeeps ==
    ASSUME ClientInv, NEW r, Sound(r), StartOK(r), StoppedOK(r), Become(r), Tidy(Client, r)
    PROVE  ClientInv' /\ Lossless
<1>1. \A t \in DOMAIN trs : t \in 1 .. Len(Client.trs)
  BY ClientIs, ClientFields DEF ClientInv, Sound
<1>2. \A t \in DOMAIN trs : Stray(r, t) => Stray(Client, t)
  BY <1>1 DEF Tidy
<1> QED
  BY <1>2, BecomeLoses

\* The onclose of t excuses what a step lets go of.
LEMMA BecomeExcused ==
    ASSUME ClientInv, NEW r, Sound(r), StartOK(r), StoppedOK(r), Become(r),
           NEW t \in DOMAIN trs, Excused(Client, r, t)
    PROVE  ClientInv' /\ Lossless
<1>1. \A u \in DOMAIN trs : u \in 1 .. Len(Client.trs)
  BY ClientIs, ClientFields DEF ClientInv, Sound
<1>2. Noticed(Client, r, t) => Reports(t)
  <2>1. trs[t].told \in 0 .. 2 /\ Client.trs = trs
    BY <1>1, ClientIs, ClientFields DEF ClientInv, Sound, Transports
  <2>2. trs' = r.trs /\ conn' = r.conn
    BY DEF Become
  <2> QED
    BY <2>1, <2>2 DEF Noticed, Reports
<1>3. ASSUME NEW u \in DOMAIN trs, Stray(r, u), ~Stray(Client, u) PROVE Loses(u)
  <2>1. Noticed(Client, r, t) /\ (u # t \/ r.trs[t].raised)
    BY <1>1, <1>3 DEF Excused
  <2>2. Reports(t)
    BY <1>2, <2>1
  <2>3. CASE u # t
    <3>1. \E v \in DOMAIN trs \ {u} : Reports(v)
      BY <2>2, <2>3
    <3> QED
      BY <3>1 DEF Loses
  <2>4. CASE u = t
    <3>1. trs'[u].raised /\ Reports(u)
      BY <2>1, <2>2, <2>4 DEF Become
    <3> QED
      BY <3>1 DEF Loses
  <2> QED
    BY <2>3, <2>4
<1> QED
  BY <1>3, BecomeLoses

\* Who waits afterwards waited before, or has just sent over the transport in use.
Sends(s, h, n) ==
    /\ s.conn.state = "Connected" /\ s.conn.transport # None
    /\ CanSend(s.trs[s.conn.transport])
    /\ h.calls[n].over = s.conn.transport
Waiters(s, h) ==
    \A n \in Calls : h.calls[n].fate = "pending" =>
        \/ s.hub.calls[n].fate = "pending" /\ h.calls[n].over = s.hub.calls[n].over
        \/ Sends(s, h, n)

LEMMA CallsKeep ==
    ASSUME NEW s, Sound(s), StartOK(s), StoppedOK(s), NEW h, HubOK(h),
           h.handle = s.hub.handle, h.raised = s.hub.raised, Waiters(s, h),
           NEW r, r = [s EXCEPT !.hub = h]
    PROVE  Sound(r) /\ StartOK(r) /\ StoppedOK(r) /\ Tidy(s, r)
<1>1. s \in Clients /\ h \in Hubs /\ s.conn.transport \in Nat
  BY ClientFields DEF Sound, HubOK, Connections
<1>2. /\ r \in Clients /\ r.conn = s.conn /\ r.att = s.att /\ r.trs = s.trs
      /\ r.stops = s.stops /\ r.deletes = s.deletes /\ r.hub = h
  BY <1>1 DEF Clients
<1>3. Placed(r) /\ DeletesOK(r) /\ InUse(r) /\ PolledOK(r)
  BY <1>2 DEF Sound, Placed, DeletesOK, InUse, PolledOK
<1>4. ConnectedOK(r) /\ WatchOK(r) /\ StartOK(r) /\ StoppedOK(r)
  BY <1>2 DEF Sound, ConnectedOK, WatchOK, StartOK, StoppedOK
<1>5. PathOK(r)
  <2> SUFFICES ASSUME NEW n \in Calls, h.calls[n].fate = "pending"
               PROVE  /\ h.calls[n].over \in 1 .. Len(s.trs)
                      /\ ToCome(s.trs[h.calls[n].over])
    BY <1>2 DEF PathOK
  <2>1. CASE s.hub.calls[n].fate = "pending" /\ h.calls[n].over = s.hub.calls[n].over
    BY <1>2, <2>1 DEF Sound, PathOK
  <2>2. CASE Sends(s, h, n)
    <3> DEFINE L == Len(s.trs)
    <3>1. /\ s.conn.state = "Connected" /\ s.conn.transport # None
          /\ CanSend(s.trs[s.conn.transport]) /\ h.calls[n].over = s.conn.transport
      BY <2>2 DEF Sends
    <3>2. s.conn.transport = L /\ L \in 1 .. L /\ s.trs[L].wired /\ s.trs[L].told = 0
      BY <1>1, <3>1, ClientFields DEF Sound, Placed, ConnectedOK, None
    <3>3. s.trs[L] \in Transports /\ TransportOK(s.trs[L])
      BY <1>1, <3>2, ClientFields DEF Sound
    <3>4. s.trs[L].link = "open"
      BY <3>1, <3>2, <3>3 DEF CanSend, SocketIsOpen, TransportOK, Transports, Kinds
    <3> QED
      BY <3>1, <3>2, <3>4 DEF ToCome
  <2> QED
    BY <2>1, <2>2 DEF Waiters
<1>6. Tidy(s, r)
  BY <1>1, <1>2, SameTidy
<1> QED
  BY <1>1, <1>2, <1>3, <1>4, <1>5, <1>6 DEF Sound

LEMMA ToldKeeps ==
    ASSUME NEW h, NEW g, NEW n \in Calls, HubOK(g), Told(g, h, n), g.calls[n].fate # "pending"
    PROVE  g.handle = h.handle /\ g.raised = h.raised /\ StillWait(g, h)
BY DEF Told, StillWait

\* A step that changes nothing but the hub.
LEMMA HubBecomes ==
    ASSUME ClientInv, NEW h, HubOK(h), h.handle = hub.handle, h.raised = hub.raised,
           StillWait(h, hub) \/ Waiters(Client, h),
           hub' = h, UNCHANGED <<conn, att, trs, stops, deletes>>
    PROVE  ClientInv' /\ Lossless
<1>1. PICK s : s = Client
  OBVIOUS
<1>2. Sound(s) /\ StartOK(s) /\ StoppedOK(s) /\ s \in Clients
  BY <1>1 DEF ClientInv, Sound
<1>3. /\ s.conn = conn /\ s.att = att /\ s.trs = trs /\ s.stops = stops
      /\ s.deletes = deletes /\ s.hub = hub
  BY <1>1, ClientIs
<1>4. PICK r : r = [s EXCEPT !.hub = h]
  OBVIOUS
<1>7. Waiters(s, h)
  BY <1>1, <1>3 DEF StillWait, Waiters
<1>5. Sound(r) /\ StartOK(r) /\ StoppedOK(r) /\ Tidy(s, r)
  BY <1>2, <1>3, <1>4, <1>7, CallsKeep
<1>6. Become(r)
  BY <1>2, <1>3, <1>4 DEF Become, Clients
<1> QED
  BY <1>1, <1>5, <1>6, BecomeKeeps

LEMMA HubIsOK ==
    ASSUME ClientInv
    PROVE  HubOK(hub) /\ conn \in Connections /\ hub \in Hubs
<1>1. Sound(Client) /\ Client \in Clients
  BY DEF ClientInv, Sound
<1> QED
  BY <1>1, ClientIs, ClientFields DEF Sound

LEMMA InvokeKeeps ==
    ASSUME ClientInv, NEW n \in Calls, Invoke(n) PROVE ClientInv' /\ Lossless
<1>1. PICK h : h = send(Register(hub, n, "invoke"), n, "settled")
  OBVIOUS
<1>2. /\ HubOK(h) /\ h.handle = hub.handle /\ h.raised = hub.raised
      /\ \A m \in Calls \ {n} : h.calls[m] = hub.calls[m]
      /\ h.calls[n].fate = "pending" =>
            /\ conn.state = "Connected" /\ conn.transport # None
            /\ CanSend(trs[conn.transport])
            /\ h.calls[n].over = conn.transport
  BY <1>1, HubIsOK, SendOK DEF Invoke
<1>3. hub' = h /\ UNCHANGED <<conn, att, trs, stops, deletes>>
  BY <1>1 DEF Invoke
<1>4. Waiters(Client, h)
  BY <1>2, ClientIs DEF Waiters, Sends
<1> QED
  BY <1>2, <1>3, <1>4, HubBecomes

LEMMA StreamKeeps ==
    ASSUME ClientInv, NEW n \in Calls, Stream(n) PROVE ClientInv' /\ Lossless
<1>1. PICK h : h = send(Register(hub, n, "stream"), n, "unheard")
  OBVIOUS
<1>2. /\ HubOK(h) /\ h.handle = hub.handle /\ h.raised = hub.raised
      /\ \A m \in Calls \ {n} : h.calls[m] = hub.calls[m]
      /\ h.calls[n].fate = "pending" =>
            /\ conn.state = "Connected" /\ conn.transport # None
            /\ CanSend(trs[conn.transport])
            /\ h.calls[n].over = conn.transport
  BY <1>1, HubIsOK, SendOK DEF Stream
<1>3. hub' = h /\ UNCHANGED <<conn, att, trs, stops, deletes>>
  BY <1>1 DEF Stream
<1>4. Waiters(Client, h)
  BY <1>2, ClientIs DEF Waiters, Sends
<1> QED
  BY <1>2, <1>3, <1>4, HubBecomes

LEMMA DisposeKeeps ==
    ASSUME ClientInv, NEW n \in Calls, Dispose(n) PROVE ClientInv' /\ Lossless
<1>1. PICK h : h = Forget([hub EXCEPT !.calls[n].fate = "unheard"], hub.calls[n].id)
  OBVIOUS
<1>2. hub.calls[n].fate = "pending" /\ hub' = h
      /\ UNCHANGED <<conn, att, trs, stops, deletes>>
  BY <1>1 DEF Dispose
<1>3. HubOK(h) /\ Told(h, hub, n) /\ h.calls[n].fate # "pending"
  BY <1>1, <1>2, HubIsOK, ForgetUnheardOK
<1>4. h.handle = hub.handle /\ h.raised = hub.raised /\ StillWait(h, hub)
  BY <1>3, ToldKeeps
<1> QED
  BY <1>2, <1>3, <1>4, HubBecomes

LEMMA CallPostedKeeps ==
    ASSUME ClientInv, NEW n \in Calls, CallPosted(n) PROVE ClientInv' /\ Lossless
<1>1. PICK answer \in Answers \ {"timeout"} :
        hub' = IF Resolves(answer)
                 THEN [hub EXCEPT !.calls[n].post = "none"]
                 ELSE SendRejected([hub EXCEPT !.calls[n].post = "failed"], n)
  BY DEF CallPosted
<1>2. PICK g, f : /\ g = [hub EXCEPT !.calls[n].post = "none"]
                  /\ f = [hub EXCEPT !.calls[n].post = "failed"]
  OBVIOUS
<1>3. hub.calls[n].post = "out" /\ UNCHANGED <<conn, att, trs, stops, deletes>>
  BY DEF CallPosted
<1>4. HubOK(g) /\ g.handle = hub.handle /\ g.raised = hub.raised /\ StillWait(g, hub)
  BY <1>2, <1>3, HubIsOK, PostOK
<1>5. /\ HubOK(f) /\ f.handle = hub.handle /\ f.raised = hub.raised
      /\ StillWait(f, hub)
      /\ f.calls[n].post = "failed" /\ f.calls[n].fate # "unused"
  BY <1>2, <1>3, HubIsOK, PostOK
<1>6. PICK h : h = SendRejected(f, n)
  OBVIOUS
<1>7. HubOK(h) /\ Told(h, f, n) /\ h.calls[n].fate # "pending"
  BY <1>5, <1>6, SendRejectedOK
<1>8. h.handle = f.handle /\ h.raised = f.raised /\ StillWait(h, f)
  BY <1>7, ToldKeeps
<1>9. hub' = g \/ hub' = h
  BY <1>1, <1>2, <1>6
<1>10. h.handle = hub.handle /\ h.raised = hub.raised /\ StillWait(h, hub)
  BY <1>5, <1>8 DEF StillWait
<1> QED
  BY <1>3, <1>4, <1>7, <1>9, <1>10, HubBecomes

\* The state as a Client.
LEMMA TheClient ==
    ASSUME ClientInv, NEW s, s = Client
    PROVE  /\ Sound(s) /\ StartOK(s) /\ StoppedOK(s) /\ s \in Clients
           /\ s.conn = conn /\ s.att = att /\ s.trs = trs /\ s.stops = stops
           /\ s.deletes = deletes /\ s.hub = hub
           /\ conn \in Connections /\ att \in Attempts /\ trs \in Seq(Transports)
           /\ hub \in Hubs /\ HubOK(hub) /\ Len(trs) \in Nat /\ DOMAIN trs = 1 .. Len(trs)
           /\ conn.transport \in 0 .. Len(trs)
<1>1. Sound(s) /\ StartOK(s) /\ StoppedOK(s) /\ s \in Clients
  BY DEF ClientInv, Sound
<1>2. /\ s.conn = conn /\ s.att = att /\ s.trs = trs /\ s.stops = stops
      /\ s.deletes = deletes /\ s.hub = hub
  BY ClientIs
<1> QED
  BY <1>1, <1>2, ClientFields DEF Sound, Placed

\* A step of start() that leaves the transport in use.
LEMMA TurnBecomes ==
    ASSUME ClientInv, NEW s, s = Client, NEW c, NEW a, NEW h, Turns(s, c, a, h),
           NEW r, r = Turned(s, c, a, h), Become(r),
           c.transport = s.conn.transport,
           \/ c.state # "Disconnected"
           \/ c.state = s.conn.state /\ (a.pc \in Starting <=> s.att.pc \in Starting),
           a.pc \in {"renegotiate", "connect"} => a.pc = s.att.pc
    PROVE  ClientInv' /\ Lossless
<1>0. Sound(s) /\ StartOK(s) /\ StoppedOK(s)
  BY TheClient
<1>1. /\ Sound(r) /\ r.conn = c /\ r.att = a /\ r.hub = h
      /\ r.trs = s.trs /\ r.stops = s.stops /\ r.deletes = s.deletes
      /\ Tidy(s, r)
  BY <1>0, TurnKeeps
<1>3. StartOK(r)
  BY <1>0, <1>1 DEF StartOK
<1>4. StoppedOK(r)
  BY <1>0, <1>1 DEF StoppedOK
<1> QED
  BY <1>1, <1>3, <1>4, BecomeKeeps

LEMMA StartAcceptedKeeps ==
    ASSUME ClientInv, StartAccepted PROVE ClientInv' /\ Lossless
<1>1. PICK s : s = Client
  OBVIOUS
<1>2. /\ Sound(s) /\ StoppedOK(s) /\ s \in Clients
      /\ s.conn = conn /\ s.att = att /\ s.trs = trs /\ s.hub = hub
      /\ conn \in Connections /\ att \in Attempts /\ HubOK(hub) /\ hub \in Hubs
      /\ Len(trs) \in Nat /\ DOMAIN trs = 1 .. Len(trs)
  BY <1>1, TheClient
<1> DEFINE c == [conn EXCEPT !.state = "Connecting"]
           a == [pc |-> "negotiate", no |-> att.no + 1, offer |-> <<>>, endpoint |-> 0,
                 redirects |-> 0, lost |-> FALSE]
           h == [hub EXCEPT !.received = FALSE]
           r == Turned(s, c, a, h)
<1>3. c \in Connections /\ c.state = "Connecting" /\ c.transport = conn.transport
      /\ c.keepAlive = conn.keepAlive
  BY <1>2 DEF Connections
<1>4. a \in Attempts /\ a.pc = "negotiate" /\ a.no \in 1 .. MaxStarts
  BY <1>2, Bounds DEF StartAccepted, Attempts, StartPlaces
<1>5. HubOK(h) /\ SameCalls(h, hub)
  BY <1>2, ReceivedOK
<1>7. Become(r)
  <2>1. Become([s EXCEPT !.hub.received = FALSE, !.conn.state = "Connecting",
                         !.att = [pc |-> "negotiate", no |-> @.no + 1, offer |-> <<>>,
                                  endpoint |-> 0, redirects |-> 0, lost |-> FALSE]])
    BY <1>1 DEF StartAccepted
  <2>2. [s EXCEPT !.hub.received = FALSE, !.conn.state = "Connecting",
                  !.att = [pc |-> "negotiate", no |-> @.no + 1, offer |-> <<>>,
                           endpoint |-> 0, redirects |-> 0, lost |-> FALSE]] = r
    BY <1>2 DEF Turned, Clients
  <2> QED
    BY <2>1, <2>2
<1> HIDE DEF c, a, h
<1>8. att.pc \notin Starting /\ conn.state = "Disconnected"
  BY DEF StartAccepted, StartEnded, Starting
\* stop() has stopped the transport that is still there.
<1>6. conn.transport # None =>
        trs[conn.transport].link \notin Unopened /\ ~trs[conn.transport].held
  BY <1>2, <1>8 DEF StoppedOK, Sound, InUse, Starting
<1>9. Turns(s, c, a, h)
  BY <1>2, <1>3, <1>4, <1>5, <1>6 DEF Turns, SameCalls, StillWait
<1> QED
  BY <1>1, <1>2, <1>3, <1>4, <1>7, <1>9, TurnBecomes

LEMMA StartRejectedKeeps ==
    ASSUME ClientInv, StartRejected PROVE ClientInv' /\ Lossless
<1>1. PICK s : s = Client
  OBVIOUS
<1>2. /\ Sound(s) /\ StartOK(s) /\ StoppedOK(s) /\ s \in Clients
      /\ s.hub = hub /\ HubOK(hub) /\ hub \in Hubs
  BY <1>1, TheClient
<1>3. PICK h : h = [hub EXCEPT !.received = FALSE]
  OBVIOUS
<1>4. HubOK(h) /\ SameCalls(h, hub) /\ h.handle = hub.handle /\ h.raised = hub.raised
  BY <1>2, <1>3, ReceivedOK
<1>5. PICK r : r = [s EXCEPT !.hub = h]
  OBVIOUS
<1>6. Become(r)
  BY <1>1, <1>2, <1>3, <1>5 DEF StartRejected, Clients
<1>8. Waiters(s, h)
  BY <1>2, <1>4 DEF SameCalls, Waiters
<1>7. Sound(r) /\ StartOK(r) /\ StoppedOK(r) /\ Tidy(s, r)
  BY <1>2, <1>4, <1>5, <1>8, CallsKeep
<1> QED
  BY <1>1, <1>6, <1>7, BecomeKeeps

LEMMA HandshakePostedKeeps ==
    ASSUME ClientInv, HandshakePosted PROVE ClientInv' /\ Lossless
<1>1. PICK s : s = Client
  OBVIOUS
<1>2. /\ Sound(s) /\ StartOK(s) /\ s \in Clients
      /\ s.conn = conn /\ s.att = att /\ s.trs = trs /\ s.hub = hub
      /\ conn \in Connections /\ att \in Attempts /\ HubOK(hub) /\ hub \in Hubs
      /\ conn.keepAlive \in BOOLEAN /\ att.pc = "handshake" /\ att.no \in 1 .. MaxStarts
  BY <1>1, TheClient DEF HandshakePosted, Connections, Sound, Placed
<1> DEFINE started == [att EXCEPT !.pc = "started"]
           failed == [att EXCEPT !.pc = "failed"]
<1>3. /\ started \in Attempts /\ started.pc = "started" /\ started.no = att.no
      /\ failed \in Attempts /\ failed.pc = "failed" /\ failed.no = att.no
  BY <1>2 DEF Attempts, StartPlaces
<1>4. PICK h : h = Watch(hub, conn.keepAlive)
  OBVIOUS
<1>5. HubOK(h) /\ SameCalls(h, hub) /\ (h.handle \/ conn.keepAlive)
  BY <1>2, <1>4, WatchKeeps
<1>6. PICK p, q : p = Turned(s, conn, started, h) /\ q = Turned(s, conn, failed, hub)
  OBVIOUS
<1>7. Become(p) \/ Become(q)
  <2>1. \/ Become([s EXCEPT !.att.pc = "started", !.hub = Watch(@, conn.keepAlive)])
        \/ Become([s EXCEPT !.att.pc = "failed"])
    BY <1>1 DEF HandshakePosted
  <2>2. [s EXCEPT !.att.pc = "started", !.hub = Watch(@, conn.keepAlive)] = p
    BY <1>2, <1>4, <1>6 DEF Turned, Clients
  <2>3. [s EXCEPT !.att.pc = "failed"] = q
    BY <1>2, <1>6 DEF Turned, Clients
  <2> QED
    BY <2>1, <2>2, <2>3
<1> HIDE DEF started, failed
<1>8. Turns(s, conn, started, h)
  BY <1>2, <1>3, <1>5 DEF Turns, Sound, InUse, SameCalls, StillWait
<1>9. Turns(s, conn, failed, hub)
  BY <1>2, <1>3, SameWait DEF Turns, Sound, InUse
<1>10. /\ started.pc \in Starting <=> s.att.pc \in Starting
       /\ failed.pc \in Starting <=> s.att.pc \in Starting
  BY <1>2, <1>3 DEF Starting
<1> QED
  BY <1>1, <1>2, <1>3, <1>6, <1>7, <1>8, <1>9, <1>10, TurnBecomes

LEMMA NegotiatedKeeps ==
    ASSUME ClientInv, Negotiated PROVE ClientInv' /\ Lossless
<1>1. PICK s : s = Client
  OBVIOUS
<1>2. /\ Sound(s) /\ StartOK(s) /\ StoppedOK(s) /\ s \in Clients
      /\ s.conn = conn /\ s.att = att /\ s.trs = trs /\ s.hub = hub
      /\ conn \in Connections /\ att \in Attempts /\ HubOK(hub) /\ hub \in Hubs
      /\ att.pc = "negotiate" /\ s.att.pc \in Starting /\ att.no \in 1 .. MaxStarts
  BY <1>1, TheClient DEF Negotiated, Sound, Placed, Starting
\* A start begins without a transport that it could lose.
<1>7. Spent(s)
  BY <1>2 DEF Sound, InUse, Spent, Up, Unopened
<1>3. ASSUME Become(FailStart(Client)) PROVE ClientInv' /\ Lossless
  <2>1. PICK r : r = FailStart(s)
    OBVIOUS
  <2>2. Sound(r) /\ StartOK(r) /\ StoppedOK(r) /\ Tidy(s, r)
    BY <1>2, <1>7, <2>1, FailStartKeeps
  <2> QED
    BY <1>1, <1>3, <2>1, <2>2, BecomeKeeps
<1>4. ASSUME Become(StartSettled(Left(Client, "failed"))) PROVE ClientInv' /\ Lossless
  <2>1. PICK q, r : q = Left(s, "failed") /\ r = StartSettled(q)
    OBVIOUS
  <2>2. Sound(q) /\ q.att.pc = "failed" /\ Tidy(s, q) /\ (q.stops = <<>> => StoppedOK(q))
    BY <1>2, <2>1, LeftKeeps
  <2>3. Sound(r) /\ StartOK(r) /\ StoppedOK(r) /\ Tidy(q, r)
    BY <2>1, <2>2, StartSettledKeeps DEF Starting
  <2>4. Tidy(s, r)
    BY <1>2, <2>2, <2>3, TidyTwice DEF Sound
  <2> QED
    BY <1>1, <1>4, <2>1, <2>3, <2>4, BecomeKeeps
<1>5. ASSUME NEW offer \in Offers[att.no],
             Become(NextEndpoint([Client EXCEPT !.att.offer = offer], 1))
      PROVE  ClientInv' /\ Lossless
  <2> DEFINE a == [att EXCEPT !.offer = offer]
  <2>1. offer \in {<<>>} \cup UNION {Offers[n] : n \in 1 .. MaxStarts}
    BY <1>2
  <2>2. a \in Attempts /\ a.pc = "negotiate" /\ a.no = att.no
    BY <1>2, <2>1 DEF Attempts
  <2>3. PICK q : q = Turned(s, conn, a, hub)
    OBVIOUS
  <2>4. q = [Client EXCEPT !.att.offer = offer]
    BY <1>1, <1>2, <2>3 DEF Turned, Clients
  <2> HIDE DEF a
  <2>5. Turns(s, conn, a, hub)
    BY <1>2, <2>2, SameWait DEF Turns, Sound, InUse, Starting
  <2>6. Sound(q) /\ q.att = a /\ q.conn = conn /\ q.trs = s.trs /\ Tidy(s, q)
    BY <1>2, <2>3, <2>5, TurnKeeps
  <2>7. PICK r : r = NextEndpoint(q, 1)
    OBVIOUS
  <2>10. Spent(q)
    BY <1>2, <1>7, <2>6 DEF Spent
  <2>8. Sound(r) /\ StartOK(r) /\ StoppedOK(r) /\ Tidy(q, r)
    BY <2>2, <2>6, <2>7, <2>10, NextEndpointKeeps DEF Starting
  <2>11. Tidy(s, r)
    BY <1>2, <2>6, <2>8, TidyTwice DEF Sound
  <2>9. Become(r)
    <3>1. PICK p : p = [Client EXCEPT !.att.offer = offer]
      OBVIOUS
    <3>2. Become(NextEndpoint(p, 1))
      BY <1>5, <3>1
    <3> QED
      BY <2>4, <2>7, <3>1, <3>2
  <2> QED
    BY <1>1, <2>8, <2>9, <2>11, BecomeKeeps
<1>6. ASSUME att.redirects + 1 < MaxRedirects, Become([Client EXCEPT !.att.redirects = @ + 1])
      PROVE  ClientInv' /\ Lossless
  <2>1. att.redirects + 1 \in 0 .. MaxRedirects
    BY <1>2, <1>6, Bounds DEF Attempts
  <2>2. PICK k \in 0 .. MaxRedirects : k = att.redirects + 1
    BY <2>1
  <2> DEFINE a == [att EXCEPT !.redirects = k]
  <2>3. a \in Attempts /\ a.pc = "negotiate" /\ a.no = att.no
    BY <1>2 DEF Attempts
  <2>4. PICK r : r = Turned(s, conn, a, hub)
    OBVIOUS
  <2>5. r = [Client EXCEPT !.att.redirects = @ + 1]
    BY <1>1, <1>2, <2>2, <2>4 DEF Turned, Clients
  <2> HIDE DEF a
  <2>6. Turns(s, conn, a, hub)
    BY <1>2, <2>3, SameWait DEF Turns, Sound, InUse, Starting
  <2>7. Become(r)
    <3>1. PICK p : p = [Client EXCEPT !.att.redirects = @ + 1]
      OBVIOUS
    <3>2. Become(p)
      BY <1>6, <3>1
    <3> QED
      BY <2>5, <3>1, <3>2
  <2> QED
    BY <1>1, <1>2, <2>3, <2>4, <2>6, <2>7, TurnBecomes DEF Starting
<1> QED
  BY <1>3, <1>4, <1>5, <1>6 DEF Negotiated

LEMMA RenegotiatedKeeps ==
    ASSUME ClientInv, Renegotiated PROVE ClientInv' /\ Lossless
<1>1. PICK s : s = Client
  OBVIOUS
<1>2. /\ Sound(s) /\ StartOK(s) /\ StoppedOK(s) /\ s \in Clients
      /\ s.conn = conn /\ s.att = att /\ s.trs = trs /\ s.hub = hub
      /\ conn \in Connections /\ att \in Attempts /\ HubOK(hub) /\ hub \in Hubs
      /\ att.pc = "renegotiate" /\ s.att.pc \in Starting /\ att.no \in 1 .. MaxStarts
      /\ trs \in Seq(Transports) /\ Len(trs) \in Nat /\ conn.transport \in 0 .. Len(trs)
  BY <1>1, TheClient DEF Renegotiated, Sound, Placed, Starting
\* The transport in use has not been connected yet.
<1>6. Spent(s)
  BY <1>2 DEF StartOK, Spent, Up
<1>3. ASSUME Become(FailStart(Client)) PROVE ClientInv' /\ Lossless
  <2>1. PICK r : r = FailStart(s)
    OBVIOUS
  <2>2. Sound(r) /\ StartOK(r) /\ StoppedOK(r) /\ Tidy(s, r)
    BY <1>2, <1>6, <2>1, FailStartKeeps
  <2> QED
    BY <1>1, <1>3, <2>1, <2>2, BecomeKeeps
<1>4. ASSUME Become(ConnectFailed(Client)) PROVE ClientInv' /\ Lossless
  <2>1. PICK r : r = ConnectFailed(s)
    OBVIOUS
  <2>2. Sound(r) /\ StartOK(r) /\ StoppedOK(r) /\ Tidy(s, r)
    BY <1>2, <1>6, <2>1, ConnectFailedKeeps
  <2> QED
    BY <1>1, <1>4, <2>1, <2>2, BecomeKeeps
<1>5. ASSUME conn.transport # None,
             Become([Client EXCEPT !.att.pc = "connect", !.trs[conn.transport] = connect(@)])
      PROVE  ClientInv' /\ Lossless
  <2> DEFINE t == conn.transport
             x == trs[t]
             a == [att EXCEPT !.pc = "connect"]
             y == connect(x)
  <2>1. /\ trs # <<>> /\ t = Len(trs) /\ x.link = "new" /\ t \in 1 .. Len(trs)
    BY <1>2, <1>5 DEF StartOK, None
  <2>2. x \in Transports /\ TransportOK(x)
    BY <1>2, <2>1 DEF Sound, Clients
  <2>3. /\ y \in Transports /\ TransportOK(y) /\ Ages(x, y)
        /\ y.told = x.told /\ ~ToCome(x) /\ y.link = "connecting"
    BY <2>1, <2>2 DEF connect, Transports, Links, TransportOK, Ages, Unopened, ToCome
  <2>4. s.deletes \in Seq(DeleteCalls)
    BY <1>2, ClientFields
  <2>5. PICK q : q = Touched(s, t, y, conn, s.deletes, hub)
    OBVIOUS
  <2>6. Touches(s, t, y, conn, s.deletes, hub)
    <3> HIDE DEF y
    <3>1. \A i \in 1 .. Len(s.deletes) :
            /\ s.deletes[i].transport \in 1 .. Len(s.trs)
            /\ LET z == IF s.deletes[i].transport = t THEN y
                                                      ELSE s.trs[s.deletes[i].transport]
               IN  z.kind = "LongPolling" /\ ~z.held /\ z.link \notin Unopened
      BY <1>2, <2>1 DEF Sound, Placed, DeletesOK, Unopened
    <3> QED
      BY <1>2, <2>1, <2>3, <2>4, <3>1, SameWait DEF Touches
  <2> HIDE DEF y
  <2>7. /\ Sound(q) /\ q.conn = conn /\ q.att = att /\ q.hub = hub
        /\ Len(q.trs) = Len(trs) /\ q.trs[t] = y /\ q.stops = s.stops
        /\ Tidy(s, q)
    BY <1>2, <2>1, <2>5, <2>6, StepKeeps
  <2>8. PICK r : r = Turned(q, conn, a, hub)
    OBVIOUS
  <2>9. a \in Attempts /\ a.pc = "connect" /\ a.no = att.no
    BY <1>2 DEF Attempts, StartPlaces
  <2>10. [s EXCEPT !.att.pc = "connect", !.trs[conn.transport] = connect(@)] = r
    <3>1. [trs EXCEPT ![conn.transport] = connect(@)] = [trs EXCEPT ![t] = y]
      BY <1>2, <2>1 DEF y
    <3>2. r = [s EXCEPT !.trs = [trs EXCEPT ![t] = y], !.att = a]
      <4> HIDE DEF a
      <4> QED
        BY <1>2, <2>5, <2>8 DEF Turned, Touched, Clients
    <3>3. [s EXCEPT !.att.pc = "connect", !.trs[conn.transport] = connect(@)]
            = [s EXCEPT !.att = a, !.trs = [trs EXCEPT ![conn.transport] = connect(@)]]
      BY <1>2 DEF Clients
    <3> QED
      BY <1>2, <3>1, <3>2, <3>3 DEF Clients
  <2> HIDE DEF a
  <2>11. Turns(q, conn, a, hub)
    BY <1>2, <2>7, <2>9, SameWait DEF Turns, Sound, InUse, Starting
  <2>12. /\ Sound(r) /\ r.conn = conn /\ r.att = a /\ r.trs = q.trs /\ r.stops = q.stops
         /\ Tidy(q, r)
    BY <2>7, <2>8, <2>11, TurnKeeps
  <2>13. StartOK(r)
    <3>1. r.trs # <<>> /\ Len(r.trs) = t /\ r.trs[t].link = "connecting"
      <4>1. r.trs \in Seq(Transports)
        BY <2>12, ClientFields DEF Sound
      <4> QED
        BY <1>2, <2>1, <2>3, <2>7, <2>12, <4>1, EmptySeq
    <3> QED
      BY <2>9, <2>12, <3>1 DEF StartOK
  <2>14. StoppedOK(r)
    BY <1>2, <2>7, <2>9, <2>12 DEF StoppedOK, Starting
  <2>15. Tidy(s, r)
    BY <1>2, <2>7, <2>12, TidyTwice DEF Sound
  <2> QED
    BY <1>1, <1>5, <2>10, <2>12, <2>13, <2>14, <2>15, BecomeKeeps
<1> QED
  BY <1>3, <1>4, <1>5 DEF Renegotiated

\* A step that touches one transport.
LEMMA TouchBecomes ==
    ASSUME ClientInv, NEW s, s = Client, NEW t \in 1 .. Len(s.trs), NEW y, NEW c, NEW dl,
           NEW h, Touches(s, t, y, c, dl, h),
           y.link = s.trs[t].link \/ s.trs[t].link \notin {"new", "connecting"},
           c.state = s.conn.state,
           Up(y) => Up(s.trs[t]) \/ c.transport = t,
           c.transport # s.conn.transport => s.conn.transport = t /\ ~Up(y),
           NEW r, r = Touched(s, t, y, c, dl, h), Become(r)
    PROVE  ClientInv' /\ Lossless
<1>1. Sound(s) /\ StartOK(s) /\ StoppedOK(s)
  BY TheClient
<1>2. Sound(r) /\ StartSame(s, r) /\ StoppedOK(r) /\ Tidy(s, r)
  BY <1>1, StepKeeps
<1>3. StartOK(r)
  BY <1>1, <1>2 DEF StartSame
<1> QED
  BY <1>2, <1>3, BecomeKeeps

\* What is left of Touches when the connection, the DELETEs and the hub stay.
LEMMA TouchesOne ==
    ASSUME NEW s, Sound(s), NEW t \in 1 .. Len(s.trs), NEW x, x = s.trs[t],
           NEW y \in Transports, TransportOK(y), Ages(x, y),
           y.told = x.told, ToCome(x) => ToCome(y),
           NEW r, r = With(s, t, y)
    PROVE  /\ Touches(s, t, y, s.conn, s.deletes, s.hub)
           /\ r = Touched(s, t, y, s.conn, s.deletes, s.hub)
<1>1. /\ s \in Clients /\ s.conn \in Connections /\ s.deletes \in Seq(DeleteCalls)
      /\ s.trs \in Seq(Transports) /\ HubOK(s.hub)
  BY ClientFields DEF Sound
<1>2. \A i \in 1 .. Len(s.deletes) :
        /\ s.deletes[i].transport \in 1 .. Len(s.trs)
        /\ LET z == IF s.deletes[i].transport = t THEN y ELSE s.trs[s.deletes[i].transport]
           IN  z.kind = "LongPolling" /\ ~z.held /\ z.link \notin Unopened
  BY DEF Sound, Placed, DeletesOK, Ages, Unopened
<1>3. Touches(s, t, y, s.conn, s.deletes, s.hub)
  BY <1>1, <1>2, SameWait DEF Touches
<1>4. r = Touched(s, t, y, s.conn, s.deletes, s.hub)
  BY <1>1 DEF With, Touched, Clients
<1> QED
  BY <1>3, <1>4

LEMMA TransportAnswersKeeps ==
    ASSUME ClientInv, TransportAnswers PROVE ClientInv' /\ Lossless
<1>1. PICK s, t, x : s = Client /\ t = Len(trs) /\ x = trs[t]
  OBVIOUS
<1>2. /\ Sound(s) /\ StartOK(s) /\ StoppedOK(s) /\ s \in Clients
      /\ s.conn = conn /\ s.att = att /\ s.trs = trs /\ s.hub = hub
      /\ att.pc = "connect" /\ s.att.pc \in Starting
      /\ trs \in Seq(Transports) /\ Len(trs) \in Nat /\ conn \in Connections
  BY <1>1, TheClient DEF TransportAnswers, Starting
<1>3. trs # <<>> /\ x.link = "connecting"
  BY <1>1, <1>2 DEF StartOK
<1>4. t \in 1 .. Len(trs)
  BY <1>1, <1>2, <1>3, EmptySeq
<1>5. x \in Transports /\ TransportOK(x)
  BY <1>1, <1>2, <1>4 DEF Sound
<1>6. PICK p, q : p = [Client EXCEPT !.trs[t] = Opened(@)]
               /\ q = [Client EXCEPT !.trs[t] = EndedAtOnce(@)]
  OBVIOUS
<1>7. p = With(s, t, Opened(x)) /\ q = With(s, t, EndedAtOnce(x))
  BY <1>1, <1>2, <1>4, <1>6 DEF With, Clients
<1>8. ASSUME NEW y \in {Opened(x), EndedAtOnce(x)}, Become(Connected(With(s, t, y)))
      PROVE  ClientInv' /\ Lossless
  <2>1. PICK r : r = Connected(With(s, t, y))
    OBVIOUS
  <2>2. Sound(r) /\ StartOK(r) /\ StoppedOK(r) /\ Tidy(s, r)
    BY <1>1, <1>2, <2>1, ConnectedKeeps
  <2> QED
    BY <1>1, <1>8, <2>1, <2>2, BecomeKeeps
<1>9. ASSUME NEW again \in BOOLEAN,
             Become(ConnectFailed([Client EXCEPT !.trs[t] = Refused(@, again)]))
      PROVE  ClientInv' /\ Lossless
  <2>1. PICK y, u : y = Refused(x, again) /\ u = With(s, t, y)
    OBVIOUS
  <2>2. u = [Client EXCEPT !.trs[t] = Refused(@, again)]
    BY <1>1, <1>2, <1>4, <2>1 DEF With, Clients
  <2>3. /\ y \in Transports /\ TransportOK(y) /\ Ages(x, y)
        /\ y.told = x.told /\ ~ToCome(x) /\ ~Up(y)
    BY <1>3, <1>5, <2>1 DEF Refused, Transports, Links, TransportOK, Ages, Unopened, ToCome, Up
  <2>4. /\ Touches(s, t, y, s.conn, s.deletes, s.hub)
        /\ u = Touched(s, t, y, s.conn, s.deletes, s.hub)
    BY <1>1, <1>2, <1>4, <2>1, <2>3, TouchesOne
  <2>5. /\ Sound(u) /\ u.att = att /\ u.conn = conn /\ u.trs[t] = y /\ Tidy(s, u)
        /\ Len(u.trs) = Len(trs)
    BY <1>2, <1>4, <2>3, <2>4, StepKeeps
  <2>8. Spent(u)
    BY <1>1, <1>2, <2>3, <2>5 DEF StartOK, Spent
  <2>6. PICK r : r = ConnectFailed(u)
    OBVIOUS
  <2>7. Sound(r) /\ StartOK(r) /\ StoppedOK(r) /\ Tidy(u, r)
    BY <1>2, <2>5, <2>6, <2>8, ConnectFailedKeeps
  <2>9. Tidy(s, r)
    BY <1>2, <2>5, <2>7, TidyTwice DEF Sound
  <2> QED
    BY <1>1, <1>9, <2>2, <2>6, <2>7, <2>9, BecomeKeeps
<1>10. \/ Become(Connected(p)) \/ Become(Connected(q))
       \/ \E again \in BOOLEAN :
            Become(ConnectFailed([Client EXCEPT !.trs[t] = Refused(@, again)]))
  BY <1>1, <1>6 DEF TransportAnswers
<1> QED
  BY <1>7, <1>8, <1>9, <1>10

LEMMA SocketClosesKeeps ==
    ASSUME ClientInv, NEW t \in DOMAIN trs, SocketCloses(t) PROVE ClientInv' /\ Lossless
<1>1. PICK s, x : s = Client /\ x = trs[t]
  OBVIOUS
<1>2. /\ Sound(s) /\ StartOK(s) /\ s \in Clients /\ s.conn = conn /\ s.trs = trs
      /\ t \in 1 .. Len(s.trs) /\ trs \in Seq(Transports)
  BY <1>1, TheClient
<1>3. x \in Transports /\ TransportOK(x)
  BY <1>1, <1>2 DEF Sound
<1>4. PICK y, r : y = [x EXCEPT !.link = "closing"] /\ r = With(s, t, y)
  OBVIOUS
<1>5. x.kind = "WebSockets" /\ x.link = "open"
  BY <1>1 DEF SocketCloses
<1>6. /\ y \in Transports /\ TransportOK(y) /\ Ages(x, y)
      /\ y.told = x.told /\ (ToCome(x) => ToCome(y)) /\ ~Up(y)
  BY <1>3, <1>4, <1>5 DEF Transports, Links, TransportOK, Ages, Unopened, ToCome, Up
<1>7. Become(r)
  BY <1>1, <1>2, <1>4 DEF SocketCloses, With, Clients
<1>8. /\ Touches(s, t, y, s.conn, s.deletes, s.hub)
      /\ r = Touched(s, t, y, s.conn, s.deletes, s.hub)
  BY <1>1, <1>2, <1>4, <1>6, TouchesOne, ZenonT(60)
<1> QED
  BY <1>1, <1>2, <1>5, <1>6, <1>7, <1>8, TouchBecomes

LEMMA SourceReopensKeeps ==
    ASSUME ClientInv, NEW t \in DOMAIN trs, SourceReopens(t) PROVE ClientInv' /\ Lossless
<1>1. PICK s, x : s = Client /\ x = trs[t]
  OBVIOUS
<1>2. /\ Sound(s) /\ StartOK(s) /\ StoppedOK(s) /\ s \in Clients /\ s.conn = conn /\ s.trs = trs
      /\ t \in 1 .. Len(s.trs) /\ trs \in Seq(Transports)
  BY <1>1, TheClient
<1>3. x \in Transports /\ TransportOK(x)
  BY <1>1, <1>2 DEF Sound
<1>4. PICK y, r : y = Opened(x) /\ r = With(s, t, y)
  OBVIOUS
<1>5. x.link = "retrying" /\ x.kind = "ServerSentEvents" /\ ~x.wired
  BY <1>1, <1>3 DEF SourceReopens, TransportOK, Unopened
<1>6. /\ y \in Transports /\ TransportOK(y) /\ Ages(x, y)
      /\ y.told = x.told /\ ~ToCome(x) /\ y.kind = "ServerSentEvents"
  BY <1>3, <1>4, <1>5 DEF Opened, Transports, Links, TransportOK, Ages, Unopened, ToCome
<1>7. Become(r)
  BY <1>1, <1>2, <1>4 DEF SourceReopens, With, Clients
<1>8. /\ Touches(s, t, y, s.conn, s.deletes, s.hub)
      /\ r = Touched(s, t, y, s.conn, s.deletes, s.hub)
  BY <1>1, <1>2, <1>4, <1>5, <1>6, TouchesOne
<1>9. /\ Sound(r) /\ StartSame(s, r) /\ StoppedOK(r) /\ r.conn = s.conn
      /\ \A u \in 1 .. Len(s.trs) : u # t => r.trs[u] = s.trs[u]
  BY <1>1, <1>2, <1>5, <1>8, StepKeeps
<1>10. StartOK(r)
  BY <1>2, <1>9 DEF StartSame
<1>11. Loses(t)
  BY <1>1, <1>5 DEF Loses
<1>12. \A u \in DOMAIN trs : Stray(r, u) => Stray(s, u) \/ Loses(u)
  BY <1>1, <1>2, <1>9, <1>11, TheClient DEF Stray
<1> QED
  BY <1>1, <1>7, <1>9, <1>10, <1>12, BecomeLoses

LEMMA ShutdownTimeoutKeeps ==
    ASSUME ClientInv, NEW t \in DOMAIN trs, ShutdownTimeout(t) PROVE ClientInv' /\ Lossless
<1>1. PICK s, x : s = Client /\ x = trs[t]
  OBVIOUS
<1>2. /\ Sound(s) /\ StartOK(s) /\ s \in Clients /\ s.conn = conn /\ s.trs = trs
      /\ t \in 1 .. Len(s.trs) /\ trs \in Seq(Transports)
  BY <1>1, TheClient
<1>3. x \in Transports /\ TransportOK(x)
  BY <1>1, <1>2 DEF Sound
<1>4. PICK y, r : y = AbortPoll(x) /\ r = With(s, t, y)
  OBVIOUS
<1>5. x.kind = "LongPolling" /\ ~x.held /\ x.link \in {"open", "aborted"}
  BY <1>1, <1>3 DEF ShutdownTimeout, TransportOK
<1>6. y = [x EXCEPT !.shutdown = FALSE, !.link = "aborted"]
  BY <1>3, <1>4, <1>5 DEF AbortPoll, Transports
<1>7. /\ y \in Transports /\ TransportOK(y) /\ Ages(x, y)
      /\ y.told = x.told /\ (ToCome(x) => ToCome(y)) /\ ~Up(y)
  BY <1>3, <1>5, <1>6 DEF Transports, Links, TransportOK, Ages, Unopened, ToCome, Up
<1>8. Become(r)
  BY <1>1, <1>2, <1>4 DEF ShutdownTimeout, With, Clients
<1>9. /\ Touches(s, t, y, s.conn, s.deletes, s.hub)
      /\ r = Touched(s, t, y, s.conn, s.deletes, s.hub)
  BY <1>1, <1>2, <1>4, <1>5, <1>7, TouchesOne
<1> QED
  BY <1>1, <1>2, <1>5, <1>7, <1>8, <1>9, TouchBecomes

\* A transport ends.
LEMMA OncloseBecomes ==
    ASSUME ClientInv, NEW t \in DOMAIN trs, NEW x, x = trs[t], NEW y \in Transports,
           x.link \in {"open", "closing"}, Closes(x, y),
           NEW p, p = [Client EXCEPT !.trs[t] = y], Become(FireOnclose(p, t))
    PROVE  ClientInv' /\ Lossless
<1>1. PICK s : s = Client
  OBVIOUS
<1>2. /\ Sound(s) /\ StartOK(s) /\ StoppedOK(s) /\ s \in Clients /\ s.conn = conn /\ s.trs = trs
      /\ t \in 1 .. Len(s.trs)
  BY <1>1, TheClient
<1>3. PICK r : r = FireOnclose(With(s, t, y), t)
  OBVIOUS
<1>4. p = With(s, t, y)
  BY <1>1 DEF With
<1>5. Sound(r) /\ StartSame(s, r)
  BY <1>2, <1>3, OncloseKeeps
<1>7. StoppedOK(r) /\ Excused(s, r, t)
  BY <1>2, <1>3, OncloseExcuses
<1>8. StartOK(r)
  BY <1>2, <1>5 DEF StartSame
<1>6. Become(r)
  BY <1>3, <1>4
<1> QED
  BY <1>1, <1>5, <1>6, <1>7, <1>8, BecomeExcused

LEMMA TransportIs ==
    ASSUME ClientInv, NEW t \in DOMAIN trs
    PROVE  trs[t] \in Transports /\ TransportOK(trs[t])
<1>1. PICK s : s = Client
  OBVIOUS
<1>2. /\ Sound(s) /\ s.trs = trs /\ t \in 1 .. Len(s.trs) /\ trs \in Seq(Transports)
  BY <1>1, TheClient
<1> QED
  BY <1>2 DEF Sound

LEMMA SocketClosedKeeps ==
    ASSUME ClientInv, NEW t \in DOMAIN trs, SocketClosed(t) PROVE ClientInv' /\ Lossless
<1>1. PICK x, y, p, q : /\ x = trs[t] /\ y = Ended(x)
                        /\ p = [Client EXCEPT !.trs[t] = y]
                        /\ q = [Client EXCEPT !.trs[t] = Ended(@)]
  OBVIOUS
<1>2. x \in Transports /\ TransportOK(x)
  BY <1>1, TransportIs
<1>3. x.kind = "WebSockets" /\ x.link = "closing" /\ Become(FireOnclose(q, t))
  BY <1>1 DEF SocketClosed
<1>4. p = q
  BY <1>1, ClientIs
<1>5. y \in Transports /\ Closes(x, y)
  BY <1>1, <1>2, <1>3 DEF Ended, Transports, Links, TransportOK, Closes
<1> QED
  BY <1>1, <1>3, <1>4, <1>5, OncloseBecomes

LEMMA SourceFailsKeeps ==
    ASSUME ClientInv, NEW t \in DOMAIN trs, SourceFails(t) PROVE ClientInv' /\ Lossless
<1>1. PICK x, y, p, q : /\ x = trs[t] /\ y = stop(x)
                        /\ p = [Client EXCEPT !.trs[t] = y]
                        /\ q = [Client EXCEPT !.trs[t] = stop(@)]
  OBVIOUS
<1>2. x \in Transports /\ TransportOK(x)
  BY <1>1, TransportIs
<1>3. x.kind = "ServerSentEvents" /\ x.link = "open" /\ Become(FireOnclose(q, t))
  BY <1>1 DEF SourceFails
<1>4. p = q
  BY <1>1, ClientIs
<1>5. ClosesInStop(x)
  BY <1>2, <1>3 DEF TransportOK, ClosesInStop
<1>6. y \in Transports /\ Closes(x, y)
  BY <1>1, <1>2, <1>5, StoppedTransport
<1> QED
  BY <1>1, <1>3, <1>4, <1>6, OncloseBecomes

LEMMA PollEndedCloses ==
    ASSUME NEW x \in Transports, TransportOK(x), x.kind = "LongPolling"
    PROVE  PollEnded(x) \in Transports /\ Closes(x, PollEnded(x))
BY DEF PollEnded, Ended, Transports, Links, TransportOK, Closes

LEMMA PollEndsKeeps ==
    ASSUME ClientInv, NEW t \in DOMAIN trs, PollEnds(t) PROVE ClientInv' /\ Lossless
<1>1. PICK x, y, p, q : /\ x = trs[t] /\ y = PollEnded(x)
                        /\ p = [Client EXCEPT !.trs[t] = y]
                        /\ q = [Client EXCEPT !.trs[t] = PollEnded(@)]
  OBVIOUS
<1>2. x \in Transports /\ TransportOK(x)
  BY <1>1, TransportIs
<1>3. x.kind = "LongPolling" /\ x.link = "open" /\ Become(FireOnclose(q, t))
  BY <1>1 DEF PollEnds
<1>4. p = q
  BY <1>1, ClientIs
<1>5. y \in Transports /\ Closes(x, y)
  BY <1>1, <1>2, <1>3, PollEndedCloses
<1> QED
  BY <1>1, <1>3, <1>4, <1>5, OncloseBecomes

\* What a client is when the DELETE i, for transport t, has been answered.
Deleted(s, t, i, answer) ==
    [s EXCEPT !.deletes = [j \in 1 .. Len(@) - 1 |-> @[IF j < i THEN j ELSE j + 1]],
              !.trs[t] = ArmShutdown(@),
              !.conn.transport = IF Resolves(answer) THEN None ELSE @]

\* stop() after the answer to the DELETE: what the loop of poll() may still get ends
\* by a timer.
LEMMA DeleteAnsweredKeeps ==
    ASSUME ClientInv, NEW i \in DOMAIN deletes, DeleteAnswered(i) PROVE ClientInv' /\ Lossless
<1>1. PICK s, t, x, y : /\ s = Client /\ t = deletes[i].transport
                        /\ x = trs[t] /\ y = ArmShutdown(x)
  OBVIOUS
<1>2. /\ Sound(s) /\ StartOK(s) /\ StoppedOK(s) /\ s \in Clients
      /\ s.conn = conn /\ s.att = att /\ s.trs = trs /\ s.hub = hub /\ s.deletes = deletes
      /\ conn \in Connections /\ HubOK(hub)
      /\ trs \in Seq(Transports) /\ Len(trs) \in Nat /\ DOMAIN trs = 1 .. Len(trs)
  BY <1>1, TheClient
<1>3. deletes \in Seq(DeleteCalls) /\ Len(deletes) \in Nat /\ i \in 1 .. Len(deletes)
  BY <1>2, ClientFields
<1>4. /\ t \in 1 .. Len(trs)
      /\ x.kind = "LongPolling" /\ ~x.held /\ x.link \notin Unopened
  BY <1>1, <1>2, <1>3 DEF Sound, Placed, DeletesOK
<1>5. x \in Transports /\ TransportOK(x)
  BY <1>1, <1>2, <1>4, TransportIs
<1>6. /\ y \in Transports /\ TransportOK(y) /\ Ages(x, y)
      /\ y.told = x.told /\ (ToCome(x) => ToCome(y)) /\ ~y.held /\ y.link = x.link
      /\ y.kind = "LongPolling" /\ ~Up(y)
  BY <1>1, <1>4, <1>5 DEF ArmShutdown, Transports, Links, TransportOK, Ages, Unopened, ToCome, Up
<1>7. PICK answer \in Answers \ {"timeout"} :
        Become(Deleted(Client, deletes[i].transport, i, answer))
  <2>1. PICK answer \in Answers \ {"timeout"} :
          Become([Client EXCEPT
            !.deletes = [j \in 1 .. Len(@) - 1 |-> @[IF j < i THEN j ELSE j + 1]],
            !.trs[deletes[i].transport] = ArmShutdown(@),
            !.conn.transport = IF Resolves(answer) THEN None ELSE @])
    BY ZenonT(60) DEF DeleteAnswered
  <2>2. Become(Deleted(Client, deletes[i].transport, i, answer))
    BY <2>1, ZenonT(60) DEF Deleted
  <2> QED
    BY <2>2
<1> DEFINE f == [j \in 1 .. Len(deletes) - 1 |-> deletes[IF j < i THEN j ELSE j + 1]]
           to == IF Resolves(answer) THEN None ELSE conn.transport
           c == [conn EXCEPT !.transport = to]
<1>8. /\ f \in Seq(DeleteCalls) /\ Len(f) = Len(deletes) - 1
      /\ \A j \in 1 .. Len(f) : \E k \in 1 .. Len(deletes) : f[j] = deletes[k]
  <2>1. \A j \in 1 .. Len(deletes) - 1 : (IF j < i THEN j ELSE j + 1) \in 1 .. Len(deletes)
    BY <1>3
  <2>2. f \in [1 .. Len(deletes) - 1 -> DeleteCalls] /\ Len(deletes) - 1 \in Nat
    BY <1>3, <2>1, ElementOfSeq
  <2>3. f \in Seq(DeleteCalls) /\ Len(f) = Len(deletes) - 1
    BY <2>2, FunctionIsSeq
  <2>4. \A j \in 1 .. Len(deletes) - 1 : f[j] = deletes[IF j < i THEN j ELSE j + 1]
    OBVIOUS
  <2> HIDE DEF f
  <2> QED
    BY <2>1, <2>3, <2>4
<1>9. /\ c \in Connections /\ c.state = conn.state /\ c.keepAlive = conn.keepAlive
      /\ c.transport = to
  BY <1>2 DEF Connections, None
<1>10. PICK dl, r : dl = f /\ r = Touched(s, t, y, c, dl, hub)
  OBVIOUS
<1>11. Become(r)
  <2>1. PICK q : q = Deleted(s, t, i, answer)
    OBVIOUS
  <2>2. Become(q)
    BY <1>1, <1>7, <2>1
  <2>4. q = [s EXCEPT !.deletes = f, !.trs = [trs EXCEPT ![t] = ArmShutdown(@)], !.conn = c]
    BY <1>2, <2>1 DEF Clients, Deleted
  <2>5. [trs EXCEPT ![t] = ArmShutdown(@)] = [trs EXCEPT ![t] = y]
    BY <1>1, <1>2, <1>4
  <2> HIDE DEF f, c
  <2>6. r = q
    BY <1>2, <1>10, <2>4, <2>5 DEF Touched, Clients
  <2> QED
    BY <2>2, <2>6
<1> HIDE DEF f, c
<1>12. \A j \in 1 .. Len(dl) :
         /\ dl[j].transport \in 1 .. Len(s.trs)
         /\ LET z == IF dl[j].transport = t THEN y ELSE s.trs[dl[j].transport]
            IN  z.kind = "LongPolling" /\ ~z.held /\ z.link \notin Unopened
  <2> SUFFICES ASSUME NEW j \in 1 .. Len(dl)
               PROVE  /\ dl[j].transport \in 1 .. Len(s.trs)
                      /\ LET z == IF dl[j].transport = t THEN y ELSE s.trs[dl[j].transport]
                         IN  /\ z.kind = "LongPolling" /\ ~z.held
                             /\ z.link \notin Unopened
    OBVIOUS
  <2>1. PICK k \in 1 .. Len(deletes) : dl[j] = deletes[k]
    BY <1>8, <1>10
  <2> QED
    BY <1>2, <1>4, <1>6, <2>1 DEF Sound, Placed, DeletesOK
<1>14. to \in {conn.transport, None}
  OBVIOUS
<1> HIDE DEF to
<1>15. Touches(s, t, y, c, dl, hub)
  BY <1>1, <1>2, <1>4, <1>5, <1>6, <1>8, <1>9, <1>10, <1>12, <1>14, SameWait DEF Touches
<1>16. /\ Sound(r) /\ StartSame(s, r) /\ StoppedOK(r) /\ r.conn = c /\ r.trs[t] = y
       /\ \A u \in 1 .. Len(s.trs) : u # t => r.trs[u] = s.trs[u]
  BY <1>1, <1>2, <1>4, <1>6, <1>9, <1>10, <1>15, StepKeeps
<1>17. StartOK(r)
  BY <1>2, <1>16 DEF StartSame
\* The transport that is forgotten may be another than the one the DELETE was for.
<1>18. ASSUME NEW u \in DOMAIN trs, u # t PROVE Loses(u)
  <2>1. deletes' = dl /\ Len(dl) < Len(deletes)
    BY <1>3, <1>8, <1>10, <1>11 DEF Become, Touched
  <2>2. deletes[i].transport # u
    BY <1>1, <1>18
  <2> QED
    BY <2>1, <2>2 DEF Loses
<1>19. \A u \in DOMAIN trs : Stray(r, u) => Stray(s, u) \/ Loses(u)
  BY <1>6, <1>16, <1>18 DEF Stray
<1> QED
  BY <1>1, <1>11, <1>16, <1>17, <1>19, BecomeLoses

Marked(c) == [c EXCEPT !.state = "Disconnected"]

\* stop() sets the state without looking at it.
LEMMA StopMarks ==
    ASSUME NEW s \in Clients, NEW p \in Clients, p.att = s.att, p.trs = s.trs,
           p.stops = s.stops, p.deletes = s.deletes, p.hub = s.hub,
           p.conn = Marked(s.conn), NEW error, NEW by
    PROVE  Stop(p, error, by) = Stop(s, error, by)
<1>1. [p EXCEPT !.conn.state = "Disconnected"] = [s EXCEPT !.conn.state = "Disconnected"]
  BY DEF Clients, Connections, Marked
<1> QED
  BY <1>1 DEF Stop

Hubbed(s, h) == [s EXCEPT !.hub = h]

\* stop() after something was done to the hub, by which nobody came to wait.
LEMMA StopAfter ==
    ASSUME NEW s, Sound(s), StartOK(s), NEW h, HubOK(h), NEW error \in Errors,
           NEW by \in {"user", "hub"},
           StillWait(h, s.hub), NEW q, q = Hubbed(s, h), NEW r, r = Stop(q, error, by)
    PROVE  Sound(r) /\ StartOK(r) /\ StoppedOK(r) /\ Tidy(s, r)
<1> DEFINE c == [s.conn EXCEPT !.state = "Disconnected"]
<1>1. /\ s \in Clients /\ s.conn \in Connections /\ s.att \in Attempts /\ h \in Hubs
      /\ q \in Clients /\ q.conn = s.conn /\ q.att = s.att /\ q.trs = s.trs
      /\ q.stops = s.stops /\ q.deletes = s.deletes /\ q.hub = h
  BY ClientFields DEF Sound, HubOK, Clients, Hubbed
<1>2. /\ c \in Connections /\ c.state = "Disconnected" /\ c.transport = s.conn.transport
      /\ c.keepAlive = s.conn.keepAlive
  BY <1>1 DEF Connections
<1>3. PICK p : p = Turned(s, c, s.att, h)
  OBVIOUS
<1> HIDE DEF c
<1>4. Turns(s, c, s.att, h)
  BY <1>1, <1>2 DEF Turns, Sound, Placed, InUse
<1>5. /\ Sound(p) /\ p.conn = c /\ p.att = s.att /\ p.hub = h
      /\ p.trs = s.trs /\ p.stops = s.stops /\ p.deletes = s.deletes /\ p \in Clients
      /\ Tidy(s, p)
  BY <1>2, <1>3, <1>4, TurnKeeps DEF Sound
<1>6. StartOK(p)
  BY <1>2, <1>5 DEF StartOK
<1>9. PICK z : z = Stop(p, error, by)
  OBVIOUS
<1>7. Sound(z) /\ StartOK(z) /\ StoppedOK(z) /\ Tidy(p, z)
  BY <1>5, <1>6, <1>9, StopKeeps
<1>10. Tidy(s, z)
  BY <1>1, <1>5, <1>7, TidyTwice DEF Sound
<1>8. z = r
  <2>1. p.conn = Marked(q.conn)
    BY <1>1, <1>5 DEF c, Marked
  <2>2. /\ p \in Clients /\ q \in Clients /\ p.att = q.att /\ p.trs = q.trs
        /\ p.stops = q.stops /\ p.deletes = q.deletes /\ p.hub = q.hub
    BY <1>1, <1>5
  <2> QED
    BY <1>9, <2>1, <2>2, StopMarks
<1> QED
  BY <1>7, <1>8, <1>10

LEMMA UserStopKeeps ==
    ASSUME ClientInv, UserStop PROVE ClientInv' /\ Lossless
<1>1. PICK s, h : s = Client /\ h = cleanupTimeout(hub)
  OBVIOUS
<1>2. /\ Sound(s) /\ StartOK(s) /\ s \in Clients /\ s.hub = hub /\ HubOK(hub)
  BY <1>1, TheClient
<1>3. HubOK(h) /\ SameCalls(h, hub)
  BY <1>1, <1>2, CleanupOK
<1>4. PICK q, r : q = Hubbed(s, h) /\ r = Stop(q, None, "user")
  OBVIOUS
<1>5. None \in Errors
  BY Bounds DEF None, Errors
<1>6. Sound(r) /\ StartOK(r) /\ StoppedOK(r) /\ Tidy(s, r)
  BY <1>2, <1>3, <1>4, <1>5, StopAfter DEF SameCalls, StillWait
<1>7. [Client EXCEPT !.hub = cleanupTimeout(@)] = q
  BY <1>1, <1>2, <1>4 DEF Hubbed
<1>8. Become(r)
  BY <1>4, <1>7 DEF UserStop
<1> QED
  BY <1>1, <1>6, <1>8, BecomeKeeps

LEMMA ServerTimeoutKeeps ==
    ASSUME ClientInv, ServerTimeout PROVE ClientInv' /\ Lossless
<1>1. PICK s, h : s = Client /\ h = Fired(hub)
  OBVIOUS
<1>2. /\ Sound(s) /\ StartOK(s) /\ s \in Clients /\ s.hub = hub /\ HubOK(hub) /\ hub \in Hubs
      /\ att \in Attempts
  BY <1>1, TheClient
<1>3. HubOK(h) /\ SameCalls(h, hub)
  <2>1. hub.timers > 0
    BY DEF ServerTimeout
  <2> QED
    BY <1>1, <1>2, <2>1, TimerFiresOK
<1>4. PICK q, r : q = Hubbed(s, h) /\ r = Stop(q, att.no, "hub")
  OBVIOUS
<1>5. att.no \in Errors
  BY <1>2 DEF Attempts, Errors
<1>6. Sound(r) /\ StartOK(r) /\ StoppedOK(r) /\ Tidy(s, r)
  BY <1>2, <1>3, <1>4, <1>5, StopAfter DEF SameCalls, StillWait
<1>7. [Client EXCEPT !.hub.timers = @ - 1, !.hub.handle = FALSE] = q
  BY <1>1, <1>2, <1>4 DEF Clients, Hubs, Hubbed, Fired
<1>8. Become(r)
  BY <1>4, <1>7 DEF ServerTimeout
<1> QED
  BY <1>1, <1>6, <1>8, BecomeKeeps

\* Receive by its parts: the hub's answer and the state it leaves, the end of the
\* transport.
Passed(t, result) ==
    [Client EXCEPT !.hub = result.hub,
                   !.trs[t].replies = "messages",
                   !.conn.state = IF result.stops THEN "Disconnected" ELSE @]
Shut(s, t, result) ==
    CASE trs[t].kind = "LongPolling" /\ ~PollsOn(trs[t], result.raises) ->
           FireOnclose([s EXCEPT !.trs[t] = PollEnded(@)], t)
      [] trs[t].kind = "ServerSentEvents" /\ result.raises ->
           FireOnclose([s EXCEPT !.trs[t].raised = TRUE], t)
      [] OTHER -> s

LEMMA ReceiveIs ==
    ASSUME NEW t, NEW text, Receive(t, text), NEW result, result = Processed(hub, text),
           NEW s, s = Passed(t, result), NEW closed, closed = Shut(s, t, result),
           NEW error, error = IF result.error THEN trs[t].of ELSE None
    PROVE  /\ trs[t].link = "open" /\ trs[t].wired
           /\ Become(IF result.stops THEN Stop(closed, error, "hub") ELSE closed)
BY DEF Receive, Passed, Shut

Answering(x) == [x EXCEPT !.replies = "messages"]
Noted(c, stopped) == [c EXCEPT !.state = IF stopped THEN "Disconnected" ELSE @]

LEMMA PassedIs ==
    ASSUME ClientInv, NEW t \in DOMAIN trs, NEW result, NEW s, s = Passed(t, result),
           NEW y, y = Answering(trs[t]), NEW c, c = Noted(conn, result.stops),
           NEW h, h = result.hub
    PROVE  s = Touched(Client, t, y, c, deletes, h)
<1>1. PICK q : q = Client
  OBVIOUS
<1>2. /\ q \in Clients /\ q.conn = conn /\ q.att = att /\ q.trs = trs /\ q.stops = stops
      /\ q.deletes = deletes /\ q.hub = hub /\ conn \in Connections
      /\ trs \in Seq(Transports)
  BY <1>1, TheClient
<1>3. [trs EXCEPT ![t].replies = "messages"] = [trs EXCEPT ![t] = y]
  BY DEF Answering
<1>4. s = [q EXCEPT !.hub = h, !.trs = [trs EXCEPT ![t].replies = "messages"], !.conn = c]
  BY <1>1, <1>2 DEF Passed, Noted, Clients
<1>5. Touched(q, t, y, c, deletes, h)
        = [q EXCEPT !.hub = h, !.trs = [trs EXCEPT ![t] = y], !.conn = c]
  BY <1>2 DEF Touched, Clients
<1> QED
  BY <1>1, <1>3, <1>4, <1>5

\* A text was received, and the transport goes on.
LEMMA PassedKeeps ==
    ASSUME ClientInv, NEW t \in DOMAIN trs, NEW text \in Texts(t),
           trs[t].link = "open", trs[t].wired,
           NEW result, result = Processed(hub, text), NEW s, s = Passed(t, result)
    PROVE  /\ Sound(s) /\ StartOK(s) /\ Tidy(Client, s)
           /\ ~result.stops => StoppedOK(s)
           /\ Len(s.trs) = Len(trs)
           /\ s.trs[t].link = "open" /\ s.trs[t].kind = trs[t].kind
           /\ s.trs[t].told = trs[t].told
<1>1. PICK q, x, y, c, h :
        /\ q = Client /\ x = trs[t] /\ y = Answering(trs[t])
        /\ c = Noted(conn, result.stops) /\ h = result.hub
  OBVIOUS
<1>2. /\ Sound(q) /\ StartOK(q) /\ StoppedOK(q) /\ q \in Clients
      /\ q.conn = conn /\ q.trs = trs /\ q.hub = hub /\ q.deletes = deletes /\ q.att = att
      /\ trs \in Seq(Transports) /\ conn \in Connections /\ HubOK(hub)
      /\ t \in 1 .. Len(q.trs) /\ t \in Nat \ {0} /\ Len(trs) \in Nat
  BY <1>1, TheClient
<1>3. /\ text \in Seq(Texting) /\ text # <<>> /\ \A i \in 1 .. Len(text) : Made(text[i])
  BY <1>2, TextShape
<1>4. /\ HubOK(h) /\ (h.handle \/ conn.keepAlive \/ h.raised)
      /\ StillWait(h, hub) /\ result.stops \in BOOLEAN
  BY <1>1, <1>2, <1>3, ProcessedOK
<1>5. s = Touched(q, t, y, c, deletes, h)
  BY <1>1, PassedIs
<1>6. /\ c \in Connections /\ c.state \in {conn.state, "Disconnected"}
      /\ c.transport = conn.transport /\ c.keepAlive = conn.keepAlive
      /\ ~result.stops => c.state = conn.state
  BY <1>1, <1>2, <1>4 DEF Noted, Connections
<1>7. x \in Transports /\ TransportOK(x)
  BY <1>1, TransportIs
<1>8. /\ y \in Transports /\ TransportOK(y) /\ Ages(x, y)
      /\ y.told = x.told /\ (ToCome(x) => ToCome(y)) /\ y.link = x.link
      /\ y.kind = x.kind /\ y.held = x.held
  BY <1>1, <1>7 DEF Answering, Transports, TransportOK, Ages, Unopened, ToCome
<1>9. \A i \in 1 .. Len(deletes) :
        /\ deletes[i].transport \in 1 .. Len(q.trs)
        /\ LET z == IF deletes[i].transport = t THEN y ELSE q.trs[deletes[i].transport]
           IN  z.kind = "LongPolling" /\ ~z.held /\ z.link \notin Unopened
  BY <1>1, <1>2, <1>8 DEF Sound, Placed, DeletesOK
<1>10. deletes \in Seq(DeleteCalls)
  BY <1>2, ClientFields
<1>11. Touches(q, t, y, c, deletes, h)
  <2>1. /\ TransportOK(y) /\ Ages(q.trs[t], y) /\ y.told = q.trs[t].told
        /\ ToCome(q.trs[t]) => ToCome(y)
    BY <1>1, <1>2, <1>8
  <2>2. /\ c.state \in {q.conn.state, "Disconnected"}
        /\ c.transport \in {q.conn.transport, None} /\ c.keepAlive = q.conn.keepAlive
        /\ StillWait(h, q.hub)
        /\ q.hub.handle \/ q.conn.keepAlive \/ q.hub.raised =>
             h.handle \/ c.keepAlive \/ h.raised
    BY <1>2, <1>4, <1>6
  <2>3. y \in Transports /\ c \in Connections /\ deletes \in Seq(DeleteCalls) /\ HubOK(h)
    BY <1>4, <1>6, <1>8, <1>10
  <2> QED
    BY <1>9, <2>1, <2>2, <2>3, Zenon DEF Touches
<1>12. /\ Sound(s) /\ StartSame(q, s) /\ Len(s.trs) = Len(trs) /\ s.trs[t] = y
       /\ StoppedOK(q) /\ c.state = q.conn.state => StoppedOK(s)
       /\ Tidy(q, s)
  BY <1>1, <1>2, <1>5, <1>6, <1>8, <1>11, StepKeeps DEF Up
<1> QED
  BY <1>1, <1>2, <1>6, <1>8, <1>12 DEF StartSame

\* The transport ends when the poll does, and is said to when onreceive raises.
LEMMA ShutKeeps ==
    ASSUME NEW s, Sound(s), StartOK(s), NEW t \in 1 .. Len(s.trs),
           s.trs[t].link = "open", s.trs[t].kind = trs[t].kind,
           NEW result, NEW closed, closed = Shut(s, t, result)
    PROVE  /\ Sound(closed) /\ StartOK(closed) /\ Excused(s, closed, t)
           /\ StoppedOK(s) => StoppedOK(closed)
           /\ Len(closed.trs) = Len(s.trs)
<1>1. PICK x : x = s.trs[t]
  OBVIOUS
<1>2. s \in Clients /\ x \in Transports /\ TransportOK(x)
  BY <1>1, ClientFields DEF Sound
<1>3. ASSUME NEW y \in Transports, Closes(x, y), closed = FireOnclose(With(s, t, y), t)
      PROVE  /\ Sound(closed) /\ StartOK(closed) /\ Excused(s, closed, t)
             /\ StoppedOK(s) => StoppedOK(closed)
             /\ Len(closed.trs) = Len(s.trs)
  <2>1. Sound(closed) /\ StartSame(s, closed) /\ Len(closed.trs) = Len(s.trs)
    BY <1>1, <1>3, OncloseKeeps
  <2>2. Excused(s, closed, t) /\ (StoppedOK(s) => StoppedOK(closed))
    BY <1>1, <1>3, OncloseExcuses
  <2> QED
    BY <2>1, <2>2 DEF StartSame
<1>4. CASE trs[t].kind = "LongPolling" /\ ~PollsOn(trs[t], result.raises)
  <2>1. PollEnded(x) \in Transports /\ Closes(x, PollEnded(x))
    BY <1>1, <1>2, <1>4, PollEndedCloses
  <2>2. closed = FireOnclose([s EXCEPT !.trs[t] = PollEnded(@)], t)
    BY <1>4 DEF Shut
  <2>3. [s EXCEPT !.trs[t] = PollEnded(@)] = With(s, t, PollEnded(x))
    BY <1>1, <1>2 DEF With, Clients
  <2>4. closed = FireOnclose(With(s, t, PollEnded(x)), t)
    BY <2>2, <2>3
  <2> QED
    BY <1>3, <2>1, <2>4
<1>5. CASE trs[t].kind = "ServerSentEvents" /\ result.raises
  <2>1. PICK y : y = [x EXCEPT !.raised = TRUE]
    OBVIOUS
  <2>2. y \in Transports /\ Closes(x, y)
    BY <1>2, <2>1 DEF Transports, Closes
  <2>3. closed = FireOnclose([s EXCEPT !.trs[t].raised = TRUE], t)
    BY <1>5 DEF Shut
  <2>4. [s EXCEPT !.trs[t].raised = TRUE] = With(s, t, y)
    BY <1>1, <1>2, <2>1 DEF With, Clients
  <2>5. closed = FireOnclose(With(s, t, y), t)
    BY <2>3, <2>4
  <2> QED
    BY <1>3, <2>2, <2>5
<1>6. CASE /\ ~(trs[t].kind = "LongPolling" /\ ~PollsOn(trs[t], result.raises))
           /\ ~(trs[t].kind = "ServerSentEvents" /\ result.raises)
  <2>1. closed = s
    BY <1>6 DEF Shut
  <2> QED
    BY <2>1 DEF Excused
<1> QED
  BY <1>4, <1>5, <1>6

\* What the onclose of t excuses of a step it still excuses of a longer one, which
\* leaves a Disconnected connection so.
LEMMA ExcusedOn ==
    ASSUME NEW q \in Clients, NEW s \in Clients, NEW z \in Clients, NEW r \in Clients,
           NEW t \in 1 .. Len(q.trs), Tidy(q, s), s.trs[t].told = q.trs[t].told,
           Excused(s, z, t), Len(z.trs) = Len(s.trs), Tidy(z, r),
           z.conn.state = "Disconnected" => r.conn.state = "Disconnected"
    PROVE  Excused(q, r, t)
<1> SUFFICES ASSUME NEW u \in 1 .. Len(q.trs), Stray(r, u), ~Stray(q, u)
             PROVE  Noticed(q, r, t) /\ (u # t \/ r.trs[t].raised)
  BY DEF Excused
<1>1. /\ u \in 1 .. Len(s.trs) /\ ~Stray(s, u) /\ Stray(z, u)
      /\ t \in 1 .. Len(z.trs) /\ t \in 1 .. Len(r.trs)
  BY DEF Tidy
<1>2. Noticed(s, z, t) /\ (u # t \/ z.trs[t].raised)
  BY <1>1 DEF Excused
<1>3. /\ r.trs[t].told >= z.trs[t].told /\ (z.trs[t].raised => r.trs[t].raised)
  BY <1>1 DEF Tidy
<1>4. /\ q.trs[t].told \in 0 .. 2 /\ z.trs[t].told \in 0 .. 2 /\ r.trs[t].told \in 0 .. 2
  BY <1>1, ClientFields DEF Transports
<1>6. \A i, j, k \in 0 .. 2 : i >= j /\ j > k => i > k
  OBVIOUS
<1>5. Noticed(q, r, t)
  <2>1. CASE z.trs[t].told > s.trs[t].told
    <3>1. z.trs[t].told > q.trs[t].told
      BY <2>1
    <3>2. r.trs[t].told > q.trs[t].told
      BY <1>3, <1>4, <1>6, <3>1
    <3> QED
      BY <3>2 DEF Noticed
  <2>2. CASE z.trs[t].told = 2 /\ z.conn.state = "Disconnected"
    <3>1. r.trs[t].told = 2
      BY <1>3, <1>4, <2>2
    <3> QED
      BY <2>2, <3>1 DEF Noticed
  <2> QED
    BY <1>2, <2>1, <2>2 DEF Noticed
<1> QED
  BY <1>2, <1>3, <1>5

LEMMA ReceiveKeeps ==
    ASSUME ClientInv, NEW t \in DOMAIN trs, NEW text \in Texts(t), Receive(t, text)
    PROVE  ClientInv' /\ Lossless
<1>1. PICK q, result : q = Client /\ result = Processed(hub, text)
  OBVIOUS
<1>2. PICK s, error : /\ s = Passed(t, result)
                      /\ error = IF result.error THEN trs[t].of ELSE None
  OBVIOUS
<1>3. PICK closed : closed = Shut(s, t, result)
  OBVIOUS
<1>4. PICK stopped : stopped = Stop(closed, error, "hub")
  OBVIOUS
<1>5. /\ trs[t].link = "open" /\ trs[t].wired
      /\ Become(IF result.stops THEN stopped ELSE closed)
  BY <1>1, <1>2, <1>3, <1>4, ReceiveIs
<1>6. /\ q \in Clients /\ q.trs = trs /\ t \in 1 .. Len(trs)
  BY <1>1, TheClient
<1>7. /\ Sound(s) /\ StartOK(s) /\ Tidy(q, s) /\ s \in Clients
      /\ ~result.stops => StoppedOK(s)
      /\ Len(s.trs) = Len(trs)
      /\ s.trs[t].link = "open" /\ s.trs[t].kind = trs[t].kind
      /\ s.trs[t].told = trs[t].told
  BY <1>1, <1>2, <1>5, PassedKeeps DEF Sound
<1>8. /\ Sound(closed) /\ StartOK(closed) /\ Excused(s, closed, t) /\ closed \in Clients
      /\ StoppedOK(s) => StoppedOK(closed)
      /\ Len(closed.trs) = Len(s.trs)
  BY <1>3, <1>6, <1>7, ShutKeeps DEF Sound
<1>9. error \in Errors
  <2>1. trs[t].of \in Errors
    BY TransportIs DEF TransportOK
  <2>2. None \in Errors
    BY Bounds DEF None, Errors
  <2> QED
    BY <1>2, <2>1, <2>2
<1>10. CASE result.stops
  <2>1. /\ Sound(stopped) /\ StartOK(stopped) /\ StoppedOK(stopped) /\ Tidy(closed, stopped)
        /\ stopped.conn.state = "Disconnected" /\ stopped \in Clients
    BY <1>4, <1>8, <1>9, StopKeeps DEF Sound
  <2>2. Excused(q, stopped, t)
    BY <1>6, <1>7, <1>8, <2>1, ExcusedOn
  <2> QED
    BY <1>1, <1>5, <1>10, <2>1, <2>2, BecomeExcused
<1>11. CASE ~result.stops
  <2>1. StoppedOK(closed)
    BY <1>7, <1>8, <1>11
  <2>2. Tidy(closed, closed)
    BY <1>8, SameTidy, ClientFields DEF Connections
  <2>3. Excused(q, closed, t)
    BY <1>6, <1>7, <1>8, <2>2, ExcusedOn
  <2> QED
    BY <1>1, <1>5, <1>8, <1>11, <2>1, <2>3, BecomeExcused
<1> QED
  BY <1>10, <1>11

----------------------------------------------------------------------------
(* The theorems *)

LEMMA InitIsSound == Init => ClientInv
<1> SUFFICES ASSUME Init PROVE ClientInv
  OBVIOUS
<1>1. /\ conn = [state |-> "Disconnected", transport |-> None, stopError |-> None,
                 keepAlive |-> FALSE]
      /\ att = [pc |-> "idle", no |-> 0, offer |-> <<>>, endpoint |-> 0,
                redirects |-> 0, lost |-> FALSE]
      /\ trs = <<>> /\ stops = <<>> /\ deletes = <<>> /\ hub = NewHub
  BY DEF Init
<1>2. PICK s : s = Client
  OBVIOUS
<1>3. /\ s.conn = conn /\ s.att = att /\ s.trs = trs /\ s.stops = stops
      /\ s.deletes = deletes /\ s.hub = hub
  BY <1>2, ClientIs
<1>4. conn \in Connections /\ att \in Attempts
  BY <1>1, Bounds DEF Connections, Errors, None, Attempts, StartPlaces
<1>5. NewHub \in Hubs
  BY MaxCallsIsNat DEF NewHub, Hubs, Ids, Calls, CallStates, NoCall, Fates
<1>6. /\ NewHub.timers = 0 /\ NewHub.handle = FALSE /\ NewHub.id = 0
      /\ \A i \in Ids : NewHub.callbacks[i] = NoCall
      /\ \A n \in Calls : /\ NewHub.calls[n].fate = "unused" /\ NewHub.calls[n].over = 0
                          /\ NewHub.calls[n].post = "none" /\ NewHub.calls[n].ends = 0
  BY DEF NewHub
<1>7. HubOK(hub)
  <2>1. \A n \in Calls : CallOK(NewHub, n)
    <3> SUFFICES ASSUME NEW n \in Calls PROVE CallOK(NewHub, n)
      OBVIOUS
    <3>1. n \in Nat /\ n > 0 /\ ~(n <= 0) /\ n - 1 \in Ids /\ n # NoCall
      BY MaxCallsIsNat DEF Calls, Ids, NoCall
    <3> QED
      BY <1>6, <3>1 DEF CallOK
  <2> QED
    BY <1>1, <1>5, <1>6, <2>1 DEF HubOK, CallsOK, TimerKnown
<1>8. Len(s.trs) = 0 /\ Len(s.deletes) = 0 /\ s.conn.transport = 0
  BY <1>1, <1>3 DEF None
<1>9. s \in Clients
  BY <1>1, <1>2, <1>4, <1>5 DEF Client, Clients
<1>10. /\ Placed(s) /\ DeletesOK(s) /\ InUse(s) /\ ConnectedOK(s) /\ WatchOK(s)
       /\ PolledOK(s) /\ StartOK(s) /\ StoppedOK(s)
  BY <1>1, <1>3, <1>8 DEF Placed, DeletesOK, InUse, ConnectedOK, WatchOK, PolledOK,
     StartOK, StoppedOK, None
<1>11. PathOK(s)
  BY <1>1, <1>3, <1>6 DEF PathOK
<1>12. \A t \in 1 .. Len(s.trs) : TransportOK(s.trs[t])
  BY <1>8
<1> QED
  BY <1>2, <1>3, <1>7, <1>9, <1>10, <1>11, <1>12 DEF Sound, ClientInv

LEMMA StepIsSound == ClientInv /\ [Next]_vars => ClientInv' /\ [Lossless]_vars
<1> SUFFICES ASSUME ClientInv, [Next]_vars PROVE ClientInv' /\ [Lossless]_vars
  OBVIOUS
<1>1. CASE StartAccepted
  BY <1>1, StartAcceptedKeeps
<1>2. CASE StartRejected
  BY <1>2, StartRejectedKeeps
<1>3. CASE UserStop
  BY <1>3, UserStopKeeps
<1>4. ASSUME NEW n \in Calls, Invoke(n) PROVE ClientInv' /\ Lossless
  BY <1>4, InvokeKeeps
<1>5. ASSUME NEW n \in Calls, Stream(n) PROVE ClientInv' /\ Lossless
  BY <1>5, StreamKeeps
<1>6. ASSUME NEW n \in Calls, Dispose(n) PROVE ClientInv' /\ Lossless
  BY <1>6, DisposeKeeps
<1>7. CASE Negotiated
  BY <1>7, NegotiatedKeeps
<1>8. CASE Renegotiated
  BY <1>8, RenegotiatedKeeps
<1>9. CASE TransportAnswers
  BY <1>9, TransportAnswersKeeps
<1>10. CASE HandshakePosted
  BY <1>10, HandshakePostedKeeps
<1>11. ASSUME NEW n \in Calls, CallPosted(n) PROVE ClientInv' /\ Lossless
  BY <1>11, CallPostedKeeps
<1>12. ASSUME NEW t \in DOMAIN trs, NEW text \in Texts(t), Receive(t, text)
       PROVE  ClientInv' /\ Lossless
  BY <1>12, ReceiveKeeps
<1>13. ASSUME NEW t \in DOMAIN trs,
              \/ SocketCloses(t) \/ SocketClosed(t) \/ SourceFails(t) \/ PollEnds(t)
              \/ SourceReopens(t) \/ ShutdownTimeout(t)
       PROVE  ClientInv' /\ Lossless
  BY <1>13, SocketClosesKeeps, SocketClosedKeeps, SourceFailsKeeps, PollEndsKeeps,
     SourceReopensKeeps, ShutdownTimeoutKeeps
<1>14. ASSUME NEW i \in DOMAIN deletes, DeleteAnswered(i) PROVE ClientInv' /\ Lossless
  BY <1>14, DeleteAnsweredKeeps
<1>15. CASE ServerTimeout
  BY <1>15, ServerTimeoutKeeps
<1>16. CASE UNCHANGED vars
  <2>1. Client' = Client
    BY <1>16 DEF vars, Client
  <2> QED
    BY <1>16, <2>1 DEF ClientInv
<1> QED
  BY <1>1, <1>2, <1>3, <1>4, <1>5, <1>6, <1>7, <1>8, <1>9, <1>10, <1>11, <1>12, <1>13,
     <1>14, <1>15, <1>16 DEF Next

LEMMA ClientInvariant == Spec => []ClientInv
BY InitIsSound, StepIsSound, PTL DEF Spec

\* What the invariant says of the variables.
LEMMA Variables ==
    ASSUME ClientInv
    PROVE  /\ DOMAIN trs = 1 .. Len(trs) /\ HubOK(hub)
           /\ \A t \in 1 .. Len(trs) : trs[t] \in Transports /\ TransportOK(trs[t])
           /\ conn.state = "Connected" =>
                /\ Len(trs) \in 1 .. Len(trs)
                /\ trs[Len(trs)].wired /\ trs[Len(trs)].told = 0
           /\ att.pc = "started" /\ conn.state = "Connected" /\ conn.transport # None =>
                hub.handle \/ hub.raised \/ Polled
           /\ \A n \in Calls : hub.calls[n].fate = "pending" => ToCome(trs[hub.calls[n].over])
<1>1. PICK s : s = Client
  OBVIOUS
<1>2. /\ Sound(s) /\ s.conn = conn /\ s.att = att /\ s.trs = trs /\ s.hub = hub
      /\ trs \in Seq(Transports) /\ Len(trs) \in Nat /\ DOMAIN trs = 1 .. Len(trs)
  BY <1>1, TheClient
<1>3. conn.state = "Connected" =>
        /\ Len(trs) \in 1 .. Len(trs)
        /\ trs[Len(trs)].wired /\ trs[Len(trs)].told = 0
  BY <1>2, EmptySeq DEF Sound, ConnectedOK
<1>4. \A t \in 1 .. Len(trs) : trs[t] \in Transports /\ TransportOK(trs[t])
  BY <1>2 DEF Sound
<1>5. conn.keepAlive => Polled
  BY <1>2 DEF Sound, PolledOK, Polled
<1> QED
  BY <1>2, <1>3, <1>4, <1>5 DEF Sound, WatchOK, PathOK

\* Every variable keeps its type, and names of transports are places in trs: the
\* transport in use and those whose DELETE is out have been constructed.
THEOREM TypeCorrect == Spec => []TypeOK
<1>1. ClientInv => TypeOK
  <2> SUFFICES ASSUME ClientInv PROVE TypeOK
    OBVIOUS
  <2>1. PICK s : s = Client
    OBVIOUS
  <2>2. /\ Sound(s) /\ s \in Clients /\ s.conn = conn /\ s.att = att /\ s.trs = trs
        /\ s.stops = stops /\ s.deletes = deletes /\ s.hub = hub
        /\ conn \in Connections /\ att \in Attempts /\ trs \in Seq(Transports)
        /\ hub \in Hubs /\ conn.transport \in 0 .. Len(trs)
    BY <2>1, TheClient
  <2>3. stops \in Seq(StopCalls) /\ deletes \in Seq(DeleteCalls)
    BY <2>2, ClientFields
  <2>4. \A i \in 1 .. Len(deletes) : deletes[i].transport \in 1 .. Len(trs)
    BY <2>2 DEF Sound, Placed
  <2>5. deletes \in Seq([by : {"user", "hub"}, transport : 1 .. Len(trs)])
    <3>1. \A i \in 1 .. Len(deletes) :
            deletes[i] \in [by : {"user", "hub"}, transport : 1 .. Len(trs)]
      <4> SUFFICES ASSUME NEW i \in 1 .. Len(deletes)
                   PROVE  deletes[i] \in [by : {"user", "hub"}, transport : 1 .. Len(trs)]
        OBVIOUS
      <4>1. deletes[i] \in DeleteCalls
        BY <2>3
      <4>2. deletes[i].transport \in 1 .. Len(trs)
        BY <2>4
      <4> QED
        BY <4>1, <4>2 DEF DeleteCalls
    <3>2. deletes = [i \in 1 .. Len(deletes) |-> deletes[i]] /\ Len(deletes) \in Nat
      BY <2>3
    <3> QED
      BY <3>1, <3>2, FunctionIsSeq
  <2> QED
    BY <2>2, <2>3, <2>5 DEF TypeOK, StopCalls, Attempts
<1> QED
  BY <1>1, ClientInvariant, PTL

\* cleanupTimeout before every configureTimeout: a server timeout that runs is the
\* one timeoutHandle names, and stop() and onclose can clear it.
THEOREM NoTimerOrphaned == Spec => []NoOrphanTimer
<1>1. ClientInv => NoOrphanTimer
  BY Variables DEF HubOK, TimerKnown, NoOrphanTimer
<1> QED
  BY <1>1, ClientInvariant, PTL

\* Whether the first message comes before or after the end of start(), a connection
\* that start() has reported is watched by a server timeout; unless an exception in
\* onreceive came between cleanupTimeout and configureTimeout, or a long polling
\* transport has been connected since the page was loaded, as inherentKeepAlive is
\* never reset.
THEOREM AlwaysWatched == Spec => []Watched
<1>1. ClientInv => Watched
  BY Variables DEF Watched
<1> QED
  BY <1>1, ClientInvariant, PTL

\* A Completion settles the call whose id it carries, on whatever connection it
\* comes: ids are not used again.
THEOREM OwnResult == Spec => []ResultIsOwn
<1>1. ClientInv => ResultIsOwn
  BY Variables DEF HubOK, CallsOK, CallOK, ResultIsOwn
<1> QED
  BY <1>1, ClientInvariant, PTL

\* Completion, connectionClosed and a rejected send each remove the callback they
\* call; only the rejection of a POST may come after one of the others.
THEOREM EndsHeardOnce == Spec => []EndsOnce
<1>1. ClientInv => EndsOnce
  BY Variables DEF HubOK, CallsOK, CallOK, EndsOnce
<1> QED
  BY <1>1, ClientInvariant, PTL

\* stopConnection ends every call at the onclose of a transport: as long as a call
\* waits, that of the transport it was sent over is still to come, or would be, had
\* the shutdown timer not aborted its poll.
THEOREM PathRemains == Spec => []PendingHasPath
<1>1. ClientInv => PendingHasPath
  BY Variables DEF ToCome, CloseDue, PendingHasPath
<1> QED
  BY <1>1, ClientInvariant, PTL

\* The client lets go of a connection that goes on at a late onclose of another
\* transport, a late answer to the DELETE of another, an exception in the onreceive of
\* an event source, and the opening of one that was given up.  In no other step, of
\* start(), stop() or a fallback, is one left running beside the transport in use.
THEOREM NoneLost == Spec => NothingLost
<1>1. ClientInv /\ [Next]_vars =>
        [\A t \in DOMAIN trs : ~Unknown(t) /\ Unknown(t)' => Loses(t)]_vars
  BY StepIsSound DEF Lossless
<1> QED
  BY <1>1, ClientInvariant, PTL DEF Spec, NothingLost

\* A transport calls onclose once, whichever of the server, the user, the network
\* and a timeout ends it; more often only an event source whose onreceive raised.
THEOREM OncloseOnce == Spec => []ReportedOnce
<1>1. ClientInv => ReportedOnce
  <2> SUFFICES ASSUME ClientInv, NEW t \in DOMAIN trs
               PROVE  trs[t].told < 2 \/ trs[t].raised
    BY DEF ReportedOnce
  <2> QED
    BY Variables DEF TransportOK
<1> QED
  BY <1>1, ClientInvariant, PTL

\* A Connected connection without a transport, which send() would run into, is left
\* over from a transport that has called no onclose yet.
THEOREM TransportOrOnclose == Spec => []HasTransport
<1>1. ClientInv => HasTransport
  BY Variables DEF HasTransport
<1> QED
  BY <1>1, ClientInvariant, PTL
=============================================================================
