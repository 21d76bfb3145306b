----------------------------- MODULE MCSignalR ------------------------------
(***************************************************************************)
(* Instances of SignalRClient.                                             *)
(***************************************************************************)
EXTENDS SignalRClient

\* The first start falls back from an event source to a socket, or polls; the
\* second uses a socket.
MCOffers == <<{<<"ServerSentEvents", "WebSockets">>, <<"LongPolling">>},
              {<<"WebSockets">>}>>
MCSockets == <<{<<"WebSockets">>}, {<<"WebSockets">>}>>
MCKinds == [n \in Calls |-> IF n = 1 THEN "stream" ELSE "invoke"]
MCSupported == Kinds
=============================================================================
