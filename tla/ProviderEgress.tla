--------------------------- MODULE ProviderEgress ---------------------------
(***************************************************************************)
(* The relay between the worker and one model provider                     *)
(* (ops/provider_egress.py): handle_client runs once per connection, all   *)
(* of them in one event loop, so that a step lies between two awaits.  A   *)
(* timer fires at its time or later.  Of what is relayed only the moment   *)
(* matters; a host, a port and an address are values.                      *)
(***************************************************************************)
EXTENDS Commons, Integers, Sequences, FiniteSets, FiniteSetsExt, Functions

CONSTANTS AllowedHost, AllowedPort,
          PublicAddresses,
          MaxConnections,
          HeaderTimeout, ConnectTimeout, IdleTimeout,
          MaxHeader,
          MaxInstant          \* bound: the clock stops

\* RelayConfig.__post_init__.
ASSUME EgressAssumption ==
    {MaxConnections, HeaderTimeout, ConnectTimeout, IdleTimeout} \subseteq Nat \ {0}

VARIABLES instant,   \* loop.time()
          active,    \* _active_connections
          client,    \* what handle_client does for each connection
          traffic    \* what may arrive: requests, and answers of the resolver

egressVars == <<instant, active, client, traffic>>

Absent ==
    [phase |-> "absent", slot |-> FALSE, due |-> 0, answers |-> <<>>, upstream |-> Null,
     last |-> 0, cut |-> FALSE]

EgressInit(loads) ==
    /\ traffic \in loads
    /\ instant = 0
    /\ active = 0
    /\ client = [c \in traffic.clients |-> Absent]

Elapse ==
    /\ instant < MaxInstant
    /\ \E c \in traffic.clients : client[c].phase \notin {"absent", "over"}
    /\ instant' = instant + 1
    /\ UNCHANGED <<active, client, traffic>>

-----------------------------------------------------------------------------
(* Requests and addresses.                                                 *)

\* _read_connect_header and _validate_connect_request: the status of the
\* refusal, Null for a request that is let through.
RefusalOf(request) ==
    IF request.size > MaxHeader THEN 431
    ELSE IF ~request.complete \/ ~request.wellFormed THEN 400
    ELSE IF request.method # "CONNECT" THEN 405
    ELSE IF request.version # "HTTP/1.1" THEN 400
    ELSE IF request.host # AllowedHost \/ request.port # AllowedPort THEN 403
    ELSE IF ~request.headersSound THEN 400
    ELSE Null

\* resolve_public_endpoints: nothing, if any of the addresses is not public.
ResolvePublicEndpoints(addresses) ==
    IF Range(addresses) \subseteq PublicAddresses THEN addresses ELSE <<>>

\* _connect_first: the first that can be reached.
ConnectFirst(endpoints, reachable) ==
    LET open == {i \in DOMAIN endpoints : endpoints[i] \in reachable}
    IN  IF open = {} THEN Null ELSE endpoints[Min(open)]

-----------------------------------------------------------------------------
(* handle_client.                                                          *)

\* An answer, and then the writers are closed.
Closing(c, status) ==
    client' = [client EXCEPT ![c].phase = "closing", ![c].due = 0,
                             ![c].answers = IF status = Null THEN @ ELSE Append(@, status)]

Accept(c) ==
    /\ client[c].phase = "absent"
    /\ active < MaxConnections
    /\ active' = active + 1
    /\ client' = [client EXCEPT ![c] = [@ EXCEPT !.phase = "header", !.slot = TRUE,
                                                 !.due = instant + HeaderTimeout]]
    /\ UNCHANGED <<instant, traffic>>

TurnAway(c) ==
    /\ client[c].phase = "absent"
    /\ active >= MaxConnections
    /\ Closing(c, 503)
    /\ UNCHANGED <<instant, active, traffic>>

ReadHeader(c, request) ==
    /\ client[c].phase = "header"
    /\ RefusalOf(request) # Null => Closing(c, RefusalOf(request))
    /\ RefusalOf(request) = Null =>
         client' = [client EXCEPT ![c].phase = "connecting", ![c].due = instant + ConnectTimeout]
    /\ UNCHANGED <<instant, active, traffic>>

\* The timers of wait_for.
Expire(c) ==
    /\ client[c].phase \in {"header", "connecting"}
    /\ instant >= client[c].due
    /\ Closing(c, IF client[c].phase = "header" THEN 408 ELSE 504)
    /\ UNCHANGED <<instant, active, traffic>>

\* _resolve_and_connect.
Unreachable(c, found) ==
    /\ client[c].phase = "connecting"
    /\ ConnectFirst(ResolvePublicEndpoints(found.addresses), found.reachable) = Null
    /\ Closing(c, 502)
    /\ UNCHANGED <<instant, active, traffic>>

\* The timer of reject_idle starts with the tunnel.  Answering fails when
\* the client has gone.
Establish(c, found, gone) ==
    /\ client[c].phase = "connecting"
    /\ LET a == ConnectFirst(ResolvePublicEndpoints(found.addresses), found.reachable)
       IN  /\ a # Null
           /\ client' = [client EXCEPT ![c] =
                IF gone THEN [@ EXCEPT !.phase = "closing", !.upstream = a, !.due = 0]
                ELSE [@ EXCEPT !.phase = "tunnel", !.upstream = a,
                               !.answers = Append(client[c].answers, 200),
                               !.last = instant, !.due = instant + IdleTimeout]]
    /\ UNCHANGED <<instant, active, traffic>>

\* copy: a chunk, in either direction.
Copy(c) ==
    /\ client[c].phase = "tunnel"
    /\ client' = [client EXCEPT ![c].last = instant]
    /\ UNCHANGED <<instant, active, traffic>>

IsIdle(c) == instant - client[c].last >= IdleTimeout

\* What the relay says of a tunnel that has ended, or failed: nothing.
AfterTunnel == Null

RejectIdle(c) ==
    /\ client[c].phase = "tunnel"
    /\ instant >= client[c].due
    /\ client' = [client EXCEPT ![c] =
         IF IsIdle(c)
         THEN [@ EXCEPT !.phase = "closing", !.due = 0, !.cut = TRUE]
         ELSE [@ EXCEPT !.due = client[c].last + IdleTimeout]]
    /\ UNCHANGED <<instant, active, traffic>>

\* An end of file or an error, at any moment, on either side.
HangUp(c) ==
    /\ client[c].phase \in {"header", "tunnel"}
    /\ Closing(c, IF client[c].phase = "header" THEN 400 ELSE AfterTunnel)
    /\ UNCHANGED <<instant, active, traffic>>

\* Seeded fault: the slot comes back only from an established tunnel.
GivenBackByTunnels(c) == IF client[c].upstream = Null THEN active ELSE active - 1

GivenBack(c) == active - 1

\* The finally block: upstream, client, slot.
Close(c) ==
    /\ client[c].phase = "closing"
    /\ active' = IF client[c].slot THEN GivenBack(c) ELSE active
    /\ client' = [client EXCEPT ![c] = [Absent EXCEPT !.phase = "over"]]
    /\ UNCHANGED <<instant, traffic>>

EgressNext ==
    \/ Elapse
    \/ \E c \in traffic.clients :
         \/ Accept(c) \/ TurnAway(c) \/ Expire(c) \/ Copy(c) \/ RejectIdle(c) \/ HangUp(c) \/ Close(c)
         \/ \E request \in traffic.requests : ReadHeader(c, request)
         \/ \E found \in traffic.found :
              Unreachable(c, found) \/ \E gone \in BOOLEAN : Establish(c, found, gone)

EgressSpec(loads) == EgressInit(loads) /\ [][EgressNext]_egressVars

-----------------------------------------------------------------------------
(* Properties.                                                             *)

\* However a connection ends, refused, timed out, cut or hung up on: it holds
\* a slot until its sockets are closed and no longer, no more than allowed do,
\* and only they hold an upstream, which is public; it is answered once, so
\* that nothing is said into a tunnel; and only a tunnel through which nothing
\* came for as long as allowed is cut.
SlotsBalance ==
    /\ active = Cardinality({c \in traffic.clients : client[c].slot})
    /\ active <= MaxConnections
    /\ \A c \in traffic.clients :
         /\ client[c].upstream # Null => client[c].slot /\ client[c].upstream \in PublicAddresses
         /\ Len(client[c].answers) <= 1
         /\ client[c].cut => instant - client[c].last >= IdleTimeout
=============================================================================
