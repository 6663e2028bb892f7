------------------------------ MODULE Secured -------------------------------
(***************************************************************************)
(* Connections over TLS (modules/native/tls_module.c): their table, which  *)
(* is not that of the TCP natives, the steps of tls_connect, each of which *)
(* may fail, and https_get, which takes its connection from one table or   *)
(* the other.  The TCP natives and OpenSSL are known by what they make.    *)
(***************************************************************************)
EXTENDS Integers, FiniteSets, FiniteSetsExt

CONSTANTS
    MAX_TLS_CONNECTIONS,    \* size of the table: 256
    MaxHeld,                \* bound: things of one kind the process may hold
    CAPACITY,               \* the first buffer of https_get: 16384, in pieces
    CHUNK,                  \* the most it takes at once: 4096, in the same pieces
    MaxReceived             \* bound: the pieces a peer sends

VARIABLES
    available,      \* the program was built with OpenSSL
    initialized,    \* g_tls_initialized
    connections,    \* what each handle owns: nothing when it is not in use
    held,           \* what the process has open or allocated
    attempt,        \* the tls_connect under way, or Idle
    plain,          \* what the TCP natives hold for https_get
    request,        \* the https_get under way, or Idle
    script          \* history: the handles the program was given and has not closed

securedVars == <<available, initialized, connections, held, attempt, plain, request, script>>

\* There is a table, and a buffer takes a chunk.
TableIsSound ==
    /\ MAX_TLS_CONNECTIONS \in Nat /\ MaxHeld \in Nat
    /\ CAPACITY \in Nat /\ CHUNK \in 1 .. CAPACITY

Idle    == [idle |-> TRUE]
Handles == 1 .. MAX_TLS_CONNECTIONS
InUse   == {h \in Handles : connections[h] # {}}
Kinds   == {"addrinfo", "fd", "ctx", "ssl"}
Things  == Kinds \X (1 .. MaxHeld)
New(k)  == <<k, Min({n \in 1 .. MaxHeld + 1 : <<k, n>> \notin held})>>
Of(things, kinds) == {x \in things : x[1] \in kinds}

----------------------------------------------------------------------------
(* tls_connect: its phases in order, what each makes, and what is freed    *)
(* when it fails.  Without OpenSSL the three in the middle are not there.  *)

Phases == IF available
          THEN <<"resolve", "socket", "connect", "context", "session", "handshake", "table">>
          ELSE <<"resolve", "socket", "connect", "table">>
Makes  == [resolve |-> {"addrinfo"}, socket |-> {"fd"}, connect |-> {},
           context |-> {"ctx"}, session |-> {"ssl"}, handshake |-> {}, table |-> {}]
Cleans == [resolve |-> {}, socket |-> {"addrinfo"}, connect |-> {"fd", "addrinfo"},
           context |-> {"fd"}, session |-> {"ctx", "fd"}, handshake |-> {"ssl", "ctx", "fd"},
           table |-> {"ssl", "ctx", "fd"}]
Phase  == Phases[attempt.phase]

\* Before the first connection, and again after tls_cleanup: the table is zeroed.
tls_init ==
    /\ initialized' = TRUE
    /\ connections' = IF initialized THEN connections ELSE [h \in Handles |-> {}]

\* The program calls it (`of` is then "script"), or https_get does.
tls_connect(of) ==
    /\ attempt = Idle /\ request = Idle
    /\ tls_init
    /\ attempt' = [of |-> of, phase |-> 1, made |-> {}]
    /\ UNCHANGED <<available, held, plain, request, script>>

PhaseSucceeds ==
    /\ attempt # Idle /\ Phase # "table"
    /\ LET made  == attempt.made \cup {New(k) : k \in Makes[Phase]}
           freed == IF Phase = "connect" THEN Of(made, {"addrinfo"}) ELSE {}
       IN  /\ made \subseteq Things
           /\ held' = (held \cup made) \ freed
           /\ attempt' = [attempt EXCEPT !.phase = @ + 1, !.made = made \ freed]
    /\ UNCHANGED <<available, initialized, connections, plain, request, script>>

PhaseFails ==
    /\ attempt # Idle
    /\ Phase = "table" => InUse = Handles
    /\ held' = held \ Of(attempt.made, Cleans[Phase])
    /\ attempt' = Idle
    /\ UNCHANGED <<available, initialized, connections, plain, request, script>>

Started(secure, handle) ==
    [secure |-> secure, handle |-> handle, total |-> 0, capacity |-> CAPACITY, ended |-> FALSE]

\* tls_alloc: the first free entry takes what the attempt made.
tls_alloc ==
    /\ attempt # Idle /\ Phase = "table" /\ InUse # Handles
    /\ LET h == Min(Handles \ InUse) IN
       /\ connections' = [connections EXCEPT ![h] = attempt.made]
       /\ IF attempt.of = "script"
          THEN script' = script \cup {h} /\ UNCHANGED request
          ELSE request' = Started(TRUE, h) /\ UNCHANGED script
    /\ attempt' = Idle
    /\ UNCHANGED <<available, initialized, held, plain>>

Connecting == PhaseSucceeds \/ PhaseFails \/ tls_alloc

----------------------------------------------------------------------------
(* The table.                                                              *)

\* A session is there only in a build with OpenSSL, which frees it.
tls_free(handles) ==
    /\ held' = held \ UNION {connections[h] : h \in handles}
    /\ connections' = [h \in Handles |-> IF h \in handles THEN {} ELSE connections[h]]

tls_close ==
    /\ attempt = Idle /\ request = Idle
    /\ \E h \in Handles : tls_free({h}) /\ script' = script \ {h}
    /\ UNCHANGED <<available, initialized, attempt, plain, request>>

tls_cleanup ==
    /\ attempt = Idle /\ request = Idle /\ initialized
    /\ tls_free(Handles) /\ script' = {}
    /\ initialized' = FALSE
    /\ UNCHANGED <<available, attempt, plain, request>>

----------------------------------------------------------------------------
(* https_get.  In a build without OpenSSL https:// is answered by a text.  *)

https_get(secure) ==
    /\ secure => available
    /\ IF secure THEN tls_connect("https_get")
       ELSE /\ attempt = Idle /\ request = Idle
            /\ New("fd") \in Things         \* net_tcp_connect; it may also fail
            /\ held' = held \cup {New("fd")} /\ plain' = plain \cup {New("fd")}
            /\ request' = Started(FALSE, 0)
            /\ UNCHANGED <<available, initialized, connections, attempt, script>>

\* Where tls_send and tls_recv put the data: the session, or the bare socket.
Channel(h) == IF Of(connections[h], {"ssl"}) # {} THEN "ssl" ELSE "fd"

Grown == IF request.total + CHUNK > request.capacity THEN 2 * request.capacity ELSE request.capacity

\* The pieces one call may bring: none when the connection has ended or failed.
tls_recv == 0 .. CHUNK

\* One turn of the loop: a chunk, or the end of the answer.  It has no limit
\* of its own.
ReceiveChunk ==
    /\ request # Idle /\ ~request.ended
    /\ \E received \in tls_recv :
          /\ request.total + received <= MaxReceived
          /\ request' = [request EXCEPT !.capacity = Grown, !.total = @ + received,
                                        !.ended = received = 0]
    /\ UNCHANGED <<available, initialized, connections, held, attempt, plain, script>>

\* The connection is closed, and a NUL put behind the answer.
EndRequest ==
    /\ request # Idle /\ request.ended
    /\ IF request.secure
       THEN tls_free({request.handle}) /\ UNCHANGED plain
       ELSE held' = held \ plain /\ plain' = {} /\ UNCHANGED connections
    /\ request' = Idle
    /\ UNCHANGED <<available, initialized, attempt, script>>

Init ==
    /\ available \in BOOLEAN /\ initialized = FALSE
    /\ connections = [h \in Handles |-> {}]
    /\ held = {} /\ plain = {} /\ script = {}
    /\ attempt = Idle /\ request = Idle

Next ==
    \/ tls_connect("script") \/ Connecting
    \/ tls_close \/ tls_cleanup
    \/ \E secure \in BOOLEAN : https_get(secure)
    \/ ReceiveChunk \/ EndRequest

Spec == Init /\ [][Next]_securedVars

----------------------------------------------------------------------------
TypeOK ==
    /\ available \in BOOLEAN /\ initialized \in BOOLEAN
    /\ connections \in [Handles -> SUBSET Things]
    /\ held \subseteq Things /\ plain \subseteq Of(held, {"fd"}) /\ script \subseteq Handles
    /\ attempt # Idle => attempt.phase \in DOMAIN Phases /\ attempt.made \subseteq Things
    /\ request # Idle => request.handle \in 0 .. MAX_TLS_CONNECTIONS

\* Whichever phase of a connection fails, and whatever was closed before,
\* every descriptor, context and session the process holds belongs to one
\* connection, to the attempt under way or to the TCP natives.
Made == IF attempt # Idle THEN attempt.made ELSE {}

NothingIsLeaked ==
    /\ held = (UNION {connections[h] : h \in InUse}) \cup Made \cup plain
    /\ \A g, h \in InUse : g # h => connections[g] \cap connections[h] = {}
    /\ \A h \in InUse : connections[h] \cap (Made \cup plain) = {}
    /\ Made \cap plain = {}

\* Between two calls the handles in use are those the program still holds.
HandlesAreGiven == attempt = Idle /\ request = Idle => InUse = script

\* The answer of https_get and the NUL behind it lie inside its buffer.
AnswerFits ==
    request # Idle =>
        /\ request.total <= request.capacity
        /\ request.ended => request.total < request.capacity

\* What is asked for over https goes through a session from the first byte to
\* the last, and nothing else does.
SecureMeansSession ==
    /\ request # Idle => request.secure = (request.handle \in InUse /\ Channel(request.handle) = "ssl")
    /\ \A h \in InUse : (Channel(h) = "ssl") = available
=============================================================================
