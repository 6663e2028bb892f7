----------------------------- MODULE WebSockets -----------------------------
(***************************************************************************)
(* The WebSocket driver (reactive/ws_driver.c): a server that accepts and  *)
(* polls its clients, and sockets that connect to servers of others.  A    *)
(* message or a state change sets a reactive node at once, whose effects   *)
(* may close any socket in the middle of the call that set it.             *)
(*                                                                         *)
(* Frames and what they carry are left out: what recv() finds is chosen    *)
(* where the code calls it.  Effects do no more than close sockets.        *)
(***************************************************************************)
EXTENDS Integers, Sequences, SequencesExt, FiniteSets

CONSTANTS
    Accepted,       \* WebSockets that ws_server_accept may create
    Connecting,     \* WebSockets that the program creates with a url
    Nobody,         \* no WebSocket
    Fds             \* bound: what accept() and socket() may return

VARIABLES
    ws,             \* from the WebSockets not destroyed to [state, state_node, fd]
    clients,        \* of the server
    clients_node,   \* its reactive node
    listen_fd,      \* its descriptor
    i,              \* the loop of ws_server_poll; 0: it is not running
    polled,         \* history: the clients this loop has polled
    announcing,     \* whose ws_connect or ws_server_accept has set a node and is not done
    open,           \* descriptors the process has open
    closed_twice,   \* history: a descriptor was closed that was not open
    replaced,       \* history: open descriptors that another took the place of
    told_late       \* history: clients closed before their node was told that they are open

server == <<clients, clients_node, listen_fd>>
loop == <<i, polled>>
vars == <<ws, server, loop, announcing, open, closed_twice, replaced, told_late>>

Objects == Accepted \cup Connecting
no_fd == -1

\* A WebSocket comes from the server or from the program, and a descriptor is
\* not negative.
SocketsAreDistinct ==
    /\ Accepted \cap Connecting = {} /\ IsFiniteSet(Accepted)
    /\ Nobody \notin Objects
    /\ Fds \subseteq Nat

Init ==
    /\ ws = [w \in {} |-> {}]
    /\ clients = << >> /\ clients_node = 0 /\ listen_fd = no_fd
    /\ i = 0 /\ polled = {} /\ announcing = Nobody
    /\ open = {} /\ replaced = {} /\ told_late = {}
    /\ closed_twice = FALSE

With(w, socket, sockets) ==
    [v \in DOMAIN sockets \cup {w} |-> IF v = w THEN socket ELSE sockets[v]]

\* Bound: what is called by the program alone, never by an effect.
Idle == i = 0 /\ announcing = Nobody

----------------------------------------------------------------------------
(* One WebSocket                                                           *)

ws_create(w) ==
    /\ w \in Connecting \ DOMAIN ws /\ Idle
    /\ ws' = With(w, [state |-> "closed", state_node |-> "closed", fd |-> no_fd], ws)
    /\ UNCHANGED <<server, loop, announcing, open, closed_twice, replaced, told_late>>

\* The state of the socket is not asked for: one that is open keeps its
\* descriptor until another takes its place.  The effects of the node run
\* before the name is looked up.
ws_connect(w) ==
    /\ w \in Connecting \cap DOMAIN ws /\ Idle
    /\ ws' = [ws EXCEPT ![w].state = "connecting", ![w].state_node = "connecting"]
    /\ announcing' = w
    /\ UNCHANGED <<server, loop, open, closed_twice, replaced, told_late>>

NameUnknown(w) ==
    /\ ws' = [ws EXCEPT ![w].state = "error", ![w].state_node = "error"]
    /\ UNCHANGED <<open, replaced>>

\* No descriptor is to be had, or the peer is not there: the node is not told.
NoConnection(w) ==
    /\ ws' = [ws EXCEPT ![w].state = "error", ![w].fd = no_fd]
    /\ replaced' = replaced \cup ({ws[w].fd} \ {no_fd})
    /\ UNCHANGED open

Connected(w) ==
    \E fd \in Fds \ open :
        /\ ws' = [ws EXCEPT ![w] = [state |-> "open", state_node |-> "open", fd |-> fd]]
        /\ open' = open \cup {fd}
        /\ replaced' = replaced \cup ({ws[w].fd} \ {no_fd})

EndConnect(w) ==
    /\ announcing = w /\ w \in Connecting
    /\ NameUnknown(w) \/ NoConnection(w) \/ Connected(w)
    /\ announcing' = Nobody
    /\ UNCHANGED <<server, loop, closed_twice, told_late>>

\* What ws_close makes of the sockets in `closing`, one by one.
Closed(closing) ==
    /\ ws' = [w \in DOMAIN ws |->
                 IF w \in closing THEN [state |-> "closed", state_node |-> "closed", fd |-> no_fd]
                 ELSE ws[w]]
    /\ open' = open \ {ws[w].fd : w \in closing}
    /\ closed_twice' = (closed_twice \/ \E w \in closing : ws[w].fd \notin open \cup {no_fd})
    /\ told_late' = told_late \ closing
    /\ UNCHANGED replaced

\* What ws_destroy makes of them.
Destroyed(gone) ==
    /\ ws' = [w \in DOMAIN ws \ gone |-> ws[w]]
    /\ open' = open \ {ws[w].fd : w \in gone}
    /\ closed_twice' = (closed_twice \/ \E w \in gone : ws[w].fd \notin open \cup {no_fd})
    /\ told_late' = told_late \ gone
    /\ UNCHANGED replaced

\* By the program, or by an effect or handler in the middle of another call.
ws_close(w) ==
    /\ w \in DOMAIN ws
    /\ Closed({w})
    /\ UNCHANGED <<server, loop, announcing>>

ws_destroy(w) ==
    /\ w \in Connecting \cap DOMAIN ws /\ Idle
    /\ Destroyed({w})
    /\ UNCHANGED <<server, loop, announcing>>

\* What comes of ws_poll: nothing, a message, a close frame or the end.  The
\* effects of the message may close any of the sockets; ws_close is called
\* for a close frame even when they closed the socket that got it.
Polled(w) ==
    \E effects \in SUBSET DOMAIN ws, close \in BOOLEAN :
        /\ ws[w].state # "open" => effects = {} /\ ~close
        /\ Closed(effects \cup (IF close THEN {w} ELSE {}))

ws_poll(w) ==
    /\ w \in Connecting \cap DOMAIN ws /\ Idle
    /\ Polled(w)
    /\ UNCHANGED <<server, loop, announcing>>

----------------------------------------------------------------------------
(* The server                                                              *)

\* A server that listens already loses its descriptor, whether socket(),
\* bind() and listen() succeed or not.
ws_server_listen ==
    /\ Idle
    /\ replaced' = replaced \cup ({listen_fd} \ {no_fd})
    /\ \/ listen_fd' = no_fd /\ UNCHANGED open
       \/ \E fd \in Fds \ open : listen_fd' = fd /\ open' = open \cup {fd}
    /\ UNCHANGED <<ws, clients, clients_node, loop, announcing, closed_twice, told_late>>

\* One round of the first loop of ws_server_poll, or a call by the program, as
\* far as clients_node, whose effects find the new client in the list.
ws_server_accept(w) ==
    /\ w \in Accepted \ DOMAIN ws /\ Idle /\ listen_fd # no_fd
    /\ \E fd \in Fds \ open :
          /\ ws' = With(w, [state |-> "open", state_node |-> "closed", fd |-> fd], ws)
          /\ open' = open \cup {fd}
    /\ clients' = Append(clients, w) /\ clients_node' = Len(clients')
    /\ announcing' = w
    /\ UNCHANGED <<listen_fd, loop, closed_twice, replaced, told_late>>

\* The node of the client is told that it is open, also when they closed it.
EndAccept(w) ==
    /\ announcing = w /\ w \in Accepted
    /\ ws' = [ws EXCEPT ![w].state_node = "open"]
    /\ told_late' = IF ws[w].state = "open" THEN told_late ELSE told_late \cup {w}
    /\ announcing' = Nobody
    /\ UNCHANGED <<server, loop, open, closed_twice, replaced>>

\* ws_server_poll polls clients whether or not it listens.
StartPolling ==
    /\ Idle /\ clients # << >>
    /\ i' = 1 /\ polled' = {}
    /\ UNCHANGED <<ws, server, announcing, open, closed_twice, replaced, told_late>>

PollClient ==
    /\ i \in DOMAIN clients /\ clients[i] \notin polled
    /\ polled' = polled \cup {clients[i]}
    /\ Polled(clients[i])
    /\ UNCHANGED <<server, i, announcing>>

\* Disconnected ones go; the next then takes their place.
RemoveDisconnected ==
    /\ i \in DOMAIN clients /\ clients[i] \in polled
    /\ IF ws[clients[i]].state = "closed"
       THEN /\ Destroyed({clients[i]})
            /\ clients' = RemoveAt(clients, i)
            /\ clients_node' = Len(clients')
            /\ UNCHANGED i
       ELSE /\ i' = i + 1
            /\ UNCHANGED <<ws, clients, clients_node, open, closed_twice, replaced, told_late>>
    /\ UNCHANGED <<listen_fd, polled, announcing>>

EndPolling ==
    /\ i > Len(clients)
    /\ i' = 0
    /\ UNCHANGED <<ws, server, polled, announcing, open, closed_twice, replaced, told_late>>

\* Faulty variant: clients are forgotten, not closed.
StopAccepting ==
    /\ Idle
    /\ ws' = [w \in DOMAIN ws \ ToSet(clients) |-> ws[w]]
    /\ open' = open \ {listen_fd}
    /\ told_late' = told_late \ ToSet(clients)
    /\ clients' = << >> /\ listen_fd' = no_fd
    /\ UNCHANGED <<clients_node, loop, announcing, closed_twice, replaced>>

\* Every client is closed, and closed once more by ws_destroy, then the
\* listening descriptor; clients_node is left as it is.  Not from an effect of
\* ws_server_poll, which would go on with the client that is gone.
ws_server_stop ==
    /\ Idle
    /\ ws' = [w \in DOMAIN ws \ ToSet(clients) |-> ws[w]]
    /\ LET fds == {listen_fd} \cup {ws[w].fd : w \in ToSet(clients)} IN
       /\ open' = open \ fds
       /\ closed_twice' = (closed_twice \/ ~(fds \subseteq open \cup {no_fd}))
    /\ told_late' = told_late \ ToSet(clients)
    /\ clients' = << >> /\ listen_fd' = no_fd
    /\ UNCHANGED <<clients_node, loop, announcing, replaced>>

Next ==
    \/ \E w \in Objects :
          \/ ws_create(w) \/ ws_connect(w) \/ EndConnect(w) \/ ws_close(w)
          \/ ws_destroy(w) \/ ws_poll(w) \/ ws_server_accept(w) \/ EndAccept(w)
    \/ ws_server_listen \/ ws_server_stop
    \/ StartPolling \/ PollClient \/ RemoveDisconnected \/ EndPolling

Spec == Init /\ [][Next]_vars

----------------------------------------------------------------------------
(* Properties                                                              *)

WsStates == {"closed", "connecting", "open", "error"}
WsSocket == [state : WsStates, state_node : WsStates, fd : Fds \cup {no_fd}]

\* Every variable holds a value of its C type; closing is only seen by effects.
TypeOK ==
    /\ DOMAIN ws \subseteq Objects /\ ws \in [DOMAIN ws -> WsSocket]
    /\ clients \in Seq(Accepted) /\ clients_node \in 0 .. Cardinality(Accepted)
    /\ listen_fd \in Fds \cup {no_fd} /\ closed_twice \in BOOLEAN
    /\ i \in 0 .. Len(clients) + 1 /\ polled \subseteq Accepted
    /\ announcing \in DOMAIN ws \cup {Nobody}
    /\ open \subseteq Fds /\ replaced \subseteq open /\ told_late \subseteq Accepted

\* The WebSockets and the server that have this descriptor.
Owners(fd) ==
    {w \in DOMAIN ws : ws[w].fd = fd} \cup (IF listen_fd = fd THEN {Nobody} ELSE {})

\* A client of the list is a WebSocket that exists, and is in it once; an open
\* descriptor is that of one WebSocket or of the server and is closed once, also
\* when effects close sockets while the server goes through its clients
\* (ws_driver.c:238-283, 472-524).  What has no owner is what ws_connect and
\* ws_server_listen wrote another descriptor over (ws_driver.c:129, 374): neither
\* asks whether there is one, and nothing closes it any more.
DescriptorsAreOwned ==
    /\ ToSet(clients) = Accepted \cap DOMAIN ws /\ IsInjective(clients)
    /\ ~closed_twice
    /\ \A fd \in open \ replaced : Cardinality(Owners(fd)) = 1
    /\ \A fd \in replaced : Owners(fd) = {}
    /\ \A w \in DOMAIN ws :
          /\ ws[w].fd \in open \cup {no_fd}
          /\ ws[w].state = "open" => ws[w].fd # no_fd
          /\ ws[w].state = "closed" => ws[w].fd = no_fd

\* ws_server_poll leaves no client out, whichever are removed on the way, and
\* what it leaves in the list as closed was closed by a later one
\* (ws_driver.c:481-502).
EveryClientIsPolled ==
    i > Len(clients) => ToSet(clients) \subseteq polled

\* The reactive nodes tell what the sockets are, with these exceptions: a
\* connection that failed after the name was found (ws_driver.c:127-147); a
\* client while the effects of its being one more run, and for as long as it
\* stays in the list, if they closed it (ws_driver.c:449-455); the number of
\* clients between ws_server_stop and the next one (ws_driver.c:505-524).
NodesTellTheState ==
    /\ \A w \in DOMAIN ws : ws[w].state_node # ws[w].state =>
          \/ /\ w \in Connecting
             /\ ws[w].state = "error" /\ ws[w].state_node \in {"connecting", "closed"}
          \/ w \in Accepted /\ announcing = w /\ ws[w].state_node = "closed"
          \/ w \in told_late /\ ws[w].state = "closed" /\ ws[w].state_node = "open"
    /\ clients # << >> => clients_node = Len(clients)

=============================================================================
