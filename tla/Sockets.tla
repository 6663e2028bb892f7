------------------------------ MODULE Sockets -------------------------------
(***************************************************************************)
(* The TCP natives (modules/native/net_module.c).  A program never sees a  *)
(* descriptor: it holds HANDLES, positions in one table of sockets, and a  *)
(* native is one call of the only thread that runs the program; what it    *)
(* waits for is the peer.  tcp_recv_all and http_get wait in a loop, one   *)
(* step of which is one poll() here.                                       *)
(*                                                                         *)
(* Natives that only read an entry (socket_stats, is_connected) or look up *)
(* names and addresses change none of this state.                          *)
(***************************************************************************)
EXTENDS Integers, FiniteSets, FiniteSetsExt

CONSTANTS
    MAX_SOCKETS,    \* size of the table: 1024
    Fds,            \* bound: the descriptors the process may have
    CAPACITY,       \* the first buffer of tcp_recv_all: 16384, in pieces
    CHUNK,          \* the most it takes at once: 8192, in the same pieces
    Timeout,        \* of tcp_recv_all, in seconds
    MaxReceived,    \* bound: the pieces a peer sends over one connection
    MaxSent         \* bound: the pieces the program sends over one

VARIABLES
    sockets,        \* the table: the descriptor of each handle, or no_fd
    stats,          \* the table: what each handle's counters say
    open,           \* descriptors the process has open
    moved,          \* history: what went over the connection of each open descriptor
    lost,           \* history: descriptors no table entry took
    script,         \* history: the handles the program was given and has not closed
    receiving       \* tcp_recv_all at work, or idle

vars == <<sockets, stats, open, moved, lost, script, receiving>>

no_fd   == -1
idle    == [handle |-> 0, total |-> 0, capacity |-> 0, elapsed |-> 0, http |-> FALSE]
nothing == [bytes_sent |-> 0, bytes_received |-> 0]
Handles == 1 .. MAX_SOCKETS
InUse   == {h \in Handles : sockets[h] # no_fd}
Idle    == receiving = idle

\* No descriptor is the one that stands for none, and what tcp_recv_all takes
\* at once fits its first buffer.
TableIsSound ==
    /\ MAX_SOCKETS \in Nat /\ IsFiniteSet(Fds) /\ no_fd \notin Fds
    /\ CAPACITY \in Nat /\ CHUNK \in 1 .. CAPACITY
    /\ Timeout \in Nat /\ MaxReceived \in Nat /\ MaxSent \in Nat

Init ==
    /\ sockets = [h \in Handles |-> no_fd]
    /\ stats = [h \in Handles |-> nothing]
    /\ moved = [fd \in Fds |-> nothing]
    /\ open = {} /\ lost = {} /\ script = {}
    /\ receiving = idle

----------------------------------------------------------------------------
(* The table                                                               *)

\* A handle that is not in use is left alone.
socket_free(h) ==
    /\ sockets' = [sockets EXCEPT ![h] = no_fd]
    /\ stats' = [stats EXCEPT ![h] = nothing]
    /\ open' = open \ {sockets[h]}
    /\ moved' = [fd \in Fds |-> IF fd = sockets[h] THEN nothing ELSE moved[fd]]

\* socket_alloc for a new descriptor; `full` is what its caller does with
\* the descriptor when it gets no handle.
socket_alloc(fd, full) ==
    IF InUse = Handles
    THEN /\ full
         /\ UNCHANGED <<sockets, stats, script>>
    ELSE /\ LET h == Min(Handles \ InUse) IN
            /\ sockets' = [sockets EXCEPT ![h] = fd]
            /\ stats' = [stats EXCEPT ![h] = nothing]
            /\ script' = script \cup {h}
         /\ open' = open \cup {fd}
         /\ UNCHANGED lost

----------------------------------------------------------------------------
(* Sockets the program asks for.  The calls may fail before they have a    *)
(* descriptor, or close the one they have: then nothing changes.           *)

net_tcp_connect ==
    /\ Idle
    /\ \E fd \in Fds \ open : socket_alloc(fd, UNCHANGED <<open, lost>>)
    /\ UNCHANGED <<moved, receiving>>

\* Neither of them looks at the handle it hands out.
LoseDescriptor(fd) == open' = open \cup {fd} /\ lost' = lost \cup {fd}

net_tcp_listen ==
    /\ Idle
    /\ \E fd \in Fds \ open : socket_alloc(fd, LoseDescriptor(fd))
    /\ UNCHANGED <<moved, receiving>>

net_tcp_accept ==
    /\ Idle /\ InUse # {}
    /\ \E fd \in Fds \ open : socket_alloc(fd, LoseDescriptor(fd))
    /\ UNCHANGED <<moved, receiving>>

net_tcp_close ==
    /\ Idle
    /\ \E h \in Handles : socket_free(h) /\ script' = script \ {h}
    /\ UNCHANGED <<lost, receiving>>

----------------------------------------------------------------------------
(* Data of a handle in use: a call that fails changes nothing.             *)

Received(h, n) == [stats EXCEPT ![h].bytes_received = @ + n]

net_tcp_send ==
    /\ Idle
    /\ \E h \in InUse, sent \in 1 .. CHUNK :
          /\ stats[h].bytes_sent + sent <= MaxSent
          /\ stats' = [stats EXCEPT ![h].bytes_sent = @ + sent]
          /\ moved' = [moved EXCEPT ![sockets[h]].bytes_sent = @ + sent]
    /\ UNCHANGED <<sockets, open, lost, script, receiving>>

net_tcp_recv ==
    /\ Idle
    /\ \E h \in InUse, received \in 1 .. CHUNK :
          /\ stats[h].bytes_received + received <= MaxReceived
          /\ stats' = Received(h, received)
          /\ moved' = [moved EXCEPT ![sockets[h]].bytes_received = @ + received]
    /\ UNCHANGED <<sockets, open, lost, script, receiving>>

----------------------------------------------------------------------------
(* tcp_recv_all, and http_get around it                                    *)

Started(h, http) ==
    [handle |-> h, total |-> 0, capacity |-> CAPACITY, elapsed |-> 0, http |-> http]

net_tcp_recv_all ==
    /\ Idle
    /\ \E h \in InUse : receiving' = Started(h, FALSE)
    /\ UNCHANGED <<sockets, stats, open, moved, lost, script>>

\* Its handle never reaches the program.  The request may not be sent, or
\* in part: it goes on all the same.
net_http_get ==
    /\ Idle /\ InUse # Handles
    /\ \E fd \in Fds \ open, sent \in 0 .. MaxSent :
          /\ LET h == Min(Handles \ InUse) IN
             /\ sockets' = [sockets EXCEPT ![h] = fd]
             /\ stats' = [stats EXCEPT ![h] = [nothing EXCEPT !.bytes_sent = sent]]
             /\ receiving' = Started(h, TRUE)
          /\ open' = open \cup {fd}
          /\ moved' = [moved EXCEPT ![fd].bytes_sent = @ + sent]
    /\ UNCHANGED <<lost, script>>

\* The loop is left and the call returns.
EndReceiving ==
    /\ IF receiving.http THEN socket_free(receiving.handle)
       ELSE UNCHANGED <<sockets, stats, open, moved>>
    /\ receiving' = idle
    /\ UNCHANGED <<lost, script>>

TimedOut == receiving.elapsed > Timeout

\* Faulty variant: the buffer grows when it is full, not when a chunk
\* might not fit.
GrownWhenFull == IF receiving.total >= receiving.capacity
                 THEN 2 * receiving.capacity ELSE receiving.capacity

Grown == IF receiving.total + CHUNK > receiving.capacity
         THEN 2 * receiving.capacity ELSE receiving.capacity

GiveUp == ~Idle /\ TimedOut /\ EndReceiving

\* poll() waits a second, or is interrupted at any time.
PollInVain ==
    /\ ~Idle /\ ~TimedOut
    /\ \/ receiving.total > 0 /\ EndReceiving
       \/ /\ receiving.total = 0
          /\ receiving' = [receiving EXCEPT !.elapsed = @ + 1]
          /\ UNCHANGED <<sockets, stats, open, moved, lost, script>>

\* Data came within the second, or the connection ended.
PollReady ==
    /\ ~Idle /\ ~TimedOut
    /\ \/ EndReceiving
       \/ /\ \E received \in 1 .. CHUNK, late \in 0 .. 1 :
                /\ stats[receiving.handle].bytes_received + received <= MaxReceived
                /\ receiving' = [receiving EXCEPT !.capacity = Grown,
                                                  !.total = @ + received,
                                                  !.elapsed = @ + late]
                /\ stats' = Received(receiving.handle, received)
                /\ moved' = [moved EXCEPT ![sockets[receiving.handle]].bytes_received =
                                              @ + received]
          /\ UNCHANGED <<sockets, open, lost, script>>

Next ==
    \/ net_tcp_connect
    \/ net_tcp_listen
    \/ net_tcp_accept
    \/ net_tcp_close
    \/ net_tcp_send
    \/ net_tcp_recv
    \/ net_tcp_recv_all
    \/ net_http_get
    \/ GiveUp
    \/ PollInVain
    \/ PollReady

Spec == Init /\ [][Next]_vars

----------------------------------------------------------------------------
(* Properties                                                              *)

TypeOK ==
    /\ sockets \in [Handles -> Fds \cup {no_fd}]
    /\ stats \in [Handles -> [bytes_sent : 0 .. MaxSent, bytes_received : 0 .. MaxReceived]]
    /\ moved \in [Fds -> [bytes_sent : Nat, bytes_received : Nat]]
    /\ open \subseteq Fds /\ lost \subseteq Fds
    /\ script \subseteq Handles
    /\ receiving \in [handle : {0} \cup Handles, total : 0 .. MaxReceived,
                      capacity : Nat, elapsed : Nat, http : BOOLEAN]

(***************************************************************************)
(* Every open descriptor is that of exactly one handle, or one of those    *)
(* that listen and accept dropped when the table was full: no sequence of  *)
(* calls, closing a handle twice included, makes two handles share a       *)
(* connection or leaves one open that nobody can close.                    *)
(***************************************************************************)
DescriptorsAreOwned ==
    /\ open = {sockets[h] : h \in InUse} \cup lost
    /\ Cardinality(open) = Cardinality(InUse) + Cardinality(lost)

(***************************************************************************)
(* Between two calls the entries in use are those whose handle the program *)
(* still holds: http_get leaves nothing behind, however its wait ended.    *)
(***************************************************************************)
HandlesAreGiven == Idle => InUse = script

(***************************************************************************)
(* The counters of a handle are what went over the connection it stands    *)
(* for now: none of an earlier connection of that handle, or of that       *)
(* descriptor, is left in them.                                            *)
(***************************************************************************)
StatsTellTheConnection == \A h \in InUse : stats[h] = moved[sockets[h]]

(***************************************************************************)
(* tcp_recv_all outlives its limit by no more than one poll, although the  *)
(* peer may send for ever.                                                 *)
(***************************************************************************)
ReceivingIsTimely == receiving.elapsed <= Timeout + 1

(***************************************************************************)
(* What recv() wrote lies inside the buffer of tcp_recv_all.               *)
(***************************************************************************)
ReceivedFits == receiving.total <= receiving.capacity
=============================================================================
