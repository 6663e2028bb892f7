-------------------------- MODULE DescriptorProofs ---------------------------
(***************************************************************************)
(* Proofs about the components that hold descriptors, for any number of    *)
(* them: the WebSocket driver, the table of sockets of the TCP natives and *)
(* the nodes of a cluster.  All of them must see to it that an open        *)
(* descriptor has one owner; how they do it differs, and so do the         *)
(* inductive invariants.                                                   *)
(***************************************************************************)
EXTENDS WebSockets, ListLemmas

(***************************************************************************)
(* The WebSocket driver.  The invariant has four parts: who has which      *)
(* descriptor, what the state of a socket says of it, the list of clients, *)
(* and the loop that polls them.                                           *)
(***************************************************************************)

\* What each WebSocket and the server has for a descriptor.
Held == [o \in DOMAIN ws \cup {Nobody} |-> IF o = Nobody THEN listen_fd ELSE ws[o].fd]

\* A descriptor that is open and not replaced is held by one.
HeldByOne(f, opened, gone) ==
    /\ gone \subseteq opened /\ opened \subseteq Fds
    /\ \A o \in DOMAIN f : f[o] \in (opened \ gone) \cup {no_fd}
    /\ \A o, p \in DOMAIN f : f[o] = f[p] => o = p \/ f[o] = no_fd
    /\ \A fd \in opened \ gone : \E o \in DOMAIN f : f[o] = fd

FdsSound ==
    /\ DOMAIN ws \subseteq Objects /\ ws \in [DOMAIN ws -> WsSocket]
    /\ closed_twice = FALSE
    /\ HeldByOne(Held, open, replaced)

StateSound(w) ==
    /\ ws[w].state = "open" => ws[w].fd # no_fd
    /\ ws[w].state = "closed" => ws[w].fd = no_fd
    /\ w \in Accepted => ws[w].state \in {"open", "closed"}
    /\ announcing = w /\ w \in Connecting => ws[w].state_node \in {"connecting", "closed"}
    /\ ws[w].state_node # ws[w].state =>
          \/ /\ w \in Connecting
             /\ ws[w].state = "error" /\ ws[w].state_node \in {"connecting", "closed"}
          \/ w \in Accepted /\ announcing = w /\ ws[w].state_node = "closed"
          \/ w \in told_late /\ ws[w].state = "closed" /\ ws[w].state_node = "open"

StatesSound ==
    /\ told_late \subseteq Accepted /\ announcing \in DOMAIN ws \cup {Nobody}
    /\ \A w \in DOMAIN ws : StateSound(w)

\* The clients are the accepted sockets that exist.
ListSound ==
    /\ clients \in Seq(Accepted) /\ IsInjective(clients)
    /\ ToSet(clients) = Accepted \cap DOMAIN ws
    /\ clients_node \in 0 .. Cardinality(Accepted)
    /\ clients # << >> => clients_node = Len(clients)

\* What the loop of ws_server_poll has behind it was polled.
LoopSound ==
    /\ i \in 0 .. Len(clients) + 1 /\ polled \subseteq Accepted
    /\ i # 0 => announcing = Nobody
    /\ \A k \in DOMAIN clients : k < i => clients[k] \in polled

IInv == FdsSound /\ StatesSound /\ ListSound /\ LoopSound

----------------------------------------------------------------------------
(* Descriptors                                                             *)

\* The owner o takes fd, and has no longer what it had.
Takes(f, g, o, fd, old) ==
    /\ DOMAIN g = DOMAIN f \cup {o} /\ g[o] = fd
    /\ \A p \in DOMAIN f : p # o => g[p] = f[p]
    /\ old = {f[p] : p \in DOMAIN f \cap {o}} \ {no_fd}

\* Those in S have no longer what they had.
Gives(f, g, S, given) ==
    /\ S \subseteq DOMAIN f /\ DOMAIN g \subseteq DOMAIN f
    /\ \A p \in DOMAIN f \ S : p \in DOMAIN g /\ g[p] = f[p]
    /\ \A p \in S \cap DOMAIN g : g[p] = no_fd
    /\ given = {f[p] : p \in S}

(* One takes a new descriptor, or none, and loses the one that it has.     *)
LEMMA TakeKeeps ==
  ASSUME SocketsAreDistinct, NEW f, NEW g, NEW opened, NEW gone, HeldByOne(f, opened, gone),
         NEW o, NEW fd \in (Fds \ opened) \cup {no_fd}, NEW old, Takes(f, g, o, fd, old)
  PROVE  HeldByOne(g, opened \cup ({fd} \ {no_fd}), gone \cup old)
<1>0. /\ DOMAIN g = DOMAIN f \cup {o} /\ g[o] = fd
      /\ \A p \in DOMAIN f : p # o => g[p] = f[p]
      /\ old = {f[p] : p \in DOMAIN f \cap {o}} \ {no_fd}
  BY DEF Takes
<1>1. no_fd \notin Fds
  BY DEF SocketsAreDistinct, no_fd
<1>2. /\ gone \subseteq opened /\ opened \subseteq Fds
      /\ \A p \in DOMAIN f : f[p] \in (opened \ gone) \cup {no_fd}
      /\ \A p, q \in DOMAIN f : f[p] = f[q] => p = q \/ f[p] = no_fd
      /\ \A d \in opened \ gone : \E p \in DOMAIN f : f[p] = d
  BY DEF HeldByOne
<1> DEFINE more == opened \cup ({fd} \ {no_fd})
           less == gone \cup old
<1>3. less \subseteq more /\ more \subseteq Fds
  BY <1>0, <1>1, <1>2
<1>4. fd \notin opened /\ fd \notin less
  BY <1>0, <1>1, <1>2
<1>5. \A p \in DOMAIN f : p # o /\ f[p] # no_fd => f[p] \notin less
  BY <1>0, <1>2
<1>6. ASSUME NEW p \in DOMAIN g PROVE g[p] \in (more \ less) \cup {no_fd}
  <2>1. CASE p = o
    BY <1>0, <1>4, <2>1
  <2>2. CASE p # o
    BY <1>0, <1>2, <1>5, <2>2
  <2> QED
    BY <2>1, <2>2
<1>7. ASSUME NEW p \in DOMAIN g, NEW q \in DOMAIN g, g[p] = g[q], p # q PROVE g[p] = no_fd
  <2>1. CASE p = o
    BY <1>0, <1>2, <1>4, <1>7, <2>1
  <2>2. CASE q = o
    BY <1>0, <1>2, <1>4, <1>7, <2>2
  <2>3. CASE p # o /\ q # o
    BY <1>0, <1>2, <1>7, <2>3
  <2> QED
    BY <2>1, <2>2, <2>3
<1>8. ASSUME NEW d \in more \ less PROVE \E p \in DOMAIN g : g[p] = d
  <2>1. CASE d = fd
    BY <1>0, <2>1
  <2>2. CASE d # fd
    <3>1. d \in opened \ gone /\ d \notin old /\ d # no_fd
      BY <1>0, <1>1, <1>2, <2>2
    <3>2. PICK p \in DOMAIN f : f[p] = d
      BY <1>0, <1>2, <3>1
    <3>3. p # o
      BY <1>0, <3>1, <3>2
    <3> QED
      BY <1>0, <3>2, <3>3
  <2> QED
    BY <2>1, <2>2
<1> QED
  BY <1>0, <1>3, <1>6, <1>7, <1>8 DEF HeldByOne

(* Some give back what they have.                                          *)
LEMMA GiveKeeps ==
  ASSUME SocketsAreDistinct, NEW f, NEW g, NEW opened, NEW gone, HeldByOne(f, opened, gone),
         NEW S, NEW given, Gives(f, g, S, given)
  PROVE  HeldByOne(g, opened \ given, gone) /\ given \subseteq opened \cup {no_fd}
<1>0. /\ S \subseteq DOMAIN f /\ DOMAIN g \subseteq DOMAIN f
      /\ \A p \in DOMAIN f \ S : p \in DOMAIN g /\ g[p] = f[p]
      /\ \A p \in S \cap DOMAIN g : g[p] = no_fd
      /\ given = {f[p] : p \in S}
  BY DEF Gives
<1>1. no_fd \notin Fds
  BY DEF SocketsAreDistinct, no_fd
<1>2. /\ gone \subseteq opened /\ opened \subseteq Fds
      /\ \A p \in DOMAIN f : f[p] \in (opened \ gone) \cup {no_fd}
      /\ \A p, q \in DOMAIN f : f[p] = f[q] => p = q \/ f[p] = no_fd
      /\ \A d \in opened \ gone : \E p \in DOMAIN f : f[p] = d
  BY DEF HeldByOne
<1>3. given \subseteq (opened \ gone) \cup {no_fd}
  BY <1>0, <1>2
<1>4. \A p \in DOMAIN f \ S : f[p] # no_fd => f[p] \notin given
  BY <1>0, <1>2
<1>5. gone \subseteq opened \ given /\ opened \ given \subseteq Fds
  BY <1>0, <1>1, <1>2, <1>3
<1>6. ASSUME NEW p \in DOMAIN g PROVE g[p] \in ((opened \ given) \ gone) \cup {no_fd}
  <2>1. CASE p \in S
    BY <1>0, <2>1
  <2>2. CASE p \notin S
    BY <1>0, <1>2, <1>4, <2>2
  <2> QED
    BY <2>1, <2>2
<1>7. ASSUME NEW p \in DOMAIN g, NEW q \in DOMAIN g, g[p] = g[q], p # q PROVE g[p] = no_fd
  BY <1>0, <1>2, <1>7
<1>8. ASSUME NEW d \in (opened \ given) \ gone PROVE \E p \in DOMAIN g : g[p] = d
  <2>1. PICK p \in DOMAIN f : f[p] = d
    BY <1>0, <1>2
  <2>2. p \notin S
    BY <1>0, <2>1
  <2> QED
    BY <1>0, <2>1, <2>2
<1> QED
  BY <1>0, <1>3, <1>5, <1>6, <1>7, <1>8 DEF HeldByOne

(* What each has, socket by socket.                                        *)
LEMMA HeldFacts ==
  ASSUME SocketsAreDistinct, DOMAIN ws \subseteq Objects
  PROVE  /\ DOMAIN Held = DOMAIN ws \cup {Nobody} /\ Nobody \notin DOMAIN ws
         /\ Held[Nobody] = listen_fd /\ \A w \in DOMAIN ws : Held[w] = ws[w].fd
BY DEF Held, SocketsAreDistinct

LEMMA HeldFactsNext ==
  ASSUME SocketsAreDistinct, DOMAIN ws' \subseteq Objects
  PROVE  /\ DOMAIN Held' = DOMAIN ws' \cup {Nobody} /\ Nobody \notin DOMAIN ws'
         /\ Held'[Nobody] = listen_fd' /\ \A w \in DOMAIN ws' : Held'[w] = ws'[w].fd
BY DEF Held, SocketsAreDistinct

(* A socket that no step touches stays sound.                              *)
LEMMA UntouchedKeeps ==
  ASSUME NEW w, StateSound(w), ws'[w] = ws[w], w \in told_late' <=> w \in told_late,
         announcing' = w <=> announcing = w
  PROVE  StateSound(w)'
BY DEF StateSound

----------------------------------------------------------------------------
(* The sockets                                                             *)

\* The sockets after a step that sets or adds w.
Sets(w, socket) ==
    /\ DOMAIN ws' = DOMAIN ws \cup {w} /\ ws'[w] = socket
    /\ ws' \in [DOMAIN ws' -> WsSocket]
    /\ \A v \in DOMAIN ws : v # w => ws'[v] = ws[v]

(* A socket keeps its descriptor, and one that is new has none.            *)
LEMMA KeepsItsFd ==
  ASSUME SocketsAreDistinct, FdsSound, NEW w \in Objects, NEW socket \in WsSocket,
         Sets(w, socket), IF w \in DOMAIN ws THEN socket.fd = ws[w].fd ELSE socket.fd = no_fd,
         UNCHANGED <<listen_fd, open, replaced, closed_twice>>
  PROVE  FdsSound'
<1>1. /\ DOMAIN ws \subseteq Objects /\ HeldByOne(Held, open, replaced) /\ closed_twice = FALSE
  BY DEF FdsSound
<1>2. /\ DOMAIN ws' = DOMAIN ws \cup {w} /\ ws'[w] = socket /\ ws' \in [DOMAIN ws' -> WsSocket]
      /\ \A v \in DOMAIN ws : v # w => ws'[v] = ws[v]
  BY DEF Sets
<1>3. DOMAIN ws' \subseteq Objects
  BY <1>1, <1>2
<1> DEFINE f == Held
           g == Held'
<1>4. /\ DOMAIN f = DOMAIN ws \cup {Nobody} /\ Nobody \notin DOMAIN ws
      /\ f[Nobody] = listen_fd /\ \A v \in DOMAIN ws : f[v] = ws[v].fd
  BY <1>1, HeldFacts
<1>5. /\ DOMAIN g = DOMAIN ws' \cup {Nobody} /\ Nobody \notin DOMAIN ws'
      /\ g[Nobody] = listen_fd' /\ \A v \in DOMAIN ws' : g[v] = ws'[v].fd
  BY <1>3, HeldFactsNext
<1>6. HeldByOne(f, open, replaced)
  BY <1>1
<1> HIDE DEF f, g
<1>7. HeldByOne(g, open, replaced)
  <2>1. CASE w \in DOMAIN ws
    <3>1. DOMAIN g = DOMAIN f /\ \A p \in DOMAIN f : g[p] = f[p]
      BY <1>2, <1>4, <1>5, <2>1
    <3> QED
      BY <1>6, <3>1 DEF HeldByOne
  <2>2. CASE w \notin DOMAIN ws
    <3>1. /\ DOMAIN g = DOMAIN f \cup {w} /\ g[w] = no_fd
          /\ \A p \in DOMAIN f : g[p] = f[p]
      BY <1>2, <1>4, <1>5, <2>2
    <3> QED
      BY <1>6, <3>1 DEF HeldByOne
  <2> QED
    BY <2>1, <2>2
<1> QED
  BY <1>1, <1>2, <1>3, <1>7 DEF FdsSound, g

(* A socket is given a new descriptor or none.                             *)
LEMMA TakesAnFd ==
  ASSUME SocketsAreDistinct, FdsSound, NEW w \in Objects, NEW socket \in WsSocket,
         Sets(w, socket), socket.fd \in (Fds \ open) \cup {no_fd},
         UNCHANGED <<listen_fd, closed_twice>>,
         open' = open \cup ({socket.fd} \ {no_fd}),
         replaced' = replaced \cup ({ws[v].fd : v \in DOMAIN ws \cap {w}} \ {no_fd})
  PROVE  FdsSound'
<1>1. /\ DOMAIN ws \subseteq Objects /\ HeldByOne(Held, open, replaced) /\ closed_twice = FALSE
  BY DEF FdsSound
<1>2. /\ DOMAIN ws' = DOMAIN ws \cup {w} /\ ws'[w] = socket /\ ws' \in [DOMAIN ws' -> WsSocket]
      /\ \A v \in DOMAIN ws : v # w => ws'[v] = ws[v]
  BY DEF Sets
<1>3. DOMAIN ws' \subseteq Objects
  BY <1>1, <1>2
<1> DEFINE f == Held
           g == Held'
           old == {f[p] : p \in DOMAIN f \cap {w}} \ {no_fd}
<1>4. /\ DOMAIN f = DOMAIN ws \cup {Nobody} /\ Nobody \notin DOMAIN ws
      /\ f[Nobody] = listen_fd /\ \A v \in DOMAIN ws : f[v] = ws[v].fd
  BY <1>1, HeldFacts
<1>5. /\ DOMAIN g = DOMAIN ws' \cup {Nobody} /\ Nobody \notin DOMAIN ws'
      /\ g[Nobody] = listen_fd' /\ \A v \in DOMAIN ws' : g[v] = ws'[v].fd
  BY <1>3, HeldFactsNext
<1>6. HeldByOne(f, open, replaced)
  BY <1>1
<1> HIDE DEF f, g
<1>7. /\ DOMAIN g = DOMAIN f \cup {w} /\ g[w] = socket.fd
      /\ \A p \in DOMAIN f : p # w => g[p] = f[p]
  BY <1>2, <1>4, <1>5
<1>8. replaced' = replaced \cup old
  <2>1. DOMAIN f \cap {w} = DOMAIN ws \cap {w}
    BY <1>2, <1>4, <1>5
  <2>2. {f[p] : p \in DOMAIN f \cap {w}} = {ws[v].fd : v \in DOMAIN ws \cap {w}}
    BY <1>4, <2>1
  <2> QED
    BY <2>2
<1>9. HeldByOne(g, open \cup ({socket.fd} \ {no_fd}), replaced \cup old)
  <2> HIDE DEF old
  <2>1. Takes(f, g, w, socket.fd, old)
    BY <1>7 DEF old, Takes
  <2> QED
    BY <1>6, <2>1, TakeKeeps
<1> QED
  BY <1>1, <1>2, <1>3, <1>8, <1>9 DEF FdsSound, g

(* Closing gives back the descriptors of the sockets that are closed and   *)
(* no other.                                                               *)
LEMMA ClosedKeeps ==
  ASSUME SocketsAreDistinct, FdsSound, StatesSound, NEW C \in SUBSET DOMAIN ws, Closed(C),
         UNCHANGED <<listen_fd, announcing>>
  PROVE  FdsSound' /\ StatesSound' /\ DOMAIN ws' = DOMAIN ws
<1> DEFINE shut == [state |-> "closed", state_node |-> "closed", fd |-> no_fd]
           given == {ws[w].fd : w \in C}
<1>1. /\ DOMAIN ws \subseteq Objects /\ ws \in [DOMAIN ws -> WsSocket]
      /\ HeldByOne(Held, open, replaced) /\ closed_twice = FALSE
  BY DEF FdsSound
<1>2. /\ DOMAIN ws' = DOMAIN ws
      /\ \A v \in DOMAIN ws : ws'[v] = IF v \in C THEN shut ELSE ws[v]
      /\ ws' = [v \in DOMAIN ws' |-> ws'[v]]
      /\ open' = open \ given
      /\ closed_twice' = (closed_twice \/ \E w \in C : ws[w].fd \notin open \cup {no_fd})
      /\ told_late' = told_late \ C /\ replaced' = replaced
  BY DEF Closed
<1>3. shut \in WsSocket /\ shut.fd = no_fd /\ shut.state = "closed" /\ shut.state_node = "closed"
  BY DEF WsSocket, WsStates
<1>4. \A v \in C : ws[v].fd \in given
  OBVIOUS
<1> HIDE DEF shut
<1> DEFINE f == Held
           g == Held'
<1>5. /\ DOMAIN f = DOMAIN ws \cup {Nobody} /\ Nobody \notin DOMAIN ws
      /\ f[Nobody] = listen_fd /\ \A v \in DOMAIN ws : f[v] = ws[v].fd
  BY <1>1, HeldFacts
<1>6. /\ DOMAIN g = DOMAIN ws' \cup {Nobody} /\ Nobody \notin DOMAIN ws'
      /\ g[Nobody] = listen_fd' /\ \A v \in DOMAIN ws' : g[v] = ws'[v].fd
  BY <1>1, <1>2, HeldFactsNext
<1>7. HeldByOne(f, open, replaced)
  BY <1>1
<1> HIDE DEF f, g
<1>8. HeldByOne(g, open \ given, replaced) /\ given \subseteq open \cup {no_fd}
  <2>1. C \in SUBSET DOMAIN f /\ DOMAIN g \subseteq DOMAIN f
    BY <1>2, <1>5, <1>6
  <2>2. \A p \in DOMAIN f \ C : p \in DOMAIN g /\ g[p] = f[p]
    BY <1>2, <1>5, <1>6
  <2>3. \A p \in C \cap DOMAIN g : g[p] = no_fd
    BY <1>2, <1>3, <1>5, <1>6
  <2>4. given = {f[p] : p \in C}
    BY <1>5
  <2> HIDE DEF given
  <2>5. Gives(f, g, C, given)
    BY <2>1, <2>2, <2>3, <2>4 DEF Gives
  <2> QED
    BY <1>7, <2>5, GiveKeeps
<1>9. closed_twice' = FALSE
  BY <1>1, <1>2, <1>4, <1>8
<1>10. ws' \in [DOMAIN ws' -> WsSocket]
  <2>1. \A v \in DOMAIN ws' : ws'[v] \in WsSocket
    BY <1>1, <1>2, <1>3
  <2> QED
    BY <1>2, <2>1
<1>11. FdsSound'
  BY <1>1, <1>2, <1>8, <1>9, <1>10 DEF FdsSound, g
<1>12. ASSUME NEW w \in DOMAIN ws' PROVE StateSound(w)'
  <2>1. StateSound(w)
    BY <1>2 DEF StatesSound
  <2>2. CASE w \in C
    BY <1>2, <1>3, <2>2 DEF StateSound
  <2>3. CASE w \notin C
    BY <1>2, <2>1, <2>3, UntouchedKeeps
  <2> QED
    BY <2>2, <2>3
<1>13. StatesSound'
  BY <1>2, <1>12 DEF StatesSound
<1> QED
  BY <1>2, <1>11, <1>13

(* So does destroying sockets, and stopping the server.                    *)
LEMMA RemovedKeeps ==
  ASSUME SocketsAreDistinct, FdsSound, StatesSound, NEW D \in SUBSET DOMAIN ws,
         NEW stops \in BOOLEAN,
         ws' = [v \in DOMAIN ws \ D |-> ws[v]],
         listen_fd' = IF stops THEN no_fd ELSE listen_fd,
         NEW fds, fds = {ws[w].fd : w \in D} \cup (IF stops THEN {listen_fd} ELSE {}),
         open' = open \ fds,
         fds \subseteq open \cup {no_fd} => closed_twice' = closed_twice,
         told_late' = told_late \ D, replaced' = replaced,
         announcing' = announcing, announcing \notin D
  PROVE  FdsSound' /\ StatesSound' /\ DOMAIN ws' = DOMAIN ws \ D
<1>1. /\ DOMAIN ws \subseteq Objects /\ ws \in [DOMAIN ws -> WsSocket]
      /\ HeldByOne(Held, open, replaced) /\ closed_twice = FALSE
  BY DEF FdsSound
<1>2. DOMAIN ws' = DOMAIN ws \ D /\ \A v \in DOMAIN ws' : ws'[v] = ws[v]
  OBVIOUS
<1> DEFINE f == Held
           g == Held'
           S == D \cup (IF stops THEN {Nobody} ELSE {})
<1>3. /\ DOMAIN f = DOMAIN ws \cup {Nobody} /\ Nobody \notin DOMAIN ws
      /\ f[Nobody] = listen_fd /\ \A v \in DOMAIN ws : f[v] = ws[v].fd
  BY <1>1, HeldFacts
<1>4. /\ DOMAIN g = DOMAIN ws' \cup {Nobody} /\ Nobody \notin DOMAIN ws'
      /\ g[Nobody] = listen_fd' /\ \A v \in DOMAIN ws' : g[v] = ws'[v].fd
  BY <1>1, <1>2, HeldFactsNext
<1>5. HeldByOne(f, open, replaced)
  BY <1>1
<1> HIDE DEF f, g
<1>6. HeldByOne(g, open \ fds, replaced) /\ fds \subseteq open \cup {no_fd}
  <2>1. S \in SUBSET DOMAIN f /\ DOMAIN g \subseteq DOMAIN f
    BY <1>2, <1>3, <1>4
  <2>2. \A p \in DOMAIN f \ S : p \in DOMAIN g /\ g[p] = f[p]
    BY <1>2, <1>3, <1>4
  <2>3. \A p \in S \cap DOMAIN g : g[p] = no_fd
    BY <1>2, <1>3, <1>4
  <2>4. fds = {f[p] : p \in S}
    BY <1>3
  <2> HIDE DEF S
  <2>5. Gives(f, g, S, fds)
    BY <2>1, <2>2, <2>3, <2>4 DEF Gives
  <2> QED
    BY <1>5, <2>5, GiveKeeps
<1>7. closed_twice' = FALSE
  BY <1>1, <1>6
<1>8. ws' \in [DOMAIN ws' -> WsSocket]
  BY <1>1, <1>2
<1>9. FdsSound'
  BY <1>1, <1>2, <1>6, <1>7, <1>8 DEF FdsSound, g
<1>10. ASSUME NEW w \in DOMAIN ws' PROVE StateSound(w)'
  <2>1. StateSound(w) /\ w \notin D /\ ws'[w] = ws[w]
    BY <1>2 DEF StatesSound
  <2> QED
    BY <2>1, UntouchedKeeps
<1>11. StatesSound'
  BY <1>2, <1>10 DEF StatesSound
<1> QED
  BY <1>2, <1>9, <1>11

----------------------------------------------------------------------------
(* The clients                                                             *)

(* What the invariant says of the list, element by element.                *)
LEMMA Clients ==
  ASSUME ListSound
  PROVE  /\ Len(clients) \in Nat /\ DOMAIN clients = 1 .. Len(clients)
         /\ \A k \in DOMAIN clients : clients[k] \in Accepted \cap DOMAIN ws
<1>1. clients \in Seq(Accepted) /\ ToSet(clients) = Accepted \cap DOMAIN ws
  BY DEF ListSound
<1>2. Len(clients) \in Nat /\ DOMAIN clients = 1 .. Len(clients)
  BY <1>1, LenProperties
<1> QED
  BY <1>1, <1>2 DEF ToSet

(* The list and the loop do not mind what happens to sockets, as long as   *)
(* none comes or goes.                                                     *)
LEMMA ListsKeep ==
  ASSUME ListSound, LoopSound, UNCHANGED <<clients, clients_node, i, polled>>,
         announcing' = announcing \/ i = 0,
         Accepted \cap DOMAIN ws' = Accepted \cap DOMAIN ws
  PROVE  ListSound' /\ LoopSound'
BY DEF ListSound, LoopSound

(* What holds of everything that is closed or destroyed.                   *)
LEMMA DestroyedKeeps ==
  ASSUME SocketsAreDistinct, FdsSound, StatesSound, NEW D \in SUBSET DOMAIN ws, Destroyed(D),
         UNCHANGED <<listen_fd, announcing>>, announcing \notin D
  PROVE  FdsSound' /\ StatesSound' /\ DOMAIN ws' = DOMAIN ws \ D
<1> DEFINE fds == {ws[w].fd : w \in D}
<1>1. /\ ws' = [w \in DOMAIN ws \ D |-> ws[w]] /\ open' = open \ fds
      /\ closed_twice' = (closed_twice \/ \E w \in D : ws[w].fd \notin open \cup {no_fd})
      /\ told_late' = told_late \ D /\ replaced' = replaced
  BY DEF Destroyed
<1>2. fds \subseteq open \cup {no_fd} => closed_twice' = closed_twice
  <2>1. \A w \in D : ws[w].fd \in fds
    OBVIOUS
  <2>2. closed_twice = FALSE
    BY DEF FdsSound
  <2> QED
    BY <1>1, <2>1, <2>2
<1>3. fds = {ws[w].fd : w \in D} \cup (IF FALSE THEN {listen_fd} ELSE {})
  OBVIOUS
<1>4. listen_fd' = IF FALSE THEN no_fd ELSE listen_fd
  OBVIOUS
<1> HIDE DEF fds
<1> QED
  BY <1>1, <1>2, <1>3, <1>4, RemovedKeeps

(* The program's own sockets.                                              *)
LEMMA CreateKeeps ==
  ASSUME SocketsAreDistinct, IInv, NEW w \in Objects, ws_create(w)
  PROVE  IInv'
<1> DEFINE new == [state |-> "closed", state_node |-> "closed", fd |-> no_fd]
<1>1. FdsSound /\ StatesSound /\ ListSound /\ LoopSound
  BY DEF IInv
<1>2. /\ w \notin DOMAIN ws /\ w \in Connecting
      /\ ws' = [v \in DOMAIN ws \cup {w} |-> IF v = w THEN new ELSE ws[v]]
      /\ i = 0 /\ announcing = Nobody
      /\ UNCHANGED <<clients, clients_node, listen_fd, i, polled, announcing, open, closed_twice,
                     replaced, told_late>>
  BY DEF ws_create, With, Idle, server, loop
<1>3. /\ new \in WsSocket /\ new.fd = no_fd /\ new.state = "closed" /\ new.state_node = "closed"
  BY DEF WsSocket, WsStates
<1> HIDE DEF new
<1>4. Sets(w, new)
  <2>1. ws \in [DOMAIN ws -> WsSocket]
    BY <1>1 DEF FdsSound
  <2> QED
    BY <1>2, <1>3, <2>1 DEF Sets
<1>5. FdsSound'
  BY <1>1, <1>2, <1>3, <1>4, KeepsItsFd
<1>6. StatesSound'
  <2>1. ASSUME NEW v \in DOMAIN ws' PROVE StateSound(v)'
    <3>1. CASE v = w
      BY <1>2, <1>3, <1>4, <3>1 DEF StateSound, Sets, SocketsAreDistinct
    <3>2. CASE v # w
      <4>1. v \in DOMAIN ws /\ ws'[v] = ws[v] /\ StateSound(v)
        BY <1>1, <1>4, <3>2 DEF Sets, StatesSound
      <4> QED
        BY <1>2, <4>1, UntouchedKeeps
    <3> QED
      BY <3>1, <3>2
  <2> QED
    BY <1>1, <1>2, <2>1 DEF StatesSound
<1>7. Accepted \cap DOMAIN ws' = Accepted \cap DOMAIN ws
  BY <1>2 DEF SocketsAreDistinct
<1> QED
  BY <1>1, <1>2, <1>5, <1>6, <1>7, ListsKeep DEF IInv

LEMMA ConnectKeeps ==
  ASSUME SocketsAreDistinct, IInv, NEW w \in Objects, ws_connect(w)
  PROVE  IInv'
<1>1. FdsSound /\ StatesSound /\ ListSound /\ LoopSound
  BY DEF IInv
<1>2. /\ w \in DOMAIN ws /\ w \in Connecting
      /\ ws' = [ws EXCEPT ![w].state = "connecting", ![w].state_node = "connecting"]
      /\ i = 0 /\ announcing = Nobody /\ announcing' = w
      /\ UNCHANGED <<clients, clients_node, listen_fd, i, polled, open, closed_twice, replaced, told_late>>
  BY DEF ws_connect, Idle, server, loop
<1>3. ws \in [DOMAIN ws -> WsSocket] /\ Nobody \notin DOMAIN ws /\ w \notin Accepted
  BY <1>1, <1>2 DEF FdsSound, SocketsAreDistinct
<1> DEFINE new == [state |-> "connecting", state_node |-> "connecting", fd |-> ws[w].fd]
<1>4. /\ new \in WsSocket /\ new.fd = ws[w].fd
      /\ new.state = "connecting" /\ new.state_node = "connecting"
  BY <1>2, <1>3 DEF WsSocket, WsStates
<1>5. /\ DOMAIN ws' = DOMAIN ws /\ ws'[w] = new
      /\ \A v \in DOMAIN ws : v # w => ws'[v] = ws[v]
  BY <1>2, <1>3 DEF WsSocket
<1> HIDE DEF new
<1>6. Sets(w, new) /\ DOMAIN ws' = DOMAIN ws
  <2>1. ws' = [v \in DOMAIN ws' |-> ws'[v]]
    BY <1>2, <1>3
  <2>2. \A v \in DOMAIN ws' : ws'[v] \in WsSocket
    BY <1>3, <1>4, <1>5
  <2> QED
    BY <1>2, <1>5, <2>1, <2>2 DEF Sets
<1>7. FdsSound'
  BY <1>1, <1>2, <1>4, <1>6, KeepsItsFd
<1>8. StatesSound'
  <2>1. ASSUME NEW v \in DOMAIN ws' PROVE StateSound(v)'
    <3>1. CASE v = w
      BY <1>2, <1>3, <1>4, <1>6, <3>1 DEF StateSound, Sets
    <3>2. CASE v # w
      <4>1. v \in DOMAIN ws /\ ws'[v] = ws[v] /\ StateSound(v)
        BY <1>1, <1>6, <3>2 DEF Sets, StatesSound
      <4>2. announcing # v
        BY <1>2, <1>3, <4>1
      <4> QED
        BY <1>2, <3>2, <4>1, <4>2, UntouchedKeeps
    <3> QED
      BY <3>1, <3>2
  <2> QED
    BY <1>1, <1>2, <1>6, <2>1 DEF StatesSound
<1> QED
  BY <1>1, <1>2, <1>6, <1>7, <1>8, ListsKeep DEF IInv

(* However the connection ends, the socket keeps its descriptor or has it  *)
(* replaced.                                                               *)
LEMMA EndConnectKeeps ==
  ASSUME SocketsAreDistinct, IInv, NEW w \in Objects, EndConnect(w)
  PROVE  IInv'
<1>1. FdsSound /\ StatesSound /\ ListSound /\ LoopSound
  BY DEF IInv
<1>2. /\ w \in Connecting /\ announcing = w /\ announcing' = Nobody
      /\ UNCHANGED <<clients, clients_node, listen_fd, i, polled, closed_twice, told_late>>
      /\ NameUnknown(w) \/ NoConnection(w) \/ Connected(w)
  BY DEF EndConnect, server, loop
<1>3. /\ ws \in [DOMAIN ws -> WsSocket] /\ Nobody \notin DOMAIN ws /\ w \notin Accepted
      /\ w \in DOMAIN ws /\ w # Nobody
  BY <1>1, <1>2 DEF FdsSound, StatesSound, SocketsAreDistinct
<1>4. ws[w].state_node \in {"connecting", "closed"}
  BY <1>1, <1>2, <1>3 DEF StatesSound, StateSound
<1>5. {ws[v].fd : v \in DOMAIN ws \cap {w}} = {ws[w].fd}
  BY <1>3
<1>6. PICK socket \in WsSocket :
         /\ Sets(w, socket) /\ DOMAIN ws' = DOMAIN ws /\ FdsSound'
         /\ socket.state = "open" => socket.fd # no_fd
         /\ socket.state # "closed"
         /\ socket.state_node # socket.state =>
               socket.state = "error" /\ socket.state_node \in {"connecting", "closed"}
  <2>1. CASE NameUnknown(w)
    <3> DEFINE new == [state |-> "error", state_node |-> "error", fd |-> ws[w].fd]
    <3>1. /\ new \in WsSocket /\ new.fd = ws[w].fd /\ new.state = "error"
          /\ new.state_node = "error"
      BY <1>3 DEF WsSocket, WsStates
    <3>2. /\ DOMAIN ws' = DOMAIN ws /\ ws'[w] = new
          /\ \A v \in DOMAIN ws : v # w => ws'[v] = ws[v]
          /\ ws' = [v \in DOMAIN ws' |-> ws'[v]] /\ UNCHANGED <<open, replaced>>
      BY <1>3, <2>1 DEF NameUnknown, WsSocket
    <3> HIDE DEF new
    <3>3. Sets(w, new) /\ DOMAIN ws' = DOMAIN ws
      <4>1. \A v \in DOMAIN ws' : ws'[v] \in WsSocket
        BY <1>3, <3>1, <3>2
      <4> QED
        BY <1>3, <3>2, <4>1 DEF Sets
    <3>4. FdsSound'
      BY <1>1, <1>2, <1>3, <3>1, <3>2, <3>3, KeepsItsFd
    <3> QED
      BY <3>1, <3>3, <3>4
  <2>2. CASE NoConnection(w)
    <3> DEFINE new == [state |-> "error", state_node |-> ws[w].state_node, fd |-> no_fd]
    <3>1. /\ new \in WsSocket /\ new.fd = no_fd /\ new.state = "error"
          /\ new.state_node \in {"connecting", "closed"}
      BY <1>3, <1>4 DEF WsSocket, WsStates
    <3>2. /\ DOMAIN ws' = DOMAIN ws /\ ws'[w] = new
          /\ \A v \in DOMAIN ws : v # w => ws'[v] = ws[v]
          /\ ws' = [v \in DOMAIN ws' |-> ws'[v]] /\ UNCHANGED open
          /\ replaced' = replaced \cup ({ws[w].fd} \ {no_fd})
      BY <1>3, <2>2 DEF NoConnection, WsSocket
    <3> HIDE DEF new
    <3>3. Sets(w, new) /\ DOMAIN ws' = DOMAIN ws
      <4>1. \A v \in DOMAIN ws' : ws'[v] \in WsSocket
        BY <1>3, <3>1, <3>2
      <4> QED
        BY <1>3, <3>2, <4>1 DEF Sets
    <3>4. open' = open \cup ({new.fd} \ {no_fd})
      BY <3>1, <3>2
    <3>5. FdsSound'
      BY <1>1, <1>2, <1>5, <3>1, <3>2, <3>3, <3>4, TakesAnFd
    <3> QED
      BY <3>1, <3>3, <3>5
  <2>3. CASE Connected(w)
    <3>1. PICK fd \in Fds \ open :
             /\ ws' = [ws EXCEPT ![w] = [state |-> "open", state_node |-> "open", fd |-> fd]]
             /\ open' = open \cup {fd}
             /\ replaced' = replaced \cup ({ws[w].fd} \ {no_fd})
      BY <2>3 DEF Connected
    <3> DEFINE new == [state |-> "open", state_node |-> "open", fd |-> fd]
    <3>2. /\ new \in WsSocket /\ new.fd = fd /\ new.state = "open" /\ new.state_node = "open"
          /\ ws' = [ws EXCEPT ![w] = new]
      BY <3>1 DEF WsSocket, WsStates
    <3> HIDE DEF new
    <3>3. Sets(w, new) /\ DOMAIN ws' = DOMAIN ws
      BY <1>3, <3>2 DEF Sets
    <3>4. fd # no_fd /\ open' = open \cup ({new.fd} \ {no_fd})
      BY <3>1, <3>2 DEF SocketsAreDistinct, no_fd
    <3>5. FdsSound'
      BY <1>1, <1>2, <1>5, <3>1, <3>2, <3>3, <3>4, TakesAnFd
    <3> QED
      BY <3>2, <3>3, <3>4, <3>5
  <2> QED
    BY <1>2, <2>1, <2>2, <2>3
<1>7. StatesSound'
  <2>1. ASSUME NEW v \in DOMAIN ws' PROVE StateSound(v)'
    <3>1. CASE v = w
      BY <1>2, <1>3, <1>6, <3>1 DEF StateSound, Sets
    <3>2. CASE v # w
      <4>1. v \in DOMAIN ws /\ ws'[v] = ws[v] /\ StateSound(v)
        BY <1>1, <1>6, <3>2 DEF Sets, StatesSound
      <4>2. announcing' # v
        BY <1>2, <1>3, <4>1
      <4> QED
        BY <1>2, <3>2, <4>1, <4>2, UntouchedKeeps
    <3> QED
      BY <3>1, <3>2
  <2> QED
    BY <1>1, <1>2, <1>6, <2>1 DEF StatesSound
<1>8. i = 0
  BY <1>1, <1>2, <1>3 DEF LoopSound
<1> QED
  BY <1>1, <1>2, <1>6, <1>7, <1>8, ListsKeep DEF IInv

(* Closing, by whomever, and polling a socket of the program.              *)
LEMMA SocketGoesKeeps ==
  ASSUME SocketsAreDistinct, IInv, NEW w \in Objects, ws_close(w) \/ ws_destroy(w) \/ ws_poll(w)
  PROVE  IInv'
<1>1. FdsSound /\ StatesSound /\ ListSound /\ LoopSound
  BY DEF IInv
<1>2. CASE ws_close(w)
  <2>1. /\ {w} \in SUBSET DOMAIN ws /\ Closed({w})
        /\ UNCHANGED <<clients, clients_node, listen_fd, i, polled, announcing>>
    BY <1>2 DEF ws_close, server, loop
  <2>2. FdsSound' /\ StatesSound' /\ DOMAIN ws' = DOMAIN ws
    BY <1>1, <2>1, ClosedKeeps
  <2> QED
    BY <1>1, <2>1, <2>2, ListsKeep DEF IInv
<1>3. CASE ws_destroy(w)
  <2>1. /\ w \in DOMAIN ws /\ w \in Connecting /\ Destroyed({w}) /\ announcing = Nobody
        /\ UNCHANGED <<clients, clients_node, listen_fd, i, polled, announcing>>
    BY <1>3 DEF ws_destroy, Idle, server, loop
  <2>2. {w} \in SUBSET DOMAIN ws /\ announcing \notin {w}
    BY <2>1 DEF SocketsAreDistinct
  <2>3. FdsSound' /\ StatesSound' /\ DOMAIN ws' = DOMAIN ws \ {w}
    BY <1>1, <2>1, <2>2, DestroyedKeeps
  <2>4. Accepted \cap DOMAIN ws' = Accepted \cap DOMAIN ws
    BY <2>1, <2>3 DEF SocketsAreDistinct
  <2> QED
    BY <1>1, <2>1, <2>3, <2>4, ListsKeep DEF IInv
<1>4. CASE ws_poll(w)
  <2>1. /\ w \in DOMAIN ws /\ Polled(w)
        /\ UNCHANGED <<clients, clients_node, listen_fd, i, polled, announcing>>
    BY <1>4 DEF ws_poll, server, loop
  <2>2. PICK effects \in SUBSET DOMAIN ws, close \in BOOLEAN :
               Closed(effects \cup (IF close THEN {w} ELSE {}))
    BY <2>1 DEF Polled
  <2>3. FdsSound' /\ StatesSound' /\ DOMAIN ws' = DOMAIN ws
    BY <1>1, <2>1, <2>2, ClosedKeeps
  <2> QED
    BY <1>1, <2>1, <2>3, ListsKeep DEF IInv
<1> QED
  BY <1>2, <1>3, <1>4

(* A client that is accepted is new in the list, and at its end.           *)
LEMMA AcceptKeeps ==
  ASSUME SocketsAreDistinct, IInv, NEW w \in Objects, ws_server_accept(w)
  PROVE  IInv'
<1>1. FdsSound /\ StatesSound /\ ListSound /\ LoopSound
  BY DEF IInv
<1>2. PICK fd \in Fds \ open :
         /\ ws' = With(w, [state |-> "open", state_node |-> "closed", fd |-> fd], ws)
         /\ open' = open \cup {fd}
  BY DEF ws_server_accept
<1>3. /\ w \in Accepted \ DOMAIN ws /\ i = 0 /\ announcing = Nobody /\ announcing' = w
      /\ clients' = Append(clients, w) /\ clients_node' = Len(clients')
      /\ UNCHANGED <<listen_fd, i, polled, closed_twice, replaced, told_late>>
  BY DEF ws_server_accept, Idle, loop
<1> DEFINE new == [state |-> "open", state_node |-> "closed", fd |-> fd]
<1>4. /\ new \in WsSocket /\ new.fd = fd /\ new.state = "open" /\ new.state_node = "closed"
      /\ fd # no_fd
  BY DEF WsSocket, WsStates, SocketsAreDistinct, no_fd
<1>5. ws' = [v \in DOMAIN ws \cup {w} |-> IF v = w THEN new ELSE ws[v]]
  BY <1>2 DEF With
<1> HIDE DEF new
<1>6. Sets(w, new)
  <2>1. ws \in [DOMAIN ws -> WsSocket]
    BY <1>1 DEF FdsSound
  <2> QED
    BY <1>4, <1>5, <2>1 DEF Sets
<1>7. FdsSound'
  <2>1. DOMAIN ws \cap {w} = {} /\ open' = open \cup ({new.fd} \ {no_fd})
    BY <1>2, <1>3, <1>4
  <2>2. {ws[v].fd : v \in DOMAIN ws \cap {w}} = {}
    BY <2>1
  <2>3. replaced' = replaced \cup ({ws[v].fd : v \in DOMAIN ws \cap {w}} \ {no_fd})
    BY <1>3, <2>2
  <2> QED
    BY <1>1, <1>3, <1>4, <1>6, <2>1, <2>3, TakesAnFd
<1>8. StatesSound'
  <2>1. ASSUME NEW v \in DOMAIN ws' PROVE StateSound(v)'
    <3>1. CASE v = w
      BY <1>3, <1>4, <1>6, <3>1 DEF StateSound, Sets, SocketsAreDistinct
    <3>2. CASE v # w
      <4>1. v \in DOMAIN ws /\ ws'[v] = ws[v] /\ StateSound(v)
        BY <1>1, <1>6, <3>2 DEF Sets, StatesSound
      <4>2. announcing # v
        BY <1>1, <1>3, <4>1 DEF FdsSound, SocketsAreDistinct
      <4> QED
        BY <1>3, <3>2, <4>1, <4>2, UntouchedKeeps
    <3> QED
      BY <3>1, <3>2
  <2> QED
    BY <1>1, <1>3, <1>6, <2>1 DEF StatesSound, Sets
<1>9. /\ clients \in Seq(Accepted) /\ IsInjective(clients)
      /\ ToSet(clients) = Accepted \cap DOMAIN ws /\ w \notin ToSet(clients)
  BY <1>1, <1>3 DEF ListSound
<1>10. /\ clients' \in Seq(Accepted) /\ IsInjective(clients')
       /\ ToSet(clients') = Accepted \cap DOMAIN ws'
  <2>1. ToSet(clients') = ToSet(clients) \cup {w} /\ IsInjective(clients')
    BY <1>3, <1>9, AppendNew
  <2>2. clients' \in Seq(Accepted)
    BY <1>3, <1>9, AppendElements
  <2> QED
    BY <1>3, <1>6, <1>9, <2>1, <2>2 DEF Sets
<1>11. Len(clients') \in 0 .. Cardinality(Accepted)
  BY <1>10, InjectiveLength DEF SocketsAreDistinct
<1>12. ListSound'
  BY <1>3, <1>10, <1>11 DEF ListSound
<1>13. LoopSound'
  <2>1. Len(clients') \in Nat /\ DOMAIN clients' = 1 .. Len(clients')
    BY <1>10, LenProperties
  <2> QED
    BY <1>1, <1>3, <2>1 DEF LoopSound
<1> QED
  BY <1>7, <1>8, <1>12, <1>13 DEF IInv

(* Telling the node of a client that it is open, if it is or not.          *)
LEMMA EndAcceptKeeps ==
  ASSUME SocketsAreDistinct, IInv, NEW w \in Objects, EndAccept(w)
  PROVE  IInv'
<1>1. FdsSound /\ StatesSound /\ ListSound /\ LoopSound
  BY DEF IInv
<1>2. /\ w \in Accepted /\ announcing = w /\ announcing' = Nobody
      /\ ws' = [ws EXCEPT ![w].state_node = "open"]
      /\ told_late' = IF ws[w].state = "open" THEN told_late ELSE told_late \cup {w}
      /\ UNCHANGED <<clients, clients_node, listen_fd, i, polled, open, closed_twice, replaced>>
  BY DEF EndAccept, server, loop
<1>3. /\ ws \in [DOMAIN ws -> WsSocket] /\ w \in DOMAIN ws /\ w # Nobody /\ Nobody \notin DOMAIN ws
      /\ ws[w] \in WsSocket /\ StateSound(w)
  BY <1>1, <1>2 DEF FdsSound, StatesSound, SocketsAreDistinct
<1> DEFINE new == [state |-> ws[w].state, state_node |-> "open", fd |-> ws[w].fd]
<1>4. /\ new \in WsSocket /\ new.fd = ws[w].fd
      /\ new.state = ws[w].state /\ new.state_node = "open"
  BY <1>3 DEF WsSocket, WsStates
<1>5. /\ DOMAIN ws' = DOMAIN ws /\ ws'[w] = new
      /\ \A v \in DOMAIN ws : v # w => ws'[v] = ws[v]
  BY <1>2, <1>3 DEF WsSocket
<1> HIDE DEF new
<1>6. Sets(w, new) /\ DOMAIN ws' = DOMAIN ws
  <2>1. ws' = [v \in DOMAIN ws' |-> ws'[v]]
    BY <1>2, <1>3
  <2>2. \A v \in DOMAIN ws' : ws'[v] \in WsSocket
    BY <1>3, <1>4, <1>5
  <2> QED
    BY <1>3, <1>5, <2>1, <2>2 DEF Sets
<1>7. FdsSound'
  BY <1>1, <1>2, <1>3, <1>4, <1>6, KeepsItsFd
<1>8. StatesSound'
  <2>1. ASSUME NEW v \in DOMAIN ws' PROVE StateSound(v)'
    <3>1. CASE v = w
      <4>1. new.state \in {"open", "closed"} /\ w \notin Connecting
        BY <1>2, <1>3, <1>4 DEF StateSound, SocketsAreDistinct
      <4>2. new.state = "closed" => w \in told_late'
        BY <1>2, <1>4
      <4> QED
        BY <1>2, <1>3, <1>4, <1>6, <3>1, <4>1, <4>2 DEF StateSound, Sets
    <3>2. CASE v # w
      <4>1. v \in DOMAIN ws /\ ws'[v] = ws[v] /\ StateSound(v)
        BY <1>1, <1>6, <3>2 DEF Sets, StatesSound
      <4>2. announcing' # v /\ (v \in told_late' <=> v \in told_late)
        BY <1>2, <1>3, <3>2, <4>1
      <4> QED
        BY <1>2, <3>2, <4>1, <4>2, UntouchedKeeps
    <3> QED
      BY <3>1, <3>2
  <2> QED
    BY <1>1, <1>2, <1>6, <2>1 DEF StatesSound
<1>9. i = 0
  BY <1>1, <1>2, <1>3 DEF LoopSound
<1> QED
  BY <1>1, <1>2, <1>6, <1>7, <1>8, <1>9, ListsKeep DEF IInv

(* ws_server_poll goes on to the next client, or removes the one it is at, *)
(* whose place the next one takes.                                         *)
LEMMA PollingKeeps ==
  ASSUME SocketsAreDistinct, IInv, StartPolling \/ PollClient \/ RemoveDisconnected \/ EndPolling
  PROVE  IInv'
<1>1. FdsSound /\ StatesSound /\ ListSound /\ LoopSound
  BY DEF IInv
<1>2. /\ Len(clients) \in Nat /\ DOMAIN clients = 1 .. Len(clients)
      /\ \A k \in DOMAIN clients : clients[k] \in Accepted \cap DOMAIN ws
  BY <1>1, Clients
<1>3. /\ i \in 0 .. Len(clients) + 1 /\ polled \subseteq Accepted
      /\ i # 0 => announcing = Nobody
      /\ \A k \in DOMAIN clients : k < i => clients[k] \in polled
  BY <1>1 DEF LoopSound
<1>4. ASSUME UNCHANGED <<ws, server, announcing, open, closed_twice, replaced, told_late>>
      PROVE  FdsSound' /\ StatesSound' /\ ListSound'
  BY <1>1, <1>4 DEF server, FdsSound, Held, HeldByOne, StatesSound, StateSound, ListSound
<1>5. CASE StartPolling
  <2>1. FdsSound' /\ StatesSound' /\ ListSound'
    BY <1>4, <1>5 DEF StartPolling
  <2>2. LoopSound'
    BY <1>2, <1>5 DEF StartPolling, Idle, server, LoopSound
  <2> QED
    BY <2>1, <2>2 DEF IInv
<1>6. CASE EndPolling
  <2>1. FdsSound' /\ StatesSound' /\ ListSound'
    BY <1>4, <1>6 DEF EndPolling
  <2>2. LoopSound'
    BY <1>2, <1>3, <1>6 DEF EndPolling, server, LoopSound
  <2> QED
    BY <2>1, <2>2 DEF IInv
<1>7. CASE PollClient
  <2>1. /\ i \in DOMAIN clients /\ polled' = polled \cup {clients[i]}
        /\ UNCHANGED <<clients, clients_node, listen_fd, i, announcing>>
    BY <1>7 DEF PollClient, server
  <2>2. PICK effects \in SUBSET DOMAIN ws, close \in BOOLEAN :
               Closed(effects \cup (IF close THEN {clients[i]} ELSE {}))
    BY <1>7 DEF PollClient, Polled
  <2>3. FdsSound' /\ StatesSound' /\ DOMAIN ws' = DOMAIN ws
    <3>1. effects \cup (IF close THEN {clients[i]} ELSE {}) \in SUBSET DOMAIN ws
      BY <1>2, <2>1
    <3> QED
      BY <1>1, <2>1, <2>2, <3>1, ClosedKeeps
  <2>4. ListSound'
    BY <1>1, <2>1, <2>3 DEF ListSound
  <2>5. LoopSound'
    BY <1>2, <1>3, <2>1 DEF LoopSound
  <2> QED
    BY <2>3, <2>4, <2>5 DEF IInv
<1>8. CASE RemoveDisconnected
  <2>1. /\ i \in DOMAIN clients /\ clients[i] \in polled
        /\ UNCHANGED <<listen_fd, polled, announcing>>
    BY <1>8 DEF RemoveDisconnected
  <2>2. CASE ws[clients[i]].state = "closed"
    <3> DEFINE w == clients[i]
    <3>1. /\ Destroyed({w})
          /\ clients' = RemoveAt(clients, i) /\ clients_node' = Len(clients')
          /\ i' = i
      BY <1>8, <2>2 DEF RemoveDisconnected
    <3>2. w \in Accepted \cap DOMAIN ws /\ i # 0
      BY <1>2, <2>1
    <3> HIDE DEF w
    <3>3. {w} \in SUBSET DOMAIN ws /\ announcing \notin {w}
      BY <1>3, <3>2 DEF SocketsAreDistinct, Objects
    <3>4. FdsSound' /\ StatesSound' /\ DOMAIN ws' = DOMAIN ws \ {w}
      BY <1>1, <2>1, <3>1, <3>3, DestroyedKeeps
    <3>5. /\ clients \in Seq(Accepted) /\ IsInjective(clients) /\ i \in 1 .. Len(clients)
          /\ ToSet(clients) = Accepted \cap DOMAIN ws
      <4>1. i \in 1 .. Len(clients)
        BY <1>2, <2>1
      <4> QED
        BY <1>1, <4>1 DEF ListSound
    <3>6. /\ clients' \in Seq(Accepted) /\ Len(clients') = Len(clients) - 1
          /\ DOMAIN clients' = 1 .. Len(clients) - 1
          /\ \A k \in 1 .. Len(clients) - 1 :
                clients'[k] = IF k < i THEN clients[k] ELSE clients[k + 1]
      BY <3>1, <3>5, RemoveAtProperties
    <3>7. IsInjective(clients') /\ ToSet(clients') = ToSet(clients) \ {w}
      BY <3>1, <3>5, RemoveFromInjective DEF w
    <3>8. ToSet(clients') = Accepted \cap DOMAIN ws'
      BY <3>4, <3>5, <3>7
    <3>9. Len(clients') \in 0 .. Cardinality(Accepted)
      BY <3>6, <3>7, InjectiveLength DEF SocketsAreDistinct
    <3>10. ListSound'
      BY <3>1, <3>6, <3>7, <3>8, <3>9 DEF ListSound
    <3>11. LoopSound'
      <4>1. i' \in 0 .. Len(clients') + 1 /\ polled' \subseteq Accepted
        BY <1>2, <1>3, <2>1, <3>1, <3>5, <3>6
      <4>2. \A k \in DOMAIN clients' : k < i' => clients'[k] \in polled'
        BY <1>2, <1>3, <2>1, <3>1, <3>6
      <4>3. announcing' = Nobody
        BY <1>3, <2>1, <3>2
      <4> QED
        BY <4>1, <4>2, <4>3 DEF LoopSound
    <3> QED
      BY <3>4, <3>10, <3>11 DEF IInv
  <2>3. CASE ws[clients[i]].state # "closed"
    <3>1. i' = i + 1 /\ UNCHANGED <<ws, clients, clients_node, open, closed_twice, replaced, told_late>>
      BY <1>8, <2>3 DEF RemoveDisconnected
    <3>2. FdsSound' /\ StatesSound' /\ ListSound'
      BY <1>4, <2>1, <3>1 DEF server
    <3>3. LoopSound'
      BY <1>2, <1>3, <2>1, <3>1 DEF LoopSound
    <3> QED
      BY <3>2, <3>3 DEF IInv
  <2> QED
    BY <2>2, <2>3
<1> QED
  BY <1>5, <1>6, <1>7, <1>8

(* A server that listens again takes a descriptor and loses the one it had. *)
LEMMA ListenKeeps ==
  ASSUME SocketsAreDistinct, IInv, ws_server_listen
  PROVE  IInv'
<1>1. FdsSound /\ StatesSound /\ ListSound /\ LoopSound
  BY DEF IInv
<1>2. /\ replaced' = replaced \cup ({listen_fd} \ {no_fd})
      /\ \/ listen_fd' = no_fd /\ UNCHANGED open
         \/ \E fd \in Fds \ open : listen_fd' = fd /\ open' = open \cup {fd}
      /\ UNCHANGED <<ws, clients, clients_node, i, polled, announcing, closed_twice, told_late>>
  BY DEF ws_server_listen, loop
<1>3. no_fd \notin Fds
  BY DEF SocketsAreDistinct, no_fd
<1>4. /\ listen_fd' \in (Fds \ open) \cup {no_fd}
      /\ open' = open \cup ({listen_fd'} \ {no_fd})
  BY <1>2, <1>3
<1>5. DOMAIN ws \subseteq Objects /\ HeldByOne(Held, open, replaced)
  BY <1>1 DEF FdsSound
<1> DEFINE f == Held
           g == Held'
<1>6. /\ DOMAIN f = DOMAIN ws \cup {Nobody} /\ Nobody \notin DOMAIN ws
      /\ f[Nobody] = listen_fd /\ \A v \in DOMAIN ws : f[v] = ws[v].fd
  BY <1>5, HeldFacts
<1>7. /\ DOMAIN g = DOMAIN ws' \cup {Nobody} /\ Nobody \notin DOMAIN ws'
      /\ g[Nobody] = listen_fd' /\ \A v \in DOMAIN ws' : g[v] = ws'[v].fd
  BY <1>2, <1>5, HeldFactsNext
<1>8. HeldByOne(f, open, replaced)
  BY <1>5
<1> HIDE DEF f, g
<1>9. HeldByOne(g, open', replaced')
  <2>1. /\ DOMAIN g = DOMAIN f \cup {Nobody} /\ g[Nobody] = listen_fd'
        /\ \A p \in DOMAIN f : p # Nobody => g[p] = f[p]
    BY <1>2, <1>6, <1>7
  <2>2. {f[p] : p \in DOMAIN f \cap {Nobody}} = {listen_fd}
    BY <1>6
  <2>3. Takes(f, g, Nobody, listen_fd', {listen_fd} \ {no_fd})
    BY <2>1, <2>2 DEF Takes
  <2>4. HeldByOne(g, open \cup ({listen_fd'} \ {no_fd}), replaced \cup ({listen_fd} \ {no_fd}))
    BY <1>4, <1>8, <2>3, TakeKeeps
  <2> QED
    BY <1>2, <1>4, <2>4
<1>10. FdsSound'
  BY <1>1, <1>2, <1>9 DEF FdsSound, g
<1>11. StatesSound' /\ ListSound' /\ LoopSound'
  BY <1>1, <1>2 DEF StatesSound, StateSound, ListSound, LoopSound
<1> QED
  BY <1>10, <1>11 DEF IInv

(* Stopping closes every client and forgets it.                            *)
LEMMA StopKeeps ==
  ASSUME SocketsAreDistinct, IInv, ws_server_stop
  PROVE  IInv'
<1>1. FdsSound /\ StatesSound /\ ListSound /\ LoopSound
  BY DEF IInv
<1> DEFINE D == ToSet(clients)
           fds == {listen_fd} \cup {ws[w].fd : w \in D}
<1>2. /\ D = Accepted \cap DOMAIN ws /\ announcing = Nobody /\ i = 0
      /\ ws' = [w \in DOMAIN ws \ D |-> ws[w]]
      /\ open' = open \ fds
      /\ closed_twice' = (closed_twice \/ ~(fds \subseteq open \cup {no_fd}))
      /\ told_late' = told_late \ D /\ clients' = << >> /\ listen_fd' = no_fd
      /\ UNCHANGED <<clients_node, i, polled, announcing, replaced>>
  BY <1>1 DEF ws_server_stop, ListSound, Idle, loop
<1>3. /\ D \in SUBSET DOMAIN ws /\ announcing \notin D
      /\ fds = {ws[w].fd : w \in D} \cup (IF TRUE THEN {listen_fd} ELSE {})
      /\ listen_fd' = IF TRUE THEN no_fd ELSE listen_fd
  BY <1>2 DEF SocketsAreDistinct, Objects
<1>4. fds \subseteq open \cup {no_fd} => closed_twice' = closed_twice
  <2>1. closed_twice = FALSE
    BY <1>1 DEF FdsSound
  <2> QED
    BY <1>2, <2>1
<1> HIDE DEF D, fds
<1>5. FdsSound' /\ StatesSound' /\ DOMAIN ws' = DOMAIN ws \ D
  BY <1>1, <1>2, <1>3, <1>4, RemovedKeeps
<1>6. /\ clients' \in Seq(Accepted) /\ DOMAIN clients' = {} /\ Len(clients') = 0
      /\ ToSet(clients') = {}
  BY <1>2 DEF ToSet
<1>7. ListSound'
  BY <1>1, <1>2, <1>5, <1>6 DEF ListSound, IsInjective
<1>8. LoopSound'
  BY <1>1, <1>2, <1>6 DEF LoopSound
<1> QED
  BY <1>5, <1>7, <1>8 DEF IInv

----------------------------------------------------------------------------
(* The theorems                                                            *)

(* IInv is inductive, whatever sockets there are, and whichever of them    *)
(* the effects of a node close.                                            *)
THEOREM Inductive == SocketsAreDistinct => (Spec => []IInv)
<1> SUFFICES ASSUME SocketsAreDistinct PROVE Spec => []IInv
  OBVIOUS
<1>1. Init => IInv
  <2> SUFFICES ASSUME Init PROVE IInv
    OBVIOUS
  <2>1. /\ clients \in Seq(Accepted) /\ DOMAIN clients = {} /\ Len(clients) = 0
        /\ ToSet(clients) = {} /\ DOMAIN ws = {} /\ ws \in [DOMAIN ws -> WsSocket]
    BY DEF Init, ToSet
  <2>2. Cardinality(Accepted) \in Nat
    BY FS_CardinalityType DEF SocketsAreDistinct
  <2>3. FdsSound
    BY <2>1 DEF Init, FdsSound, Held, HeldByOne
  <2>4. StatesSound
    BY <2>1 DEF Init, StatesSound
  <2>5. ListSound
    <3>1. IsInjective(clients) /\ ToSet(clients) = Accepted \cap DOMAIN ws
      BY <2>1 DEF IsInjective
    <3>2. /\ clients_node = 0 /\ clients_node \in 0 .. Cardinality(Accepted)
          /\ clients = << >>
      BY <2>2 DEF Init
    <3> QED
      BY <2>1, <3>1, <3>2 DEF ListSound
  <2>6. LoopSound
    BY <2>1 DEF Init, LoopSound
  <2> QED
    BY <2>3, <2>4, <2>5, <2>6 DEF IInv
<1>2. IInv /\ [Next]_vars => IInv'
  <2> SUFFICES ASSUME IInv, [Next]_vars PROVE IInv'
    OBVIOUS
  <2>1. CASE UNCHANGED vars
    BY <2>1 DEF vars, server, loop, IInv, FdsSound, Held, HeldByOne, StatesSound, StateSound,
                ListSound, LoopSound
  <2> QED
    BY <2>1, CreateKeeps, ConnectKeeps, EndConnectKeeps, SocketGoesKeeps, AcceptKeeps, EndAcceptKeeps,
       PollingKeeps, ListenKeeps, StopKeeps DEF Next
<1> QED
  BY <1>1, <1>2, PTL DEF Spec

(* Every variable holds a value of its type (ws_driver.c).                 *)
THEOREM TypeCorrect == SocketsAreDistinct => (Spec => []TypeOK)
<1> SUFFICES ASSUME SocketsAreDistinct PROVE Spec => []TypeOK
  OBVIOUS
<1>1. IInv => TypeOK
  <2> SUFFICES ASSUME IInv PROVE TypeOK
    OBVIOUS
  <2>1. replaced \subseteq open /\ open \subseteq Fds /\ listen_fd \in open \cup {no_fd}
    <3>1. DOMAIN ws \subseteq Objects /\ HeldByOne(Held, open, replaced)
      BY DEF IInv, FdsSound
    <3> QED
      BY <3>1, HeldFacts DEF HeldByOne
  <2> QED
    BY <2>1 DEF IInv, FdsSound, StatesSound, ListSound, LoopSound, TypeOK
<1> QED
  BY <1>1, Inductive, PTL

(* An open descriptor is that of one socket or of the server and is closed *)
(* once, unless another was written over it, by a socket that is connected *)
(* though it is open or a server that listens though it does; nobody has   *)
(* one that was.  The clients are the accepted sockets                     *)
(* (ws_driver.c:129, 238-283, 374, 472-524).                               *)
THEOREM OneSocketPerDescriptor == SocketsAreDistinct => (Spec => []DescriptorsAreOwned)
<1> SUFFICES ASSUME SocketsAreDistinct PROVE Spec => []DescriptorsAreOwned
  OBVIOUS
<1>1. IInv => DescriptorsAreOwned
  <2> SUFFICES ASSUME IInv PROVE DescriptorsAreOwned
    OBVIOUS
  <2>1. DOMAIN ws \subseteq Objects /\ HeldByOne(Held, open, replaced) /\ closed_twice = FALSE
    BY DEF IInv, FdsSound
  <2>2. /\ DOMAIN Held = DOMAIN ws \cup {Nobody} /\ Nobody \notin DOMAIN ws
        /\ Held[Nobody] = listen_fd /\ \A w \in DOMAIN ws : Held[w] = ws[w].fd
    BY <2>1, HeldFacts
  <2>3. /\ replaced \subseteq open /\ open \subseteq Fds /\ no_fd \notin open
        /\ \A o \in DOMAIN Held : Held[o] \in (open \ replaced) \cup {no_fd}
        /\ \A o, p \in DOMAIN Held : Held[o] = Held[p] => o = p \/ Held[o] = no_fd
        /\ \A fd \in open \ replaced : \E o \in DOMAIN Held : Held[o] = fd
    BY <2>1 DEF HeldByOne, SocketsAreDistinct, no_fd
  <2>4. \A fd : Owners(fd) = {o \in DOMAIN Held : Held[o] = fd}
    BY <2>2 DEF Owners
  <2>5. ASSUME NEW fd \in open \ replaced PROVE Cardinality(Owners(fd)) = 1
    <3>1. PICK o \in DOMAIN Held : Held[o] = fd
      BY <2>3
    <3>2. fd # no_fd
      BY <2>3
    <3>3. Owners(fd) = {o}
      BY <2>3, <2>4, <3>1, <3>2
    <3> QED
      BY <3>3, FS_Singleton
  <2>6. ASSUME NEW fd \in replaced PROVE Owners(fd) = {}
    BY <2>3, <2>4
  <2>7. ASSUME NEW w \in DOMAIN ws
        PROVE  /\ ws[w].fd \in open \cup {no_fd}
               /\ ws[w].state = "open" => ws[w].fd # no_fd
               /\ ws[w].state = "closed" => ws[w].fd = no_fd
    BY <2>2, <2>3 DEF IInv, StatesSound, StateSound
  <2> QED
    BY <2>1, <2>5, <2>6, <2>7 DEF IInv, ListSound, DescriptorsAreOwned
<1> QED
  BY <1>1, Inductive, PTL

(* ws_server_poll has polled every client it leaves in the list when it is *)
(* through (ws_driver.c:481-502).                                          *)
THEOREM NoClientIsLeftOut == SocketsAreDistinct => (Spec => []EveryClientIsPolled)
<1> SUFFICES ASSUME SocketsAreDistinct PROVE Spec => []EveryClientIsPolled
  OBVIOUS
<1>1. IInv => EveryClientIsPolled
  <2> SUFFICES ASSUME IInv, i > Len(clients), NEW w \in ToSet(clients)
               PROVE  w \in polled
    BY DEF EveryClientIsPolled
  <2>1. PICK k \in DOMAIN clients : w = clients[k]
    BY DEF ToSet
  <2>2. k < i
    BY <2>1, Clients DEF IInv, LoopSound
  <2> QED
    BY <2>1, <2>2 DEF IInv, LoopSound
<1> QED
  BY <1>1, Inductive, PTL

(* The reactive nodes tell the states of the sockets and the number of     *)
(* clients, but for the exceptions named there: a connection that fails, a *)
(* client that is closed by the effects of its own arrival, which its node *)
(* then calls open, and a server that was stopped (ws_driver.c:127-147,    *)
(* 449-455, 505-524).                                                      *)
THEOREM NodesAreCurrent == SocketsAreDistinct => (Spec => []NodesTellTheState)
<1> SUFFICES ASSUME SocketsAreDistinct PROVE Spec => []NodesTellTheState
  OBVIOUS
<1>1. IInv => NodesTellTheState
  BY DEF IInv, StatesSound, StateSound, ListSound, NodesTellTheState
<1> QED
  BY <1>1, Inductive, PTL

----------------------------------------------------------------------------
(***************************************************************************)
(* The table of sockets of the TCP natives.  The invariant says which      *)
(* descriptor every entry in use has, what its counters tell, and what the *)
(* call that waits, if any, still owes to the table and to its buffer.     *)
(***************************************************************************)
CONSTANTS MAX_SOCKETS, CAPACITY, CHUNK, Timeout, MaxReceived, MaxSent
VARIABLES sockets, stats, moved, lost, script, receiving

Tcp == INSTANCE Sockets

\* An entry in use has an open descriptor to itself, and one that is open has
\* an entry or was lost.
TableSound ==
    /\ sockets \in [Tcp!Handles -> Fds \cup {Tcp!no_fd}]
    /\ open \subseteq Fds /\ lost \subseteq open
    /\ \A g, h \in Tcp!InUse : sockets[g] = sockets[h] => g = h
    /\ \A h \in Tcp!InUse : sockets[h] \in open \ lost
    /\ \A fd \in open \ lost : \E h \in Tcp!InUse : sockets[h] = fd

\* Nothing is counted but what went over the connection.
StatsSound ==
    /\ stats \in [Tcp!Handles -> [bytes_sent : 0 .. MaxSent, bytes_received : 0 .. MaxReceived]]
    /\ moved \in [Fds -> [bytes_sent : Nat, bytes_received : Nat]]
    /\ \A h \in Tcp!Handles :
          stats[h] = IF h \in Tcp!InUse THEN moved[sockets[h]] ELSE Tcp!nothing
    /\ \A fd \in Fds \ open : moved[fd] = Tcp!nothing

\* The handle a call waits at is in use, and what was received fits.
CallSound ==
    /\ receiving \in [handle : {0} \cup Tcp!Handles, total : Nat, capacity : Nat,
                      elapsed : Nat, http : BOOLEAN]
    /\ Tcp!Idle => script = Tcp!InUse
    /\ ~Tcp!Idle =>
          /\ receiving.handle \in Tcp!InUse
          /\ script = IF receiving.http THEN Tcp!InUse \ {receiving.handle} ELSE Tcp!InUse
          /\ receiving.total <= stats[receiving.handle].bytes_received
          /\ receiving.total <= receiving.capacity /\ CHUNK <= receiving.capacity
          /\ receiving.elapsed <= Timeout + 1

TcpInv == TableSound /\ StatsSound /\ CallSound

(* Sockets means by a finite set, and its size, what is meant here.        *)
LEMMA FiniteInTcp ==
  \A S : /\ Tcp!IsFiniteSet(S) <=> IsFiniteSet(S)
         /\ Tcp!Cardinality(S) = Cardinality(S)
BY DEF Tcp!IsFiniteSet, IsFiniteSet, Tcp!Cardinality, Cardinality

Counters == [bytes_sent : 0 .. MaxSent, bytes_received : 0 .. MaxReceived]

(* socket_alloc finds an entry when there is one.                          *)
LEMMA FreeHandle ==
  ASSUME Tcp!TableIsSound, Tcp!InUse # Tcp!Handles
  PROVE  Tcp!Min(Tcp!Handles \ Tcp!InUse) \in Tcp!Handles \ Tcp!InUse
<1> DEFINE I == Tcp!Handles \ Tcp!InUse
<1>1. I \in SUBSET Nat /\ I # {}
  BY DEF Tcp!Handles, Tcp!InUse, Tcp!TableIsSound
<1> HIDE DEF I
<1>2. Min(I) \in I
  BY <1>1, LeastOne
<1>3. Tcp!Min(I) = Min(I)
  BY DEF Tcp!Min, Min
<1> QED
  BY <1>2, <1>3 DEF I

\* A new descriptor takes an entry, and something may be sent at once.
Opens(h, fd, sent) ==
    /\ sockets' = [sockets EXCEPT ![h] = fd]
    /\ stats' = [stats EXCEPT ![h] = [bytes_sent |-> sent, bytes_received |-> 0]]
    /\ open' = open \cup {fd} /\ lost' = lost
    /\ moved' = [moved EXCEPT ![fd] = [bytes_sent |-> sent, bytes_received |-> 0]]

(* What is opened is owned.                                                *)
LEMMA OpensKeeps ==
  ASSUME Tcp!TableIsSound, TableSound, StatsSound, NEW h \in Tcp!Handles \ Tcp!InUse,
         NEW fd \in Fds \ open, NEW sent \in 0 .. MaxSent, Opens(h, fd, sent)
  PROVE  /\ TableSound' /\ StatsSound' /\ Tcp!InUse' = Tcp!InUse \cup {h}
         /\ \A g \in Tcp!InUse : stats'[g] = stats[g]
<1> DEFINE c == [bytes_sent |-> sent, bytes_received |-> 0]
<1>1. /\ sockets \in [Tcp!Handles -> Fds \cup {Tcp!no_fd}] /\ fd # Tcp!no_fd
      /\ stats \in [Tcp!Handles -> Counters] /\ c \in Counters
      /\ moved \in [Fds -> [bytes_sent : Nat, bytes_received : Nat]]
      /\ c \in [bytes_sent : Nat, bytes_received : Nat]
  BY DEF TableSound, StatsSound, Tcp!TableIsSound, Counters
<1>2. /\ sockets' = [sockets EXCEPT ![h] = fd] /\ stats' = [stats EXCEPT ![h] = c]
      /\ open' = open \cup {fd} /\ lost' = lost /\ moved' = [moved EXCEPT ![fd] = c]
  BY DEF Opens
<1> HIDE DEF c
<1>3. /\ sockets' \in [Tcp!Handles -> Fds \cup {Tcp!no_fd}] /\ sockets'[h] = fd
      /\ \A g \in Tcp!Handles \ {h} : sockets'[g] = sockets[g]
      /\ stats' \in [Tcp!Handles -> Counters] /\ stats'[h] = c
      /\ \A g \in Tcp!Handles \ {h} : stats'[g] = stats[g]
      /\ moved' \in [Fds -> [bytes_sent : Nat, bytes_received : Nat]] /\ moved'[fd] = c
      /\ \A x \in Fds \ {fd} : moved'[x] = moved[x]
  BY <1>1, <1>2
<1>4. Tcp!InUse' = Tcp!InUse \cup {h} /\ Tcp!InUse \subseteq Tcp!Handles /\ h \notin Tcp!InUse
  BY <1>1, <1>3 DEF Tcp!InUse
<1>5. /\ open \subseteq Fds /\ lost \subseteq open
      /\ \A f, g \in Tcp!InUse : sockets[f] = sockets[g] => f = g
      /\ \A g \in Tcp!InUse : sockets[g] \in open \ lost
      /\ \A x \in open \ lost : \E g \in Tcp!InUse : sockets[g] = x
  BY DEF TableSound
<1>6. TableSound'
  <2>1. \A g \in Tcp!InUse' : sockets'[g] \in open' \ lost'
    BY <1>2, <1>3, <1>4, <1>5
  <2>2. \A f, g \in Tcp!InUse' : sockets'[f] = sockets'[g] => f = g
    BY <1>3, <1>4, <1>5
  <2>3. \A x \in open' \ lost' : \E g \in Tcp!InUse' : sockets'[g] = x
    <3> SUFFICES ASSUME NEW x \in open' \ lost' PROVE \E g \in Tcp!InUse' : sockets'[g] = x
      OBVIOUS
    <3>1. CASE x = fd
      BY <1>3, <1>4, <3>1
    <3>2. CASE x # fd
      BY <1>2, <1>3, <1>4, <1>5, <3>2
    <3> QED
      BY <3>1, <3>2
  <2>4. open' \subseteq Fds /\ lost' \subseteq open'
    BY <1>2, <1>5
  <2> QED
    BY <1>3, <2>1, <2>2, <2>3, <2>4 DEF TableSound
<1>7. StatsSound'
  <2>1. \A g \in Tcp!Handles : stats[g] = IF g \in Tcp!InUse THEN moved[sockets[g]] ELSE Tcp!nothing
    BY DEF StatsSound
  <2>2. \A x \in Fds \ open : moved[x] = Tcp!nothing
    BY DEF StatsSound
  <2>3. ASSUME NEW g \in Tcp!Handles
        PROVE  stats'[g] = IF g \in Tcp!InUse' THEN moved'[sockets'[g]] ELSE Tcp!nothing
    <3>1. CASE g = h
      BY <1>3, <1>4, <3>1
    <3>2. CASE g # h /\ g \in Tcp!InUse
      <4>1. sockets[g] \in Fds \ {fd}
        BY <1>5, <3>2
      <4> QED
        BY <1>3, <1>4, <2>1, <3>2, <4>1
    <3>3. CASE g # h /\ g \notin Tcp!InUse
      BY <1>3, <1>4, <2>1, <3>3
    <3> QED
      BY <3>1, <3>2, <3>3
  <2>4. \A x \in Fds \ open' : moved'[x] = Tcp!nothing
    BY <1>2, <1>3, <2>2
  <2> QED
    BY <1>3, <2>3, <2>4 DEF StatsSound, Counters
<1>8. \A g \in Tcp!InUse : stats'[g] = stats[g]
  BY <1>3, <1>4
<1> QED
  BY <1>4, <1>6, <1>7, <1>8

(* Freeing an entry closes its descriptor, and only that; an entry not in  *)
(* use is left alone.                                                      *)
LEMMA FreeKeeps ==
  ASSUME Tcp!TableIsSound, TableSound, StatsSound, NEW h \in Tcp!Handles,
         Tcp!socket_free(h), lost' = lost
  PROVE  /\ TableSound' /\ StatsSound' /\ Tcp!InUse' = Tcp!InUse \ {h}
<1> DEFINE gone == sockets[h]
<1>1. /\ sockets \in [Tcp!Handles -> Fds \cup {Tcp!no_fd}] /\ Tcp!no_fd \notin Fds
      /\ stats \in [Tcp!Handles -> Counters] /\ Tcp!nothing \in Counters
      /\ moved \in [Fds -> [bytes_sent : Nat, bytes_received : Nat]]
      /\ Tcp!nothing \in [bytes_sent : Nat, bytes_received : Nat]
  BY DEF TableSound, StatsSound, Tcp!TableIsSound, Counters, Tcp!nothing
<1>2. /\ sockets' = [sockets EXCEPT ![h] = Tcp!no_fd] /\ stats' = [stats EXCEPT ![h] = Tcp!nothing]
      /\ open' = open \ {gone}
      /\ moved' = [fd \in Fds |-> IF fd = gone THEN Tcp!nothing ELSE moved[fd]]
  BY DEF Tcp!socket_free
<1> HIDE DEF gone
<1>3. /\ sockets' \in [Tcp!Handles -> Fds \cup {Tcp!no_fd}] /\ sockets'[h] = Tcp!no_fd
      /\ \A g \in Tcp!Handles \ {h} : sockets'[g] = sockets[g]
      /\ stats' \in [Tcp!Handles -> Counters] /\ stats'[h] = Tcp!nothing
      /\ \A g \in Tcp!Handles \ {h} : stats'[g] = stats[g]
      /\ moved' \in [Fds -> [bytes_sent : Nat, bytes_received : Nat]]
      /\ \A x \in Fds : moved'[x] = IF x = gone THEN Tcp!nothing ELSE moved[x]
  BY <1>1, <1>2
<1>4. Tcp!InUse' = Tcp!InUse \ {h} /\ Tcp!InUse \subseteq Tcp!Handles
  BY <1>1, <1>3 DEF Tcp!InUse
<1>5. /\ open \subseteq Fds /\ lost \subseteq open
      /\ \A f, g \in Tcp!InUse : sockets[f] = sockets[g] => f = g
      /\ \A g \in Tcp!InUse : sockets[g] \in open \ lost
      /\ \A x \in open \ lost : \E g \in Tcp!InUse : sockets[g] = x
  BY DEF TableSound
<1>6. gone \notin lost /\ \A g \in Tcp!InUse \ {h} : sockets[g] # gone
  <2>1. CASE h \in Tcp!InUse
    BY <1>4, <1>5, <2>1 DEF gone
  <2>2. CASE h \notin Tcp!InUse
    <3>1. gone = Tcp!no_fd
      BY <2>2 DEF gone, Tcp!InUse
    <3> QED
      BY <1>1, <1>5, <3>1
  <2> QED
    BY <2>1, <2>2
<1>7. TableSound'
  <2>1. \A g \in Tcp!InUse' : sockets'[g] \in open' \ lost'
    BY <1>2, <1>3, <1>4, <1>5, <1>6
  <2>2. \A f, g \in Tcp!InUse' : sockets'[f] = sockets'[g] => f = g
    BY <1>3, <1>4, <1>5
  <2>3. \A x \in open' \ lost' : \E g \in Tcp!InUse' : sockets'[g] = x
    BY <1>2, <1>3, <1>4, <1>5 DEF gone
  <2>4. open' \subseteq Fds /\ lost' \subseteq open'
    BY <1>2, <1>5, <1>6
  <2> QED
    BY <1>3, <2>1, <2>2, <2>3, <2>4 DEF TableSound
<1>8. StatsSound'
  <2>1. \A g \in Tcp!Handles : stats[g] = IF g \in Tcp!InUse THEN moved[sockets[g]] ELSE Tcp!nothing
    BY DEF StatsSound
  <2>2. \A x \in Fds \ open : moved[x] = Tcp!nothing
    BY DEF StatsSound
  <2>3. ASSUME NEW g \in Tcp!Handles
        PROVE  stats'[g] = IF g \in Tcp!InUse' THEN moved'[sockets'[g]] ELSE Tcp!nothing
    <3>1. CASE g = h
      BY <1>3, <1>4, <3>1
    <3>2. CASE g # h /\ g \in Tcp!InUse
      <4>1. sockets[g] \in Fds /\ sockets[g] # gone
        BY <1>5, <1>6, <3>2
      <4> QED
        BY <1>3, <1>4, <2>1, <3>2, <4>1
    <3>3. CASE g # h /\ g \notin Tcp!InUse
      BY <1>3, <1>4, <2>1, <3>3
    <3> QED
      BY <3>1, <3>2, <3>3
  <2>4. \A x \in Fds \ open' : moved'[x] = Tcp!nothing
    BY <1>2, <1>3, <2>2
  <2> QED
    BY <1>3, <2>3, <2>4 DEF StatsSound, Counters
<1> QED
  BY <1>4, <1>7, <1>8

\* Something more went over the connection of an entry in use.
Counts(h, c) ==
    /\ stats' = [stats EXCEPT ![h] = c]
    /\ moved' = [moved EXCEPT ![sockets[h]] = c]
    /\ UNCHANGED <<sockets, open, lost>>

(* It is counted on both sides.                                            *)
LEMMA CountsKeeps ==
  ASSUME Tcp!TableIsSound, TableSound, StatsSound, NEW h \in Tcp!InUse, NEW c \in Counters,
         Counts(h, c)
  PROVE  TableSound' /\ StatsSound' /\ Tcp!InUse' = Tcp!InUse /\ stats'[h] = c
<1>1. /\ stats \in [Tcp!Handles -> Counters] /\ h \in Tcp!Handles
      /\ moved \in [Fds -> [bytes_sent : Nat, bytes_received : Nat]]
      /\ c \in [bytes_sent : Nat, bytes_received : Nat]
  BY DEF TableSound, StatsSound, Tcp!TableIsSound, Counters, Tcp!InUse
<1>2. /\ stats' = [stats EXCEPT ![h] = c] /\ moved' = [moved EXCEPT ![sockets[h]] = c]
      /\ sockets' = sockets /\ open' = open /\ lost' = lost
  BY DEF Counts
<1>3. Tcp!InUse' = Tcp!InUse /\ Tcp!InUse \subseteq Tcp!Handles
  BY <1>2 DEF Tcp!InUse
<1>4. /\ open \subseteq Fds
      /\ \A f, g \in Tcp!InUse : sockets[f] = sockets[g] => f = g
      /\ \A g \in Tcp!InUse : sockets[g] \in open
  BY DEF TableSound
<1>5. /\ stats' \in [Tcp!Handles -> Counters] /\ stats'[h] = c
      /\ \A g \in Tcp!Handles \ {h} : stats'[g] = stats[g]
      /\ moved' \in [Fds -> [bytes_sent : Nat, bytes_received : Nat]] /\ moved'[sockets[h]] = c
      /\ \A x \in Fds \ {sockets[h]} : moved'[x] = moved[x]
  BY <1>1, <1>2, <1>4
<1>6. TableSound'
  BY <1>2, <1>3 DEF TableSound
<1>7. StatsSound'
  <2>1. \A g \in Tcp!Handles : stats[g] = IF g \in Tcp!InUse THEN moved[sockets[g]] ELSE Tcp!nothing
    BY DEF StatsSound
  <2>2. \A x \in Fds \ open : moved[x] = Tcp!nothing
    BY DEF StatsSound
  <2>3. ASSUME NEW g \in Tcp!Handles
        PROVE  stats'[g] = IF g \in Tcp!InUse' THEN moved'[sockets'[g]] ELSE Tcp!nothing
    <3>1. CASE g = h
      BY <1>2, <1>3, <1>5, <3>1
    <3>2. CASE g # h /\ g \in Tcp!InUse
      <4>1. sockets[g] \in Fds \ {sockets[h]}
        BY <1>4, <3>2
      <4> QED
        BY <1>2, <1>3, <1>5, <2>1, <3>2, <4>1
    <3>3. CASE g # h /\ g \notin Tcp!InUse
      BY <1>2, <1>3, <1>5, <2>1, <3>3
    <3> QED
      BY <3>1, <3>2, <3>3
  <2>4. \A x \in Fds \ open' : moved'[x] = Tcp!nothing
    BY <1>2, <1>4, <1>5, <2>2
  <2> QED
    BY <1>5, <2>3, <2>4 DEF StatsSound, Counters
<1> QED
  BY <1>3, <1>5, <1>6, <1>7

(* A descriptor that no entry took is counted among the lost.              *)
LEMMA LoseKeeps ==
  ASSUME TableSound, StatsSound, NEW fd \in Fds \ open, Tcp!LoseDescriptor(fd),
         UNCHANGED <<sockets, stats, moved>>
  PROVE  TableSound' /\ StatsSound' /\ Tcp!InUse' = Tcp!InUse
<1>1. open' = open \cup {fd} /\ lost' = lost \cup {fd}
  BY DEF Tcp!LoseDescriptor
<1>2. Tcp!InUse' = Tcp!InUse
  BY DEF Tcp!InUse
<1>3. TableSound'
  BY <1>1, <1>2 DEF TableSound
<1>4. StatsSound'
  BY <1>1, <1>2 DEF StatsSound
<1> QED
  BY <1>2, <1>3, <1>4

(* Nothing waits between two calls, and the program holds what is in use.  *)
LEMMA IdleCall ==
  ASSUME CallSound, Tcp!Idle, UNCHANGED receiving, script' = Tcp!InUse'
  PROVE  CallSound'
BY DEF CallSound, Tcp!Idle

(* A descriptor for the program.                                           *)
LEMMA AllocKeeps ==
  ASSUME Tcp!TableIsSound, TcpInv, Tcp!Idle, NEW fd \in Fds \ open,
         UNCHANGED <<moved, receiving>>,
         \/ Tcp!socket_alloc(fd, UNCHANGED <<open, lost>>)
         \/ Tcp!socket_alloc(fd, Tcp!LoseDescriptor(fd))
  PROVE  TcpInv'
<1>1. TableSound /\ StatsSound /\ CallSound /\ script = Tcp!InUse
  BY DEF TcpInv, CallSound
<1>2. CASE UNCHANGED <<sockets, stats, script, open, lost>>
  <2>1. TableSound' /\ StatsSound' /\ Tcp!InUse' = Tcp!InUse
    BY <1>1, <1>2 DEF TableSound, StatsSound, Tcp!InUse
  <2> QED
    BY <1>1, <1>2, <2>1, IdleCall DEF TcpInv
<1>3. CASE UNCHANGED <<sockets, stats, script>> /\ Tcp!LoseDescriptor(fd)
  <2>1. TableSound' /\ StatsSound' /\ Tcp!InUse' = Tcp!InUse
    BY <1>1, <1>3, LoseKeeps
  <2> QED
    BY <1>1, <1>3, <2>1, IdleCall DEF TcpInv
<1>4. CASE /\ Tcp!InUse # Tcp!Handles
           /\ \E h \in {Tcp!Min(Tcp!Handles \ Tcp!InUse)} :
                /\ sockets' = [sockets EXCEPT ![h] = fd]
                /\ stats' = [stats EXCEPT ![h] = Tcp!nothing]
                /\ script' = script \cup {h}
           /\ open' = open \cup {fd} /\ lost' = lost
  <2>1. PICK h \in Tcp!Handles \ Tcp!InUse :
          /\ sockets' = [sockets EXCEPT ![h] = fd]
          /\ stats' = [stats EXCEPT ![h] = Tcp!nothing]
          /\ script' = script \cup {h}
    BY <1>4, FreeHandle
  <2>2. 0 \in 0 .. MaxSent /\ Tcp!nothing = [bytes_sent |-> 0, bytes_received |-> 0]
    BY DEF Tcp!TableIsSound, Tcp!nothing
  <2>3. moved' = [moved EXCEPT ![fd] = Tcp!nothing]
    <3>1. moved[fd] = Tcp!nothing /\ moved' = moved /\ DOMAIN moved = Fds
          /\ moved = [x \in Fds |-> moved[x]]
      BY <1>1 DEF StatsSound
    <3> QED
      BY <3>1
  <2>4. Opens(h, fd, 0)
    BY <1>4, <2>1, <2>2, <2>3 DEF Opens
  <2>5. TableSound' /\ StatsSound' /\ Tcp!InUse' = Tcp!InUse \cup {h}
    BY <1>1, <2>2, <2>4, OpensKeeps
  <2> QED
    BY <1>1, <2>1, <2>5, IdleCall DEF TcpInv
<1> QED
  BY <1>2, <1>3, <1>4 DEF Tcp!socket_alloc

(* Closing a handle, in use or not.                                        *)
LEMMA CloseKeeps ==
  ASSUME Tcp!TableIsSound, TcpInv, Tcp!net_tcp_close
  PROVE  TcpInv'
<1>1. TableSound /\ StatsSound /\ CallSound /\ Tcp!Idle /\ script = Tcp!InUse
  BY DEF TcpInv, CallSound, Tcp!net_tcp_close
<1>2. PICK h \in Tcp!Handles : Tcp!socket_free(h) /\ script' = script \ {h}
  BY DEF Tcp!net_tcp_close
<1>3. UNCHANGED <<lost, receiving>>
  BY DEF Tcp!net_tcp_close
<1>4. TableSound' /\ StatsSound' /\ Tcp!InUse' = Tcp!InUse \ {h}
  BY <1>1, <1>2, <1>3, FreeKeeps
<1> QED
  BY <1>1, <1>2, <1>3, <1>4, IdleCall DEF TcpInv

(* What is sent and received at a handle is one record of counters.        *)
LEMMA CountsRecord ==
  ASSUME Tcp!TableIsSound, TableSound, StatsSound, NEW h \in Tcp!InUse, NEW n \in Nat
  PROVE  /\ stats[h] = moved[sockets[h]] /\ stats[h] \in Counters
         /\ stats[h].bytes_sent + n <= MaxSent =>
              /\ [stats[h] EXCEPT !.bytes_sent = @ + n] \in Counters
              /\ [stats EXCEPT ![h].bytes_sent = @ + n]
                   = [stats EXCEPT ![h] = [stats[h] EXCEPT !.bytes_sent = @ + n]]
              /\ [moved EXCEPT ![sockets[h]].bytes_sent = @ + n]
                   = [moved EXCEPT ![sockets[h]] = [stats[h] EXCEPT !.bytes_sent = @ + n]]
         /\ stats[h].bytes_received + n <= MaxReceived =>
              /\ [stats[h] EXCEPT !.bytes_received = @ + n] \in Counters
              /\ [stats[h] EXCEPT !.bytes_received = @ + n].bytes_received
                   = stats[h].bytes_received + n
              /\ [stats EXCEPT ![h].bytes_received = @ + n]
                   = [stats EXCEPT ![h] = [stats[h] EXCEPT !.bytes_received = @ + n]]
              /\ [moved EXCEPT ![sockets[h]].bytes_received = @ + n]
                   = [moved EXCEPT ![sockets[h]] = [stats[h] EXCEPT !.bytes_received = @ + n]]
<1>1. /\ h \in Tcp!Handles /\ sockets[h] \in Fds /\ stats[h] = moved[sockets[h]]
      /\ stats[h] \in Counters /\ MaxSent \in Nat /\ MaxReceived \in Nat
  BY DEF TableSound, StatsSound, Tcp!InUse, Counters, Tcp!TableIsSound
<1>2. stats[h].bytes_sent + n <= MaxSent => [stats[h] EXCEPT !.bytes_sent = @ + n] \in Counters
  BY <1>1 DEF Counters
<1>3. stats[h].bytes_received + n <= MaxReceived =>
        /\ [stats[h] EXCEPT !.bytes_received = @ + n] \in Counters
        /\ [stats[h] EXCEPT !.bytes_received = @ + n].bytes_received = stats[h].bytes_received + n
  BY <1>1 DEF Counters
<1> QED
  BY <1>1, <1>2, <1>3

(* Sending, and receiving once.                                            *)
LEMMA TransferKeeps ==
  ASSUME Tcp!TableIsSound, TcpInv, Tcp!net_tcp_send \/ Tcp!net_tcp_recv
  PROVE  TcpInv'
<1>1. TableSound /\ StatsSound /\ CallSound /\ Tcp!Idle /\ script = Tcp!InUse
  BY DEF TcpInv, CallSound, Tcp!net_tcp_send, Tcp!net_tcp_recv
<1>2. UNCHANGED <<sockets, open, lost, script, receiving>>
  BY DEF Tcp!net_tcp_send, Tcp!net_tcp_recv
<1>3. 1 .. CHUNK \subseteq Nat
  BY DEF Tcp!TableIsSound
<1>4. \E h \in Tcp!InUse, c \in Counters : Counts(h, c)
  <2>1. CASE Tcp!net_tcp_send
    <3>1. PICK h \in Tcp!InUse, sent \in 1 .. CHUNK :
            /\ stats[h].bytes_sent + sent <= MaxSent
            /\ stats' = [stats EXCEPT ![h].bytes_sent = @ + sent]
            /\ moved' = [moved EXCEPT ![sockets[h]].bytes_sent = @ + sent]
      BY <2>1 DEF Tcp!net_tcp_send
    <3> DEFINE c == [stats[h] EXCEPT !.bytes_sent = @ + sent]
    <3>2. c \in Counters /\ stats' = [stats EXCEPT ![h] = c] /\ moved' = [moved EXCEPT ![sockets[h]] = c]
      BY <1>1, <1>3, <3>1, CountsRecord
    <3> HIDE DEF c
    <3>3. Counts(h, c)
      BY <1>2, <3>2 DEF Counts
    <3> QED
      BY <3>2, <3>3
  <2>2. CASE Tcp!net_tcp_recv
    <3>1. PICK h \in Tcp!InUse, received \in 1 .. CHUNK :
            /\ stats[h].bytes_received + received <= MaxReceived
            /\ stats' = [stats EXCEPT ![h].bytes_received = @ + received]
            /\ moved' = [moved EXCEPT ![sockets[h]].bytes_received = @ + received]
      BY <2>2 DEF Tcp!net_tcp_recv, Tcp!Received
    <3> DEFINE c == [stats[h] EXCEPT !.bytes_received = @ + received]
    <3>2. c \in Counters /\ stats' = [stats EXCEPT ![h] = c] /\ moved' = [moved EXCEPT ![sockets[h]] = c]
      BY <1>1, <1>3, <3>1, CountsRecord
    <3> HIDE DEF c
    <3>3. Counts(h, c)
      BY <1>2, <3>2 DEF Counts
    <3> QED
      BY <3>2, <3>3
  <2> QED
    BY <2>1, <2>2
<1>5. TableSound' /\ StatsSound' /\ Tcp!InUse' = Tcp!InUse
  BY <1>1, <1>4, CountsKeeps
<1> QED
  BY <1>1, <1>2, <1>5, IdleCall DEF TcpInv

\* What a call that waits starts with.
LEMMA StartedFacts ==
  ASSUME Tcp!TableIsSound, NEW h \in Tcp!Handles, NEW http \in BOOLEAN
  PROVE  LET r == Tcp!Started(h, http) IN
           /\ r \in [handle : {0} \cup Tcp!Handles, total : Nat, capacity : Nat,
                     elapsed : Nat, http : BOOLEAN]
           /\ r # Tcp!idle /\ r.handle = h /\ r.http = http
           /\ r.total = 0 /\ r.elapsed = 0 /\ r.capacity = CAPACITY
BY DEF Tcp!TableIsSound, Tcp!Started, Tcp!idle, Tcp!Handles

(* tcp_recv_all begins.                                                    *)
LEMMA ReceiveAllKeeps ==
  ASSUME Tcp!TableIsSound, TcpInv, Tcp!net_tcp_recv_all
  PROVE  TcpInv'
<1>1. TableSound /\ StatsSound /\ CallSound /\ Tcp!Idle /\ script = Tcp!InUse
  BY DEF TcpInv, CallSound, Tcp!net_tcp_recv_all
<1>2. PICK h \in Tcp!InUse : receiving' = Tcp!Started(h, FALSE)
  BY DEF Tcp!net_tcp_recv_all
<1>3. UNCHANGED <<sockets, stats, open, moved, lost, script>>
  BY DEF Tcp!net_tcp_recv_all
<1>4. TableSound' /\ StatsSound' /\ Tcp!InUse' = Tcp!InUse
  BY <1>1, <1>3 DEF TableSound, StatsSound, Tcp!InUse
<1>5. /\ receiving' \in [handle : {0} \cup Tcp!Handles, total : Nat, capacity : Nat,
                         elapsed : Nat, http : BOOLEAN]
      /\ receiving' # Tcp!idle /\ receiving'.handle = h /\ receiving'.http = FALSE
      /\ receiving'.total = 0 /\ receiving'.elapsed = 0 /\ receiving'.capacity = CAPACITY
  <2>1. h \in Tcp!Handles /\ FALSE \in BOOLEAN
    BY DEF Tcp!InUse
  <2> QED
    BY <1>2, <2>1, StartedFacts
<1>6. stats'[h].bytes_received \in Nat
  BY <1>4 DEF StatsSound, Tcp!InUse
<1>7. CallSound'
  <2>1. CHUNK <= CAPACITY /\ 0 <= CAPACITY /\ 0 <= Timeout + 1
    BY DEF Tcp!TableIsSound
  <2>2. ~Tcp!Idle'
    BY <1>5 DEF Tcp!Idle, Tcp!idle
  <2>3. h \in Tcp!InUse' /\ script' = Tcp!InUse'
    BY <1>1, <1>3, <1>4
  <2> QED
    BY <1>5, <1>6, <2>1, <2>2, <2>3 DEF CallSound
<1> QED
  BY <1>4, <1>7 DEF TcpInv

(* http_get has an entry of its own before it waits.                       *)
LEMMA HttpGetKeeps ==
  ASSUME Tcp!TableIsSound, TcpInv, Tcp!net_http_get
  PROVE  TcpInv'
<1>1. TableSound /\ StatsSound /\ CallSound /\ Tcp!Idle /\ script = Tcp!InUse
      /\ Tcp!InUse # Tcp!Handles
  BY DEF TcpInv, CallSound, Tcp!net_http_get
<1>2. PICK fd \in Fds \ open, sent \in 0 .. MaxSent :
        /\ \E h \in {Tcp!Min(Tcp!Handles \ Tcp!InUse)} :
             /\ sockets' = [sockets EXCEPT ![h] = fd]
             /\ stats' = [stats EXCEPT ![h] = [Tcp!nothing EXCEPT !.bytes_sent = sent]]
             /\ receiving' = Tcp!Started(h, TRUE)
        /\ open' = open \cup {fd}
        /\ moved' = [moved EXCEPT ![fd].bytes_sent = @ + sent]
  BY DEF Tcp!net_http_get
<1>3. PICK h \in Tcp!Handles \ Tcp!InUse :
        /\ sockets' = [sockets EXCEPT ![h] = fd]
        /\ stats' = [stats EXCEPT ![h] = [Tcp!nothing EXCEPT !.bytes_sent = sent]]
        /\ receiving' = Tcp!Started(h, TRUE)
  BY <1>1, <1>2, FreeHandle
<1>4. UNCHANGED <<lost, script>>
  BY DEF Tcp!net_http_get
<1> DEFINE c == [bytes_sent |-> sent, bytes_received |-> 0]
<1>5. [Tcp!nothing EXCEPT !.bytes_sent = sent] = c
  BY DEF Tcp!nothing
<1>6. moved' = [moved EXCEPT ![fd] = c]
  <2>1. moved[fd] = Tcp!nothing
    BY <1>1 DEF StatsSound
  <2>2. [moved[fd] EXCEPT !.bytes_sent = @ + sent] = c
    BY <2>1 DEF Tcp!nothing
  <2>3. [moved EXCEPT ![fd].bytes_sent = @ + sent]
          = [moved EXCEPT ![fd] = [moved[fd] EXCEPT !.bytes_sent = @ + sent]]
    OBVIOUS
  <2> HIDE DEF c
  <2> QED
    BY <1>2, <2>2, <2>3
<1>7. Opens(h, fd, sent)
  BY <1>2, <1>3, <1>4, <1>5, <1>6 DEF Opens
<1>8. TableSound' /\ StatsSound' /\ Tcp!InUse' = Tcp!InUse \cup {h}
  BY <1>1, <1>7, OpensKeeps
<1>9. /\ receiving' \in [handle : {0} \cup Tcp!Handles, total : Nat, capacity : Nat,
                         elapsed : Nat, http : BOOLEAN]
      /\ receiving' # Tcp!idle /\ receiving'.handle = h /\ receiving'.http = TRUE
      /\ receiving'.total = 0 /\ receiving'.elapsed = 0 /\ receiving'.capacity = CAPACITY
  <2>1. h \in Tcp!Handles /\ TRUE \in BOOLEAN
    OBVIOUS
  <2> QED
    BY <1>3, <2>1, StartedFacts
<1>10. stats'[h].bytes_received \in Nat
  BY <1>8 DEF StatsSound
<1>11. CallSound'
  <2>1. CHUNK <= CAPACITY /\ 0 <= CAPACITY /\ 0 <= Timeout + 1
    BY DEF Tcp!TableIsSound
  <2>2. ~Tcp!Idle'
    BY <1>9 DEF Tcp!Idle, Tcp!idle
  <2>3. h \in Tcp!InUse' /\ script' = Tcp!InUse' \ {h}
    BY <1>1, <1>4, <1>8
  <2> QED
    BY <1>9, <1>10, <2>1, <2>2, <2>3 DEF CallSound
<1> QED
  BY <1>8, <1>11 DEF TcpInv

(* The wait ends: http_get gives its entry back.                           *)
LEMMA EndKeeps ==
  ASSUME Tcp!TableIsSound, TcpInv, ~Tcp!Idle, Tcp!EndReceiving
  PROVE  TcpInv'
<1>1. /\ TableSound /\ StatsSound /\ receiving.handle \in Tcp!InUse
      /\ script = IF receiving.http THEN Tcp!InUse \ {receiving.handle} ELSE Tcp!InUse
  BY DEF TcpInv, CallSound
<1>2. receiving' = Tcp!idle /\ UNCHANGED <<lost, script>>
  BY DEF Tcp!EndReceiving
<1>3. TableSound' /\ StatsSound' /\ script' = Tcp!InUse'
  <2>1. CASE receiving.http
    <3>1. Tcp!socket_free(receiving.handle) /\ receiving.handle \in Tcp!Handles
      BY <1>1, <2>1 DEF Tcp!EndReceiving, Tcp!InUse
    <3>2. TableSound' /\ StatsSound' /\ Tcp!InUse' = Tcp!InUse \ {receiving.handle}
      BY <1>1, <1>2, <3>1, FreeKeeps
    <3> QED
      BY <1>1, <1>2, <2>1, <3>2
  <2>2. CASE ~receiving.http
    <3>1. UNCHANGED <<sockets, stats, open, moved>>
      BY <2>2 DEF Tcp!EndReceiving
    <3> QED
      BY <1>1, <1>2, <2>2, <3>1 DEF TableSound, StatsSound, Tcp!InUse
  <2> QED
    BY <2>1, <2>2
<1>4. CallSound'
  <2>1. Tcp!Idle'
    BY <1>2 DEF Tcp!Idle, Tcp!idle
  <2>2. receiving' \in [handle : {0} \cup Tcp!Handles, total : Nat, capacity : Nat,
                        elapsed : Nat, http : BOOLEAN]
    BY <1>2 DEF Tcp!idle
  <2> QED
    BY <1>3, <2>1, <2>2 DEF CallSound
<1> QED
  BY <1>3, <1>4 DEF TcpInv

(* A poll in vain ends the wait or makes it a second longer.               *)
LEMMA PollInVainKeeps ==
  ASSUME Tcp!TableIsSound, TcpInv, Tcp!PollInVain
  PROVE  TcpInv'
<1>1. ~Tcp!Idle /\ ~Tcp!TimedOut
  BY DEF Tcp!PollInVain
<1>2. CASE Tcp!EndReceiving
  BY <1>1, <1>2, EndKeeps
<1>3. CASE /\ receiving' = [receiving EXCEPT !.elapsed = @ + 1]
           /\ UNCHANGED <<sockets, stats, open, moved, lost, script>>
  <2>1. /\ receiving \in [handle : {0} \cup Tcp!Handles, total : Nat, capacity : Nat,
                          elapsed : Nat, http : BOOLEAN]
        /\ receiving.handle \in Tcp!InUse /\ 0 \notin Tcp!Handles /\ Timeout \in Nat
    BY <1>1 DEF TcpInv, CallSound, Tcp!Handles, Tcp!TableIsSound
  <2>2. /\ receiving' \in [handle : {0} \cup Tcp!Handles, total : Nat, capacity : Nat,
                           elapsed : Nat, http : BOOLEAN]
        /\ receiving'.handle = receiving.handle /\ receiving'.total = receiving.total
        /\ receiving'.capacity = receiving.capacity /\ receiving'.http = receiving.http
        /\ receiving'.elapsed = receiving.elapsed + 1
    BY <1>3, <2>1
  <2>3. receiving'.elapsed <= Timeout + 1
    BY <1>1, <2>1, <2>2 DEF Tcp!TimedOut
  <2>4. TableSound' /\ StatsSound' /\ Tcp!InUse' = Tcp!InUse
    BY <1>3 DEF TcpInv, TableSound, StatsSound, Tcp!InUse
  <2>5. ~Tcp!Idle'
    <3>1. receiving'.handle # 0
      BY <2>1, <2>2 DEF Tcp!InUse
    <3> QED
      BY <3>1 DEF Tcp!Idle, Tcp!idle
  <2>6. /\ script = IF receiving.http THEN Tcp!InUse \ {receiving.handle} ELSE Tcp!InUse
        /\ receiving.total <= stats[receiving.handle].bytes_received
        /\ receiving.total <= receiving.capacity /\ CHUNK <= receiving.capacity
    BY <1>1 DEF TcpInv, CallSound
  <2>7. CallSound'
    BY <1>3, <2>1, <2>2, <2>3, <2>4, <2>5, <2>6 DEF CallSound
  <2> QED
    BY <2>4, <2>7 DEF TcpInv
<1> QED
  BY <1>2, <1>3 DEF Tcp!PollInVain

(* What a poll found ends the wait or fits the buffer, which was grown     *)
(* before it was read.                                                     *)
LEMMA PollReadyKeeps ==
  ASSUME Tcp!TableIsSound, TcpInv, Tcp!PollReady
  PROVE  TcpInv'
<1>1. ~Tcp!Idle /\ ~Tcp!TimedOut
  BY DEF Tcp!PollReady
<1>2. CASE Tcp!EndReceiving
  BY <1>1, <1>2, EndKeeps
<1>3. ASSUME NEW received \in 1 .. CHUNK, NEW late \in 0 .. 1,
             stats[receiving.handle].bytes_received + received <= MaxReceived,
             receiving' = [receiving EXCEPT !.capacity = Tcp!Grown,
                                            !.total = @ + received,
                                            !.elapsed = @ + late],
             stats' = Tcp!Received(receiving.handle, received),
             moved' = [moved EXCEPT ![sockets[receiving.handle]].bytes_received = @ + received],
             UNCHANGED <<sockets, open, lost, script>>
      PROVE  TcpInv'
  <2> DEFINE h == receiving.handle
             c == [stats[h] EXCEPT !.bytes_received = @ + received]
  <2>1. TableSound /\ StatsSound /\ h \in Tcp!InUse /\ received \in Nat /\ late \in Nat
        /\ Timeout \in Nat /\ CHUNK \in Nat
    BY <1>1 DEF TcpInv, CallSound, Tcp!TableIsSound
  <2>2. /\ receiving \in [handle : {0} \cup Tcp!Handles, total : Nat, capacity : Nat,
                          elapsed : Nat, http : BOOLEAN]
        /\ script = IF receiving.http THEN Tcp!InUse \ {h} ELSE Tcp!InUse
        /\ receiving.total <= stats[h].bytes_received
        /\ receiving.total <= receiving.capacity /\ CHUNK <= receiving.capacity
    BY <1>1 DEF TcpInv, CallSound
  <2> HIDE DEF h
  <2>3. /\ c \in Counters /\ c.bytes_received = stats[h].bytes_received + received
        /\ stats' = [stats EXCEPT ![h] = c] /\ moved' = [moved EXCEPT ![sockets[h]] = c]
    BY <1>3, <2>1, CountsRecord DEF h, Tcp!Received
  <2> HIDE DEF c
  <2>4. Counts(h, c)
    BY <1>3, <2>3 DEF Counts
  <2>5. TableSound' /\ StatsSound' /\ Tcp!InUse' = Tcp!InUse /\ stats'[h] = c
    BY <2>1, <2>3, <2>4, CountsKeeps
  <2> DEFINE grown == Tcp!Grown
  <2>6. /\ grown \in Nat /\ receiving.total + CHUNK <= grown /\ CHUNK <= grown
    BY <2>1, <2>2 DEF Tcp!Grown
  <2>7. receiving' = [receiving EXCEPT !.capacity = grown, !.total = @ + received, !.elapsed = @ + late]
    BY <1>3
  <2> HIDE DEF grown
  <2>8. /\ receiving' \in [handle : {0} \cup Tcp!Handles, total : Nat, capacity : Nat,
                           elapsed : Nat, http : BOOLEAN]
        /\ receiving'.handle = h /\ receiving'.total = receiving.total + received
        /\ receiving'.capacity = grown /\ receiving'.http = receiving.http
        /\ receiving'.elapsed = receiving.elapsed + late
    <3> DEFINE total == receiving.total + received   elapsed == receiving.elapsed + late
    <3>1. total \in Nat /\ elapsed \in Nat
      BY <2>1, <2>2
    <3>2. receiving' = [receiving EXCEPT !.capacity = grown, !.total = total, !.elapsed = elapsed]
      BY <2>2, <2>7
    <3>3. total = receiving.total + received /\ elapsed = receiving.elapsed + late
      OBVIOUS
    <3> HIDE DEF total, elapsed
    <3>4. /\ receiving' \in [handle : {0} \cup Tcp!Handles, total : Nat, capacity : Nat,
                             elapsed : Nat, http : BOOLEAN]
          /\ receiving'.handle = receiving.handle /\ receiving'.total = total
          /\ receiving'.capacity = grown /\ receiving'.http = receiving.http
          /\ receiving'.elapsed = elapsed
      BY ONLY <2>2, <2>6, <3>1, <3>2
    <3> QED
      BY <3>3, <3>4 DEF h
  <2>9. receiving'.elapsed <= Timeout + 1
    BY <1>1, <2>1, <2>2, <2>8 DEF Tcp!TimedOut
  <2>10. receiving'.total <= stats'[h].bytes_received
    <3>1. stats[h].bytes_received \in Nat
      BY <2>1 DEF StatsSound, Tcp!InUse
    <3> QED
      BY <2>1, <2>2, <2>3, <2>5, <2>8, <3>1
  <2>11. receiving'.total <= receiving'.capacity /\ CHUNK <= receiving'.capacity
    <3>1. received <= CHUNK
      OBVIOUS
    <3> QED
      BY <2>1, <2>2, <2>6, <2>8, <3>1
  <2>12. ~Tcp!Idle'
    <3>1. h # 0
      BY <2>1 DEF Tcp!InUse, Tcp!Handles
    <3> QED
      BY <2>8, <3>1 DEF Tcp!Idle, Tcp!idle
  <2>13. CallSound'
    BY <1>3, <2>1, <2>2, <2>5, <2>8, <2>9, <2>10, <2>11, <2>12 DEF CallSound
  <2> QED
    BY <2>5, <2>13 DEF TcpInv
<1> QED
  BY <1>2, <1>3 DEF Tcp!PollReady

(* TcpInv is inductive.                                                    *)
THEOREM TcpInductive == Tcp!TableIsSound => (Tcp!Spec => []TcpInv)
<1> SUFFICES ASSUME Tcp!TableIsSound PROVE Tcp!Spec => []TcpInv
  OBVIOUS
<1>1. Tcp!Init => TcpInv
  <2> SUFFICES ASSUME Tcp!Init PROVE TcpInv
    OBVIOUS
  <2>1. Tcp!InUse = {} /\ Tcp!Idle
    BY DEF Tcp!Init, Tcp!InUse, Tcp!Idle
  <2>2. TableSound
    BY <2>1 DEF Tcp!Init, TableSound
  <2>3. StatsSound
    <3>1. /\ Tcp!nothing \in [bytes_sent : 0 .. MaxSent, bytes_received : 0 .. MaxReceived]
          /\ Tcp!nothing \in [bytes_sent : Nat, bytes_received : Nat]
      BY DEF Tcp!nothing, Tcp!TableIsSound
    <3> QED
      BY <2>1, <3>1 DEF Tcp!Init, StatsSound
  <2>4. CallSound
    BY <2>1 DEF Tcp!Init, CallSound, Tcp!idle
  <2> QED
    BY <2>2, <2>3, <2>4 DEF TcpInv
<1>2. TcpInv /\ [Tcp!Next]_Tcp!vars => TcpInv'
  <2> SUFFICES ASSUME TcpInv, [Tcp!Next]_Tcp!vars PROVE TcpInv'
    OBVIOUS
  <2>1. CASE Tcp!net_tcp_connect
    BY <2>1, AllocKeeps DEF Tcp!net_tcp_connect
  <2>2. CASE Tcp!net_tcp_listen
    BY <2>2, AllocKeeps DEF Tcp!net_tcp_listen
  <2>3. CASE Tcp!net_tcp_accept
    BY <2>3, AllocKeeps DEF Tcp!net_tcp_accept
  <2>4. CASE Tcp!net_tcp_close
    BY <2>4, CloseKeeps
  <2>5. CASE Tcp!net_tcp_send \/ Tcp!net_tcp_recv
    BY <2>5, TransferKeeps
  <2>6. CASE Tcp!net_tcp_recv_all
    BY <2>6, ReceiveAllKeeps
  <2>7. CASE Tcp!net_http_get
    BY <2>7, HttpGetKeeps
  <2>8. CASE Tcp!GiveUp
    BY <2>8, EndKeeps DEF Tcp!GiveUp
  <2>9. CASE Tcp!PollInVain
    BY <2>9, PollInVainKeeps
  <2>10. CASE Tcp!PollReady
    BY <2>10, PollReadyKeeps
  <2>11. CASE UNCHANGED Tcp!vars
    BY <2>11 DEF Tcp!vars, TcpInv, TableSound, StatsSound, CallSound, Tcp!InUse, Tcp!Idle
  <2> QED
    BY <2>1, <2>2, <2>3, <2>4, <2>5, <2>6, <2>7, <2>8, <2>9, <2>10, <2>11 DEF Tcp!Next
<1> QED
  BY <1>1, <1>2, PTL DEF Tcp!Spec

(* Every open descriptor is that of one handle, or was dropped by listen   *)
(* or accept when the table was full (net_module.c:144-182, 545-610).      *)
THEOREM OneHandlePerDescriptor == Tcp!TableIsSound => (Tcp!Spec => []Tcp!DescriptorsAreOwned)
<1> SUFFICES ASSUME Tcp!TableIsSound PROVE Tcp!Spec => []Tcp!DescriptorsAreOwned
  OBVIOUS
<1>1. TcpInv => Tcp!DescriptorsAreOwned
  <2> SUFFICES ASSUME TcpInv PROVE Tcp!DescriptorsAreOwned
    OBVIOUS
  <2> DEFINE U == Tcp!InUse
             owned == {sockets[h] : h \in U}
             f == [h \in U |-> sockets[h]]
  <2>1. /\ open = owned \cup lost /\ owned \cap lost = {} /\ open \subseteq Fds
        /\ \A g, h \in U : sockets[g] = sockets[h] => g = h
    BY DEF TcpInv, TableSound
  <2>2. f \in Bijection(U, owned)
    BY <2>1 DEF Bijection, Injection, Surjection, IsInjective
  <2>3. IsFiniteSet(U)
    <3>1. U \subseteq 1 .. MAX_SOCKETS /\ MAX_SOCKETS \in Int
      BY DEF Tcp!InUse, Tcp!Handles, Tcp!TableIsSound
    <3> HIDE DEF U
    <3>2. IsFiniteSet(1 .. MAX_SOCKETS)
      BY <3>1, FS_Interval
    <3> QED
      BY <3>1, <3>2, FS_Subset
  <2>4. IsFiniteSet(lost)
    <3>1. lost \in SUBSET Fds /\ IsFiniteSet(Fds)
      BY FiniteInTcp DEF TcpInv, TableSound, Tcp!TableIsSound
    <3> QED
      BY <3>1, FS_Subset
  <2> HIDE DEF U, owned, f
  <2>5. IsFiniteSet(owned) /\ Cardinality(owned) = Cardinality(U)
    BY <2>2, <2>3, FS_Bijection DEF ExistsBijection
  <2>6. Cardinality(owned \cup lost)
          = Cardinality(owned) + Cardinality(lost) - Cardinality(owned \cap lost)
    BY <2>4, <2>5, FS_Union
  <2>7. Cardinality(owned \cap lost) = 0 /\ Cardinality(owned) \in Nat /\ Cardinality(lost) \in Nat
    BY <2>1, <2>4, <2>5, FS_EmptySet, FS_CardinalityType
  <2>8. Cardinality(open) = Cardinality(U) + Cardinality(lost)
    BY <2>1, <2>5, <2>6, <2>7
  <2>9. U = Tcp!InUse /\ owned = {sockets[h] : h \in Tcp!InUse}
    BY DEF U, owned
  <2> QED
    BY <2>1, <2>8, <2>9, FiniteInTcp DEF Tcp!DescriptorsAreOwned
<1> QED
  BY <1>1, TcpInductive, PTL

(* Between calls the entries in use are those the program has the handles  *)
(* of: http_get leaves none behind (net_module.c:799-874).                 *)
THEOREM NoHandleIsLeftBehind == Tcp!TableIsSound => (Tcp!Spec => []Tcp!HandlesAreGiven)
<1> SUFFICES ASSUME Tcp!TableIsSound PROVE Tcp!Spec => []Tcp!HandlesAreGiven
  OBVIOUS
<1>1. TcpInv => Tcp!HandlesAreGiven
  BY DEF TcpInv, CallSound, Tcp!HandlesAreGiven
<1> QED
  BY <1>1, TcpInductive, PTL

(* The counters of a handle are those of its present connection            *)
(* (net_module.c:144-182, 412-470).                                        *)
THEOREM StatsAreOfTheConnection == Tcp!TableIsSound => (Tcp!Spec => []Tcp!StatsTellTheConnection)
<1> SUFFICES ASSUME Tcp!TableIsSound PROVE Tcp!Spec => []Tcp!StatsTellTheConnection
  OBVIOUS
<1>1. TcpInv => Tcp!StatsTellTheConnection
  BY DEF TcpInv, StatsSound, Tcp!StatsTellTheConnection, Tcp!InUse
<1> QED
  BY <1>1, TcpInductive, PTL

(* tcp_recv_all ends within a second of its limit, and never writes past   *)
(* its buffer, whatever the peer sends (net_module.c:475-540).             *)
THEOREM ReceivingIsBounded ==
  Tcp!TableIsSound => (Tcp!Spec => [](Tcp!ReceivingIsTimely /\ Tcp!ReceivedFits))
<1> SUFFICES ASSUME Tcp!TableIsSound
             PROVE  Tcp!Spec => [](Tcp!ReceivingIsTimely /\ Tcp!ReceivedFits)
  OBVIOUS
<1>1. TcpInv => Tcp!ReceivingIsTimely /\ Tcp!ReceivedFits
  <2> SUFFICES ASSUME TcpInv PROVE Tcp!ReceivingIsTimely /\ Tcp!ReceivedFits
    OBVIOUS
  <2>1. CASE Tcp!Idle
    BY <2>1 DEF Tcp!Idle, Tcp!idle, Tcp!ReceivingIsTimely, Tcp!ReceivedFits, Tcp!TableIsSound
  <2>2. CASE ~Tcp!Idle
    BY <2>2 DEF TcpInv, CallSound, Tcp!ReceivingIsTimely, Tcp!ReceivedFits
  <2> QED
    BY <2>1, <2>2
<1> QED
  BY <1>1, TcpInductive, PTL

(* Every variable holds a value of its type.                               *)
THEOREM TcpTypeCorrect == Tcp!TableIsSound => (Tcp!Spec => []Tcp!TypeOK)
<1> SUFFICES ASSUME Tcp!TableIsSound PROVE Tcp!Spec => []Tcp!TypeOK
  OBVIOUS
<1>1. TcpInv => Tcp!TypeOK
  <2> SUFFICES ASSUME TcpInv PROVE Tcp!TypeOK
    OBVIOUS
  <2>1. receiving.total \in 0 .. MaxReceived /\ script \subseteq Tcp!Handles
    <3>1. CASE Tcp!Idle
      BY <3>1 DEF Tcp!Idle, Tcp!idle, Tcp!TableIsSound, TcpInv, CallSound, Tcp!InUse
    <3>2. CASE ~Tcp!Idle
      <4>1. receiving.handle \in Tcp!Handles /\ receiving.total \in Nat
            /\ receiving.total <= stats[receiving.handle].bytes_received
            /\ script \subseteq Tcp!Handles
        BY <3>2 DEF TcpInv, CallSound, Tcp!InUse
      <4>2. stats[receiving.handle].bytes_received \in 0 .. MaxReceived
        BY <4>1 DEF TcpInv, StatsSound
      <4> QED
        BY <4>1, <4>2 DEF Tcp!TableIsSound
    <3> QED
      BY <3>1, <3>2
  <2>2. receiving \in [handle : {0} \cup Tcp!Handles, total : 0 .. MaxReceived,
                       capacity : Nat, elapsed : Nat, http : BOOLEAN]
    BY <2>1 DEF TcpInv, CallSound
  <2> QED
    BY <2>1, <2>2 DEF TcpInv, TableSound, StatsSound, Tcp!TypeOK
<1> QED
  BY <1>1, TcpInductive, PTL

(***************************************************************************)
(* The nodes of a cluster (Cluster.tla, whose sockets are here those of    *)
(* Fds).  The array keeps neither the order nor the places of the nodes,   *)
(* so that what finds a node are the ids, which must be different.         *)
(***************************************************************************)
CONSTANTS Ids, local_node_id, StateNames, MaxSubscriptions, MaxCalls
VARIABLES nodes, subscriptions, next_rpc_seq, state_propagations, asked, reply

Cluster == INSTANCE Cluster WITH Sockets <- Fds

\* An open socket is that of one node, and a node that is not the local one
\* has an open socket when it is connected.
NodesSound(array) ==
    /\ array \in Seq(Cluster!ClusterNode)
    /\ open \subseteq Fds
    /\ \A k, l \in DOMAIN array : array[k].node_id = array[l].node_id => k = l
    /\ \A k, l \in DOMAIN array : array[k].socket = array[l].socket =>
          k = l \/ array[k].socket = Cluster!no_socket
    /\ \A k \in DOMAIN array :
          /\ array[k].socket \in open \cup {Cluster!no_socket}
          /\ ~array[k].is_local => (array[k].is_connected <=> array[k].socket \in open)
    /\ \A sock \in open : \E k \in DOMAIN array : array[k].socket = sock

ClusterInv == NodesSound(nodes)

(* What taking an element out and putting the last one into its place      *)
(* leaves.                                                                 *)
LEMMA WithoutElements ==
  ASSUME NEW S, NEW s \in Seq(S), NEW n \in 1 .. Len(s)
  PROVE  /\ Cluster!Without(s, n) \in Seq(S)
         /\ Len(Cluster!Without(s, n)) = Len(s) - 1
         /\ DOMAIN Cluster!Without(s, n) = 1 .. Len(s) - 1
         /\ \A k \in 1 .. Len(s) - 1 :
               Cluster!Without(s, n)[k] = IF k = n THEN s[Len(s)] ELSE s[k]
<1> DEFINE l == Len(s)   t == [s EXCEPT ![n] = s[l]]   r == SubSeq(t, 1, l - 1)
<1>1. l \in Nat /\ l # 0 /\ DOMAIN s = 1 .. l /\ s \in [1 .. l -> S] /\ s[l] \in S
  BY LenProperties, ElementOfSeq
<1>2. t \in [1 .. l -> S] /\ DOMAIN t = 1 .. l
  BY <1>1
<1>3. t \in Seq(S) /\ Len(t) = l
  <2>1. t \in Seq(S)
    BY <1>1, <1>2, SeqDef
  <2> QED
    BY <1>1, <1>2, <2>1, LenProperties
<1>4. \A k \in 1 .. l : t[k] = IF k = n THEN s[l] ELSE s[k]
  BY <1>1
<1>5. Cluster!Without(s, n) = r
  BY DEF Cluster!Without, Cluster!Last
<1> HIDE DEF t
<1>6. \A k \in 1 .. l - 1 : t[k] \in S
  BY <1>1, <1>2
<1>7. /\ r \in Seq(S) /\ Len(r) = l - 1
      /\ \A k \in 1 .. l - 1 : r[k] = t[k]
  BY <1>1, <1>3, <1>6, SubSeqProperties
<1>8. DOMAIN r = 1 .. l - 1
  BY <1>7, LenProperties
<1> QED
  BY <1>4, <1>5, <1>7, <1>8, <1>1

(* Looking for a node by its id finds the one that has it, if one has.     *)
LEMMA NodePosition ==
  ASSUME ClusterInv, NEW node_id
  PROVE  /\ Cluster!Position(node_id) \in 0 .. Len(nodes)
         /\ Cluster!Position(node_id) # 0 =>
               /\ Cluster!Position(node_id) \in DOMAIN nodes
               /\ nodes[Cluster!Position(node_id)].node_id = node_id
         /\ Cluster!Position(node_id) = 0 => \A k \in DOMAIN nodes : nodes[k].node_id # node_id
<1> DEFINE I == {k \in 1 .. Len(nodes) : nodes[k].node_id = node_id}
<1>1. Len(nodes) \in Nat /\ DOMAIN nodes = 1 .. Len(nodes)
  BY LenProperties DEF ClusterInv, NodesSound
<1>2. Cluster!Position(node_id) = IF I # {} THEN Min(I) ELSE 0
  BY DEF Cluster!Position, Cluster!SelectInSeq, Cluster!Min, Min
<1>3. I # {} => Min(I) \in I
  <2>1. I \in SUBSET Nat
    BY <1>1
  <2> QED
    BY <2>1, LeastOne
<1> QED
  BY <1>1, <1>2, <1>3

(* What the invariant says, node by node.                                  *)
LEMMA NodeFacts ==
  ASSUME Cluster!ClusterIsSound, ClusterInv
  PROVE  /\ Len(nodes) \in Nat /\ DOMAIN nodes = 1 .. Len(nodes)
         /\ \A k \in DOMAIN nodes : nodes[k] \in Cluster!ClusterNode
         /\ Cluster!no_socket \notin Fds /\ open \subseteq Fds
BY LenProperties, ElementOfSeq DEF ClusterInv, NodesSound, Cluster!ClusterIsSound, Cluster!no_socket

(* A new node has no socket, and an id that was not there.                 *)
LEMMA AddNodeKeeps ==
  ASSUME Cluster!ClusterIsSound, ClusterInv, NEW node_id \in Ids,
         Cluster!distributed_reactive_add_node(node_id)
  PROVE  ClusterInv'
<1> DEFINE node == [node_id |-> node_id, is_local |-> FALSE, is_connected |-> FALSE,
                    socket |-> Cluster!no_socket]
           l == Len(nodes)
<1>1. /\ nodes' = Append(nodes, node) /\ open' = open
      /\ Cluster!Position(node_id) = 0
  BY DEF Cluster!distributed_reactive_add_node
<1>2. node \in Cluster!ClusterNode
  BY DEF Cluster!ClusterNode
<1>3. /\ node.node_id = node_id /\ node.socket = Cluster!no_socket
      /\ node.is_local = FALSE /\ node.is_connected = FALSE
  OBVIOUS
<1> HIDE DEF node
<1>4. nodes \in Seq(Cluster!ClusterNode)
  BY DEF ClusterInv, NodesSound
<1>5. /\ nodes' \in Seq(Cluster!ClusterNode)
      /\ DOMAIN nodes' = 1 .. l + 1
      /\ \A k \in 1 .. l : nodes'[k] = nodes[k]
      /\ nodes'[l + 1] = node
  BY <1>1, <1>2, <1>4, AppendElements
<1>6. l \in Nat /\ DOMAIN nodes = 1 .. l /\ Cluster!no_socket \notin open
  BY NodeFacts
<1>7. \A k \in DOMAIN nodes' : k \in DOMAIN nodes \/ k = l + 1
  BY <1>5, <1>6
<1>8. \A k \in DOMAIN nodes : nodes[k].node_id # node_id
  BY <1>1, NodePosition
<1> QED
  BY <1>1, <1>3, <1>5, <1>6, <1>7, <1>8 DEF ClusterInv, NodesSound

(* A node gets a socket that was not open, or gives up the one it had.     *)
LEMMA SetNodeKeeps ==
  ASSUME Cluster!ClusterIsSound, ClusterInv, NEW p \in DOMAIN nodes,
         NEW node \in Cluster!ClusterNode,
         nodes' = [nodes EXCEPT ![p] = node],
         node.node_id = nodes[p].node_id, node.is_local = nodes[p].is_local,
         \/ /\ node.socket \in Fds \ open /\ node.is_connected = TRUE
            /\ open' = open \cup {node.socket}
            /\ nodes[p].socket \notin open
         \/ /\ node.socket = Cluster!no_socket /\ node.is_connected = FALSE
            /\ open' = open \ {nodes[p].socket}
  PROVE  ClusterInv'
<1>1. /\ DOMAIN nodes = 1 .. Len(nodes) /\ Len(nodes) \in Nat
      /\ \A k \in DOMAIN nodes : nodes[k] \in Cluster!ClusterNode
      /\ Cluster!no_socket \notin Fds /\ open \subseteq Fds
  BY NodeFacts
<1>2. /\ DOMAIN nodes' = DOMAIN nodes
      /\ \A k \in DOMAIN nodes : nodes'[k] = IF k = p THEN node ELSE nodes[k]
  BY DEF Cluster!ClusterNode
<1>3. nodes' \in Seq(Cluster!ClusterNode)
  <2>1. nodes' \in [1 .. Len(nodes) -> Cluster!ClusterNode]
    BY <1>1, <1>2
  <2> QED
    BY <1>1, <2>1, SeqDef
<1>4. /\ \A k, l \in DOMAIN nodes : nodes[k].node_id = nodes[l].node_id => k = l
      /\ \A k, l \in DOMAIN nodes : nodes[k].socket = nodes[l].socket =>
            k = l \/ nodes[k].socket = Cluster!no_socket
      /\ \A k \in DOMAIN nodes :
            /\ nodes[k].socket \in open \cup {Cluster!no_socket}
            /\ ~nodes[k].is_local => (nodes[k].is_connected <=> nodes[k].socket \in open)
      /\ \A sock \in open : \E k \in DOMAIN nodes : nodes[k].socket = sock
  BY DEF ClusterInv, NodesSound
<1>5. open' \subseteq Fds
  BY <1>1
<1>6. \A k, l \in DOMAIN nodes' : nodes'[k].node_id = nodes'[l].node_id => k = l
  BY <1>2, <1>4
<1>7. \A k, l \in DOMAIN nodes' : nodes'[k].socket = nodes'[l].socket =>
          k = l \/ nodes'[k].socket = Cluster!no_socket
  BY <1>1, <1>2, <1>4
<1>8. \A k \in DOMAIN nodes' :
          /\ nodes'[k].socket \in open' \cup {Cluster!no_socket}
          /\ ~nodes'[k].is_local => (nodes'[k].is_connected <=> nodes'[k].socket \in open')
  BY <1>1, <1>2, <1>4
<1>9. \A sock \in open' : \E k \in DOMAIN nodes' : nodes'[k].socket = sock
  BY <1>1, <1>2, <1>4
<1> QED
  BY <1>3, <1>5, <1>6, <1>7, <1>8, <1>9 DEF ClusterInv, NodesSound

(* A node that goes takes its socket with it, and the last one moves.      *)
LEMMA RemoveNodeKeeps ==
  ASSUME Cluster!ClusterIsSound, ClusterInv, NEW node_id \in Ids,
         Cluster!distributed_reactive_remove_node(node_id)
  PROVE  ClusterInv'
<1> DEFINE p == Cluster!Position(node_id)   n == Len(nodes)
           From(k) == IF k = p THEN n ELSE k
<1>1. /\ nodes' = Cluster!Without(nodes, p) /\ open' = open \ {nodes[p].socket} /\ p # 0
  BY DEF Cluster!distributed_reactive_remove_node
<1>2. p \in DOMAIN nodes
  BY <1>1, NodePosition
<1> HIDE DEF p
<1>3. /\ n \in Nat /\ DOMAIN nodes = 1 .. n
      /\ Cluster!no_socket \notin Fds /\ open \subseteq Fds
  BY NodeFacts
<1>4. nodes \in Seq(Cluster!ClusterNode)
  BY DEF ClusterInv, NodesSound
<1>5. /\ nodes' \in Seq(Cluster!ClusterNode)
      /\ DOMAIN nodes' = 1 .. n - 1
      /\ \A k \in 1 .. n - 1 : nodes'[k] = nodes[From(k)]
  <2>1. \A k \in 1 .. n - 1 : nodes'[k] = IF k = p THEN nodes[n] ELSE nodes[k]
    BY <1>1, <1>2, <1>3, <1>4, WithoutElements
  <2>2. nodes' \in Seq(Cluster!ClusterNode) /\ DOMAIN nodes' = 1 .. n - 1
    BY <1>1, <1>2, <1>3, <1>4, WithoutElements
  <2> QED
    BY <2>1, <2>2
<1>6. /\ \A k \in DOMAIN nodes' : From(k) \in DOMAIN nodes /\ From(k) # p
      /\ \A k, l \in DOMAIN nodes' : From(k) = From(l) => k = l
  BY <1>2, <1>3, <1>5
<1>7. \A k \in DOMAIN nodes : k # p => \E l \in DOMAIN nodes' : From(l) = k
  <2> SUFFICES ASSUME NEW k \in DOMAIN nodes, k # p PROVE \E l \in DOMAIN nodes' : From(l) = k
    OBVIOUS
  <2>1. CASE k = n
    <3>1. p \in DOMAIN nodes' /\ From(p) = k
      BY <1>2, <1>3, <1>5, <2>1
    <3> QED
      BY <3>1
  <2>2. CASE k # n
    <3>1. k \in DOMAIN nodes' /\ From(k) = k
      BY <1>3, <1>5, <2>2
    <3> QED
      BY <3>1
  <2> QED
    BY <2>1, <2>2
<1>8. \A k \in DOMAIN nodes' : nodes'[k] = nodes[From(k)]
  BY <1>5
<1> HIDE DEF From
<1>9. /\ \A k, l \in DOMAIN nodes : nodes[k].node_id = nodes[l].node_id => k = l
      /\ \A k, l \in DOMAIN nodes : nodes[k].socket = nodes[l].socket =>
            k = l \/ nodes[k].socket = Cluster!no_socket
      /\ \A k \in DOMAIN nodes :
            /\ nodes[k].socket \in open \cup {Cluster!no_socket}
            /\ ~nodes[k].is_local => (nodes[k].is_connected <=> nodes[k].socket \in open)
      /\ \A sock \in open : \E k \in DOMAIN nodes : nodes[k].socket = sock
  BY DEF ClusterInv, NodesSound
<1>10. \A k \in DOMAIN nodes' : nodes'[k].socket \in open' \cup {Cluster!no_socket}
  BY <1>1, <1>2, <1>3, <1>6, <1>8, <1>9
<1>11. \A k \in DOMAIN nodes' :
          ~nodes'[k].is_local => (nodes'[k].is_connected <=> nodes'[k].socket \in open')
  BY <1>1, <1>2, <1>3, <1>6, <1>8, <1>9
<1>12. \A sock \in open' : \E k \in DOMAIN nodes' : nodes'[k].socket = sock
  <2> SUFFICES ASSUME NEW sock \in open' PROVE \E k \in DOMAIN nodes' : nodes'[k].socket = sock
    OBVIOUS
  <2>1. PICK k \in DOMAIN nodes : nodes[k].socket = sock
    BY <1>1, <1>9
  <2>2. k # p
    BY <1>1, <2>1
  <2>3. PICK l \in DOMAIN nodes' : From(l) = k
    BY <1>7, <2>2
  <2> QED
    BY <1>8, <2>1, <2>3
<1>13. /\ \A k, l \in DOMAIN nodes' : nodes'[k].node_id = nodes'[l].node_id => k = l
       /\ \A k, l \in DOMAIN nodes' : nodes'[k].socket = nodes'[l].socket =>
             k = l \/ nodes'[k].socket = Cluster!no_socket
  BY <1>6, <1>8, <1>9
<1>14. open' \subseteq Fds
  BY <1>1, <1>3
<1> QED
  BY <1>5, <1>10, <1>11, <1>12, <1>13, <1>14 DEF ClusterInv, NodesSound

(* A node that is asked to connect has no socket yet.                      *)
LEMMA ConnectNodeKeeps ==
  ASSUME Cluster!ClusterIsSound, ClusterInv, NEW node_id \in Ids,
         Cluster!distributed_reactive_connect_node(node_id)
  PROVE  ClusterInv'
<1> DEFINE p == Cluster!Position(node_id)
<1>1. /\ p # 0 /\ ~nodes[p].is_local /\ ~nodes[p].is_connected
      /\ \E sock \in Fds \ open :
            /\ nodes' = [nodes EXCEPT ![p].socket = sock, ![p].is_connected = TRUE]
            /\ open' = open \cup {sock}
  BY DEF Cluster!distributed_reactive_connect_node
<1>2. p \in DOMAIN nodes
  BY <1>1, NodePosition
<1> HIDE DEF p
<1>3. PICK sock \in Fds \ open :
         /\ nodes' = [nodes EXCEPT ![p].socket = sock, ![p].is_connected = TRUE]
         /\ open' = open \cup {sock}
  BY <1>1
<1>4. nodes[p] \in Cluster!ClusterNode
  BY <1>2, NodeFacts
<1> DEFINE node == [nodes[p] EXCEPT !.socket = sock, !.is_connected = TRUE]
<1>5. /\ node \in Cluster!ClusterNode
      /\ node.node_id = nodes[p].node_id /\ node.is_local = nodes[p].is_local
      /\ node.socket = sock /\ node.is_connected = TRUE
  BY <1>4 DEF Cluster!ClusterNode
<1>6. nodes' = [nodes EXCEPT ![p] = node]
  BY <1>2, <1>3
<1> HIDE DEF node
<1>7. nodes[p].socket \notin open
  BY <1>1, <1>2 DEF ClusterInv, NodesSound
<1> QED
  BY <1>2, <1>3, <1>5, <1>6, <1>7, SetNodeKeeps

LEMMA DisconnectNodeKeeps ==
  ASSUME Cluster!ClusterIsSound, ClusterInv, NEW node_id \in Ids,
         Cluster!distributed_reactive_disconnect_node(node_id)
  PROVE  ClusterInv'
<1> DEFINE p == Cluster!Position(node_id)
<1>1. /\ p # 0 /\ open' = open \ {nodes[p].socket}
      /\ nodes' = [nodes EXCEPT ![p].socket = Cluster!no_socket, ![p].is_connected = FALSE]
  BY DEF Cluster!distributed_reactive_disconnect_node
<1>2. p \in DOMAIN nodes
  BY <1>1, NodePosition
<1> HIDE DEF p
<1>4. nodes[p] \in Cluster!ClusterNode
  BY <1>2, NodeFacts
<1> DEFINE node == [nodes[p] EXCEPT !.socket = Cluster!no_socket, !.is_connected = FALSE]
<1>5. /\ node \in Cluster!ClusterNode
      /\ node.node_id = nodes[p].node_id /\ node.is_local = nodes[p].is_local
      /\ node.socket = Cluster!no_socket /\ node.is_connected = FALSE
  BY <1>4 DEF Cluster!ClusterNode
<1>6. nodes' = [nodes EXCEPT ![p] = node]
  BY <1>1, <1>2
<1> HIDE DEF node
<1> QED
  BY <1>1, <1>2, <1>5, <1>6, SetNodeKeeps

LEMMA ClusterStepKeeps ==
  ASSUME Cluster!ClusterIsSound, ClusterInv, [Cluster!Next]_(Cluster!vars)
  PROVE  ClusterInv'
<1>1. CASE UNCHANGED <<nodes, open>>
  BY <1>1 DEF ClusterInv, NodesSound
<1>2. CASE UNCHANGED Cluster!vars
  BY <1>1, <1>2 DEF Cluster!vars
<1>3. CASE \E node_id \in Ids :
              \/ Cluster!distributed_reactive_add_node(node_id)
              \/ Cluster!distributed_reactive_remove_node(node_id)
              \/ Cluster!distributed_reactive_connect_node(node_id)
              \/ Cluster!distributed_reactive_disconnect_node(node_id)
  BY <1>3, AddNodeKeeps, RemoveNodeKeeps, ConnectNodeKeeps, DisconnectNodeKeeps
<1>4. CASE \E sub \in Cluster!RemoteStateSubscription :
              \/ Cluster!distributed_reactive_subscribe_state(sub)
              \/ Cluster!distributed_reactive_unsubscribe_state(sub)
  BY <1>1, <1>4 DEF Cluster!distributed_reactive_subscribe_state,
       Cluster!distributed_reactive_unsubscribe_state, Cluster!cluster
<1>5. CASE Cluster!distributed_reactive_call_remote \/ Cluster!distributed_reactive_propagate_state
  BY <1>1, <1>5 DEF Cluster!distributed_reactive_call_remote,
       Cluster!distributed_reactive_propagate_state, Cluster!cluster
<1> QED
  BY <1>2, <1>3, <1>4, <1>5 DEF Cluster!Next

(* The local node is alone at first.                                       *)
LEMMA ClusterInit == ASSUME Cluster!ClusterIsSound, Cluster!Init PROVE ClusterInv
<1> DEFINE node == [node_id |-> local_node_id, is_local |-> TRUE, is_connected |-> TRUE,
                    socket |-> Cluster!no_socket]
<1>1. nodes = <<node>> /\ open = {}
  BY DEF Cluster!Init
<1>2. node \in Cluster!ClusterNode
  BY DEF Cluster!ClusterNode, Cluster!ClusterIsSound
<1>3. node.is_local /\ node.socket = Cluster!no_socket
  OBVIOUS
<1> HIDE DEF node
<1>4. nodes \in Seq(Cluster!ClusterNode) /\ DOMAIN nodes = {1} /\ nodes[1] = node
  BY <1>1, <1>2
<1> QED
  BY <1>1, <1>3, <1>4 DEF ClusterInv, NodesSound

(* What is shown of a cluster holds for every size of the array, every     *)
(* number of sockets, and any order nodes come and go in.                  *)
THEOREM ClusterInductive == Cluster!ClusterIsSound => (Cluster!Spec => []ClusterInv)
<1> SUFFICES ASSUME Cluster!ClusterIsSound PROVE Cluster!Spec => []ClusterInv
  OBVIOUS
<1>1. Cluster!Init => ClusterInv
  BY ClusterInit
<1>2. ClusterInv /\ [Cluster!Next]_(Cluster!vars) => ClusterInv'
  BY ClusterStepKeeps
<1> QED
  BY <1>1, <1>2, PTL DEF Cluster!Spec

(* Every open socket is that of one connected node of the cluster, and no  *)
(* id is there twice (distributed.c:142-146, 171-189).                     *)
THEOREM OneNodePerSocket == Cluster!ClusterIsSound => (Cluster!Spec => []Cluster!SocketsAreOwned)
<1> SUFFICES ASSUME Cluster!ClusterIsSound PROVE Cluster!Spec => []Cluster!SocketsAreOwned
  OBVIOUS
<1>1. ASSUME ClusterInv PROVE Cluster!SocketsAreOwned
  <2>1. ASSUME NEW sock \in open
        PROVE  Cluster!Cardinality({k \in DOMAIN nodes : nodes[k].socket = sock}) = 1
    <3>1. PICK p \in DOMAIN nodes : nodes[p].socket = sock
      BY <1>1, <2>1 DEF ClusterInv, NodesSound
    <3>2. sock # Cluster!no_socket
      BY <1>1, <2>1, NodeFacts
    <3>3. \A k \in DOMAIN nodes : nodes[k].socket = sock => k = p
      BY <1>1, <3>1, <3>2 DEF ClusterInv, NodesSound
    <3>4. {k \in DOMAIN nodes : nodes[k].socket = sock} = {p}
      BY <3>1, <3>3
    <3>5. Cardinality({p}) = 1
      BY FS_Singleton
    <3>6. Cluster!Cardinality({p}) = Cardinality({p})
      BY DEF Cluster!Cardinality, Cardinality
    <3> QED
      BY <3>4, <3>5, <3>6
  <2>2. \A k, l \in DOMAIN nodes : k # l => nodes[k].node_id # nodes[l].node_id
    BY <1>1 DEF ClusterInv, NodesSound
  <2>3. \A k \in DOMAIN nodes : ~nodes[k].is_local =>
            (nodes[k].is_connected <=> nodes[k].socket \in open)
    BY <1>1 DEF ClusterInv, NodesSound
  <2> QED
    BY <2>1, <2>2, <2>3 DEF Cluster!SocketsAreOwned
<1> QED
  BY <1>1, ClusterInductive, PTL

(* The target of a call to any node is a connected one that is not the     *)
(* local one, if there is one.                                             *)
LEMMA FirstConnectedIsConnected ==
  ASSUME ClusterInv
  PROVE  /\ Cluster!FirstConnected # 0 =>
               /\ Cluster!FirstConnected \in DOMAIN nodes
               /\ nodes[Cluster!FirstConnected].is_connected
         /\ Cluster!FirstConnected = 0 =>
               \A k \in DOMAIN nodes : nodes[k].is_connected => nodes[k].is_local
<1> DEFINE I == {k \in 1 .. Len(nodes) : ~nodes[k].is_local /\ nodes[k].is_connected}
<1>1. Len(nodes) \in Nat /\ DOMAIN nodes = 1 .. Len(nodes)
  BY LenProperties DEF ClusterInv, NodesSound
<1>2. Cluster!FirstConnected = IF I # {} THEN Min(I) ELSE 0
  BY DEF Cluster!FirstConnected, Cluster!SelectInSeq, Cluster!Min, Min
<1>3. I # {} => Min(I) \in I
  <2>1. I \in SUBSET Nat
    BY <1>1
  <2> QED
    BY <2>1, LeastOne
<1>4. \A k \in I : k # 0
  BY <1>1
<1>5. CASE I = {}
  BY <1>1, <1>2, <1>5
<1>6. CASE I # {}
  BY <1>1, <1>2, <1>3, <1>4, <1>6
<1> QED
  BY <1>5, <1>6

(* A call reaches the node it is for when that one is connected, and any   *)
(* connected one when it is for none in particular (distributed.c:288-305).*)
THEOREM CallsFindTheirNode ==
  Cluster!ClusterIsSound =>
    (Cluster!Spec => [][Cluster!CallsGetThrough]_(Cluster!vars))
<1> SUFFICES ASSUME Cluster!ClusterIsSound
             PROVE  Cluster!Spec => [][Cluster!CallsGetThrough]_(Cluster!vars)
  OBVIOUS
<1>1. ASSUME ClusterInv, Cluster!Next PROVE Cluster!CallsGetThrough
  <2>1. CASE reply' = reply
    BY <2>1 DEF Cluster!CallsGetThrough
  <2>2. ASSUME NEW target_node \in Ids,
               Cluster!Call(target_node, Cluster!Position(target_node))
        PROVE  Cluster!CallsGetThrough
    <3> DEFINE p == Cluster!Position(target_node)
    <3>1. /\ p # 0 => p \in DOMAIN nodes /\ nodes[p].node_id = target_node
          /\ p = 0 => \A k \in DOMAIN nodes : nodes[k].node_id # target_node
      BY <1>1, NodePosition
    <3>2. IF p # 0 /\ nodes[p].is_connected
          THEN reply' = [target |-> target_node, node |-> nodes[p].node_id]
          ELSE reply' = [target |-> target_node, node |-> "net_error"]
      BY <2>2 DEF Cluster!Call
    <3> HIDE DEF p
    <3>3. target_node \notin {"any", "net_error"}
      BY DEF Cluster!ClusterIsSound
    <3>4. CASE p # 0 /\ nodes[p].is_connected
      <4>1. reply'.target = target_node /\ reply'.node = target_node
        BY <3>1, <3>2, <3>4
      <4> QED
        BY <3>1, <3>3, <3>4, <4>1 DEF Cluster!CallsGetThrough
    <3>5. CASE ~(p # 0 /\ nodes[p].is_connected)
      <4>1. reply'.target = target_node /\ reply'.node = "net_error"
        BY <3>2, <3>5
      <4>2. \A k \in DOMAIN nodes : nodes[k].is_connected => nodes[k].node_id # target_node
        BY <1>1, <3>1, <3>5 DEF ClusterInv, NodesSound
      <4> QED
        BY <3>3, <4>1, <4>2 DEF Cluster!CallsGetThrough
    <3> QED
      BY <3>4, <3>5
  <2>3. ASSUME Cluster!Call("any", Cluster!FirstConnected) PROVE Cluster!CallsGetThrough
    <3> DEFINE p == Cluster!FirstConnected
    <3>1. /\ p # 0 => p \in DOMAIN nodes /\ nodes[p].is_connected
          /\ p = 0 => \A k \in DOMAIN nodes : nodes[k].is_connected => nodes[k].is_local
      BY <1>1, FirstConnectedIsConnected
    <3>2. IF p # 0 /\ nodes[p].is_connected
          THEN reply' = [target |-> "any", node |-> nodes[p].node_id]
          ELSE reply' = [target |-> "any", node |-> "net_error"]
      BY <2>3 DEF Cluster!Call
    <3> HIDE DEF p
    <3>3. CASE p # 0
      <4>1. nodes[p] \in Cluster!ClusterNode
        BY <1>1, <3>1, <3>3, NodeFacts
      <4>2. nodes[p].node_id # "net_error"
        BY <4>1 DEF Cluster!ClusterNode, Cluster!ClusterIsSound
      <4>3. reply'.target = "any" /\ reply'.node = nodes[p].node_id
        BY <3>1, <3>2, <3>3
      <4> QED
        BY <3>1, <3>3, <4>2, <4>3 DEF Cluster!CallsGetThrough
    <3>4. CASE p = 0
      <4>1. reply'.target = "any" /\ reply'.node = "net_error"
        BY <3>2, <3>4
      <4> QED
        BY <3>1, <3>4, <4>1 DEF Cluster!CallsGetThrough
    <3> QED
      BY <3>3, <3>4
  <2>4. CASE Cluster!distributed_reactive_call_remote
    BY <2>2, <2>3, <2>4 DEF Cluster!distributed_reactive_call_remote
  <2>5. CASE \E node_id \in Ids :
                \/ Cluster!distributed_reactive_add_node(node_id)
                \/ Cluster!distributed_reactive_remove_node(node_id)
                \/ Cluster!distributed_reactive_connect_node(node_id)
                \/ Cluster!distributed_reactive_disconnect_node(node_id)
    BY <2>1, <2>5 DEF Cluster!distributed_reactive_add_node,
         Cluster!distributed_reactive_remove_node, Cluster!distributed_reactive_connect_node,
         Cluster!distributed_reactive_disconnect_node, Cluster!traffic
  <2>6. CASE \E sub \in Cluster!RemoteStateSubscription :
                \/ Cluster!distributed_reactive_subscribe_state(sub)
                \/ Cluster!distributed_reactive_unsubscribe_state(sub)
    BY <2>1, <2>6 DEF Cluster!distributed_reactive_subscribe_state,
         Cluster!distributed_reactive_unsubscribe_state, Cluster!traffic
  <2>7. CASE Cluster!distributed_reactive_propagate_state
    BY <2>1, <2>7 DEF Cluster!distributed_reactive_propagate_state
  <2> QED
    BY <1>1, <2>4, <2>5, <2>6, <2>7 DEF Cluster!Next
<1>2. ClusterInv /\ [Cluster!Next]_(Cluster!vars)
        => [Cluster!CallsGetThrough]_(Cluster!vars)
  BY <1>1
<1> QED
  BY <1>2, ClusterInductive, PTL DEF Cluster!Spec

(* The list of subscriptions, which loses its order as the array of nodes  *)
(* does, and how often each of them is in it.                              *)

PositionsOf(s, x) == {k \in DOMAIN s : s[k] = x}

SubscriptionsSound ==
    /\ subscriptions \in Seq(Cluster!RemoteStateSubscription)
    /\ asked \in [Cluster!RemoteStateSubscription -> Nat]
    /\ \A sub \in Cluster!RemoteStateSubscription :
          asked[sub] = Cardinality(PositionsOf(subscriptions, sub))

LEMMA PositionsAreFinite ==
  ASSUME NEW S, NEW s \in Seq(S), NEW x
  PROVE  /\ IsFiniteSet(PositionsOf(s, x))
         /\ Cardinality(PositionsOf(s, x)) \in Nat
<1>1. /\ Len(s) \in Nat
      /\ DOMAIN s = 1 .. Len(s)
  BY LenProperties
<1>2. IsFiniteSet(1 .. Len(s))
  BY <1>1, FS_Interval
<1>3. PositionsOf(s, x) \in SUBSET (1 .. Len(s))
  BY <1>1 DEF PositionsOf
<1>4. IsFiniteSet(PositionsOf(s, x))
  BY <1>2, <1>3, FS_Subset
<1> QED
  BY <1>4, FS_CardinalityType

(* One more of what is appended, and as many as before of anything else.   *)
LEMMA AppendCounts ==
  ASSUME NEW S, NEW s \in Seq(S), NEW e \in S, NEW x
  PROVE  Cardinality(PositionsOf(Append(s, e), x)) =
            Cardinality(PositionsOf(s, x)) + IF x = e THEN 1 ELSE 0
<1> DEFINE l == Len(s)   before == PositionsOf(s, x)   after == PositionsOf(Append(s, e), x)
<1>1. l \in Nat /\ DOMAIN s = 1 .. l
  BY LenProperties
<1>2. /\ DOMAIN Append(s, e) = 1 .. l + 1
      /\ \A k \in 1 .. l : Append(s, e)[k] = s[k]
      /\ Append(s, e)[l + 1] = e
  BY AppendElements
<1>3. IsFiniteSet(before) /\ Cardinality(before) \in Nat
  BY PositionsAreFinite
<1>4. CASE x = e
  <2>1. after = before \cup {l + 1} /\ l + 1 \notin before
    BY <1>1, <1>2, <1>4 DEF PositionsOf
  <2>2. Cardinality(before \cup {l + 1}) = Cardinality(before) + 1
    BY <1>3, <2>1, FS_AddElement
  <2> QED
    BY <1>4, <2>1, <2>2
<1>5. CASE x # e
  <2>1. after = before
    BY <1>1, <1>2, <1>5 DEF PositionsOf
  <2> QED
    BY <1>3, <1>5, <2>1
<1> QED
  BY <1>4, <1>5

(* One less of what is taken out, whichever element takes its place.       *)
LEMMA WithoutCounts ==
  ASSUME NEW S, NEW s \in Seq(S), NEW n \in 1 .. Len(s), NEW x
  PROVE  Cardinality(PositionsOf(Cluster!Without(s, n), x)) =
            Cardinality(PositionsOf(s, x)) - IF x = s[n] THEN 1 ELSE 0
<1> DEFINE l == Len(s)   r == Cluster!Without(s, n)
           before == PositionsOf(s, x)   after == PositionsOf(r, x)
<1>1. l \in Nat /\ DOMAIN s = 1 .. l
  BY LenProperties
<1>2. /\ DOMAIN r = 1 .. l - 1
      /\ \A k \in 1 .. l - 1 : r[k] = IF k = n THEN s[l] ELSE s[k]
  BY WithoutElements
<1>8. Cluster!Without(s, n) = r
  OBVIOUS
<1> HIDE DEF r
<1>3. IsFiniteSet(before) /\ Cardinality(before) \in Nat
  BY PositionsAreFinite
<1>4. CASE x = s[n] /\ x = s[l]
  <2>1. after = before \ {l} /\ l \in before
    <3>1. l \in before
      BY <1>1, <1>4 DEF PositionsOf
    <3>2. \A k \in 1 .. l - 1 : r[k] = x <=> s[k] = x
      BY <1>1, <1>2, <1>4
    <3>3. \A k : k \in after <=> k \in before /\ k # l
      BY <1>1, <1>2, <3>2 DEF PositionsOf
    <3> QED
      BY <3>1, <3>3
  <2>2. Cardinality(before \ {l}) = Cardinality(before) - 1
    BY <1>3, <2>1, FS_RemoveElement
  <2> QED
    BY <1>8, <1>4, <2>1, <2>2
<1>5. CASE x = s[n] /\ x # s[l]
  <2>1. after = before \ {n} /\ n \in before
    BY <1>1, <1>2, <1>5 DEF PositionsOf
  <2>2. Cardinality(before \ {n}) = Cardinality(before) - 1
    BY <1>3, <2>1, FS_RemoveElement
  <2> QED
    BY <1>8, <1>5, <2>1, <2>2
<1>6. CASE x # s[n] /\ x = s[l]
  <2>1. after = (before \ {l}) \cup {n} /\ l \in before /\ n \notin before \ {l}
    BY <1>1, <1>2, <1>6 DEF PositionsOf
  <2>2. /\ Cardinality(before \ {l}) = Cardinality(before) - 1
        /\ IsFiniteSet(before \ {l})
    BY <1>3, <2>1, FS_RemoveElement
  <2>3. Cardinality((before \ {l}) \cup {n}) = Cardinality(before \ {l}) + 1
    BY <2>1, <2>2, FS_AddElement
  <2> QED
    BY <1>8, <1>3, <1>6, <2>1, <2>2, <2>3
<1>7. CASE x # s[n] /\ x # s[l]
  <2>1. after = before
    BY <1>1, <1>2, <1>7 DEF PositionsOf
  <2> QED
    BY <1>8, <1>3, <1>7, <2>1
<1> QED
  BY <1>4, <1>5, <1>6, <1>7

LEMMA SubscribeKeeps ==
  ASSUME SubscriptionsSound, NEW sub \in Cluster!RemoteStateSubscription,
         Cluster!distributed_reactive_subscribe_state(sub)
  PROVE  SubscriptionsSound'
<1>1. /\ subscriptions \in Seq(Cluster!RemoteStateSubscription)
      /\ asked \in [Cluster!RemoteStateSubscription -> Nat]
      /\ \A s \in Cluster!RemoteStateSubscription :
            asked[s] = Cardinality(PositionsOf(subscriptions, s))
  BY DEF SubscriptionsSound
<1>2. /\ subscriptions' = Append(subscriptions, sub)
      /\ asked' = [asked EXCEPT ![sub] = @ + 1]
  BY DEF Cluster!distributed_reactive_subscribe_state
<1>3. subscriptions' \in Seq(Cluster!RemoteStateSubscription)
  BY <1>1, <1>2, AppendElements
<1>4. asked' \in [Cluster!RemoteStateSubscription -> Nat]
  BY <1>1, <1>2
<1>5. ASSUME NEW s \in Cluster!RemoteStateSubscription
      PROVE  asked'[s] = Cardinality(PositionsOf(subscriptions', s))
  <2>1. Cardinality(PositionsOf(Append(subscriptions, sub), s)) =
           Cardinality(PositionsOf(subscriptions, s)) + IF s = sub THEN 1 ELSE 0
    BY <1>1, AppendCounts
  <2>2. asked'[s] = asked[s] + IF s = sub THEN 1 ELSE 0
    BY <1>1, <1>2
  <2> QED
    BY <1>1, <1>2, <2>1, <2>2
<1> QED
  BY <1>3, <1>4, <1>5 DEF SubscriptionsSound

(* The subscription that is taken out is an equal one.                     *)
LEMMA UnsubscribeKeeps ==
  ASSUME SubscriptionsSound, NEW sub \in Cluster!RemoteStateSubscription,
         Cluster!distributed_reactive_unsubscribe_state(sub)
  PROVE  SubscriptionsSound'
<1> DEFINE I == {k \in 1 .. Len(subscriptions) : subscriptions[k] = sub}
           p == IF I # {} THEN Min(I) ELSE 0
<1>1. /\ subscriptions \in Seq(Cluster!RemoteStateSubscription)
      /\ asked \in [Cluster!RemoteStateSubscription -> Nat]
      /\ \A s \in Cluster!RemoteStateSubscription :
            asked[s] = Cardinality(PositionsOf(subscriptions, s))
  BY DEF SubscriptionsSound
<1>2. /\ p # 0
      /\ subscriptions' = Cluster!Without(subscriptions, p)
      /\ asked' = [asked EXCEPT ![sub] = @ - 1]
  BY DEF Cluster!distributed_reactive_unsubscribe_state, Cluster!SelectInSeq, Cluster!Min, Min
<1>3. I \in SUBSET Nat /\ I # {}
  BY <1>1, <1>2, LenProperties
<1>4. p \in 1 .. Len(subscriptions) /\ subscriptions[p] = sub
  <2>1. Min(I) \in I
    BY <1>3, LeastOne
  <2> QED
    BY <1>3, <2>1
<1> HIDE DEF p
<1>5. subscriptions' \in Seq(Cluster!RemoteStateSubscription)
  BY <1>1, <1>2, <1>4, WithoutElements
<1>6. ASSUME NEW s \in Cluster!RemoteStateSubscription
      PROVE  /\ asked'[s] = Cardinality(PositionsOf(subscriptions', s))
             /\ asked'[s] \in Nat
  <2>1. Cardinality(PositionsOf(Cluster!Without(subscriptions, p), s)) =
           Cardinality(PositionsOf(subscriptions, s)) - IF s = subscriptions[p] THEN 1 ELSE 0
    BY <1>1, <1>4, WithoutCounts
  <2>2. asked'[s] = asked[s] - IF s = sub THEN 1 ELSE 0
    BY <1>1, <1>2
  <2>3. asked'[s] = Cardinality(PositionsOf(subscriptions', s))
    BY <1>1, <1>2, <1>4, <2>1, <2>2
  <2> QED
    BY <1>5, <2>3, PositionsAreFinite
<1>7. asked' \in [Cluster!RemoteStateSubscription -> Nat]
  BY <1>1, <1>2, <1>6
<1> QED
  BY <1>5, <1>6, <1>7 DEF SubscriptionsSound

(* The list holds every subscription as many times as it was asked for and *)
(* not taken back (distributed.c:356-410).                                 *)
THEOREM SubscriptionsCount ==
  Cluster!ClusterIsSound => (Cluster!Spec => []Cluster!SubscriptionsAreCounted)
<1>1. ASSUME Cluster!Init PROVE SubscriptionsSound
  <2>1. subscriptions = << >> /\ asked = [sub \in Cluster!RemoteStateSubscription |-> 0]
    BY <1>1 DEF Cluster!Init
  <2>2. \A sub : PositionsOf(subscriptions, sub) = {}
    BY <2>1 DEF PositionsOf
  <2>3. Cardinality({}) = 0
    BY FS_EmptySet
  <2>4. subscriptions \in Seq(Cluster!RemoteStateSubscription)
    BY <2>1
  <2> QED
    BY <2>1, <2>2, <2>3, <2>4 DEF SubscriptionsSound
<1>2. ASSUME SubscriptionsSound, [Cluster!Next]_(Cluster!vars) PROVE SubscriptionsSound'
  <2>1. CASE UNCHANGED <<subscriptions, asked>>
    BY <1>2, <2>1 DEF SubscriptionsSound, PositionsOf
  <2>2. CASE UNCHANGED Cluster!vars
    BY <2>1, <2>2 DEF Cluster!vars
  <2>3. CASE \E node_id \in Ids :
                \/ Cluster!distributed_reactive_add_node(node_id)
                \/ Cluster!distributed_reactive_remove_node(node_id)
                \/ Cluster!distributed_reactive_connect_node(node_id)
                \/ Cluster!distributed_reactive_disconnect_node(node_id)
    BY <2>1, <2>3 DEF Cluster!distributed_reactive_add_node,
         Cluster!distributed_reactive_remove_node, Cluster!distributed_reactive_connect_node,
         Cluster!distributed_reactive_disconnect_node, Cluster!topics
  <2>4. CASE \E sub \in Cluster!RemoteStateSubscription :
                \/ Cluster!distributed_reactive_subscribe_state(sub)
                \/ Cluster!distributed_reactive_unsubscribe_state(sub)
    BY <1>2, <2>4, SubscribeKeeps, UnsubscribeKeeps
  <2>5. CASE Cluster!distributed_reactive_call_remote \/ Cluster!distributed_reactive_propagate_state
    BY <2>1, <2>5 DEF Cluster!distributed_reactive_call_remote,
         Cluster!distributed_reactive_propagate_state, Cluster!topics
  <2> QED
    BY <1>2, <2>2, <2>3, <2>4, <2>5 DEF Cluster!Next
<1>3. ASSUME SubscriptionsSound PROVE Cluster!SubscriptionsAreCounted
  <2>1. \A S : Cluster!Cardinality(S) = Cardinality(S)
    BY DEF Cluster!Cardinality, Cardinality
  <2>2. ASSUME NEW sub \in Cluster!RemoteStateSubscription
        PROVE  asked[sub] =
                 Cluster!Cardinality({k \in DOMAIN subscriptions : subscriptions[k] = sub})
    BY <1>3, <2>1 DEF SubscriptionsSound, PositionsOf
  <2> QED
    BY <2>2 DEF Cluster!SubscriptionsAreCounted
<1> QED
  BY <1>1, <1>2, <1>3, PTL DEF Cluster!Spec

(***************************************************************************)
(* Connections over TLS (Secured.tla).  Besides the table there is the     *)
(* attempt under way, whose phases make and free things one at a time:     *)
(* what it has in its hands follows from the phase it is in, and that is   *)
(* why what a phase frees when it fails is all there is.                   *)
(***************************************************************************)
CONSTANTS MAX_TLS_CONNECTIONS, MaxHeld
VARIABLES available, initialized, connections, held, attempt, plain, request, tls_script

Tls == INSTANCE Secured WITH script <- tls_script

KindsOf(things) == {x[1] : x \in things}

\* What an attempt holds when it comes to a phase, and a connection has.
Complete == IF available THEN {"fd", "ctx", "ssl"} ELSE {"fd"}
Holds == [resolve |-> {}, socket |-> {"addrinfo"}, connect |-> {"addrinfo", "fd"},
          context |-> {"fd"}, session |-> {"fd", "ctx"}, handshake |-> {"fd", "ctx", "ssl"},
          table |-> Complete]

\* Everything that is held has one owner.
Owned ==
    /\ \A x : x \in held <=> \/ \E h \in Tls!Handles : x \in connections[h]
                             \/ x \in Tls!Made \/ x \in plain
    /\ \A g, h \in Tls!Handles : g # h => connections[g] \cap connections[h] = {}
    /\ \A h \in Tls!Handles : connections[h] \cap Tls!Made = {} /\ connections[h] \cap plain = {}
    /\ Tls!Made \cap plain = {}

Attempts == [of : {"script", "https_get"}, phase : DOMAIN Tls!Phases, made : SUBSET Tls!Things]
AttemptSound ==
    /\ attempt = Tls!Idle \/ attempt \in Attempts
    /\ attempt # Tls!Idle =>
          /\ KindsOf(attempt.made) = Holds[Tls!Phase]
          /\ initialized /\ request = Tls!Idle
          /\ attempt.of = "https_get" => available

Requests == [secure : BOOLEAN, handle : {0} \cup Tls!Handles, total : Nat, capacity : Nat,
             ended : BOOLEAN]
RequestSound ==
    /\ request = Tls!Idle \/ request \in Requests
    /\ request # Tls!Idle =>
          /\ attempt = Tls!Idle
          /\ request.secure => request.handle \in Tls!InUse \ tls_script /\ available
          /\ ~request.secure => request.handle = 0
          /\ CHUNK <= request.capacity /\ request.total <= request.capacity
          /\ request.ended => request.total < request.capacity

\* Handles in use are the program's or the one of the https_get under way.
TlsTableSound ==
    /\ available \in BOOLEAN /\ initialized \in BOOLEAN
    /\ connections \in [Tls!Handles -> SUBSET Tls!Things]
    /\ held \subseteq Tls!Things /\ plain \subseteq Tls!Things
    /\ ~initialized => Tls!InUse = {}
    /\ \A h \in Tls!Handles :
          h \in Tls!InUse <=> h \in tls_script \/ (request # Tls!Idle /\ h = request.handle)
    /\ tls_script \subseteq Tls!Handles
    /\ \A h \in Tls!InUse : KindsOf(connections[h]) = Complete

TlsInv == TlsTableSound /\ AttemptSound /\ RequestSound /\ Owned

(* Something under way is not nothing.                                     *)
LEMMA NotIdle ==
  /\ \A r \in Attempts : r # Tls!Idle
  /\ \A r \in Requests : r # Tls!Idle
<1>1. DOMAIN Tls!Idle = {"idle"}
  BY DEF Tls!Idle
<1>2. \A r \in Attempts : "of" \in DOMAIN r
  BY DEF Attempts
<1>3. \A r \in Requests : "secure" \in DOMAIN r
  BY DEF Requests
<1> QED
  BY <1>1, <1>2, <1>3

(* What is made is not what is there.                                      *)
LEMMA NewIsNew ==
  ASSUME Tls!TableIsSound, held \subseteq Tls!Things, NEW k
  PROVE  Tls!New(k) \notin held /\ Tls!New(k)[1] = k
<1> DEFINE I == {n \in 1 .. MaxHeld + 1 : <<k, n>> \notin held}
<1>1. MaxHeld \in Nat
  BY DEF Tls!TableIsSound
<1>2. \A x \in held : x[2] \in 1 .. MaxHeld
  BY DEF Tls!Things
<1>3. MaxHeld + 1 \in I
  <2>1. <<k, MaxHeld + 1>> \notin held
    <3> SUFFICES ASSUME <<k, MaxHeld + 1>> \in held PROVE FALSE
      OBVIOUS
    <3>1. <<k, MaxHeld + 1>>[2] \in 1 .. MaxHeld
      BY <1>2
    <3> QED
      BY <1>1, <3>1
  <2> QED
    BY <1>1, <2>1
<1>4. I \in SUBSET Nat /\ I # {}
  BY <1>1, <1>3
<1> HIDE DEF I
<1>5. Min(I) \in I
  BY <1>4, LeastOne
<1>6. Tls!New(k) = <<k, Min(I)>>
  BY DEF Tls!New, Tls!Min, Min, I
<1> QED
  BY <1>5, <1>6 DEF I

(* A phase that succeeds leads to the next one with what that one has to   *)
(* have, and a phase that fails frees what it has.                         *)
LEMMA PhaseOrder ==
  ASSUME available \in BOOLEAN, NEW p \in DOMAIN Tls!Phases
  PROVE  /\ Tls!Phases[p] # "table" =>
               /\ p + 1 \in DOMAIN Tls!Phases
               /\ Holds[Tls!Phases[p + 1]] =
                     (Holds[Tls!Phases[p]] \cup Tls!Makes[Tls!Phases[p]])
                       \ (IF Tls!Phases[p] = "connect" THEN {"addrinfo"} ELSE {})
               /\ Tls!Makes[Tls!Phases[p]] \subseteq Tls!Kinds
         /\ Holds[Tls!Phases[p]] \subseteq Tls!Cleans[Tls!Phases[p]]
<1>1. CASE available
  <2>1. Tls!Phases = <<"resolve", "socket", "connect", "context", "session", "handshake", "table">>
    BY <1>1 DEF Tls!Phases
  <2>2. p \in 1 .. 7 /\ DOMAIN Tls!Phases = 1 .. 7
    BY <2>1
  <2>3. CASE p = 1
    BY <1>1, <2>1, <2>3 DEF Holds, Tls!Makes, Tls!Cleans, Tls!Kinds, Complete
  <2>4. CASE p = 2
    BY <1>1, <2>1, <2>4 DEF Holds, Tls!Makes, Tls!Cleans, Tls!Kinds, Complete
  <2>5. CASE p = 3
    BY <1>1, <2>1, <2>5 DEF Holds, Tls!Makes, Tls!Cleans, Tls!Kinds, Complete
  <2>6. CASE p = 4
    BY <1>1, <2>1, <2>6 DEF Holds, Tls!Makes, Tls!Cleans, Tls!Kinds, Complete
  <2>7. CASE p = 5
    BY <1>1, <2>1, <2>7 DEF Holds, Tls!Makes, Tls!Cleans, Tls!Kinds, Complete
  <2>8. CASE p = 6
    BY <1>1, <2>1, <2>8 DEF Holds, Tls!Makes, Tls!Cleans, Tls!Kinds, Complete
  <2>9. CASE p = 7
    BY <1>1, <2>1, <2>9 DEF Holds, Tls!Makes, Tls!Cleans, Tls!Kinds, Complete
  <2> QED
    BY <2>2, <2>3, <2>4, <2>5, <2>6, <2>7, <2>8, <2>9
<1>2. CASE ~available
  <2>1. Tls!Phases = <<"resolve", "socket", "connect", "table">>
    BY <1>2 DEF Tls!Phases
  <2>2. p \in 1 .. 4 /\ DOMAIN Tls!Phases = 1 .. 4
    BY <2>1
  <2>3. CASE p = 1
    BY <1>2, <2>1, <2>3 DEF Holds, Tls!Makes, Tls!Cleans, Tls!Kinds, Complete
  <2>4. CASE p = 2
    BY <1>2, <2>1, <2>4 DEF Holds, Tls!Makes, Tls!Cleans, Tls!Kinds, Complete
  <2>5. CASE p = 3
    BY <1>2, <2>1, <2>5 DEF Holds, Tls!Makes, Tls!Cleans, Tls!Kinds, Complete
  <2>6. CASE p = 4
    BY <1>2, <2>1, <2>6 DEF Holds, Tls!Makes, Tls!Cleans, Tls!Kinds, Complete
  <2> QED
    BY <2>2, <2>3, <2>4, <2>5, <2>6
<1> QED
  BY <1>1, <1>2

(* Before the first connection the table is zeroed, as it was left.        *)
LEMMA TlsConnectKeeps ==
  ASSUME TlsInv, NEW of \in {"script", "https_get"}, of = "https_get" => available,
         Tls!tls_connect(of)
  PROVE  TlsInv'
<1> DEFINE start == [of |-> of, phase |-> 1, made |-> {}]
<1>1. /\ attempt = Tls!Idle /\ request = Tls!Idle
      /\ initialized' = TRUE
      /\ connections' = IF initialized THEN connections ELSE [h \in Tls!Handles |-> {}]
      /\ attempt' = start
      /\ UNCHANGED <<available, held, plain, request, tls_script>>
  BY DEF Tls!tls_connect, Tls!tls_init
<1>2. /\ available \in BOOLEAN /\ initialized \in BOOLEAN
      /\ connections \in [Tls!Handles -> SUBSET Tls!Things]
      /\ ~initialized => Tls!InUse = {}
  BY DEF TlsInv, TlsTableSound
<1>3. connections' = connections
  <2>1. CASE initialized
    BY <1>1, <2>1
  <2>2. CASE ~initialized
    <3>1. \A h \in Tls!Handles : connections[h] = {}
      BY <1>2, <2>2 DEF Tls!InUse
    <3> QED
      BY <1>1, <1>2, <2>2, <3>1
  <2> QED
    BY <2>1, <2>2
<1>4. Tls!InUse' = Tls!InUse
  BY <1>3 DEF Tls!InUse
<1>5. start \in Attempts /\ Tls!Phases[1] = "resolve" /\ 1 \in DOMAIN Tls!Phases
  <2>1. 1 \in DOMAIN Tls!Phases /\ Tls!Phases[1] = "resolve"
    BY <1>2 DEF Tls!Phases
  <2> QED
    BY <2>1 DEF Attempts
<1>6. start.of = of /\ start.phase = 1 /\ start.made = {}
  OBVIOUS
<1> HIDE DEF start
<1>7. attempt' # Tls!Idle
  BY <1>1, <1>5, NotIdle
<1>8. Tls!Made = {} /\ Tls!Made' = {}
  BY <1>1, <1>6, <1>7 DEF Tls!Made
<1>9. TlsTableSound'
  BY <1>1, <1>2, <1>3, <1>4 DEF TlsInv, TlsTableSound, Complete
<1>10. AttemptSound'
  <2>1. Attempts' = Attempts /\ Tls!Phases' = Tls!Phases
    BY <1>1 DEF Attempts, Tls!Phases
  <2>2. Tls!Phase' = "resolve"
    BY <1>1, <1>5, <1>6, <2>1 DEF Tls!Phase
  <2>3. KindsOf(attempt'.made) = {} /\ Holds'["resolve"] = {}
    BY <1>1, <1>6 DEF KindsOf, Holds
  <2> QED
    BY <1>1, <1>5, <1>6, <2>1, <2>2, <2>3 DEF AttemptSound
<1>11. RequestSound'
  BY <1>1 DEF RequestSound
<1>12. Owned'
  BY <1>1, <1>3, <1>8 DEF TlsInv, Owned
<1> QED
  BY <1>9, <1>10, <1>11, <1>12 DEF TlsInv

(* What the invariant says while there is an attempt.                      *)
LEMMA Attempting ==
  ASSUME TlsInv, attempt # Tls!Idle
  PROVE  /\ available \in BOOLEAN /\ held \subseteq Tls!Things /\ initialized
         /\ attempt \in Attempts /\ attempt.phase \in DOMAIN Tls!Phases
         /\ attempt.made \subseteq Tls!Things
         /\ KindsOf(attempt.made) = Holds[Tls!Phases[attempt.phase]]
         /\ Tls!Phase = Tls!Phases[attempt.phase]
         /\ request = Tls!Idle
         /\ Tls!Made = attempt.made /\ attempt.made \subseteq held
<1>1. /\ available \in BOOLEAN /\ held \subseteq Tls!Things
      /\ attempt \in Attempts /\ initialized
      /\ KindsOf(attempt.made) = Holds[Tls!Phase]
      /\ request = Tls!Idle
  BY DEF TlsInv, TlsTableSound, AttemptSound
<1>2. Tls!Phase = Tls!Phases[attempt.phase]
  BY DEF Tls!Phase
<1>3. attempt.phase \in DOMAIN Tls!Phases /\ attempt.made \subseteq Tls!Things
  BY <1>1 DEF Attempts
<1>4. Tls!Made = attempt.made
  BY DEF Tls!Made
<1>5. Tls!Made \subseteq held
  BY DEF TlsInv, Owned
<1> QED
  BY <1>1, <1>2, <1>3, <1>4, <1>5

LEMMA PhaseSucceedsKeeps ==
  ASSUME Tls!TableIsSound, TlsInv, Tls!PhaseSucceeds
  PROVE  TlsInv'
<1> DEFINE makes == Tls!Makes[Tls!Phase]
           made  == attempt.made \cup {Tls!New(k) : k \in makes}
           freed == IF Tls!Phase = "connect" THEN Tls!Of(made, {"addrinfo"}) ELSE {}
           p     == attempt.phase
           after == [attempt EXCEPT !.phase = p + 1, !.made = made \ freed]
<1>1. /\ attempt # Tls!Idle /\ Tls!Phase # "table"
      /\ made \subseteq Tls!Things
      /\ held' = (held \cup made) \ freed
      /\ attempt' = after
      /\ UNCHANGED <<available, initialized, connections, plain, request, tls_script>>
  BY DEF Tls!PhaseSucceeds
<1>2. /\ available \in BOOLEAN /\ held \subseteq Tls!Things /\ initialized
      /\ attempt \in Attempts /\ p \in DOMAIN Tls!Phases
      /\ attempt.made \subseteq Tls!Things
      /\ KindsOf(attempt.made) = Holds[Tls!Phases[p]]
      /\ Tls!Phase = Tls!Phases[p]
      /\ request = Tls!Idle
      /\ Tls!Made = attempt.made /\ attempt.made \subseteq held
  BY <1>1, Attempting
<1>3. \A k \in makes : Tls!New(k) \notin held /\ Tls!New(k)[1] = k
  BY <1>2, NewIsNew
<1>4. /\ p + 1 \in DOMAIN Tls!Phases
      /\ Holds[Tls!Phases[p + 1]] =
            (Holds[Tls!Phases[p]] \cup makes)
               \ (IF Tls!Phase = "connect" THEN {"addrinfo"} ELSE {})
  BY <1>1, <1>2, PhaseOrder
<1>5. /\ after \in Attempts
      /\ after.of = attempt.of /\ after.phase = p + 1 /\ after.made = made \ freed
  BY <1>1, <1>2, <1>4 DEF Attempts
<1>6. freed \subseteq made /\ \A x \in made : x \in attempt.made \/ x \notin held
  BY <1>3 DEF Tls!Of
<1>7. KindsOf(made) = Holds[Tls!Phases[p]] \cup makes
  <2>1. \A c \in KindsOf(made) : c \in KindsOf(attempt.made) \/ c \in makes
    BY <1>3 DEF KindsOf
  <2>2. KindsOf(attempt.made) \subseteq KindsOf(made)
    BY DEF KindsOf
  <2>3. \A k \in makes : k \in KindsOf(made)
    <3> SUFFICES ASSUME NEW k \in makes PROVE k \in KindsOf(made)
      OBVIOUS
    <3>1. Tls!New(k) \in made /\ Tls!New(k)[1] = k
      BY <1>3
    <3> QED
      BY <3>1 DEF KindsOf
  <2> QED
    BY <1>2, <2>1, <2>2, <2>3
<1>8. KindsOf(made \ freed) =
         KindsOf(made) \ (IF Tls!Phase = "connect" THEN {"addrinfo"} ELSE {})
  <2>1. CASE Tls!Phase = "connect"
    <3>1. made \ freed = {x \in made : x[1] # "addrinfo"}
      BY <2>1 DEF Tls!Of
    <3> HIDE DEF made, freed
    <3>2. KindsOf({x \in made : x[1] # "addrinfo"}) = KindsOf(made) \ {"addrinfo"}
      BY DEF KindsOf
    <3> QED
      BY <2>1, <3>1, <3>2
  <2>2. CASE Tls!Phase # "connect"
    BY <2>2
  <2> QED
    BY <2>1, <2>2
<1> HIDE DEF made, freed, after, makes
<1>9. KindsOf(made \ freed) = Holds[Tls!Phases[p + 1]]
  BY <1>4, <1>7, <1>8
<1>10. attempt' # Tls!Idle
  BY <1>1, <1>5, NotIdle
<1>11. Tls!Made' = made \ freed
  BY <1>1, <1>5, <1>10 DEF Tls!Made
<1>12. Tls!InUse' = Tls!InUse
  BY <1>1 DEF Tls!InUse
<1>13. TlsTableSound'
  BY <1>1, <1>2, <1>12 DEF TlsInv, TlsTableSound, Complete
<1>14. AttemptSound'
  <2>1. Attempts' = Attempts /\ Tls!Phases' = Tls!Phases /\ Holds' = Holds
    BY <1>1 DEF Attempts, Tls!Phases, Holds, Complete
  <2>2. Tls!Phase' = Tls!Phases[p + 1]
    BY <1>1, <1>5, <2>1 DEF Tls!Phase
  <2>3. KindsOf(attempt'.made) = Holds[Tls!Phases[p + 1]]
    BY <1>1, <1>5, <1>9
  <2>4. attempt'.of = attempt.of /\ (attempt.of = "https_get" => available)
    BY <1>1, <1>5 DEF TlsInv, AttemptSound
  <2> QED
    BY <1>1, <1>2, <1>5, <2>1, <2>2, <2>3, <2>4 DEF AttemptSound
<1>15. RequestSound'
  BY <1>1, <1>2 DEF RequestSound
<1>16. Owned'
  <2>1. /\ \A x : x \in held <=> \/ \E h \in Tls!Handles : x \in connections[h]
                                 \/ x \in attempt.made \/ x \in plain
        /\ \A h \in Tls!Handles : connections[h] \cap attempt.made = {}
        /\ \A g, h \in Tls!Handles : g # h => connections[g] \cap connections[h] = {}
        /\ \A h \in Tls!Handles : connections[h] \cap plain = {}
        /\ attempt.made \cap plain = {}
    BY <1>2 DEF TlsInv, Owned
  <2>2. \A h \in Tls!Handles : connections[h] \cap made = {}
    BY <1>6, <2>1
  <2>3. made \cap plain = {}
    BY <1>6, <2>1
  <2>4. attempt.made \subseteq made
    BY DEF made
  <2>5. \A x : x \in held' <=> \/ \E h \in Tls!Handles : x \in connections[h]
                               \/ x \in made \ freed \/ x \in plain
    BY <1>1, <1>6, <2>1, <2>2, <2>3, <2>4
  <2> QED
    BY <1>1, <1>11, <2>1, <2>2, <2>3, <2>5 DEF Owned
<1> QED
  BY <1>13, <1>14, <1>15, <1>16 DEF TlsInv

(* Whatever phase fails, nothing of the attempt is left.                   *)
LEMMA PhaseFailsKeeps ==
  ASSUME TlsInv, Tls!PhaseFails
  PROVE  TlsInv'
<1>1. /\ attempt # Tls!Idle /\ attempt' = Tls!Idle
      /\ held' = held \ Tls!Of(attempt.made, Tls!Cleans[Tls!Phase])
      /\ UNCHANGED <<available, initialized, connections, plain, request, tls_script>>
  BY DEF Tls!PhaseFails
<1>2. /\ available \in BOOLEAN /\ held \subseteq Tls!Things
      /\ attempt.phase \in DOMAIN Tls!Phases
      /\ KindsOf(attempt.made) = Holds[Tls!Phases[attempt.phase]]
      /\ Tls!Phase = Tls!Phases[attempt.phase]
      /\ request = Tls!Idle
      /\ Tls!Made = attempt.made /\ attempt.made \subseteq held
  BY <1>1, Attempting
<1>3. KindsOf(attempt.made) \subseteq Tls!Cleans[Tls!Phase]
  BY <1>2, PhaseOrder
<1>4. Tls!Of(attempt.made, Tls!Cleans[Tls!Phase]) = attempt.made
  BY <1>3 DEF Tls!Of, KindsOf
<1>5. held' = held \ attempt.made
  BY <1>1, <1>4
<1>6. Tls!Made' = {} /\ Tls!InUse' = Tls!InUse
  BY <1>1 DEF Tls!Made, Tls!InUse
<1>7. TlsTableSound'
  BY <1>1, <1>5, <1>6 DEF TlsInv, TlsTableSound, Complete
<1>8. AttemptSound' /\ RequestSound'
  BY <1>1, <1>2 DEF AttemptSound, RequestSound
<1>9. Owned'
  <2>1. /\ \A x : x \in held <=> \/ \E h \in Tls!Handles : x \in connections[h]
                                 \/ x \in attempt.made \/ x \in plain
        /\ \A h \in Tls!Handles : connections[h] \cap attempt.made = {}
        /\ \A g, h \in Tls!Handles : g # h => connections[g] \cap connections[h] = {}
        /\ \A h \in Tls!Handles : connections[h] \cap plain = {}
        /\ attempt.made \cap plain = {}
    BY <1>2 DEF TlsInv, Owned
  <2>2. \A x : x \in held' <=> \/ \E h \in Tls!Handles : x \in connections[h]
                               \/ x \in plain
    BY <1>5, <2>1
  <2> QED
    BY <1>1, <1>6, <2>1, <2>2 DEF Owned
<1> QED
  BY <1>7, <1>8, <1>9 DEF TlsInv

(* What a connection that is made has.                                     *)
LEMMA TlsAllocKeeps ==
  ASSUME Tls!TableIsSound, TlsInv, Tls!tls_alloc
  PROVE  TlsInv'
<1> DEFINE h0 == Tls!Min(Tls!Handles \ Tls!InUse)   made == attempt.made
<1>1. /\ attempt # Tls!Idle /\ Tls!Phase = "table" /\ Tls!InUse # Tls!Handles
      /\ connections' = [connections EXCEPT ![h0] = made]
      /\ IF attempt.of = "script"
         THEN tls_script' = tls_script \cup {h0} /\ request' = request
         ELSE request' = Tls!Started(TRUE, h0) /\ tls_script' = tls_script
      /\ attempt' = Tls!Idle
      /\ UNCHANGED <<available, initialized, held, plain>>
  BY DEF Tls!tls_alloc
<1>2. h0 \in Tls!Handles \ Tls!InUse
  <2> DEFINE I == Tls!Handles \ Tls!InUse
  <2>1. I \in SUBSET Nat /\ I # {}
    BY <1>1 DEF Tls!Handles, Tls!InUse, Tls!TableIsSound
  <2> HIDE DEF I
  <2>2. Min(I) \in I
    BY <2>1, LeastOne
  <2>3. Tls!Min(I) = Min(I)
    BY DEF Tls!Min, Min
  <2> QED
    BY <2>2, <2>3 DEF I
<1> HIDE DEF h0
<1>3. /\ available \in BOOLEAN /\ initialized
      /\ made \subseteq Tls!Things
      /\ KindsOf(made) = Complete
      /\ request = Tls!Idle
      /\ Tls!Made = made /\ made \subseteq held
      /\ attempt.of \in {"script", "https_get"}
  <2>1. Holds["table"] = Complete
    BY DEF Holds
  <2>2. attempt \in Attempts
    BY <1>1, Attempting
  <2>3. attempt.of \in {"script", "https_get"}
    BY <2>2 DEF Attempts
  <2> QED
    BY <1>1, <2>1, <2>3, Attempting
<1>4. made # {}
  <2>1. "fd" \in KindsOf(made)
    BY <1>3 DEF Complete
  <2> QED
    BY <2>1 DEF KindsOf
<1> HIDE DEF made
<1>5. connections \in [Tls!Handles -> SUBSET Tls!Things] /\ connections[h0] = {}
  BY <1>2 DEF TlsInv, TlsTableSound, Tls!InUse
<1>6. /\ connections' \in [Tls!Handles -> SUBSET Tls!Things]
      /\ connections'[h0] = made
      /\ \A h \in Tls!Handles : h # h0 => connections'[h] = connections[h]
  BY <1>1, <1>2, <1>3, <1>5
<1>7. Tls!InUse' = Tls!InUse \cup {h0}
  BY <1>2, <1>4, <1>6 DEF Tls!InUse
<1>8. Tls!Made' = {}
  BY <1>1 DEF Tls!Made
<1>9. Owned'
  <2>1. /\ \A x : x \in held <=> \/ \E h \in Tls!Handles : x \in connections[h]
                                 \/ x \in made \/ x \in plain
        /\ \A h \in Tls!Handles : connections[h] \cap made = {}
        /\ \A g, h \in Tls!Handles : g # h => connections[g] \cap connections[h] = {}
        /\ \A h \in Tls!Handles : connections[h] \cap plain = {}
        /\ made \cap plain = {}
    BY <1>3 DEF TlsInv, Owned
  <2>2. \A x : (\E h \in Tls!Handles : x \in connections'[h])
                  <=> x \in made \/ \E h \in Tls!Handles : x \in connections[h]
    BY <1>2, <1>5, <1>6
  <2>3. \A g, h \in Tls!Handles : g # h => connections'[g] \cap connections'[h] = {}
    BY <1>2, <1>6, <2>1
  <2>4. \A h \in Tls!Handles : connections'[h] \cap plain = {}
    BY <1>2, <1>6, <2>1
  <2>5. \A x : x \in held <=> (\E h \in Tls!Handles : x \in connections'[h]) \/ x \in plain
    BY <2>1, <2>2
  <2> QED
    BY <1>1, <1>8, <2>3, <2>4, <2>5 DEF Owned
<1>10. AttemptSound'
  BY <1>1 DEF AttemptSound
<1>11. /\ \A h \in Tls!Handles : h \in Tls!InUse <=> h \in tls_script
       /\ tls_script \subseteq Tls!Handles /\ h0 \notin tls_script
       /\ \A h \in Tls!InUse : KindsOf(connections[h]) = Complete
       /\ held \subseteq Tls!Things /\ plain \subseteq Tls!Things
  BY <1>2, <1>3 DEF TlsInv, TlsTableSound
<1>12. \A h \in Tls!InUse' : KindsOf(connections'[h]) = Complete'
  <2>1. Complete' = Complete
    BY <1>1 DEF Complete
  <2>2. \A h \in Tls!InUse' : h \in Tls!Handles
    BY DEF Tls!InUse, Tls!Handles
  <2>3. SUFFICES ASSUME NEW h \in Tls!InUse' PROVE KindsOf(connections'[h]) = Complete
    BY <2>1
  <2>4. CASE h = h0
    BY <1>3, <1>6, <2>4
  <2>5. CASE h # h0
    <3>1. h \in Tls!InUse /\ connections'[h] = connections[h]
      BY <1>6, <1>7, <2>2, <2>5
    <3> QED
      BY <1>11, <3>1
  <2> QED
    BY <2>4, <2>5
<1>13. CASE attempt.of = "script"
  <2>1. tls_script' = tls_script \cup {h0} /\ request' = request
    BY <1>1, <1>13
  <2>2. TlsTableSound'
    BY <1>1, <1>2, <1>3, <1>6, <1>7, <1>11, <1>12, <2>1 DEF TlsTableSound
  <2>3. RequestSound'
    BY <1>3, <2>1 DEF RequestSound
  <2> QED
    BY <1>9, <1>10, <2>2, <2>3 DEF TlsInv
<1>14. CASE attempt.of = "https_get"
  <2> DEFINE r == Tls!Started(TRUE, h0)
  <2>1. request' = r /\ tls_script' = tls_script /\ available
    BY <1>1, <1>14 DEF TlsInv, AttemptSound
  <2>2. /\ r \in Requests
        /\ r.secure = TRUE /\ r.handle = h0 /\ r.total = 0 /\ r.capacity = CAPACITY
        /\ r.ended = FALSE
    BY <1>2 DEF Tls!Started, Requests, Tls!TableIsSound
  <2> HIDE DEF r
  <2>3. request' # Tls!Idle
    BY <2>1, <2>2, NotIdle
  <2>4. TlsTableSound'
    BY <1>1, <1>2, <1>3, <1>6, <1>7, <1>11, <1>12, <2>1, <2>2, <2>3 DEF TlsTableSound
  <2>5. /\ request'.handle \in Tls!InUse' \ tls_script' /\ available'
        /\ CHUNK <= request'.capacity /\ request'.total <= request'.capacity
    BY <1>1, <1>7, <1>11, <2>1, <2>2 DEF Tls!TableIsSound
  <2>6. RequestSound'
    BY <1>1, <2>1, <2>2, <2>5 DEF RequestSound
  <2> QED
    BY <1>9, <1>10, <2>4, <2>6 DEF TlsInv
<1> QED
  BY <1>3, <1>13, <1>14

\* Some connections end, and what they had is given back.
Frees(handles) ==
    /\ held' = held \ UNION {connections[h] : h \in handles}
    /\ connections' = [h \in Tls!Handles |-> IF h \in handles THEN {} ELSE connections[h]]
    /\ UNCHANGED <<available, attempt, plain>>

LEMMA FreesKeeps ==
  ASSUME TlsInv, attempt = Tls!Idle, NEW handles \in SUBSET Tls!Handles, Frees(handles)
  PROVE  /\ Owned' /\ AttemptSound'
         /\ connections' \in [Tls!Handles -> SUBSET Tls!Things]
         /\ held' \subseteq Tls!Things
         /\ Tls!InUse' = Tls!InUse \ handles
         /\ \A h \in Tls!InUse' : KindsOf(connections'[h]) = Complete'
<1>1. /\ connections \in [Tls!Handles -> SUBSET Tls!Things]
      /\ held \subseteq Tls!Things
      /\ \A h \in Tls!InUse : KindsOf(connections[h]) = Complete
  BY DEF TlsInv, TlsTableSound
<1>2. /\ connections' \in [Tls!Handles -> SUBSET Tls!Things]
      /\ \A h \in Tls!Handles : connections'[h] = IF h \in handles THEN {} ELSE connections[h]
  BY <1>1 DEF Frees
<1>3. Tls!InUse' = Tls!InUse \ handles
  BY <1>2 DEF Tls!InUse
<1>4. Tls!Made = {} /\ Tls!Made' = {}
  BY DEF Tls!Made, Frees
<1>5. Owned'
  <2>1. /\ \A x : x \in held <=> (\E h \in Tls!Handles : x \in connections[h]) \/ x \in plain
        /\ \A g, h \in Tls!Handles : g # h => connections[g] \cap connections[h] = {}
        /\ \A h \in Tls!Handles : connections[h] \cap plain = {}
    BY <1>4 DEF TlsInv, Owned
  <2>2. \A x : x \in held' <=> x \in held /\ ~\E g \in handles : x \in connections[g]
    BY DEF Frees
  <2>3. \A x : (\E h \in Tls!Handles : x \in connections'[h])
                  <=> \E h \in Tls!Handles \ handles : x \in connections[h]
    BY <1>2
  <2>4. \A x : x \in held' <=> (\E h \in Tls!Handles : x \in connections'[h]) \/ x \in plain
    BY <2>1, <2>2, <2>3
  <2>5. /\ \A g, h \in Tls!Handles : g # h => connections'[g] \cap connections'[h] = {}
        /\ \A h \in Tls!Handles : connections'[h] \cap plain = {}
    BY <1>2, <2>1
  <2>6. plain' = plain
    BY DEF Frees
  <2> QED
    BY <1>4, <2>4, <2>5, <2>6 DEF Owned
<1>6. AttemptSound'
  BY DEF AttemptSound, Frees
<1>7. held' \subseteq Tls!Things
  BY <1>1 DEF Frees
<1>8. \A h \in Tls!InUse' : KindsOf(connections'[h]) = Complete'
  <2>1. Complete' = Complete
    BY DEF Complete, Frees
  <2>2. \A h \in Tls!InUse' : h \in Tls!Handles /\ h \in Tls!InUse /\ h \notin handles
    BY <1>3 DEF Tls!InUse
  <2> QED
    BY <1>1, <1>2, <2>1, <2>2
<1> QED
  BY <1>2, <1>3, <1>5, <1>6, <1>7, <1>8

(* Only between calls does the program close connections.                  *)
LEMMA TlsCloseKeeps ==
  ASSUME TlsInv, Tls!tls_close \/ Tls!tls_cleanup
  PROVE  TlsInv'
<1>1. /\ attempt = Tls!Idle /\ request = Tls!Idle
      /\ UNCHANGED <<available, attempt, plain, request>>
  BY DEF Tls!tls_close, Tls!tls_cleanup
<1>2. PICK handles \in SUBSET Tls!Handles :
         /\ Frees(handles) /\ tls_script' = tls_script \ handles
         /\ initialized' = initialized \/ (initialized' = FALSE /\ handles = Tls!Handles)
  <2>1. CASE Tls!tls_close
    <3>1. PICK h \in Tls!Handles : Tls!tls_free({h}) /\ tls_script' = tls_script \ {h}
      BY <2>1 DEF Tls!tls_close
    <3>2. {h} \in SUBSET Tls!Handles /\ Frees({h}) /\ initialized' = initialized
      BY <1>1, <2>1, <3>1 DEF Frees, Tls!tls_free, Tls!tls_close
    <3> QED
      BY <3>1, <3>2
  <2>2. CASE Tls!tls_cleanup
    <3>1. /\ Tls!tls_free(Tls!Handles) /\ tls_script' = {} /\ initialized' = FALSE
      BY <2>2 DEF Tls!tls_cleanup
    <3>2. Frees(Tls!Handles)
      BY <1>1, <3>1 DEF Frees, Tls!tls_free
    <3>3. tls_script' = tls_script \ Tls!Handles
      BY <3>1 DEF TlsInv, TlsTableSound
    <3> QED
      BY <3>1, <3>2, <3>3
  <2> QED
    BY <2>1, <2>2
<1>3. /\ Owned' /\ AttemptSound'
      /\ connections' \in [Tls!Handles -> SUBSET Tls!Things]
      /\ held' \subseteq Tls!Things
      /\ Tls!InUse' = Tls!InUse \ handles
      /\ \A h \in Tls!InUse' : KindsOf(connections'[h]) = Complete'
  BY <1>1, <1>2, FreesKeeps
<1>4. /\ available \in BOOLEAN /\ initialized \in BOOLEAN
      /\ plain \subseteq Tls!Things /\ tls_script \subseteq Tls!Handles
      /\ ~initialized => Tls!InUse = {}
      /\ \A h \in Tls!Handles : h \in Tls!InUse <=> h \in tls_script
  BY <1>1 DEF TlsInv, TlsTableSound
<1>5. ~initialized' => Tls!InUse' = {}
  <2>1. Tls!InUse \subseteq Tls!Handles
    BY DEF Tls!InUse
  <2> QED
    BY <1>2, <1>3, <1>4, <2>1
<1>6. TlsTableSound'
  BY <1>1, <1>2, <1>3, <1>4, <1>5 DEF TlsTableSound
<1>7. RequestSound'
  BY <1>1 DEF RequestSound
<1> QED
  BY <1>3, <1>6, <1>7 DEF TlsInv

(* Over http the connection comes from the other table.                    *)
LEMMA HttpsGetKeeps ==
  ASSUME Tls!TableIsSound, TlsInv, NEW secure \in BOOLEAN, Tls!https_get(secure)
  PROVE  TlsInv'
<1>1. CASE secure
  BY <1>1, TlsConnectKeeps DEF Tls!https_get
<1>2. CASE ~secure
  <2> DEFINE fd == Tls!New("fd")   r == Tls!Started(FALSE, 0)
  <2>1. /\ attempt = Tls!Idle /\ request = Tls!Idle
        /\ fd \in Tls!Things
        /\ held' = held \cup {fd} /\ plain' = plain \cup {fd}
        /\ request' = r
        /\ UNCHANGED <<available, initialized, connections, attempt, tls_script>>
    BY <1>2 DEF Tls!https_get
  <2>2. held \subseteq Tls!Things /\ plain \subseteq Tls!Things
    BY DEF TlsInv, TlsTableSound
  <2>3. fd \notin held
    BY <2>2, NewIsNew
  <2> HIDE DEF fd
  <2>4. /\ r \in Requests
        /\ r.secure = FALSE /\ r.handle = 0 /\ r.total = 0 /\ r.capacity = CAPACITY
        /\ r.ended = FALSE
    BY DEF Tls!Started, Requests, Tls!TableIsSound
  <2> HIDE DEF r
  <2>5. Tls!InUse' = Tls!InUse /\ Tls!Made = {} /\ Tls!Made' = {} /\ 0 \notin Tls!Handles
    BY <2>1 DEF Tls!InUse, Tls!Made, Tls!Handles
  <2>6. TlsTableSound'
    BY <2>1, <2>2, <2>4, <2>5 DEF TlsInv, TlsTableSound, Complete
  <2>7. AttemptSound'
    BY <2>1 DEF AttemptSound
  <2>8. RequestSound'
    <3>1. CHUNK <= CAPACITY /\ 0 <= CAPACITY
      BY DEF Tls!TableIsSound
    <3> QED
      BY <2>1, <2>4, <3>1 DEF RequestSound
  <2>9. Owned'
    <3>1. /\ \A x : x \in held <=> (\E h \in Tls!Handles : x \in connections[h]) \/ x \in plain
          /\ \A g, h \in Tls!Handles : g # h => connections[g] \cap connections[h] = {}
          /\ \A h \in Tls!Handles : connections[h] \cap plain = {}
      BY <2>5 DEF TlsInv, Owned
    <3>2. \A h \in Tls!Handles : connections[h] \cap plain' = {}
      BY <2>1, <2>3, <3>1
    <3>3. \A x : x \in held' <=> (\E h \in Tls!Handles : x \in connections[h]) \/ x \in plain'
      BY <2>1, <3>1
    <3> QED
      BY <2>1, <2>5, <3>1, <3>2, <3>3 DEF Owned
  <2> QED
    BY <2>6, <2>7, <2>8, <2>9 DEF TlsInv
<1> QED
  BY <1>1, <1>2

(* There is room for what comes, and for the NUL behind it when nothing    *)
(* comes any more.                                                         *)
LEMMA ReceiveChunkKeeps ==
  ASSUME Tls!TableIsSound, TlsInv, Tls!ReceiveChunk
  PROVE  TlsInv'
<1>1. request # Tls!Idle /\ ~request.ended
  BY DEF Tls!ReceiveChunk
<1>2. PICK received \in 0 .. CHUNK, ended \in BOOLEAN :
         /\ ended <=> received = 0
         /\ request' = [request EXCEPT !.capacity = Tls!Grown, !.total = request.total + received,
                                       !.ended = ended]
         /\ UNCHANGED <<available, initialized, connections, held, attempt, plain, tls_script>>
  BY DEF Tls!ReceiveChunk, Tls!tls_recv
<1>3. /\ request \in Requests /\ attempt = Tls!Idle
      /\ request.secure => request.handle \in Tls!InUse \ tls_script /\ available
      /\ ~request.secure => request.handle = 0
      /\ CHUNK <= request.capacity /\ request.total <= request.capacity
  BY <1>1 DEF TlsInv, RequestSound
<1>4. CHUNK \in Nat /\ CHUNK # 0
  BY DEF Tls!TableIsSound
<1> DEFINE total == request.total   capacity == request.capacity   grown == Tls!Grown
<1>5. total \in Nat /\ capacity \in Nat
  BY <1>3 DEF Requests
<1>6. grown = IF total + CHUNK > capacity THEN 2 * capacity ELSE capacity
  BY DEF Tls!Grown
<1>7. /\ grown \in Nat /\ CHUNK <= grown /\ total + received <= grown
      /\ received = 0 => total + received < grown
  <2> HIDE DEF total, capacity, grown
  <2>1. CHUNK <= capacity /\ total <= capacity
    BY <1>3 DEF total, capacity
  <2> QED
    BY <1>2, <1>4, <1>5, <1>6, <2>1
<1>8. /\ request' \in Requests
      /\ request'.secure = request.secure /\ request'.handle = request.handle
      /\ request'.total = total + received /\ request'.capacity = grown
      /\ request'.ended = ended
  <2>1. total + received \in Nat
    BY <1>2, <1>4, <1>5
  <2>2. request' = [request EXCEPT !.capacity = grown, !.total = total + received,
                                   !.ended = ended]
    BY <1>2
  <2> HIDE DEF grown, total
  <2>3. grown \in Nat /\ ended \in BOOLEAN /\ request \in Requests
    BY <1>2, <1>3, <1>7
  <2> QED
    BY <2>1, <2>2, <2>3 DEF Requests
<1> HIDE DEF grown, total, capacity
<1>9. request' # Tls!Idle
  BY <1>8, NotIdle
<1>10. Tls!InUse' = Tls!InUse
  BY <1>2 DEF Tls!InUse
<1>11. RequestSound'
  BY <1>2, <1>3, <1>7, <1>8, <1>10 DEF RequestSound
<1>12. TlsTableSound'
  BY <1>1, <1>2, <1>8, <1>9, <1>10 DEF TlsInv, TlsTableSound, Complete
<1>13. AttemptSound'
  BY <1>2, <1>3 DEF AttemptSound
<1>14. Owned'
  BY <1>2 DEF TlsInv, Owned, Tls!Made
<1> QED
  BY <1>11, <1>12, <1>13, <1>14 DEF TlsInv

(* The connection of a request is closed with it.                          *)
LEMMA EndRequestKeeps ==
  ASSUME TlsInv, Tls!EndRequest
  PROVE  TlsInv'
<1>1. /\ request # Tls!Idle /\ request' = Tls!Idle
      /\ IF request.secure
         THEN Tls!tls_free({request.handle}) /\ plain' = plain
         ELSE held' = held \ plain /\ plain' = {} /\ connections' = connections
      /\ UNCHANGED <<available, initialized, attempt, tls_script>>
  BY DEF Tls!EndRequest
<1>2. /\ request \in Requests /\ attempt = Tls!Idle
      /\ request.secure => request.handle \in Tls!InUse \ tls_script
      /\ ~request.secure => request.handle = 0
  BY <1>1 DEF TlsInv, RequestSound
<1>3. /\ available \in BOOLEAN /\ initialized \in BOOLEAN
      /\ connections \in [Tls!Handles -> SUBSET Tls!Things]
      /\ held \subseteq Tls!Things /\ plain \subseteq Tls!Things
      /\ ~initialized => Tls!InUse = {}
      /\ \A h \in Tls!Handles : h \in Tls!InUse <=> h \in tls_script \/ h = request.handle
      /\ tls_script \subseteq Tls!Handles
      /\ \A h \in Tls!InUse : KindsOf(connections[h]) = Complete
  BY <1>1 DEF TlsInv, TlsTableSound
<1>4. RequestSound' /\ AttemptSound'
  BY <1>1, <1>2 DEF RequestSound, AttemptSound
<1>5. CASE request.secure
  <2> DEFINE h0 == request.handle
  <2>1. Frees({h0}) /\ {h0} \in SUBSET Tls!Handles
    BY <1>1, <1>2, <1>5 DEF Frees, Tls!tls_free, Tls!InUse
  <2>2. /\ Owned'
        /\ connections' \in [Tls!Handles -> SUBSET Tls!Things]
        /\ held' \subseteq Tls!Things
        /\ Tls!InUse' = Tls!InUse \ {h0}
        /\ \A h \in Tls!InUse' : KindsOf(connections'[h]) = Complete'
    BY <1>2, <2>1, FreesKeeps
  <2>3. \A h \in Tls!Handles : h \in Tls!InUse' <=> h \in tls_script'
    BY <1>1, <1>2, <1>3, <1>5, <2>2
  <2>4. TlsTableSound'
    BY <1>1, <1>3, <1>5, <2>2, <2>3 DEF TlsTableSound
  <2> QED
    BY <1>4, <2>2, <2>4 DEF TlsInv
<1>6. CASE ~request.secure
  <2>1. /\ held' = held \ plain /\ plain' = {} /\ connections' = connections
        /\ 0 \notin Tls!Handles /\ request.handle = 0
    BY <1>1, <1>2, <1>6 DEF Tls!Handles
  <2>2. Tls!InUse' = Tls!InUse /\ Tls!Made = {} /\ Tls!Made' = {}
    BY <1>1, <1>2, <2>1 DEF Tls!InUse, Tls!Made
  <2>3. TlsTableSound'
    BY <1>1, <1>3, <2>1, <2>2 DEF TlsTableSound, Complete
  <2>4. Owned'
    <3>1. /\ \A x : x \in held <=> (\E h \in Tls!Handles : x \in connections[h]) \/ x \in plain
          /\ \A g, h \in Tls!Handles : g # h => connections[g] \cap connections[h] = {}
          /\ \A h \in Tls!Handles : connections[h] \cap plain = {}
      BY <2>2 DEF TlsInv, Owned
    <3>2. \A x : x \in held' <=> \E h \in Tls!Handles : x \in connections[h]
      BY <2>1, <3>1
    <3> QED
      BY <2>1, <2>2, <3>1, <3>2 DEF Owned
  <2> QED
    BY <1>4, <2>3, <2>4 DEF TlsInv
<1> QED
  BY <1>2, <1>5, <1>6 DEF Requests

LEMMA TlsStepKeeps ==
  ASSUME Tls!TableIsSound, TlsInv, [Tls!Next]_(Tls!securedVars)
  PROVE  TlsInv'
<1>1. CASE UNCHANGED Tls!securedVars
  <2>1. UNCHANGED <<available, initialized, connections, held, attempt, plain, request, tls_script>>
    BY <1>1 DEF Tls!securedVars
  <2>2. /\ Tls!InUse' = Tls!InUse /\ Tls!Made' = Tls!Made /\ Tls!Phases' = Tls!Phases
        /\ Complete' = Complete
    BY <2>1 DEF Tls!InUse, Tls!Made, Tls!Phases, Complete
  <2>3. Attempts' = Attempts /\ Tls!Phase' = Tls!Phase /\ Holds' = Holds
    BY <2>1, <2>2 DEF Attempts, Tls!Phase, Holds
  <2>4. TlsTableSound'
    BY <2>1, <2>2 DEF TlsInv, TlsTableSound
  <2>5. AttemptSound'
    BY <2>1, <2>3 DEF TlsInv, AttemptSound
  <2>6. RequestSound'
    BY <2>1, <2>2 DEF TlsInv, RequestSound
  <2>7. Owned'
    BY <2>1, <2>2 DEF TlsInv, Owned
  <2> QED
    BY <2>4, <2>5, <2>6, <2>7 DEF TlsInv
<1>2. CASE Tls!tls_connect("script")
  BY <1>2, TlsConnectKeeps
<1>3. CASE Tls!Connecting
  BY <1>3, PhaseSucceedsKeeps, PhaseFailsKeeps, TlsAllocKeeps DEF Tls!Connecting
<1>4. CASE Tls!tls_close \/ Tls!tls_cleanup
  BY <1>4, TlsCloseKeeps
<1>5. CASE \E secure \in BOOLEAN : Tls!https_get(secure)
  BY <1>5, HttpsGetKeeps
<1>6. CASE Tls!ReceiveChunk \/ Tls!EndRequest
  BY <1>6, ReceiveChunkKeeps, EndRequestKeeps
<1> QED
  BY <1>1, <1>2, <1>3, <1>4, <1>5, <1>6 DEF Tls!Next

LEMMA TlsInit == ASSUME Tls!Init PROVE TlsInv
<1>1. /\ available \in BOOLEAN /\ initialized = FALSE
      /\ connections = [h \in Tls!Handles |-> {}]
      /\ held = {} /\ plain = {} /\ tls_script = {}
      /\ attempt = Tls!Idle /\ request = Tls!Idle
  BY DEF Tls!Init
<1>2. Tls!InUse = {} /\ Tls!Made = {}
  BY <1>1 DEF Tls!InUse, Tls!Made
<1>3. connections \in [Tls!Handles -> SUBSET Tls!Things]
  BY <1>1
<1>4. TlsTableSound
  BY <1>1, <1>2, <1>3 DEF TlsTableSound
<1>5. AttemptSound /\ RequestSound
  BY <1>1 DEF AttemptSound, RequestSound
<1>6. Owned
  BY <1>1, <1>2 DEF Owned
<1> QED
  BY <1>4, <1>5, <1>6 DEF TlsInv

(* What is shown of TLS connections holds for a table and buffers of any   *)
(* size, with OpenSSL and without.                                         *)
THEOREM TlsInductive == Tls!TableIsSound => (Tls!Spec => []TlsInv)
<1> SUFFICES ASSUME Tls!TableIsSound PROVE Tls!Spec => []TlsInv
  OBVIOUS
<1>1. Tls!Init => TlsInv
  BY TlsInit
<1>2. TlsInv /\ [Tls!Next]_(Tls!securedVars) => TlsInv'
  BY TlsStepKeeps
<1> QED
  BY <1>1, <1>2, PTL DEF Tls!Spec

(* Descriptors, contexts and sessions belong to one connection, or to the  *)
(* attempt to make it, whichever phase of it fails (tls_module.c:147-280). *)
THEOREM TlsLeaksNothing == Tls!TableIsSound => (Tls!Spec => []Tls!NothingIsLeaked)
<1> SUFFICES ASSUME Tls!TableIsSound PROVE Tls!Spec => []Tls!NothingIsLeaked
  OBVIOUS
<1>1. ASSUME TlsInv PROVE Tls!NothingIsLeaked
  <2>1. /\ \A x : x \in held <=> \/ \E h \in Tls!Handles : x \in connections[h]
                                 \/ x \in Tls!Made \/ x \in plain
        /\ \A g, h \in Tls!Handles : g # h => connections[g] \cap connections[h] = {}
        /\ \A h \in Tls!Handles :
              connections[h] \cap Tls!Made = {} /\ connections[h] \cap plain = {}
        /\ Tls!Made \cap plain = {}
    BY <1>1 DEF TlsInv, Owned
  <2>2. \A h \in Tls!InUse : h \in Tls!Handles
    BY DEF Tls!InUse
  <2>3. \A x : (\E h \in Tls!Handles : x \in connections[h])
                  <=> \E h \in Tls!InUse : x \in connections[h]
    BY <2>2 DEF Tls!InUse
  <2>4. held = (UNION {connections[h] : h \in Tls!InUse}) \cup Tls!Made \cup plain
    BY <2>1, <2>3
  <2>5. \A g, h \in Tls!InUse : g # h => connections[g] \cap connections[h] = {}
    BY <2>1, <2>2
  <2>6. \A h \in Tls!InUse : connections[h] \cap (Tls!Made \cup plain) = {}
    BY <2>1, <2>2
  <2> QED
    BY <2>1, <2>4, <2>5, <2>6 DEF Tls!NothingIsLeaked
<1> QED
  BY <1>1, TlsInductive, PTL

(* Between two calls the TLS handles in use are those the program holds    *)
(* (tls_module.c:379-386, 392-546).                                        *)
THEOREM TlsHandlesAreTheScripts == Tls!TableIsSound => (Tls!Spec => []Tls!HandlesAreGiven)
<1> SUFFICES ASSUME Tls!TableIsSound PROVE Tls!Spec => []Tls!HandlesAreGiven
  OBVIOUS
<1>1. ASSUME TlsInv PROVE Tls!HandlesAreGiven
  <2> SUFFICES ASSUME request = Tls!Idle PROVE Tls!InUse = tls_script
    BY DEF Tls!HandlesAreGiven
  <2>1. /\ tls_script \subseteq Tls!Handles
        /\ \A h \in Tls!Handles : h \in Tls!InUse <=> h \in tls_script
    BY <1>1 DEF TlsInv, TlsTableSound
  <2>2. Tls!InUse \subseteq Tls!Handles
    BY DEF Tls!InUse
  <2> QED
    BY <2>1, <2>2
<1> QED
  BY <1>1, TlsInductive, PTL

(* The answer of https_get and the NUL behind it lie inside its buffer     *)
(* (tls_module.c:480-546).                                                 *)
THEOREM TlsAnswerFits == Tls!TableIsSound => (Tls!Spec => []Tls!AnswerFits)
<1> SUFFICES ASSUME Tls!TableIsSound PROVE Tls!Spec => []Tls!AnswerFits
  OBVIOUS
<1>1. TlsInv => Tls!AnswerFits
  BY DEF TlsInv, RequestSound, Tls!AnswerFits
<1> QED
  BY <1>1, TlsInductive, PTL

(* What is asked for over https goes through a session, and nothing else   *)
(* does (tls_module.c:288-374, 430-522).                                   *)
THEOREM TlsIsSecure == Tls!TableIsSound => (Tls!Spec => []Tls!SecureMeansSession)
<1> SUFFICES ASSUME Tls!TableIsSound PROVE Tls!Spec => []Tls!SecureMeansSession
  OBVIOUS
<1>1. ASSUME TlsInv PROVE Tls!SecureMeansSession
  <2>1. /\ available \in BOOLEAN
        /\ \A h \in Tls!InUse : KindsOf(connections[h]) = Complete
        /\ 0 \notin Tls!InUse
    BY <1>1 DEF TlsInv, TlsTableSound, Tls!InUse, Tls!Handles
  <2>2. ASSUME NEW h \in Tls!InUse PROVE Tls!Channel(h) = "ssl" <=> available
    <3>1. "ssl" \in KindsOf(connections[h]) <=> available
      BY <2>1 DEF Complete
    <3>2. Tls!Of(connections[h], {"ssl"}) # {} <=> "ssl" \in KindsOf(connections[h])
      BY DEF Tls!Of, KindsOf
    <3> QED
      BY <3>1, <3>2 DEF Tls!Channel
  <2>3. ASSUME request # Tls!Idle
        PROVE  request.secure <=> request.handle \in Tls!InUse /\ Tls!Channel(request.handle) = "ssl"
    BY <1>1, <2>1, <2>2, <2>3 DEF TlsInv, RequestSound
  <2>4. request # Tls!Idle => request.secure \in BOOLEAN
    BY <1>1 DEF TlsInv, RequestSound, Requests
  <2>5. \A h \in Tls!InUse : (Tls!Channel(h) = "ssl") = available
    BY <2>1, <2>2
  <2>6. request # Tls!Idle =>
          request.secure = (request.handle \in Tls!InUse /\ Tls!Channel(request.handle) = "ssl")
    BY <2>3, <2>4
  <2> QED
    BY <2>5, <2>6 DEF Tls!SecureMeansSession
<1> QED
  BY <1>1, TlsInductive, PTL

==============================================================================
