------------------------------ MODULE Cluster -------------------------------
(***************************************************************************)
(* The distributed reactive layer (reactive/distributed.c): the nodes of   *)
(* a cluster with their sockets, calls to functions of other nodes, and    *)
(* subscriptions to their states.  The code sends nothing yet: a call and  *)
(* a propagation only choose where they would go and count.                *)
(***************************************************************************)
EXTENDS Integers, Sequences, SequencesExt, FiniteSets

CONSTANTS
    Ids,                \* of nodes
    local_node_id,
    StateNames,
    Sockets,            \* bound: what socket() may return
    MaxSubscriptions,   \* bound: subscriptions in the list
    MaxCalls            \* bound: of calls, and of propagations

VARIABLES
    nodes,          \* [node_id, is_local, is_connected, socket]
    subscriptions,  \* [node_name, source_node_id]: all of them are active
    next_rpc_seq,
    state_propagations,
    open,           \* sockets the process has open
    asked,          \* history: how often each was asked for and not taken back
    reply           \* of the last call: [target, node] it was for and goes to

vars == <<nodes, subscriptions, next_rpc_seq, state_propagations, open, asked, reply>>
cluster == <<nodes, open>>
traffic == <<next_rpc_seq, state_propagations, reply>>
topics == <<subscriptions, asked>>

no_socket == -1

\* A descriptor is not negative, and no node has the name of an outcome.
ClusterIsSound ==
    /\ local_node_id \in Ids /\ Ids \cap {"any", "net_error", "none"} = {}
    /\ Sockets \subseteq Nat

ClusterNode ==
    [node_id : Ids, is_local : BOOLEAN, is_connected : BOOLEAN, socket : Sockets \cup {no_socket}]
RemoteStateSubscription == [node_name : StateNames, source_node_id : Ids]

\* distributed_reactive_init puts the local node first.
Init ==
    /\ nodes = << [node_id |-> local_node_id, is_local |-> TRUE, is_connected |-> TRUE,
                   socket |-> no_socket] >>
    /\ subscriptions = << >>
    /\ next_rpc_seq = 1
    /\ state_propagations = 0
    /\ open = {}
    /\ asked = [sub \in RemoteStateSubscription |-> 0]
    /\ reply = [target |-> "any", node |-> "none"]

----------------------------------------------------------------------------
(* The nodes                                                               *)

Position(node_id) == SelectInSeq(nodes, LAMBDA n : n.node_id = node_id)

distributed_reactive_add_node(node_id) ==
    /\ Position(node_id) = 0
    /\ nodes' = Append(nodes, [node_id |-> node_id, is_local |-> FALSE, is_connected |-> FALSE,
                               socket |-> no_socket])
    /\ UNCHANGED <<open, topics, traffic>>

\* The last element takes the place of one that goes.
Without(s, i) == SubSeq([s EXCEPT ![i] = Last(s)], 1, Len(s) - 1)

\* The local node goes as any other, and so do nodes with subscriptions.
distributed_reactive_remove_node(node_id) ==
    LET i == Position(node_id)
    IN  /\ i # 0
        /\ nodes' = Without(nodes, i)
        /\ open' = open \ {nodes[i].socket}
        /\ UNCHANGED <<topics, traffic>>

\* connect() may fail, and then the socket is closed again.
distributed_reactive_connect_node(node_id) ==
    LET i == Position(node_id)
    IN  /\ i # 0
        /\ ~nodes[i].is_local /\ ~nodes[i].is_connected
        /\ \E sock \in Sockets \ open :
              /\ nodes' = [nodes EXCEPT ![i].socket = sock, ![i].is_connected = TRUE]
              /\ open' = open \cup {sock}
        /\ UNCHANGED <<topics, traffic>>

distributed_reactive_disconnect_node(node_id) ==
    LET i == Position(node_id)
    IN  /\ i # 0
        /\ open' = open \ {nodes[i].socket}
        /\ nodes' = [nodes EXCEPT ![i].socket = no_socket, ![i].is_connected = FALSE]
        /\ UNCHANGED <<topics, traffic>>

----------------------------------------------------------------------------
(* Calls                                                                   *)

\* The target of a call to any node.
FirstConnected == SelectInSeq(nodes, LAMBDA n : ~n.is_local /\ n.is_connected)

\* A number is used up only by a call that goes somewhere.
Call(target, i) ==
    IF i # 0 /\ nodes[i].is_connected
    THEN /\ next_rpc_seq' = next_rpc_seq + 1
         /\ reply' = [target |-> target, node |-> nodes[i].node_id]
    ELSE /\ next_rpc_seq' = next_rpc_seq
         /\ reply' = [target |-> target, node |-> "net_error"]

distributed_reactive_call_remote ==
    /\ next_rpc_seq <= MaxCalls
    /\ \/ Call("any", FirstConnected)
       \/ \E target_node \in Ids : Call(target_node, Position(target_node))
    /\ UNCHANGED <<cluster, topics, state_propagations>>

----------------------------------------------------------------------------
(* Subscriptions to states                                                 *)

\* Nothing is asked of the source, which need not be a node of the cluster.
distributed_reactive_subscribe_state(sub) ==
    /\ Len(subscriptions) < MaxSubscriptions
    /\ subscriptions' = Append(subscriptions, sub)
    /\ asked' = [asked EXCEPT ![sub] = @ + 1]
    /\ UNCHANGED <<cluster, traffic>>

\* The first of those that are equal.
distributed_reactive_unsubscribe_state(sub) ==
    LET i == SelectInSeq(subscriptions, LAMBDA s : s = sub)
    IN  /\ i # 0
        /\ subscriptions' = Without(subscriptions, i)
        /\ asked' = [asked EXCEPT ![sub] = @ - 1]
        /\ UNCHANGED <<cluster, traffic>>

\* Called by distributed_reactive_hook_set for a state that was set: what it
\* counts goes to every subscription, whichever state it names.
distributed_reactive_propagate_state ==
    /\ state_propagations < MaxCalls
    /\ state_propagations' = state_propagations + 1
    /\ UNCHANGED <<cluster, topics, next_rpc_seq, reply>>

Next ==
    \/ \E node_id \in Ids :
          \/ distributed_reactive_add_node(node_id)
          \/ distributed_reactive_remove_node(node_id)
          \/ distributed_reactive_connect_node(node_id)
          \/ distributed_reactive_disconnect_node(node_id)
    \/ \E sub \in RemoteStateSubscription :
          \/ distributed_reactive_subscribe_state(sub)
          \/ distributed_reactive_unsubscribe_state(sub)
    \/ distributed_reactive_call_remote
    \/ distributed_reactive_propagate_state

Spec == Init /\ [][Next]_vars

----------------------------------------------------------------------------
(* Properties                                                              *)

\* Every variable holds a value of its C type, within the bounds.
TypeOK ==
    /\ nodes \in Seq(ClusterNode) /\ subscriptions \in Seq(RemoteStateSubscription)
    /\ next_rpc_seq \in 1 .. MaxCalls + 1 /\ state_propagations \in 0 .. MaxCalls
    /\ open \subseteq Sockets
    /\ asked \in [RemoteStateSubscription -> 0 .. MaxSubscriptions]
    /\ reply \in [target : Ids \cup {"any"}, node : Ids \cup {"net_error", "none"}]

\* An open socket belongs to one connected node, whatever order nodes are
\* added, connected, disconnected and removed in, the last one of the array
\* taking the place of the one removed; no id is there twice, so that asking
\* for a node finds the one that was connected (distributed.c:142-146, 171-189).
SocketsAreOwned ==
    /\ \A i, j \in DOMAIN nodes : i # j => nodes[i].node_id # nodes[j].node_id
    /\ \A sock \in open : Cardinality({i \in DOMAIN nodes : nodes[i].socket = sock}) = 1
    /\ \A i \in DOMAIN nodes : ~nodes[i].is_local =>
          (nodes[i].is_connected <=> nodes[i].socket \in open)

\* In every step: a call to any node fails only when no other node is connected
\* and goes to a connected one otherwise, wherever removals have moved it; a
\* call to a node goes to that one or fails (distributed.c:288-305).
CallsGetThrough ==
    reply' # reply =>
       IF reply'.node = "net_error"
       THEN \A i \in DOMAIN nodes : nodes[i].is_connected =>
               IF reply'.target = "any" THEN nodes[i].is_local
               ELSE nodes[i].node_id # reply'.target
       ELSE /\ \E i \in DOMAIN nodes :
                  nodes[i].node_id = reply'.node /\ nodes[i].is_connected
            /\ reply'.target \in {"any", reply'.node}

\* The list holds every subscription as many times as it was asked for and not
\* taken back (distributed.c:356-410).
SubscriptionsAreCounted ==
    \A sub \in RemoteStateSubscription :
        asked[sub] = Cardinality({i \in DOMAIN subscriptions : subscriptions[i] = sub})

=============================================================================
