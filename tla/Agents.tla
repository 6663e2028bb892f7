------------------------------- MODULE Agents -------------------------------
(***************************************************************************)
(* An environment of agents (modules/native/agent_module.c): the agents    *)
(* and their contexts, and what they share, which is the symbols of the    *)
(* shared space and the messages of the bus.                               *)
(*                                                                         *)
(* A context is a number that names its allocation; "contexts" is the heap *)
(* of those not yet freed.  What a context remembers is the sequence of    *)
(* the agents whose memory was written into it.  Permissions, which        *)
(* nothing looks at, values and payloads are left out.                     *)
(***************************************************************************)
EXTENDS Integers, Sequences, SequencesExt, FiniteSets

CONSTANTS
    MaxAgents,          \* bound: agents spawned; 16 fit without a realloc
    MaxContexts,        \* bound: contexts ever allocated
    MaxContextVersion,  \* bound: changes of one context
    Keys,               \* of the shared space
    Topics,
    MaxSymbolVersion,   \* bound: settings of one symbol
    MaxMessages         \* bound: messages published

VARIABLES
    agents,         \* env->agents: [id, context, is_paused]
    contexts,       \* from allocations to [memory, version, is_owned, ref_count]
    allocated,      \* how many contexts have been allocated
    handed,         \* contexts exported and not yet destroyed by who asked for them
    aborted,        \* free() was given an agent, which is no allocation of its own
    symbols,        \* the shared space: [key, owner_id, version]
    requester,      \* history: the agent that made the last step there
    messages,       \* the bus: [topic, sender_id, sequence]
    next_sequence

agency == <<agents, contexts, allocated, handed, aborted>>
space == <<symbols, requester>>
bus == <<messages, next_sequence>>
vars == <<agency, space, bus>>

Ids == 1 .. MaxAgents       \* g_next_agent_id counts the agents

Agent        == [id : Ids, context : 1 .. MaxContexts, is_paused : BOOLEAN]
AgentContext ==
    [memory : Seq(Ids), version : 1 .. MaxContextVersion, is_owned : BOOLEAN, ref_count : {1}]
SharedSymbol == [key : Keys, owner_id : Ids, version : 1 .. MaxSymbolVersion]
Message      == [topic : Topics, sender_id : Ids, sequence : 1 .. MaxMessages]

Init ==
    /\ agents = << >>
    /\ contexts = [c \in {} |-> {}]
    /\ allocated = 0
    /\ handed = {}
    /\ aborted = FALSE
    /\ symbols = << >>
    /\ requester = CHOOSE id \in Ids : TRUE
    /\ messages = << >>
    /\ next_sequence = 1

----------------------------------------------------------------------------
(* Contexts                                                                *)

NewContext == allocated + 1

agent_context_create ==
    [memory |-> << >>, version |-> 1, is_owned |-> TRUE, ref_count |-> 1]

agent_context_shadow_copy(src) == [src EXCEPT !.is_owned = TRUE, !.ref_count = 1]

\* Freed with its last reference.
agent_context_destroy(heap, c) ==
    IF heap[c].ref_count > 1
    THEN [heap EXCEPT ![c].ref_count = @ - 1]
    ELSE [d \in DOMAIN heap \ {c} |-> heap[d]]

agent_context_merge(dest, src) ==
    [dest EXCEPT !.memory = @ \o src.memory, !.version = @ + 1]

agent_context_overlay(dest, src) ==
    [dest EXCEPT !.memory = src.memory, !.version = @ + 1]

With(heap, c, context) == [d \in DOMAIN heap \cup {c} |-> IF d = c THEN context ELSE heap[d]]

----------------------------------------------------------------------------
(* Agents                                                                  *)

agent_env_spawn_agent ==
    /\ Len(agents) < MaxAgents /\ allocated < MaxContexts
    /\ agents' = Append(agents, [id |-> Len(agents) + 1, context |-> NewContext,
                                 is_paused |-> FALSE])
    /\ contexts' = With(contexts, NewContext, agent_context_create)
    /\ allocated' = NewContext
    /\ UNCHANGED <<handed, aborted>>

\* An agent is an element of the array of the environment, and agent_destroy
\* frees it: the program ends there.
agent_env_remove_agent ==
    /\ agents # << >>
    /\ aborted' = TRUE
    /\ UNCHANGED <<agents, contexts, allocated, handed>>

agent_pause(i) ==
    /\ agents' = [agents EXCEPT ![i].is_paused = TRUE]
    /\ UNCHANGED <<contexts, allocated, handed, aborted>>

agent_resume(i) ==
    /\ agents' = [agents EXCEPT ![i].is_paused = FALSE]
    /\ UNCHANGED <<contexts, allocated, handed, aborted>>

\* What an agent does with its memory is up to it; here it notes its own name.
Remember(i) ==
    LET c == agents[i].context
    IN  /\ Len(contexts[c].memory) < 1
        /\ contexts' = [contexts EXCEPT ![c].memory = Append(@, agents[i].id)]
        /\ UNCHANGED <<agents, allocated, handed, aborted>>

agent_context_export(i) ==
    /\ allocated < MaxContexts
    /\ contexts' = With(contexts, NewContext,
           [agent_context_shadow_copy(contexts[agents[i].context]) EXCEPT !.is_owned = FALSE])
    /\ allocated' = NewContext
    /\ handed' = handed \cup {NewContext}
    /\ UNCHANGED <<agents, aborted>>

\* Who asked for an exported context is done with it.
DropExported(c) ==
    /\ contexts' = agent_context_destroy(contexts, c)
    /\ handed' = handed \ {c}
    /\ UNCHANGED <<agents, allocated, aborted>>

\* CONTEXT_MERGE, CONTEXT_OVERLAY, and CONTEXT_REFERENCE, which does nothing.
ImportInto(i, c, Update(_, _)) ==
    LET own == agents[i].context
    IN  /\ contexts[own].version < MaxContextVersion
        /\ contexts' = [contexts EXCEPT ![own] = Update(@, contexts[c])]
        /\ UNCHANGED <<agents, allocated, handed, aborted>>

\* CONTEXT_SHADOW: the own context is given up for a copy.
ShadowContext(i, c) ==
    /\ allocated < MaxContexts
    /\ contexts' = With(agent_context_destroy(contexts, agents[i].context), NewContext,
                        agent_context_shadow_copy(contexts[c]))
    /\ agents' = [agents EXCEPT ![i].context = NewContext]
    /\ allocated' = NewContext
    /\ UNCHANGED <<handed, aborted>>

agent_context_import(i, c) ==
    \/ ImportInto(i, c, agent_context_merge)
    \/ ImportInto(i, c, agent_context_overlay)
    \/ ShadowContext(i, c)

\* Any call on the agents and their contexts.
AgencyNext ==
    /\ ~aborted
    /\ \/ agent_env_spawn_agent
       \/ agent_env_remove_agent
       \/ \E i \in DOMAIN agents :
             \/ agent_pause(i) \/ agent_resume(i) \/ Remember(i) \/ agent_context_export(i)
             \/ \E c \in handed : agent_context_import(i, c)
       \/ \E c \in handed : DropExported(c)
    /\ UNCHANGED <<space, bus>>

----------------------------------------------------------------------------
(* The shared space                                                        *)

At(key) == {s \in DOMAIN symbols : symbols[s].key = key}

\* Nothing makes a symbol read-only: whoever sets it owns it from then on.
agent_shared_set(key, owner) ==
    /\ symbols' = IF At(key) = {}
                  THEN Append(symbols, [key |-> key, owner_id |-> owner, version |-> 1])
                  ELSE [s \in DOMAIN symbols |->
                           IF s \in At(key)
                           THEN [symbols[s] EXCEPT !.owner_id = owner, !.version = @ + 1]
                           ELSE symbols[s]]
    /\ \A s \in At(key) : symbols[s].version < MaxSymbolVersion
    /\ requester' = owner
    /\ UNCHANGED <<agency, bus>>

\* Only the owner removes a symbol.
Removable(s, id) == symbols[s].owner_id = id

agent_shared_remove(key, id) ==
    /\ \E s \in At(key) : Removable(s, id) /\ symbols' = RemoveAt(symbols, s)
    /\ requester' = id
    /\ UNCHANGED <<agency, bus>>

----------------------------------------------------------------------------
(* The bus                                                                 *)

agent_bus_publish(topic, sender) ==
    /\ Len(messages) < MaxMessages
    /\ messages' = Append(messages, [topic |-> topic, sender_id |-> sender,
                                     sequence |-> next_sequence])
    /\ next_sequence' = next_sequence + 1
    /\ UNCHANGED <<agency, space>>

\* The first message of a topic that is not the agent's own; nothing is taken
\* off the bus, so that the next call gives it again.
Receivable(id, topic) ==
    {m \in DOMAIN messages : messages[m].topic = topic /\ messages[m].sender_id # id}

agent_bus_receive(id, topic) == CHOOSE m \in Receivable(id, topic) :
                                    \A n \in Receivable(id, topic) : m <= n

\* All of them.
agent_bus_poll(id) == SelectSeq(messages, LAMBDA m : m.sender_id # id)

Next ==
    \/ AgencyNext
    \/ /\ ~aborted
       /\ \E id \in Ids :
             \/ \E key \in Keys : agent_shared_set(key, id) \/ agent_shared_remove(key, id)
             \/ \E topic \in Topics : agent_bus_publish(topic, id)

Spec == Init /\ [][Next]_vars

----------------------------------------------------------------------------
(* Properties                                                              *)

\* Everything is of its type; agents are numbered, and so are messages in the
\* order they came in.
TypeOK ==
    /\ agents \in Seq(Agent)
    /\ \A i \in DOMAIN agents : agents[i].id = i
    /\ contexts \in [DOMAIN contexts -> AgentContext]
    /\ aborted \in BOOLEAN
    /\ requester \in Ids
    /\ symbols \in Seq(SharedSymbol) /\ messages \in Seq(Message)
    /\ \A m \in DOMAIN messages : messages[m].sequence = m
    /\ next_sequence = Len(messages) + 1

\* A context belongs to one agent or to one who asked for it, and it is freed
\* only when its owner gives it up: contexts are exported, imported and
\* destroyed in any order, and no agent is left with one that is gone, shares
\* one, or leaks one.
ContextsHaveOneOwner ==
    /\ \A i \in DOMAIN agents : agents[i].context \in DOMAIN contexts \ handed
    /\ \A i, j \in DOMAIN agents : agents[i].context = agents[j].context => i = j
    /\ DOMAIN contexts = handed \cup {agents[i].context : i \in DOMAIN agents}

\* What every step keeps: a symbol goes away only at the hands of the agent
\* that set it last, and as long as it is there its version tells the values it
\* has had apart.
SymbolsKeepTheirOwner ==
    \A s \in DOMAIN symbols :
      LET later == {t \in DOMAIN symbols' : symbols'[t].key = symbols[s].key}
      IN  /\ later = {} => requester' = symbols[s].owner_id
          /\ Cardinality(later) <= 1
          /\ \A t \in later :
                symbols'[t] # symbols[s] => symbols'[t].version > symbols[s].version

\* In every step receiving is looking: what a poll gives an agent starts with
\* what an earlier one gave it, and what it receives of a topic never changes.
BusKeepsEverything ==
    \A id \in Ids :
      /\ IsPrefix(agent_bus_poll(id), agent_bus_poll(id)')
      /\ \A topic \in Topics :
            Receivable(id, topic) # {} =>
                agent_bus_receive(id, topic)' = agent_bus_receive(id, topic)

=============================================================================
