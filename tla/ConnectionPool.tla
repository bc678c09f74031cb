--------------------------- MODULE ConnectionPool ---------------------------
(***************************************************************************)
(* The instrumentation client of the DiSL agent (src/src-disl-agent): the  *)
(* connection pool of connpool.c, the lock around it in network.c, and the *)
(* class file load hook of dislagent.c, which sends every loaded class to  *)
(* the instrumentation server over a pooled connection and waits for the  *)
(* answer.  VMDeath runs network_fini, which closes the pool.  Agent_OnLoad *)
(* configures the agent (AgentConfig) and sets the code flags a request    *)
(* carries; the VMInit hook recomputes them and redefines BypassCheck.     *)
(*                                                                         *)
(* Every pool operation runs under disl_connections_mutex, so each is one  *)
(* atomic step.  A connection is a model value (the malloc'ed struct), the *)
(* two lists are list.h rings (LinkedList) through its cp_link, and the    *)
(* socket is a pair of streams: toServer (kept whole, the server reads it  *)
(* at srvPos) and toClient.  The server answers requests in order and may  *)
(* answer with an error.                                                   *)
(***************************************************************************)
EXTENDS Integers, Sequences, FiniteSets, SequencesExt

CONSTANTS Threads,      \* application threads that load classes
          Conns,        \* addresses connection_open may return
          NULL,
          MaxLoads,     \* class loads per thread
          LoadsQuiesceBeforeDeath,
          FreeList, BusyList,  \* the list heads in struct connection_pool
          Options,      \* option strings the JVM may pass to Agent_OnLoad
          Props,        \* values of disl.bypass, disl.splitmethods and
                        \* disl.excepthandler the JVM may hold
          CF_CREATE_BYPASS, CF_DYNAMIC_BYPASS,
          CF_SPLIT_METHODS, CF_CATCH_EXCEPTIONS
          \* TRUE: VMDeath only comes when no thread is inside the class file
          \* load hook.  FALSE: it may come at any time, as JVMTI allows.

ASSUME /\ Cardinality(Conns) >= Cardinality(Threads)
       /\ MaxLoads \in Nat \ {0}
       /\ LoadsQuiesceBeforeDeath \in BOOLEAN
       /\ FreeList # BusyList

Cfg == INSTANCE AgentConfig

\* Messages of msgchannel.c.  A request carries the code flags as its
\* message_flags; a response is an error (control_size > 0), new class
\* code (classcode_size > 0, code) or neither, and the model records the
\* flags of the request it answers.  The shutdown message of
\* __connection_close_hook is the empty message.
Request(t, n, f) ==
    [kind |-> "request", who |-> t, n |-> n, flags |-> f, ok |-> TRUE, code |-> FALSE]
Response(t, n, f, ok, code) ==
    [kind |-> "response", who |-> t, n |-> n, flags |-> f, ok |-> ok, code |-> code]
Shutdown ==
    [kind |-> "shutdown", who |-> NULL, n |-> 0, flags |-> 0, ok |-> TRUE, code |-> FALSE]

InRequest == {"acquired", "sent", "received"}

VARIABLES next, prev,         \* the list pointers of the heads and cp_links
          connections_count,  \* cp->connections_count
          opened,             \* connections connection_open has returned
          closed,             \* connections connection_close has freed
          pc,                 \* where each thread is in the load hook
          conn,               \* the connection a thread holds
          loads,              \* class loads a thread has started
          response,           \* the last response a thread received
          toServer, srvPos, toClient,
          vmDead,             \* network_fini has run
          exited,             \* the agent ended the process
          agent_options, agent_props,  \* what Agent_OnLoad was given
          agent_config,       \* the static struct config
          agent_code_flags,   \* the volatile code flags
          vmInit,             \* the VMInit hook: "pending", "flags", "done"
          bpc,                \* the BypassCheck class the JVM runs
          flags,              \* the code flags a thread's load hook read
          defined             \* the instrumented classes the hook returned

agentVars == <<agent_options, agent_props, agent_config, agent_code_flags,
               vmInit, bpc>>

vars == <<next, prev, connections_count, opened,
          closed, pc, conn, loads, response, toServer, srvPos, toClient,
          vmDead, exited, agentVars, flags, defined>>

List == INSTANCE LinkedList WITH Heads <- {FreeList, BusyList}, Items <- Conns

listVars == <<next, prev>>

\* The lists as sequences, first item first.
free_connections == List!list_for_each(List!Links, FreeList)
busy_connections == List!list_for_each(List!Links, BusyList)

\* A new pointer state for the lists.
SetLinks(L) == next' = L.next /\ prev' = L.prev

\* network_init: its assert ends the process when the options gave no
\* port; getaddrinfo, asked for a numeric service (AI_NUMERICSERV),
\* refuses a port that is not a decimal number, and may fail to resolve
\* the host, which the resolver decides; check_error then ends it.
network_init_outcomes(config) ==
    IF \/ config.server_port = NULL
       \/ config.server_port = <<>>
       \/ \E i \in 1..Len(config.server_port) :
             config.server_port[i] \notin {"0","1","2","3","4","5","6","7","8","9"}
    THEN {TRUE} ELSE BOOLEAN

\* Agent_OnLoad: __configure_from_options, __configure_from_properties
\* (check_error ends the process on an unknown bypass mode), the code
\* flags of a booting JVM, and network_init.  The BypassCheck class the JVM boots with is the
\* one that always runs the original code.  Then network_init ->
\* connection_pool_init: list_init of both heads, no connections.  An
\* unopened cp_link is taken as self-linked; opening one initialises it.
Init ==
    /\ agent_options \in Options
    /\ agent_props \in Props
    /\ agent_config = Cfg!agent_config_of(agent_options, agent_props)
    /\ agent_code_flags = Cfg!__calc_code_flags(agent_config, TRUE)
    /\ vmInit = "pending"
    /\ bpc = "always"
    /\ flags = [t \in Threads |-> 0]
    /\ defined = {}
    /\ next = [n \in List!Nodes |-> n]
    /\ prev = [n \in List!Nodes |-> n]
    /\ connections_count = 0
    /\ opened = {}
    /\ closed = {}
    /\ pc = [t \in Threads |-> "idle"]
    /\ conn = [t \in Threads |-> NULL]
    /\ loads = [t \in Threads |-> 0]
    /\ response = [t \in Threads |-> NULL]
    /\ toServer = [c \in Conns |-> <<>>]
    /\ srvPos = [c \in Conns |-> 0]
    /\ toClient = [c \in Conns |-> <<>>]
    /\ vmDead = FALSE
    /\ exited \in IF agent_config.bypass_mode < 0 THEN {TRUE}
                  ELSE network_init_outcomes(agent_config)

\* jvmti_callback_class_file_load: the JVM calls the hook (never after
\* VMDeath), which reads agent_code_flags once, as the request_flags of
\* __instrument_class.  The bypass-check class (loaded, or redefined by
\* the VMInit hook) returns at once and changes nothing.
class_file_load(t) ==
    /\ ~exited /\ ~vmDead
    /\ pc[t] = "idle"
    /\ loads[t] < MaxLoads
    /\ pc' = [pc EXCEPT ![t] = "loading"]
    /\ loads' = [loads EXCEPT ![t] = @ + 1]
    /\ flags' = [flags EXCEPT ![t] = agent_code_flags]
    /\ UNCHANGED <<listVars, connections_count,
                   opened, closed, conn, response, toServer, srvPos, toClient,
                   vmDead, exited, agentVars, defined>>

\* A variant of the reuse branch that counts a reused connection as new.
reuse_connection_count(t) ==
    LET c == next[FreeList] IN
    /\ SetLinks(List!list_insert_after(List!list_remove_after(List!Links, FreeList), c, BusyList))
    /\ connections_count' = connections_count + 1
    /\ conn' = [conn EXCEPT ![t] = c]
    /\ UNCHANGED opened

\* A variant of the reuse branch that reads the first free connection
\* without unlinking it from the free list.
reuse_connection_peek(t) ==
    LET c == next[FreeList] IN
    /\ SetLinks(List!list_insert_after(List!Links, c, BusyList))
    /\ conn' = [conn EXCEPT ![t] = c]
    /\ UNCHANGED <<connections_count, opened>>

\* connection_pool_get_connection, a free connection available: unlink the
\* first one (list_remove_after) and put it first on the busy list
\* (list_insert_after).
reuse_connection(t) ==
    LET c == next[FreeList] IN
    /\ SetLinks(List!list_insert_after(List!list_remove_after(List!Links, FreeList), c, BusyList))
    /\ conn' = [conn EXCEPT ![t] = c]
    /\ UNCHANGED <<connections_count, opened>>

\* connection_pool_get_connection, no free connection: connection_open
\* (no after-open hook is set; __connection_init list_inits the cp_link),
\* first on the busy list, counted.
open_connection(t) ==
    \E c \in Conns \ opened :
        /\ SetLinks(List!list_insert_after(List!__list_init(List!Links, c), c, BusyList))
        /\ connections_count' = connections_count + 1
        /\ opened' = opened \cup {c}
        /\ conn' = [conn EXCEPT ![t] = c]

\* network_acquire_connection: connection_pool_get_connection under the mutex.
network_acquire_connection(t) ==
    /\ ~exited
    /\ pc[t] = "loading"
    /\ IF ~List!list_is_empty(List!Links, FreeList)
       THEN reuse_connection(t) ELSE open_connection(t)
    /\ pc' = [pc EXCEPT ![t] = "acquired"]
    /\ UNCHANGED <<closed, loads, response, toServer, srvPos, toClient,
                   vmDead, exited, agentVars, flags, defined>>

\* message_send of the request.  On a connection network_fini has already
\* freed the code's behaviour is undefined; the model stops following the
\* thread there, and NoRequestOutlivesNetwork reports the state.
message_send(t) ==
    /\ ~exited
    /\ pc[t] = "acquired"
    /\ conn[t] \notin closed
    /\ toServer' = [toServer EXCEPT ![conn[t]] = Append(@, Request(t, loads[t], flags[t]))]
    /\ pc' = [pc EXCEPT ![t] = "sent"]
    /\ UNCHANGED <<listVars, connections_count,
                   opened, closed, conn, loads, response, srvPos, toClient,
                   vmDead, exited, agentVars, flags, defined>>

\* message_recv: block until the next message on the socket arrives.
message_recv(t) ==
    /\ ~exited
    /\ pc[t] = "sent"
    /\ conn[t] \notin closed
    /\ toClient[conn[t]] # <<>>
    /\ response' = [response EXCEPT ![t] = Head(toClient[conn[t]])]
    /\ toClient' = [toClient EXCEPT ![conn[t]] = Tail(@)]
    /\ pc' = [pc EXCEPT ![t] = "received"]
    /\ UNCHANGED <<listVars, connections_count,
                   opened, closed, conn, loads, toServer, srvPos, vmDead,
                   exited, agentVars, flags, defined>>

\* The end of __instrument_class and of the load hook: exit(ERROR_SERVER)
\* on a server error; new class code is copied into JVM memory
\* (jvmti_alloc_copy) and becomes the class the JVM defines.
class_changed(t) ==
    /\ exited' = ~response[t].ok
    /\ defined' = IF response[t].ok /\ response[t].code
                  THEN defined \cup {[who |-> t, n |-> loads[t], flags |-> response[t].flags]}
                  ELSE defined

\* network_release_connection (connection_pool_put_connection under the
\* mutex: unlink from the busy list, put first on the free list), then the
\* rest of __instrument_class and of the hook.
network_release_connection(t) ==
    /\ ~exited
    /\ pc[t] = "received"
    /\ conn[t] \notin closed
    /\ SetLinks(List!list_insert_after(List!list_remove(List!Links, conn[t]), conn[t], FreeList))
    /\ conn' = [conn EXCEPT ![t] = NULL]
    /\ pc' = [pc EXCEPT ![t] = "idle"]
    /\ class_changed(t)
    /\ UNCHANGED <<connections_count, opened, closed, loads, response,
                   toServer, srvPos, toClient, vmDead, agentVars, flags>>

\* The instrumentation server: read the next message of a connection and
\* answer a request with an error, with code instrumented as its flags
\* ask, or with no change; stop at the shutdown.
server_handle(c) ==
    /\ srvPos[c] < Len(toServer[c])
    /\ LET m == toServer[c][srvPos[c] + 1] IN
       /\ srvPos' = [srvPos EXCEPT ![c] = @ + 1]
       /\ \/ /\ m.kind = "request"
             /\ \E ok, code \in BOOLEAN :
                   toClient' = [toClient EXCEPT ![c] =
                                  Append(@, Response(m.who, m.n, m.flags, ok, ok /\ code))]
          \/ /\ m.kind = "shutdown"
             /\ UNCHANGED toClient
    /\ UNCHANGED <<listVars, connections_count,
                   opened, closed, pc, conn, loads, response, toServer,
                   vmDead, exited, agentVars, flags, defined>>

\* __connection_destructor, applied by list_destroy to each connection cs
\* holds: the before-close hook sends the empty shutdown message, then
\* connection_close closes the socket and frees the struct, and the pool
\* counts one connection less.
__connection_destructor(cs) ==
    /\ toServer' = [c \in Conns |->
                      IF c \in cs THEN Append(toServer[c], Shutdown) ELSE toServer[c]]
    /\ closed' = closed \cup cs
    /\ connections_count' = connections_count - Cardinality(cs)

\* connection_pool_close: the connections list_destroy hands to the
\* destructor, every free one and, if the busy list is not empty, every
\* busy one; and the lists it leaves.
connection_pool_close ==
    Range(free_connections)
    \cup (IF busy_connections # <<>> THEN Range(busy_connections) ELSE {})

ClosedLists ==
    LET L1 == List!list_destroy(List!Links, FreeList) IN
    IF List!list_is_empty(L1, BusyList) THEN L1 ELSE List!list_destroy(L1, BusyList)

\* jvmti_callback_vm_init, first half: the JVM no longer boots, so the
\* code flags are recomputed and stored into agent_code_flags, while other
\* threads may be inside the load hook.
jvmti_callback_vm_init ==
    /\ ~exited
    /\ vmInit = "pending"
    /\ agent_code_flags' = Cfg!__calc_code_flags(agent_config, FALSE)
    /\ vmInit' = "flags"
    /\ UNCHANGED <<listVars, connections_count, opened, closed, pc, conn,
                   loads, response, toServer, srvPos, toClient, vmDead, exited,
                   agent_options, agent_props, agent_config, bpc, flags, defined>>

\* jvmti_callback_vm_init, second half: jvmti_redefine_class replaces
\* BypassCheck by the dynamic variant in dynamic mode and by the one that
\* never bypasses otherwise (the class is loaded, so FindClass finds it).
vm_init_redefine_bypass_check ==
    /\ ~exited
    /\ vmInit = "flags"
    /\ bpc' = IF agent_config.bypass_mode = Cfg!BYPASS_MODE_DYNAMIC
              THEN "dynamic" ELSE "never"
    /\ vmInit' = "done"
    /\ UNCHANGED <<listVars, connections_count, opened, closed, pc, conn,
                   loads, response, toServer, srvPos, toClient, vmDead, exited,
                   agent_options, agent_props, agent_config, agent_code_flags,
                   flags, defined>>

\* jvmti_callback_vm_death -> network_fini: under the mutex,
\* connection_pool_close destroys the free list and, if it is not empty,
\* the busy list too (with a warning); then the address info is freed and
\* the mutex destroyed, which the model records as vmDead.  The JVM sends
\* VMDeath only after the VMInit hook has returned.
vm_death ==
    /\ ~exited /\ ~vmDead
    /\ vmInit = "done"
    /\ LoadsQuiesceBeforeDeath => \A t \in Threads : pc[t] = "idle"
    /\ __connection_destructor(connection_pool_close)
    /\ SetLinks(ClosedLists)
    /\ vmDead' = TRUE
    /\ UNCHANGED <<opened, pc, conn, loads, response, srvPos, toClient, exited,
                   agentVars, flags, defined>>

Next ==
    \/ \E t \in Threads :
          \/ class_file_load(t)
          \/ network_acquire_connection(t)
          \/ message_send(t)
          \/ message_recv(t)
          \/ network_release_connection(t)
    \/ \E c \in Conns : server_handle(c)
    \/ jvmti_callback_vm_init
    \/ vm_init_redefine_bypass_check
    \/ vm_death

Spec == Init /\ [][Next]_vars

-----------------------------------------------------------------------------
FlagWord == 0..(CF_CREATE_BYPASS + CF_DYNAMIC_BYPASS
               + CF_SPLIT_METHODS + CF_CATCH_EXCEPTIONS)

Message == [kind : {"request", "response", "shutdown"}, who : Threads \cup {NULL},
            n : 0..MaxLoads, flags : FlagWord, ok : BOOLEAN, code : BOOLEAN]

TypeOK ==
    /\ next \in [List!Nodes -> List!Nodes]
    /\ prev \in [List!Nodes -> List!Nodes]
    /\ connections_count \in 0..Cardinality(Conns)
    /\ opened \subseteq Conns /\ closed \subseteq opened
    /\ pc \in [Threads -> {"idle", "loading"} \cup InRequest]
    /\ conn \in [Threads -> Conns \cup {NULL}]
    /\ loads \in [Threads -> 0..MaxLoads]
    /\ response \in [Threads -> Message \cup {NULL}]
    /\ toServer \in [Conns -> Seq(Message)]
    /\ srvPos \in [Conns -> Nat]
    /\ toClient \in [Conns -> Seq(Message)]
    /\ vmDead \in BOOLEAN /\ exited \in BOOLEAN
    /\ agent_options \in Options /\ agent_props \in Props
    /\ agent_code_flags \in FlagWord
    /\ vmInit \in {"pending", "flags", "done"}
    /\ bpc \in {"always", "dynamic", "never"}
    /\ flags \in [Threads -> FlagWord]
    /\ defined \subseteq [who : Threads, n : 1..MaxLoads, flags : FlagWord]

Holding == {t \in Threads : pc[t] \in InRequest}

\* The pool's bookkeeping agrees with the connections the threads hold,
\* after any interleaving of acquires and releases of the threads and the
\* close at VMDeath (connection_pool_get_connection, _put_connection,
\* connection_pool_close): neither list holds a connection twice, no
\* connection is on both, together they are exactly the open connections,
\* connections_count counts them, the busy list is exactly the open
\* connections the threads hold, and no two threads hold the same one.
PoolConsistent ==
    /\ IsInjective(free_connections) /\ IsInjective(busy_connections)
    /\ Range(free_connections) \cap Range(busy_connections) = {}
    /\ Range(free_connections) \cup Range(busy_connections) = opened \ closed
    /\ connections_count = Cardinality(opened \ closed)
    /\ Range(busy_connections) = {conn[t] : t \in Holding} \ closed
    /\ \A t1, t2 \in Holding : t1 # t2 => conn[t1] # conn[t2]

\* The list.h calls of the pool (list_remove_after, list_insert_after,
\* list_remove, list_destroy), in every order the threads and VMDeath make
\* them, keep the pointers of both lists a well-formed pair of rings.
ListsWellLinked == List!WellLinked

\* __instrument_class takes the answer it receives as the instrumented code
\* of the class it sent: the response a thread has received is the one the
\* server gave to that thread's current request, whatever other threads
\* did with the pool and the sockets in between.
ResponseToOwnRequest ==
    \A t \in Threads :
        pc[t] = "received" => response[t].who = t /\ response[t].n = loads[t]

-----------------------------------------------------------------------------
\* The configuration the comments of the Agent_OnLoad helpers describe,
\* written without their loops: with no options the default host and
\* port, otherwise everything before the first ':' and everything after
\* it; the bypass mode is the position of the name disabled, bootstrap or
\* dynamic that the property (dynamic when undefined) spells, in any case,
\* and -1 for any other; a boolean property is true exactly when it spells
\* true, yes, on or 1, in any case, and takes its default when undefined.
SameIgnoringCase(a, b) ==
    /\ Len(a) = Len(b)
    /\ \A i \in 1..Len(a) :
          \/ a[i] = b[i]
          \/ \E k \in 1..26 : {a[i], b[i]} = {Cfg!Capitals[k], Cfg!Smalls[k]}

SpelledAs(v, names) == {i \in 1..Len(names) : SameIgnoringCase(v, names[i])}

RefBypassMode(v) ==
    LET w == IF v = NULL THEN Cfg!DISL_BYPASS_DEFAULT ELSE v IN
    IF SpelledAs(w, Cfg!BypassNames) = {} THEN -1
    ELSE (CHOOSE i \in SpelledAs(w, Cfg!BypassNames) : TRUE) - 1

RefBool(v, dfl) == IF v = NULL THEN dfl ELSE SpelledAs(v, Cfg!TrueNames) # {}

FirstColon(o) == CHOOSE i \in 1..Len(o) : o[i] = ":" /\ \A j \in 1..(i-1) : o[j] # ":"

\* Agent_OnLoad configures the agent as its option string and the system
\* properties say (__configure_from_options, __configure_from_properties,
\* find_value_index, the jvmtiutil.c getters): the host, port, bypass mode
\* and the split and catch flags agree with the reference above, an
\* unknown bypass mode or options without a port end the agent before
\* it instruments anything.
ConfigParsed ==
    LET o == agent_options
        p == agent_props
    IN
    /\ o = NULL =>
          /\ agent_config.server_host = Cfg!DISL_SERVER_HOST_DEFAULT
          /\ agent_config.server_port = Cfg!DISL_SERVER_PORT_DEFAULT
    /\ o # NULL /\ ":" \in Range(o) =>
          /\ agent_config.server_host = SubSeq(o, 1, FirstColon(o) - 1)
          /\ agent_config.server_port = SubSeq(o, FirstColon(o) + 1, Len(o))
    /\ agent_config.bypass_mode = RefBypassMode(p.bypass)
    /\ agent_config.split_methods = RefBool(p.splitmethods, TRUE)
    /\ agent_config.catch_exceptions = RefBool(p.excepthandler, FALSE)
    /\ (agent_config.bypass_mode < 0 \/ (o # NULL /\ ":" \notin Range(o)))
          => exited /\ defined = {} /\ \A t \in Threads : loads[t] = 0

\* What a class whose code has flags f executes while BypassCheck is the
\* variant b: bypass code asks BypassCheck whether to run the original
\* code ("always", "dynamic": inside DiSL snippets, or "never"); a class
\* without bypass code always runs its instrumented code.
Bypassing(f, b) == IF Cfg!HasFlag(f, CF_CREATE_BYPASS) THEN b ELSE "never"

\* Every class the load hook hands back to the JVM behaves as the comments
\* of enum bypass_mode promise, whatever the order of the hook's read of
\* agent_code_flags, its request and VMInit's two steps: with bypass
\* disabled the instrumented code always runs; in bootstrap mode the
\* original code runs while the JVM boots and the instrumented code once
\* VMInit is done; in dynamic mode the original code can always be
\* reached, and once VMInit is done exactly from inside snippets.
BypassModeHonoured ==
    \A d \in defined :
        LET r == Bypassing(d.flags, bpc)
            m == agent_config.bypass_mode
        IN
        /\ m = Cfg!BYPASS_MODE_DISABLED => r = "never"
        /\ m = Cfg!BYPASS_MODE_BOOTSTRAP =>
              /\ vmInit = "pending" => r = "always"
              /\ vmInit = "done" => r = "never"
        /\ m = Cfg!BYPASS_MODE_DYNAMIC =>
              /\ r # "never"
              /\ vmInit = "done" => r = "dynamic"

\* No class load outlives the network: a connection a thread uses in
\* __instrument_class (between network_acquire_connection and
\* network_release_connection) is never closed by network_fini, and no
\* thread is still on its way to acquire one once network_fini has freed
\* the address info and destroyed the mutex.
NoRequestOutlivesNetwork ==
    \A t \in Threads :
        /\ pc[t] \in InRequest => conn[t] \notin closed
        /\ pc[t] = "loading" => ~vmDead
=============================================================================
