# TLA+ models of the DiSL shadow-VM agent pipeline

These modules model the native agent in `src/src-shvm-agent/`. The agent
collects analysis events in an instrumented JVM and streams them to a
remote analysis server. `ConnectionPool`, `AgentConfig`, `SocketXfer` and `LinkedList` model the class
instrumentation client in `src/src-disl-agent/`. `PROJECT.json` lists every component, run,
mutant, the source lines each definition models, the findings and the
hazards.

## The system

**Buffers.** `dislreagent.c` keeps a fixed pool `pb_list` of
`process_buffs`: 32 general buffers (`BQ_BUFFERS`) and 6 utility buffers
(`BQ_UTILITY`). Each buffer has an analysis buffer, a command buffer and
an `owner_id` tag. A buffer moves between four `blocking_queue`s
(`blockingqueue.h`, a mutex-protected ring):

- `empty_q` holds free buffers (`PB_FREE`).
- `utility_q` holds `PB_UTILITY` buffers for control messages.
- `objtag_q` holds buffers waiting for the object tagging thread
  (`PB_OBJTAG`).
- `send_q` holds buffers waiting for the sending thread (`PB_SEND` or
  `PB_UTILITY`).

While out of the queues, a buffer belongs to an application thread
(`owner_id` = the thread id, 128 and up) or to a total-ordering slot
(`owner_id` = the ordering id, 0..127).

**Actors.**

- *Application threads* call the `REDispatch` natives.
  - The per-thread API (`analysisStart(S)` ... `analysisEnd`) writes an
    ANALYZE message into the thread's buffer and back-patches the request
    count after every request. After `ANALYSIS_COUNT` requests the buffer
    goes to `objtag_q`.
  - The ordered API (`analysisStart(S, B)`) first flushes the thread's
    normal buffer. It then writes into a thread-local buffer, which
    `analysis_end_buff` merges into the slot buffer of ordering id `B`
    under `to_buff_lock`. That merge may block in `buffs_get` while
    holding the lock.
  - `registerMethod` sends REG_ANALYSIS through a utility buffer straight
    to `send_q`.
- *The object tagging thread* pops `objtag_q`, resolves object
  references and hands the buffer to `send_q`. It exits when
  `no_tagging_work` is set and `objtag_q` is empty.
- *The sending thread* pops `send_q`, writes the buffer to the socket and
  releases it by owner. It exits when `no_sending_work` is set and
  `send_q` is empty, then sends CLOSE from a buffer it takes from
  `empty_q` (`close_connection`).
- *The ThreadEnd hook* flushes the ending thread's buffers
  (`send_thread_buffers`). It then queues THREAD_END on `objtag_q`, behind
  the thread's data.
- *The VMDeath hook* runs these steps:
  1. flush every slot (`send_all_to_buffers`);
  2. flush its own thread's buffers;
  3. set `no_tagging_work`, push a poison buffer to `objtag_q` and join
     the tagging thread;
  4. set `no_sending_work`, push a poison buffer to `send_q` and join the
     sending thread;
  5. scan `pb_list`. The scan ends the VM with `check_error` if a buffer
     is still `PB_OBJTAG` or `PB_SEND`.

**Object references.**

- An object argument (`sendObject`, `sendObjectPlusData`,
  `sendCurrentThread`) leaves a NULL net reference in the analysis buffer.
  It also leaves a record with a JNI global reference in the command
  buffer (`pack_object`).
- The tagging thread resolves each record under `tagging_lock`
  (`get_net_reference`, `netref.h`). A new object gets the next object id;
  a new class gets the next object and class ids. Resolving a class also
  resolves its loader and superclass and packs CLASS_INFO. A string or
  thread passed with its data gets STRING_INFO or THREAD_INFO once,
  guarded by the SPEC bit of its tag. This metadata becomes the buffer's
  command buffer, which the sender writes before the analysis buffer. The
  global references are released only after the buffer is in `send_q`.
- The class file load hook tags the class loader under `tagging_lock`
  and sends NEW_CLASS in a utility buffer straight to `send_q`.
- The object free hook batches the tags of freed objects into an OBJ_FREE
  utility buffer under `obj_free_lock`. It sends a full batch straight to
  `send_q`; VMDeath sends the partial one (`send_obj_free_buffer`).

**Not modelled.** See `PROJECT.json`:

- the byte buffers (`buffer.h`, `buffpack.h`);
- the class prepare hook, which only registers the natives;
- most of the class instrumentation agent's I/O; its pool is below.

**The class instrumentation agent (`src/src-disl-agent/`).** Its class
file load hook (`dislagent.c`) sends each loaded class to the
instrumentation server and blocks for the reply, in `__instrument_class`.
The steps are: `network_acquire_connection`, `message_send`,
`message_recv`, `network_release_connection`, and `exit` on a server
error. The connections come from a pool (`connpool.c`) with a free list
and a busy list. `get_connection` reuses the first free connection or
opens a new one. `put_connection` moves a connection back to the front
of the free list. The pool is documented thread-unsafe, and `network.c`
runs both calls under `disl_connections_mutex`. At VMDeath,
`network_fini` does three things:

- closes every connection under the mutex, busy ones too, after sending
  each an empty shutdown message;
- frees the address info;
- destroys the mutex.

Before that, `Agent_OnLoad` configures the agent. `__configure_from_options`
splits the option string at its first `:` into host and port.
`__configure_from_properties` reads `disl.bypass` (disabled, bootstrap
or dynamic, in any case) and two boolean properties through the
`jvmtiutil.c` getters and `find_value_index`. `__calc_code_flags` turns
the configuration into the code flags that every request carries. While
the JVM boots, they ask for bypass code in any bypass mode. The VMInit
hook recomputes them for a JVM that no longer boots, then redefines the
`BypassCheck` class that bypass code consults:

- the dynamic variant in dynamic mode;
- the variant that never bypasses otherwise.

Class load hooks on other threads read `agent_code_flags` while this
happens.

## Modules

| Module | Models |
|---|---|
| `BlockingQueue` | What a `blocking_queue` promises: a bounded FIFO. `bq_push` and `bq_pop` are atomic steps under the queue mutex, and a waiting call is a disabled action. |
| `BlockingQueueRing` | The ring of `blockingqueue.h`: `qarray`, `first`, `occupied`, and the zeroing of a popped slot. `Contents` maps the ring onto the FIFO, and `ImplementsBlockingQueue` is `BlockingQueue!Spec` under that mapping. |
| `Buffer` | `buffer.h` and `buffpack.h`. A buffer is its occupied bytes and its capacity. `buffer_fill` grows it by the code's doubling loop (`GrownCapacity`, RECURSIVE), and `buffer_fill_at_pos` overwrites occupied bytes; `FillAtPosFails` is its `check_error` condition. `NetworkOrder` is what `htons`/`htonl`/`htobe64` and `memcpy` store (two's complement, big-endian). The `pack_*` routines and `buff_put_*` of `dislreagent.c` are built on them. |
| `DataPath` | The bytes of one application thread's data path, from `registerMethod` and the analysis calls of both APIs to the socket, through the tagging and sending threads. It applies `Buffer`, takes `objtag_q` from `BlockingQueueRing` (an INSTANCE) and builds tags with `NetReference`. A recursive parser (`ParseMsgs`) reads the socket the way the server does, so the properties are stated on the bytes. |
| `MCDataPath` | Two objects (a plain one and a one-byte String) and two argument lists: an int, and a data object followed by an object. |
| `DislREAgent` | The pipeline: pool, queues, threads, slots, both workers, ThreadEnd and VMDeath. |
| `MCDislREAgent` | Two threads (model values) with thread symmetry, and one ordering id. |
| `NetReference` | `netref.h`'s bit packing: `get_bits`, `set_bits`, the getters, `net_ref_set_spec` and `_set_net_reference`, with Bitwise. It also has the layout of the format comment (`ReferenceEncoding`) and arithmetic field access (`RefField`, `RefSetSpec`). The field widths are constants because TLC integers are 32 bits; the code's widths are 40 and 22. |
| `ObjectTagging` | Object references end to end: `pack_object`, the tagging round, the recursion of `get_net_reference` (as RECURSIVE operators over a record of tags, counters and metadata buffer), the sender, the collector with the object free hook, the class file load hook and the VMStart, VMInit and VMDeath steps that touch them. |
| `ConnectionPool` | The disl-agent pool and its clients. State: the `next`/`prev` pointers of the two list heads and of each connection's `cp_link` (an instance of `LinkedList`, read as sequences front first by walking the rings), `connections_count`, and the connections opened and closed. Per thread: its place in the hook (`pc`), its connection, its class-load count and its last response. Per connection: the stream to the server (kept whole and read at `srvPos`) and the stream back. Each pool call is one atomic step, because it runs under the mutex, and applies the list.h calls of its code in their order. `reuse_connection` and `open_connection` are the two branches of `get_connection`. `vm_death` is `network_fini`: `connection_pool_close` picks the connections, and `__connection_destructor` sends the shutdown message, closes each one and decrements the count. Send, receive and release on a connection that is already closed are undefined behaviour. The model stops following the thread there, and `NoRequestOutlivesNetwork` reports the state. Init is `Agent_OnLoad`: the options and properties are chosen from the MC sets, `agent_config` and the boot-time `agent_code_flags` are computed by `AgentConfig`, and the agent ends at once (`exited`) in these cases:

- an unknown bypass mode (`check_error`);
- a missing port (`network_init`'s assert);
- a port that is not a decimal number (`getaddrinfo` with `AI_NUMERICSERV`);
- a host the resolver fails to resolve, which is a nondeterministic choice (`network_init_outcomes`).
 `class_file_load` reads `agent_code_flags` into the thread's `flags`, which its request carries. The server answers with an error, with changed code built for the request's flags, or with no change. `class_changed` adds a changed class to `defined`. `jvmti_callback_vm_init` stores the after-boot flags, and `vm_init_redefine_bypass_check` then sets `bpc`, the BypassCheck variant. VMDeath comes after VMInit. |
| `AgentConfig` | Pure operators for the start-up configuration: `__configure_from_options` (with `strchr`), `__configure_from_properties`, `find_value_index` with `strcasecmp` (the C locale's `tolower`), `__parse_bool`, the two `jvmti_get_system_property_*` getters and `__calc_code_flags` over Bitwise. A C string is a sequence of one-character strings. The code flag values come from a generated Java header, so they are constants (single bits). |
| `ShvmAgentOptions` | The shadow-VM agent's `parse_agent_options`: the defaults, the split at the first `:`, and the `check_error` on a port that does not fit `port_number[6]` or a host that does not fit `host_name[1024]`. |
| `MCConnectionPool` | Two threads and two connection addresses, with symmetry in both. There are five option strings: none, a host without a port, `h:1:2`, `h:12345` and `h:123456`. There are four property sets: all undefined; mixed-case `Bootstrap` with `off` and `YES`; `DISABLED`; an unknown mode. It also states `ShvmOptionsParsed` on the option string, through an INSTANCE of `ShvmAgentOptions`. |
| `SocketXfer` | The transfer loops of `connection.c`: `__socket_xfer` (one buffer) and `__socket_xfer_iov` (a vector of buffers, as `msgchannel.c` uses). State: the caller's buffer lengths, each buffer's `iov_base` offset and remaining `iov_len`, `iov_index`, `total`, the loop's exit and return value, the bytes on the wire, and whether the peer is still open. A byte is named by its buffer and offset. The kernel call is the environment (`XferResults`): on an open socket it moves at least one pending byte or fails; after the peer closes, `recv` returns 0 and `send` fails. `SkipDone` and `AdjustPartial` are the inner loop and the partial-buffer adjustment. |
| `LinkedList` | The `list.h` operations the pool calls, as operators on the `next`/`prev` pointers of all nodes: `__list_init`, `__list_insert_between` in the code's assignment order, `list_remove` (which reinitialises the item), `list_remove_after`, `list_is_empty`, and `list_destroy` and `list_for_each` as RECURSIVE walks. `WellLinked` is the shape they must keep. |
| `MCObjectTagging` | A heap of four classes (`Object`, `String`, `ClassLoader`, and an application class defined by an application loader), the loader, a string and an instance. |

### DislREAgent: state

- `owner[b]` is `pb_list[b].owner_id`.
- `anl[b]` is the analysis buffer, a sequence of items. An item is an
  ANALYZE header `Hdr(id, count)`, a request `Req(e)`, REG_ANALYSIS,
  THREAD_END or CLOSE.
- The four queues are sequences of buffer indices. Their FIFO behaviour
  is the one `BlockingQueueRing` is shown to implement.
- The `tldata` fields are `tid`, `pb`, `localPb`, `abuf` (the current
  `analysis_buff`), `toBuffId` and `acount`.
- The slots are `slotPb` and `slotCount`. The holder of `to_buff_lock`
  is `toLock`.
- The counters are `availTid` and `availAid`. The stop flags are
  `noTaggingWork` and `noSendingWork`.
- `tagPc`, `sendPc` and `sdPc` give each worker's and the VMDeath hook's
  place in its code.
- `wire` is everything written to the socket.

A request is the event `[t, n, s]`: thread `t`'s `n`-th call, for
stream `s` (a thread id, or an ordering id). Two history variables
support the properties:

- `produced[s]`: the requests of stream `s` in the order they entered it.
  For a slot, that is the order of the merges.
- `mustDeliver`: what the shutdown promises to send. It holds the
  requests of ended threads and of the dying thread, and the ordered
  requests merged before the slot flush.

### DislREAgent: actions

Each action is one function, or one step of a function between two
points where another thread can act:

- `analysis_start`: one per-thread call. `analysis_start`, the argument
  natives and `analysis_end` form one step, because nothing else reads
  the calling thread's buffer in between.
- `analysis_start_buff_flush`, `analysis_start_buff_get`: the two halves
  of `analysis_start_buff`. The second half may block on `empty_q`.
- `analysis_end_buff_lock`, `analysis_end_buff`: entering
  `to_buff_lock`, and the critical section. The critical section blocks
  on `empty_q` while holding the lock when the slot has no buffer.
- `register_method`.
- `thread_end_flush`, `thread_end_msg`: the ThreadEnd hook. Its
  `buffs_get` blocks.
- `objtag_check`, `objtag_tag_send`: the tagging loop. The check alone
  is a step, because the shutdown race lives there. Popping, tagging and
  handing a buffer over form one step: the tagging thread is
  `objtag_q`'s only consumer, and nothing else looks at a buffer it holds.
- `send_check`, `send_write`, `close_connection`: the sending loop, built
  the same way.
- `vm_death` and its seven steps, from `send_all_to_buffers` to
  `vm_death_join_sending_and_scan`. Each statement that touches shared
  state is its own step.
- `buffs_utility_send`, `_buffs_utility_release`, `_buffs_release`,
  `_buffs_send`: the buffer pool's hand-offs (owner tag and bounded queue
  push), as helpers used by the actions above.

The constant `DaemonActivity` says whether threads other than the dying
one may begin REDispatch calls after VMDeath. JVMTI allows this for
daemon threads. `MaxCalls` bounds the analysis calls of all threads
together, and `MaxMethods` bounds the registrations.

Several functions end in an operator named `Variant ...`. These are
mutants: each reproduces a plausible bug in the definition that follows
it. Each property is checked to fail on its mutant; see `mutants` in
`PROJECT.json`.

### DataPath: state and actions

State: `buf` maps a buffer id to its `Buffer` record; `cmdOf` and
`owner` are each `process_buffs`' `command_buff` and `owner_id` (the
command buffer changes when the tagging thread swaps it with its
`new_obj_buff`, held in `ot_spare`). `emptyQ`, `utilityQ`, `sendQ` and
the ring variables of `objtag_q` are the queues. `tld` is the thread's
`struct tldata`, `tobs` the `to_buff_array` entry of its ordering id.
`tags`, `objIds` and `avail_object_id` are the JVMTI tags and the object
counter, `avail_analysis_id` and `mids` the registration counter and the
ids the thread got. `snd` is the sending thread (buffer, which half, bytes
sent) and `wire` the bytes written. `issued` records the requests each
stream completed. `exited` records a `check_error` or a failed `send`.

A command buffer holds `objtag_rec` records, one per element, while the
application fills it, and bytes once the tagging thread has swapped it
with `new_obj_buff`.

Actions, each a whole function of the code: `register_method`;
`analysis_start_get` and `analysis_start` (the two branches of
`analysis_start`); `analysis_start_buff_flush` and
`analysis_start_buff_get` (the flush of the normal buffer, then the local
buffer and header); `sendInt`, `pack_object`; `analysis_end` and
`analysis_end_buff` (with `correct_cmd_buff_pos`). There is a
`check_error` disjunct wherever a `buffer_fill_at_pos` could fail. The
thread end hook is `thread_end`, `send_thread_buffers(i)` (one buffer
per step, in `pb_list` order), `thread_end_done` and `thread_end_msg`
(THREAD_END through `objtag_q`). `vm_death` is `send_all_to_buffers`.
The tagging thread is `objtag_get` and `objtag_tag` (`ot_tag_buff`,
`ot_tag_record` and `ot_pack_string_data` as operators). The sending
thread is `send_get`, then `send_data(res)` for each round of `send()`,
which writes all the bytes left or a short count. `send_error` is
`send()` failing, and `send_done` releases the buffer to `utility_q` or
`empty_q` according to its owner.

## Properties

- `BufferPlacement` (spec section 8, "one owner"): every buffer has
  exactly one holder (a queue, a thread's `pb` or live `local_pb`, or a
  slot), and its `owner_id` agrees with that holder.
- `StreamIntegrity`: every request on the socket sits inside an ANALYZE
  message for its own stream. Each stream's requests on the socket are a
  prefix of the order in which they were produced, with none lost in
  between and none duplicated.
- `CountsPatched`: the count in every ANALYZE header on the socket equals
  the number of requests that message carries, whatever flushed it.
- `ThreadEndAfterData`: no request of a thread's stream follows its
  THREAD_END on the socket.
- `DeliveredAtClose`: when CLOSE is written, everything in `mustDeliver`
  is on the socket.
- `ShutdownCompletes` (liveness): once VMDeath starts, the hook finishes.
  It is a violation run: the code's own TODO (1156-1158) expects it to
  fail when the pool runs dry, and it does.
- `ScanClean`: the final scan never ends the VM with an error.
- `LossReported` (spec section 4.8, step 6): after a completed shutdown,
  every request is either on the socket or in a buffer the scan reports
  as lost.
- `ImplementsBlockingQueue`: `objtag_q`, the ring, refines the FIFO.
- `EncodingMatchesFormat`: every tag the tagging thread makes has the
  layout of `netref.h`'s format comment for the id and class id it was
  made from, each cut to its field width.
- `DecodeInvertsEncode`: the getters read back from every tag the fields
  `_set_net_reference` and `update_send_status` wrote.
- `TypeOK` (DataPath): among the type facts, no buffer's occupied bytes
  exceed its capacity, and every byte on the wire is a byte.
- `WireDecodes`: the socket's bytes parse as messages, whole ones
  whenever the sender is between buffers. On each stream the requests are
  the ones the thread completed, in order, with the method id, every int
  in network order and every object as its net reference. The reference
  sits at the position `_fill_ot_rec` recorded, shifted by
  `correct_cmd_buff_pos` for ordered requests.
- `StringInfoBeforeUse`: the STRING_INFO of a String passed with
  `sendObjectPlusData` is on the wire before the request.
- `AllDelivered`: once the thread end hook and VMDeath have run and both
  workers are idle, every completed request is on the wire.
- `RegisteredBeforeUse`: the REG_ANALYSIS of a method id precedes every
  request with that id, the id included as the same jshort.
- `ThreadEndLast`: no request of a thread follows its THREAD_END.
- `NoFillError`: no `buffer_fill_at_pos` (argument length, count, net
  reference) ever lands outside the occupied bytes.
- `IntroducedBeforeFree` (spec section 4.6): no OBJ_FREE reaches the wire
  before a message carrying the freed object's reference.
- `MetadataBeforeUse` (spec section 4.3): every reference on the wire
  follows the CLASS_INFO of its class. Every string or thread passed with
  its data follows its STRING_INFO or THREAD_INFO.
- `MetadataOnce`: no class, string or thread has its metadata sent twice.
- `NetRefsUnique` (spec section 3): distinct objects have distinct object
  ids, and distinct classes have distinct class ids. An object's reference
  carries its class's id.
- `StableReference` (spec section 8): every REF of one object on the wire
  is the same 8 bytes.
- `PoolConsistent`: after any interleaving of acquires, releases and
  the close at VMDeath, five things hold:
  - neither list repeats a connection or shares one with the other;
  - the two lists together are exactly the open connections;
  - `connections_count` counts the open connections;
  - the busy list is exactly the connections the threads hold;
  - no two threads hold the same connection.
- `ResponseToOwnRequest`: a thread in `__instrument_class` receives the
  answer to its own current request.
- `ConfigParsed`: the host, port, bypass mode and boolean flags that
  `Agent_OnLoad` derives agree with a loop-free reference. The reference
  takes the text before and after the first `:`, a name spelled in any
  case, and the defaults when a value is undefined. Options without a
  port, or an unknown mode, end the agent before any class is
  instrumented.
- `BypassModeHonoured`: every class handed back to the JVM executes what
  the comments of `enum bypass_mode` promise. What it executes follows
  from the flags it was instrumented with and the current BypassCheck
  variant:
  - disabled: always the instrumented code;
  - bootstrap: the original code while booting, the instrumented code
    once VMInit is done;
  - dynamic: the original code always reachable, and from inside
    snippets once VMInit is done.

  This must hold however the hook's read of the flags interleaves with
  VMInit's two steps.
- `ShvmOptionsParsed`: the shadow-VM agent's `parse_agent_options`, given
  the same option strings, yields what the specification describes. The
  host is the text before the first `:`. The port is the text after it,
  or the default when there is none. `check_error` ends the agent exactly
  when the port has more than five characters.
- `NoRequestOutlivesNetwork`: no connection a thread is using is closed,
  and no thread is still on its way to acquire one once `network_fini`
  has run.
- `TransfersInOrder`: whatever partial counts, zero-length buffers and
  errors the kernel produces, the bytes on the wire followed by what the
  adjusted buffers still describe are exactly the caller's bytes in
  order; `total` counts the wire; a successful return means everything
  went and returns that count; an error returns a negative value.
- `SendReturns`, `RecvReturns` (liveness): a send, and a receive, always
  return, even once the peer has closed the socket.
- `ListsWellLinked`: after any interleaving of the pool's list calls
  (`list_remove_after`, `list_insert_after`, `list_remove`,
  `list_destroy`), `prev` and `next` are inverse, each head's ring
  returns to it and repeats no item, the two rings are disjoint, and
  unlinked items point to themselves.
- `FreesFlushedAtDeath` (spec section 4.8, steps 3 and 6): once VMDeath
  has flushed the object-free batch, no OBJ_FREE event waits in an unsent
  batch.

## Runs

| Run | Config | Result | Shows |
|---|---|---|---|
| `data_path` | `MCDataPath.cfg` | pass, 166,383 states, under 1 min | One thread registers two methods whose ids cross the jshort sign boundary. It marshals through both APIs into buffers that start at 8 bytes, so every message outgrows its buffer. The tagging thread tags two objects whose ids outgrow one-bit fields and packs a String's data, and the sender writes in short rounds. Throughout, the bytes on the socket decode to exactly what the thread produced, in the right order. Every patch lands inside its buffer, and the tags have the documented layout. |
| `pipeline_safety` | `MCDislREAgent_safety.cfg` | pass, about 1.16M states, under 2 min | The five safety properties and `TypeOK` hold with both APIs, registration, thread ends, shutdown and daemon calls. |
| `shutdown_hang` | `MCDislREAgent_hang.cfg` | violation of `ShutdownCompletes` | This is a code bug. A thread is inside an ordered call and holds a slot buffer. Both workers exit on their flags before the poison pushes, so the two poisons take the last two buffers. `close_connection`'s blocking `buffs_get` (1128) then waits forever, and so does `pthread_join` (1647). With 32 buffers the same hang needs 30 buffers held by live threads; JVMTI puts no bound on threads. The TODO at 1156-1158 names this deadlock. |
| `shutdown_scan_race` | `MCDislREAgent_scan.cfg` | violation of `ScanClean` | This is a code bug. The tagging thread checks its loop condition after `no_tagging_work = TRUE` (1626) and before the poison push (1629-1630), and exits. The poison stays `PB_OBJTAG`, and `check_error` at 1685 ends the VM. The sending thread has the same window (1636/1643). |
| `object_tagging_safety` | `MCObjectTagging_safety.cfg` | pass, about 247k states, under 1 min | The four ordering and uniqueness properties of object references hold. They hold with the tagging thread, the sender, the collector, both hooks and VMDeath interleaved. |
| `unstable_reference` | `MCObjectTagging_stable.cfg` | violation of `StableReference` | `sendObject(s)` then `sendObjectPlusData(s)` put `s` on the wire with the SPEC bit clear and then set. `update_send_status` (921-925, called at 944) rewrites the tag that `get_net_reference` returns, which contradicts spec section 8. |
| `connection_pool_safety` | `MCConnectionPool_safety.cfg` | pass, 259,898 states | With VMDeath waiting until no class load is in progress, the pool's list.h rings stay well linked, its lists, count and holders stay consistent, each thread gets its own answer. The start-up configuration is parsed as documented. Every instrumented class keeps the promise of its bypass mode, including classes requested with boot-time flags that are defined after VMInit. The shadow-VM agent's option parser accepts a five-digit port and refuses a six-digit one. |
| `connection_pool_race` | `MCConnectionPool_race.cfg` | violation of `NoRequestOutlivesNetwork` | This is a code bug. JVMTI lets daemon threads run their class file load hook while VMDeath is posted, and `network_fini` does not wait for them. In the shortest trace, a thread enters the hook, VMDeath runs, and the thread then locks a destroyed mutex and opens a connection through freed address info. Other traces have the hook using a busy connection that `connection_pool_close` has already closed (connpool.c:139-142 only prints a warning). |
| `daemon_slot_loss` | `MCDislREAgent_loss.cfg` | violation of `LossReported` | An ordered call made after `send_all_to_buffers` binds a slot buffer whose `owner_id` is the ordering id. The scan neither sends nor reports it. This needs no daemon activity: a thread already inside an ordered call when VMDeath begins is enough. |
| `socket_xfer` | `MCSocketXfer.cfg` | pass, 1822 states | Both loops deliver every byte once and in order, including results that end on a buffer boundary or cross empty buffers, and a send always returns. |
| `socket_recv_eof` | `MCSocketXfer_eof.cfg` | violation of `RecvReturns` | This is a code bug. Once the server closes the connection, `recv` returns 0 on every call. `__socket_xfer` subtracts 0 and loops (connection.c:100-106), and `__socket_xfer_iov` takes `res >= 0` as progress (173). The receiving thread spins forever instead of reaching `check_std_error`. |
| `obj_free_after_death` | `MCObjectTagging_free.cfg` | violation of `FreesFlushedAtDeath` | After `send_obj_free_buffer` (1608) the collector frees a tagged object. The free hook takes a utility buffer for a new batch, which is sent only when full. Its owner is `PB_UTILITY`, so the final scan (1668-1693) does not report it: the OBJ_FREE event is lost silently. The spec does not say what happens to frees after step 3. |

### Bounds

- **Threads and ordering ids.** Two threads and one ordering id are the
  least that lets ordered requests of two threads meet in one slot, and
  one thread die while the other lives.
- **Pool and batch size.** `AnalysisCount = 2` makes threshold flushes
  and partial flushes (by ThreadEnd or VMDeath) both happen.
  `NBuffers = 3` lets the pool run dry. `NUtility = 1` makes a
  registration wait for the sending thread.
- **Calls in the safety run.** `MaxCalls = 2` covers a per-thread
  threshold flush, a slot merge of two threads, and a flush before an
  ordered call.
- **Liveness bounds.** `shutdown_hang` uses `MaxCalls = 1` and 3
  general buffers. One live thread holding one buffer, plus the two
  stranded poisons, empties the pool. The code needs the same pattern with
  its 32 buffers, and the threads that hold them are unbounded. Raising
  the pool until it cannot run dry would make the property pass only by
  leaving out the hang.
- **Object tagging.** One application thread suffices: the actors that
  race here are the tagging thread, the sender, the collector and the
  class file load hook. `Args` (the string, the instance and the
  application class) and `MaxSends = 3` allow the following: one string
  passed without and then with its data; a flush of two calls together
  with a one-call buffer; and a class passed directly. `NBuffers = 2`
  keeps one buffer in `send_q` while the next is tagged.
  `MAX_OBJ_FREE_EVENTS = 2` exercises both a full batch and a partial
  batch sent by VMDeath. `NUtility = 1` makes the OBJ_FREE batch and the
  class file load hook compete for the utility pool. The field widths
  (4 and 3 bits) hold every id the heap needs. A thread object is left
  out: it takes the string's path with THREAD_INFO.
- **Agent configuration.** The five option strings cover:
  - the default path;
  - the missing port;
  - a port text that contains a second `:` (strchr against strrchr);
  - ports of five and six digits, either side of `port_number[6]`.

  A host of 1024 characters, the other array bound, is not enumerated. The four property sets give each bypass mode
  once, plus an unknown one. Together they exercise the case folding and
  both values of each boolean. Two threads with two loads each let one
  hook read the boot-time flags and finish after VMInit, while another
  reads the new flags.
- **Data path.** `NBufs = 2` (also the capacity of `objtag_q`) and
  `AnalysisCount = 2` give a threshold flush, a flush by the switch to
  the ordered API, and partial flushes by the thread end hook and
  VMDeath. `MaxCalls = 3` reaches all of them with an ordered call
  between normal ones. `INIT_BUFF_SIZE = 8` (512 in the code) makes the
  first message header (13 bytes) already grow its buffer, and a data
  object's record and string grow it twice. `SendChunk = 5` splits every
  buffer over several `send()` rounds. `FirstAnalysisId = 32767` is the
  counter after 32766 registrations, so `MaxRegs = 2` hands out 32767
  and -32768. A repeated id would need 65536 registrations. With one-bit
  object and class id fields, `o2` gets object id 2 and class id 3, both
  cut. `ThreadId = 128` is the first id `next_thread_id` hands out, and
  `OrderId = 0` is the lowest ordering id.
- **Connection pool.** Two threads with two class loads each let a
  connection be reused by the other thread, and let a second connection
  be opened while the first is busy. Two addresses are as many
  connections as two threads can hold. The safety run sets
  `LoadsQuiesceBeforeDeath = TRUE`, so VMDeath waits for the hooks and the
  close itself is checked. The race run sets it `FALSE`, as JVMTI allows.
- **Socket transfers.** Up to 3 buffers (the most `msgchannel.c`
  passes) of up to 2 bytes each, all lengths from 0: that covers empty
  buffers between full ones, a result ending inside a buffer and one
  ending on its boundary.
- **Lists.** The pool's two connections make rings of up to two items:
  a connection moves between the lists, a release unlinks the first or
  the second busy item, and the close destroys lists of one or two.
  Both mutated list operations are caught through the pool.
- **Symmetry.** Thread symmetry is used only in the safety run. The
  agent never compares threads except through the ids it hands out.

### Fairness

The two worker threads and the VMDeath hook are native threads that the
OS keeps scheduling, so each gets weak fairness. So does a thread in the
middle of a native call or the ThreadEnd hook. Nothing obliges an idle
application thread to call again, to end, or the VM to die, so those
steps have no fairness. `CHECK_DEADLOCK FALSE`: the system stops by
design once shutdown is done or all calls are used up. A hang shows up
as a violation of `ShutdownCompletes`: the blocked thread has no enabled
step, and fairness cannot force one.

`SocketXfer` gives the transfer loop weak fairness: the thread in it
keeps running. The kernel is not assumed fair, but a blocking call on an
open socket moves at least one byte, and the peer may close at any time.
`CHECK_DEADLOCK FALSE`, because a loop that has returned stops.

`ConnectionPool` and `DataPath` check only safety, so they assume no fairness. `MCDataPath.cfg` sets `CHECK_DEADLOCK FALSE`: the thread's calls are bounded and it stops once it has ended. Its runs
set `CHECK_DEADLOCK FALSE` because the agent stops for good after
VMDeath, or after `exit` on a server error.

## Not modelled, and plan

- **Object tagging abstractions.** `ObjectTagging` keeps the pool and
  queues but leaves to `DislREAgent` the ANALYZE headers, ordering slots,
  method registration and the workers' shutdown. Its properties are
  therefore about the order of messages up to where it stops. Classes and
  loaders are never collected. The OBJ_FREE batch header and its patched
  count are left out. The class file load hook's wait for a utility
  buffer while holding `tagging_lock` is one step; that only adds
  interleavings. Net references are built with arithmetic field access,
  which `data_path` shows equal to what the code's Bitwise operators make;
  the recursive Bitwise operators are too slow for TLC over a whole
  state space.
- **Lost OBJ_FREE after VMDeath.** `obj_free_after_death` shows the
  batch left unsent. A full batch queued after the sending thread has
  exited would in addition end the VM at the scan's `PB_SEND` check.
  Showing that needs the object free hook and the workers' shutdown in
  one module, which is not built yet.
- **Class prepare hook.** It only registers the natives.
- **I/O and configuration.** The following are not modelled:
  - socket I/O errors (fatal by design);
  - JVMTI set-up (capabilities, callbacks, event modes).

  The disl-agent configuration is `AgentConfig`. The `debug` property
  only switches `rdprintf` output. The duplicated string memory
  (`strdup`, `free`, `jvmti_alloc_copy`) has no effect on the
  properties.
- **Missing port.** Options without a `:` leave `server_port` NULL, and
  `network_init`'s assert aborts the JVM, while the specification
  promises a default port. The shadow-VM agent uses the default port for
  the same string (`ShvmOptionsParsed`). `ConfigParsed` checks the disl
  agent's behaviour (the agent ends). The divergence is one sequential start-up step, so it
  is recorded as a hazard and not as a run of its own.
- **`src/src-disl-agent` beyond the pool.** Message byte layout
  (`msgchannel.c`) and socket set-up and close in `connection.c` are not
  modelled. A socket error ends the process. `network_fini` is one step
  in the model. Its window between the unlock and `mutex_destroy` is
  already covered by the `connection_pool_race` finding.
- **Data path abstractions.** `DataPath` follows one application thread
  and one ordering id. The interleavings of several threads, the pool
  running dry and the workers' shutdown are `DislREAgent`'s, which keeps
  messages as items. Only `sendInt` and the two object sends are
  modelled among the `send*` natives; the others differ only in the
  width they pack. `pack_float` and `pack_double` reinterpret bits and
  are not modelled. Thread data (THREAD_INFO), class metadata and
  OBJ_FREE are `ObjectTagging`'s. The global references and their
  release have no effect on the bytes. `rcv_data` in `comm.h` is never
  called by this agent.
