------------------------------ MODULE DataPath ------------------------------
(***************************************************************************)
(* The byte path of the shadow-VM agent (src/src-shvm-agent/dislreagent.c) *)
(* for one application thread: the analysis methods it registers through *)
(* a utility buffer, the analysis requests it marshals into the           *)
(* analysis and command buffers of a process_buffs (normal and totally     *)
(* ordered API), the object-tagging thread that overwrites each NULL net   *)
(* reference at its recorded position and packs the data of String        *)
(* objects, and the sending thread that writes the command buffer and then *)
(* the analysis buffer to the socket with send_data (comm.h).  Buffers are *)
(* those of Buffer (buffer.h, buffpack.h); objtag_q is the ring of          *)
(* BlockingQueueRing; net references are built by NetReference.  A command *)
(* buffer holds objtag_rec records (one element each) while the            *)
(* application fills it and bytes once the tagging thread has swapped it   *)
(* for its new-objects buffer.                                             *)
(***************************************************************************)
EXTENDS Integers, Sequences, SequencesExt, Buffer, NetReference

CONSTANTS
    NBufs,          \* BQ_BUFFERS: process_buffs in pb_list (and objtag_q size)
    AnalysisCount,  \* ANALYSIS_COUNT: requests per message
    ThreadId,       \* the id next_thread_id gives the thread
    OrderId,        \* the ordering id the thread passes to analysisStart(S,B)
    NUtility,       \* BQ_UTILITY: utility process_buffs after pb_list's normal ones
    FirstAnalysisId,\* avail_analysis_id when the thread first registers
    MaxRegs,        \* bound: registerMethod calls of the thread
    MethodDesc,     \* the UTF-8 descriptor of the analysis methods
    ArgLists,       \* argument lists of its analysis calls
    MaxCalls,       \* bound: analysis calls of the thread
    Objects,        \* Java objects passed to sendObject(PlusData)
    StringData,     \* the UTF-8 bytes of the objects that are Strings
    ObjClass,       \* the class id of each object
    SendChunk,      \* bytes a short send() writes
    NULL

PBs     == 1..NBufs
UtilPBs == (NBufs + 1)..(NBufs + NUtility)
AllPBs  == PBs \cup UtilPBs
BufIds  == 1..(2 * (NBufs + NUtility) + 1)
Strings == DOMAIN StringData

\* process_buffs owner ids and the message and record constants.
PB_FREE == -100
PB_OBJTAG == -101
PB_SEND == -102
PB_UTILITY == -1000
INVALID_THREAD_ID == -1
INVALID_BUFF_ID == -1
MSG_ANALYZE == 1
MSG_STRING_INFO == 5
MSG_REG_ANALYSIS == 6
MSG_THREAD_END == 8
OT_OBJECT == 1
OT_DATA_OBJECT == 2
NULL_NET_REF == 0

VARIABLES
    buf,        \* the buffer behind every buffer pointer
    cmdOf,      \* pb->command_buff of every process_buffs
    owner,      \* pb->owner_id
    emptyQ,     \* empty_q
    utilityQ,   \* utility_q
    oq_array, oq_first, oq_occupied, oq_out,   \* objtag_q
    sendQ,      \* send_q
    tld,        \* the thread's struct tldata
    pc,         \* where the thread is: "idle", "buff_get", "args", "end",
                \* "end_msg", "done"
    call,       \* the analysis call in progress: method, arguments left
    calls,      \* analysis calls made
    tobs,       \* to_buff_array[OrderId]
    vmDead,     \* the VMDeath hook has sent the ordering buffers
    ot_pb,      \* the buffer the tagging thread popped, before its lock
    ot_spare,   \* the tagging thread's new_obj_buff
    tags,       \* the JVMTI tag of every object (0: untagged)
    objIds,     \* the object id each tag was made from
    avail_object_id,
    snd,        \* the sending thread: buffer, which of its two, bytes sent
    wire,       \* the bytes written to the socket
    issued,     \* the requests completed on each stream, in order
    avail_analysis_id,
    mids,       \* the analysis method ids registerMethod returned
    exited      \* "no", or the check_error that ended the process

oqVars  == <<oq_array, oq_first, oq_occupied, oq_out>>
appVars == <<tld, pc, call, calls, tobs, vmDead, issued>>
otVars  == <<ot_pb, ot_spare, tags, objIds, avail_object_id>>
regVars == <<utilityQ, avail_analysis_id, mids>>
vars == <<buf, cmdOf, owner, emptyQ, oqVars, sendQ, appVars, otVars, snd,
          wire, exited, regVars>>

Objtag == INSTANCE BlockingQueueRing
            WITH Capacity <- NBufs, Values <- PBs, NoValue <- NULL,
                 Zero <- 0, qarray <- oq_array, first <- oq_first,
                 occupied <- oq_occupied, out <- oq_out

\* Ids of the analysis and command buffers pb_list[i] starts with.
anlOf(p) == p
initCmd(p) == NBufs + NUtility + p

JShort(x) == ((x + 32768) % 65536) - 32768

\* Agent_OnLoad: every buffer allocated, the normal buffers released to
\* empty_q and the utility ones to utility_q in pb_list order, no
\* ordering buffer, new_obj_buff allocated when the tagging thread starts.
\* avail_analysis_id starts at FirstAnalysisId, the value it has after
\* FirstAnalysisId - 1 registrations by other threads.
Init ==
    /\ buf = [i \in BufIds |-> buffer_alloc]
    /\ cmdOf = [p \in AllPBs |-> initCmd(p)]
    /\ owner = [p \in AllPBs |-> IF p \in PBs THEN PB_FREE ELSE PB_UTILITY]
    /\ emptyQ = [i \in 1..NBufs |-> i]
    /\ utilityQ = [i \in 1..NUtility |-> NBufs + i]
    /\ avail_analysis_id = FirstAnalysisId
    /\ mids = <<>>
    /\ sendQ = <<>>
    /\ tld = [id |-> INVALID_THREAD_ID, local_pb |-> NULL,
              to_buff_id |-> INVALID_BUFF_ID, pb |-> NULL,
              analysis_buff |-> NULL, command_buff |-> NULL,
              analysis_count |-> 0, analysis_count_pos |-> 0,
              args_length_pos |-> 0]
    /\ pc = "idle"
    /\ call = [mid |-> 0, args |-> <<>>, all |-> <<>>]
    /\ calls = 0
    /\ tobs = [pb |-> NULL, analysis_count |-> 0, analysis_count_pos |-> 0]
    /\ vmDead = FALSE
    /\ ot_pb = NULL
    /\ ot_spare = 2 * (NBufs + NUtility) + 1
    /\ tags = [o \in Objects |-> NULL_NET_REF]
    /\ objIds = [o \in Objects |-> 0]
    /\ avail_object_id = 1
    /\ snd = [pb |-> NULL, part |-> "cmd", sent |-> 0]
    /\ wire = <<>>
    /\ issued = [s \in {ThreadId, OrderId} |-> <<>>]
    /\ exited = "no"
    /\ Objtag!Init

-----------------------------------------------------------------------------
(* Marshalling by the application thread                                   *)

\* The analysis call's request as the stream records it.
Request(c) == [mid |-> c.mid, args |-> c.all]

\* next_thread_id the first time the thread takes a buffer.
MarkedId == IF tld.id = INVALID_THREAD_ID THEN ThreadId ELSE tld.id

\* 0xBAADF00D as a jint and 0xBAAD as a jshort.
BAADF00D == -1163005939
BAAD == JShort(47789)

\* create_analysis_msg: MSG_ANALYZE, the stream id, and a placeholder for
\* the request count whose position it returns.
create_analysis_msg(b, id) ==
    LET b1 == pack_long(pack_byte(b, MSG_ANALYZE), id)
    IN  [b |-> pack_int(b1, BAADF00D), pos |-> buffer_filled(b1)]

\* A variant of create_analysis_request_header that returns the position
\* after the placeholder.
create_analysis_request_header_after(b, mid) ==
    LET b1 == pack_short(b, mid)
    IN  [b |-> pack_short(b1, BAAD), pos |-> buffer_filled(b1) + 2]

\* create_analysis_request_header: the method id, and a placeholder for the
\* length of the arguments whose position it returns.
create_analysis_request_header(b, mid) ==
    LET b1 == pack_short(b, mid)
    IN  [b |-> pack_short(b1, BAAD), pos |-> buffer_filled(b1)]

Unchanged_but_app ==
    UNCHANGED <<otVars, snd, wire, exited, regVars>>

\* register_method: next_analysis_id hands out avail_analysis_id and
\* increments it, a jshort; a utility buffer (buffs_utility_get blocks
\* while utility_q is empty) gets MSG_REG_ANALYSIS, the id and the method
\* descriptor and goes straight to send_q (buffs_utility_send); the
\* thread gets the id back.
register_method ==
    /\ exited = "no" /\ pc = "idle" /\ Len(mids) < MaxRegs
    /\ utilityQ # <<>>
    /\ LET u == Head(utilityQ)
           b == pack_string_utf8(pack_short(pack_byte(buf[anlOf(u)],
                    MSG_REG_ANALYSIS), avail_analysis_id), MethodDesc)
       IN  /\ utilityQ' = Tail(utilityQ)
           /\ buf' = [buf EXCEPT ![anlOf(u)] = b]
           /\ sendQ' = Append(sendQ, u)
    /\ avail_analysis_id' = JShort(avail_analysis_id + 1)
    /\ mids' = Append(mids, avail_analysis_id)
    /\ UNCHANGED <<cmdOf, owner, emptyQ, oqVars, appVars, otVars, snd, wire,
                   exited>>

\* analysis_start with no buffer: buffs_get pops an empty buffer, the
\* thread owns it, and create_analysis_msg starts a message in it; then the
\* request header.
analysis_start_get(mid, args) ==
    /\ exited = "no" /\ pc = "idle" /\ calls < MaxCalls
    /\ tld.analysis_buff = NULL /\ emptyQ # <<>>
    /\ LET p == Head(emptyQ)
           m == create_analysis_msg(buf[anlOf(p)], MarkedId)
           h == create_analysis_request_header(m.b, mid)
       IN  /\ emptyQ' = Tail(emptyQ)
           /\ owner' = [owner EXCEPT ![p] = MarkedId]
           /\ buf' = [buf EXCEPT ![anlOf(p)] = h.b]
           /\ tld' = [tld EXCEPT !.id = MarkedId, !.pb = p,
                        !.analysis_buff = anlOf(p), !.command_buff = cmdOf[p],
                        !.analysis_count = 0, !.analysis_count_pos = m.pos,
                        !.args_length_pos = h.pos]
    /\ pc' = "args" /\ calls' = calls + 1
    /\ call' = [mid |-> mid, args |-> args, all |-> args]
    /\ UNCHANGED <<cmdOf, oqVars, sendQ, tobs, vmDead, issued>>
    /\ Unchanged_but_app

\* analysis_start with a buffer: only the request header.
analysis_start(mid, args) ==
    /\ exited = "no" /\ pc = "idle" /\ calls < MaxCalls
    /\ tld.analysis_buff # NULL
    /\ LET h == create_analysis_request_header(buf[tld.analysis_buff], mid)
       IN  /\ buf' = [buf EXCEPT ![tld.analysis_buff] = h.b]
           /\ tld' = [tld EXCEPT !.args_length_pos = h.pos]
    /\ pc' = "args" /\ calls' = calls + 1
    /\ call' = [mid |-> mid, args |-> args, all |-> args]
    /\ UNCHANGED <<cmdOf, owner, emptyQ, oqVars, sendQ, tobs, vmDead, issued>>
    /\ Unchanged_but_app

\* analysis_start_buff, up to buffs_get: a normal buffer in use is sent
\* for tagging first (buffs_objtag) and the thread drops it.
analysis_start_buff_flush(mid, args) ==
    /\ exited = "no" /\ pc = "idle" /\ calls < MaxCalls
    /\ \/ /\ tld.analysis_buff # NULL
          /\ owner' = [owner EXCEPT ![tld.pb] = PB_OBJTAG]
          /\ Objtag!Push(tld.pb)
          /\ tld' = [tld EXCEPT !.analysis_buff = NULL, !.command_buff = NULL,
                                !.pb = NULL]
       \/ /\ tld.analysis_buff = NULL
          /\ UNCHANGED <<owner, oqVars, tld>>
    /\ pc' = "buff_get" /\ calls' = calls + 1
    /\ call' = [mid |-> mid, args |-> args, all |-> args]
    /\ UNCHANGED <<buf, cmdOf, emptyQ, sendQ, tobs, vmDead, issued>>
    /\ Unchanged_but_app

\* analysis_start_buff, the rest: the thread's local buffer (taken once
\* with buffs_get), the ordering id, and the request header.
analysis_start_buff_get ==
    /\ exited = "no" /\ pc = "buff_get"
    /\ tld.local_pb = NULL => emptyQ # <<>>
    /\ LET lp == IF tld.local_pb = NULL THEN Head(emptyQ) ELSE tld.local_pb
           h  == create_analysis_request_header(buf[anlOf(lp)], call.mid)
       IN  /\ buf' = [buf EXCEPT ![anlOf(lp)] = h.b]
           /\ tld' = [tld EXCEPT !.id = MarkedId, !.local_pb = lp,
                        !.analysis_buff = anlOf(lp), !.command_buff = cmdOf[lp],
                        !.to_buff_id = OrderId, !.args_length_pos = h.pos]
           /\ IF tld.local_pb = NULL
              THEN /\ emptyQ' = Tail(emptyQ)
                   /\ owner' = [owner EXCEPT ![lp] = MarkedId]
              ELSE UNCHANGED <<emptyQ, owner>>
    /\ pc' = "args"
    /\ UNCHANGED <<cmdOf, oqVars, sendQ, call, calls, tobs, vmDead, issued>>
    /\ Unchanged_but_app

\* sendInt: the value into the analysis buffer.
sendInt ==
    /\ exited = "no" /\ pc = "args" /\ call.args # <<>>
    /\ Head(call.args).type = "int"
    /\ buf' = [buf EXCEPT ![tld.analysis_buff] = pack_int(@, Head(call.args).val)]
    /\ call' = [call EXCEPT !.args = Tail(@)]
    /\ UNCHANGED <<cmdOf, owner, emptyQ, oqVars, sendQ, tld, pc, calls, tobs,
                   vmDead, issued>>
    /\ Unchanged_but_app

\* A variant of pack_object that packs NULL_NET_REF before it records
\* the position, so the record points past the reference.
pack_object_pos_after ==
    /\ exited = "no" /\ pc = "args" /\ call.args # <<>>
    /\ Head(call.args).type \in {"object", "data_object"}
    /\ LET a   == Head(call.args)
           anl == pack_long(buf[tld.analysis_buff], NULL_NET_REF)
           rec == [obj_type   |-> IF a.type = "object" THEN OT_OBJECT
                                  ELSE OT_DATA_OBJECT,
                   buff_pos   |-> buffer_filled(anl),
                   obj_to_tag |-> a.val]
       IN  buf' = [buf EXCEPT
                     ![tld.command_buff] = IF a.val = NULL THEN @
                                           ELSE buffer_fill(@, <<rec>>),
                     ![tld.analysis_buff] = anl]
    /\ call' = [call EXCEPT !.args = Tail(@)]
    /\ UNCHANGED <<cmdOf, owner, emptyQ, oqVars, sendQ, tld, pc, calls, tobs,
                   vmDead, issued>>
    /\ Unchanged_but_app

\* pack_object (sendObject, sendObjectPlusData): for an object, an
\* objtag_rec with its type and the position the net reference will take
\* goes to the command buffer (_fill_ot_rec); then NULL_NET_REF is packed.
pack_object ==
    /\ exited = "no" /\ pc = "args" /\ call.args # <<>>
    /\ Head(call.args).type \in {"object", "data_object"}
    /\ LET a   == Head(call.args)
           anl == buf[tld.analysis_buff]
           rec == [obj_type   |-> IF a.type = "object" THEN OT_OBJECT
                                  ELSE OT_DATA_OBJECT,
                   buff_pos   |-> buffer_filled(anl),
                   obj_to_tag |-> a.val]
       IN  buf' = [buf EXCEPT
                     ![tld.command_buff] = IF a.val = NULL THEN @
                                           ELSE buffer_fill(@, <<rec>>),
                     ![tld.analysis_buff] = pack_long(@, NULL_NET_REF)]
    /\ call' = [call EXCEPT !.args = Tail(@)]
    /\ UNCHANGED <<cmdOf, owner, emptyQ, oqVars, sendQ, tld, pc, calls, tobs,
                   vmDead, issued>>
    /\ Unchanged_but_app

\* The process ends in check_error (buffer_fill_at_pos out of the occupied
\* part): nothing runs any more.
CheckError ==
    /\ exited' = "check_error"
    /\ UNCHANGED <<buf, cmdOf, owner, emptyQ, oqVars, sendQ, appVars, otVars,
                   snd, wire, regVars>>

\* analysis_end, first step: the length of the arguments, as a jshort, at
\* the position create_analysis_request_header returned.
ArgsLength == JShort(buffer_filled(buf[tld.analysis_buff])
                     - tld.args_length_pos - 2)

ArgsLengthFails ==
    FillAtPosFails(buf[tld.analysis_buff], tld.args_length_pos, 2)

WithArgsLength ==
    buff_put_short(buf[tld.analysis_buff], tld.args_length_pos, ArgsLength)

\* analysis_end on the normal API: the length, then the incremented count
\* at analysis_count_pos; at ANALYSIS_COUNT the buffers go to tagging
\* (buffs_objtag) and the thread drops them.
analysis_end ==
    /\ exited = "no" /\ pc = "args" /\ call.args = <<>>
    /\ tld.to_buff_id = INVALID_BUFF_ID
    /\ LET cnt  == tld.analysis_count + 1
           b    == buff_put_int(WithArgsLength, tld.analysis_count_pos, cnt)
           fail == ArgsLengthFails \/
                   FillAtPosFails(WithArgsLength, tld.analysis_count_pos, 4)
       IN  \/ fail /\ CheckError
           \/ /\ ~fail
              /\ buf' = [buf EXCEPT ![tld.analysis_buff] = b]
              /\ issued' = [issued EXCEPT ![tld.id] = Append(@, Request(call))]
              /\ pc' = "idle"
              /\ \/ /\ cnt >= AnalysisCount
                    /\ owner' = [owner EXCEPT ![tld.pb] = PB_OBJTAG]
                    /\ Objtag!Push(tld.pb)
                    /\ tld' = [tld EXCEPT !.analysis_count = cnt,
                                 !.analysis_buff = NULL, !.command_buff = NULL,
                                 !.pb = NULL]
                 \/ /\ cnt < AnalysisCount
                    /\ tld' = [tld EXCEPT !.analysis_count = cnt]
                    /\ UNCHANGED <<owner, oqVars>>
              /\ UNCHANGED <<cmdOf, emptyQ, sendQ, call, calls, tobs, vmDead>>
              /\ Unchanged_but_app

\* A variant of correct_cmd_buff_pos that leaves the positions alone.
correct_cmd_buff_pos_none(cmd_buff, shift) == cmd_buff

\* correct_cmd_buff_pos: every objtag_rec's position moved by shift, read
\* and written back in place.
correct_cmd_buff_pos(cmd_buff, shift) ==
    [cmd_buff EXCEPT !.bytes =
        [i \in DOMAIN @ |-> [@[i] EXCEPT !.buff_pos = @ + shift]]]

\* analysis_end for the totally ordered API (analysis_end_buff, under
\* to_buff_lock): the ordering buffer is taken with buffs_get and started if
\* there is none, the local records are moved to the positions they take
\* in it, the local analysis and command buffers are appended to its own
\* and cleaned, and the count is patched; at ANALYSIS_COUNT it goes to
\* tagging.  The thread leaves the ordered mode.
analysis_end_buff ==
    /\ exited = "no" /\ pc = "args" /\ call.args = <<>>
    /\ tld.to_buff_id # INVALID_BUFF_ID
    /\ tobs.pb = NULL => emptyQ # <<>>
    /\ LET new == tobs.pb = NULL
           p   == IF new THEN Head(emptyQ) ELSE tobs.pb
           m   == create_analysis_msg(buf[anlOf(p)], tld.to_buff_id)
           ta  == IF new THEN m.b ELSE buf[anlOf(p)]
           pos == IF new THEN m.pos ELSE tobs.analysis_count_pos
           lc  == correct_cmd_buff_pos(buf[tld.command_buff], buffer_filled(ta))
           cnt == (IF new THEN 0 ELSE tobs.analysis_count) + 1
           ta2 == buffer_fill(ta, WithArgsLength.bytes)
           fail == ArgsLengthFails \/ FillAtPosFails(ta2, pos, 4)
       IN  \/ fail /\ CheckError
           \/ /\ ~fail
              /\ buf' = [buf EXCEPT ![anlOf(p)] = buff_put_int(ta2, pos, cnt),
                           ![cmdOf[p]] = buffer_fill(@, lc.bytes),
                           ![tld.analysis_buff] = buffer_clean(@),
                           ![tld.command_buff] = buffer_clean(@)]
              /\ emptyQ' = IF new THEN Tail(emptyQ) ELSE emptyQ
              /\ issued' = [issued EXCEPT ![tld.to_buff_id] =
                                             Append(@, Request(call))]
              /\ \/ /\ cnt >= AnalysisCount
                    /\ owner' = [owner EXCEPT ![p] = PB_OBJTAG]
                    /\ Objtag!Push(p)
                    /\ tobs' = [pb |-> NULL, analysis_count |-> cnt,
                                analysis_count_pos |-> pos]
                 \/ /\ cnt < AnalysisCount
                    /\ owner' = [owner EXCEPT ![p] = tld.to_buff_id]
                    /\ tobs' = [pb |-> p, analysis_count |-> cnt,
                                analysis_count_pos |-> pos]
                    /\ UNCHANGED oqVars
              /\ tld' = [tld EXCEPT !.analysis_buff = NULL,
                           !.command_buff = NULL, !.to_buff_id = INVALID_BUFF_ID]
              /\ pc' = "idle"
              /\ UNCHANGED <<cmdOf, sendQ, call, calls, vmDead>>
              /\ Unchanged_but_app

\* The thread end hook: nothing for a thread never marked; otherwise
\* send_thread_buffers: every buffer of pb_list the thread owns goes to
\* tagging, in pb_list order (one step per buffer: the lowest it still
\* owns), and the thread drops its buffer pointers; then THREAD_END.
thread_end ==
    /\ exited = "no" /\ pc = "idle"
    /\ pc' = IF tld.id = INVALID_THREAD_ID THEN "done" ELSE "end"
    /\ UNCHANGED <<buf, cmdOf, owner, emptyQ, oqVars, sendQ, tld, call, calls,
                   tobs, vmDead, issued>>
    /\ Unchanged_but_app

send_thread_buffers(i) ==
    /\ exited = "no" /\ pc = "end"
    /\ owner[i] = tld.id
    /\ \A j \in 1..(i - 1) : owner[j] # tld.id
    /\ owner' = [owner EXCEPT ![i] = PB_OBJTAG]
    /\ Objtag!Push(i)
    /\ UNCHANGED <<buf, cmdOf, emptyQ, sendQ, appVars>>
    /\ Unchanged_but_app

thread_end_done ==
    /\ exited = "no" /\ pc = "end"
    /\ \A j \in PBs : owner[j] # tld.id
    /\ tld' = [tld EXCEPT !.analysis_buff = NULL, !.command_buff = NULL,
                          !.pb = NULL]
    /\ pc' = "end_msg"
    /\ UNCHANGED <<buf, cmdOf, owner, emptyQ, oqVars, sendQ, call, calls,
                   tobs, vmDead, issued>>
    /\ Unchanged_but_app

\* A variant of the THREAD_END step that queues the buffer for sending
\* directly, past objtag_q.
thread_end_msg_direct ==
    /\ exited = "no" /\ pc = "end_msg" /\ emptyQ # <<>>
    /\ LET p == Head(emptyQ)
       IN  /\ buf' = [buf EXCEPT ![anlOf(p)] =
                        pack_long(pack_byte(@, MSG_THREAD_END), tld.id)]
           /\ emptyQ' = Tail(emptyQ)
           /\ owner' = [owner EXCEPT ![p] = PB_SEND]
           /\ sendQ' = Append(sendQ, p)
    /\ pc' = "done"
    /\ UNCHANGED <<cmdOf, oqVars, tld, call, calls, tobs, vmDead, issued>>
    /\ Unchanged_but_app

\* The THREAD_END message: buffs_get (blocking on empty_q) gives the thread
\* a buffer, MSG_THREAD_END and the thread id go into its analysis buffer,
\* and buffs_objtag queues it behind the thread's other buffers.
thread_end_msg ==
    /\ exited = "no" /\ pc = "end_msg" /\ emptyQ # <<>>
    /\ LET p == Head(emptyQ)
       IN  /\ buf' = [buf EXCEPT ![anlOf(p)] =
                        pack_long(pack_byte(@, MSG_THREAD_END), tld.id)]
           /\ emptyQ' = Tail(emptyQ)
           /\ owner' = [owner EXCEPT ![p] = PB_OBJTAG]
           /\ Objtag!Push(p)
    /\ pc' = "done"
    /\ UNCHANGED <<cmdOf, sendQ, tld, call, calls, tobs, vmDead, issued>>
    /\ Unchanged_but_app

\* A variant of the VMDeath hook that does not send the ordering buffers.
vm_death_no_flush ==
    /\ exited = "no" /\ pc = "done" /\ ~vmDead
    /\ vmDead' = TRUE
    /\ UNCHANGED <<buf, cmdOf, owner, emptyQ, oqVars, sendQ, tld, pc, call,
                   calls, tobs, issued>>
    /\ Unchanged_but_app

\* The VMDeath hook, send_all_to_buffers: the ordering buffer in use, if
\* any, goes to tagging.  (The hook's other steps are DislREAgent's.)
vm_death ==
    /\ exited = "no" /\ pc = "done" /\ ~vmDead
    /\ vmDead' = TRUE
    /\ \/ /\ tobs.pb # NULL
          /\ owner' = [owner EXCEPT ![tobs.pb] = PB_OBJTAG]
          /\ Objtag!Push(tobs.pb)
          /\ tobs' = [tobs EXCEPT !.pb = NULL]
       \/ /\ tobs.pb = NULL
          /\ UNCHANGED <<owner, oqVars, tobs>>
    /\ UNCHANGED <<buf, cmdOf, emptyQ, sendQ, tld, pc, call, calls, issued>>
    /\ Unchanged_but_app

-----------------------------------------------------------------------------
(* The object-tagging thread                                               *)

\* _buffs_objtag_get: pop a buffer from objtag_q (before the tagging lock).
objtag_get ==
    /\ exited = "no" /\ ot_pb = NULL
    /\ Objtag!Pop
    /\ ot_pb' = oq_array[oq_first]
    /\ UNCHANGED <<buf, cmdOf, owner, emptyQ, sendQ, appVars, ot_spare, tags,
                   objIds, avail_object_id, snd, wire, exited, regVars>>

\* ot_pack_string_data: MSG_STRING_INFO, the string's net reference and
\* its UTF-8 bytes.
ot_pack_string_data(b, net_ref, str) ==
    pack_string_utf8(pack_long(pack_byte(b, MSG_STRING_INFO), net_ref), str)

\* ot_tag_record over the tagging state st (analysis buffer, new-objects
\* buffer, tags, ids): get_net_reference tags an untagged object with the
\* next object id and its class id; for OT_DATA_OBJECT, unless SPEC is
\* already set, a String gets SPEC set (update_send_status) and its data
\* packed; then the net reference goes to the record's position.
ot_tag_record(st, rec) ==
    LET o     == rec.obj_to_tag
        fresh == st.tags[o] = NULL_NET_REF
        r0    == IF fresh THEN _set_net_reference(st.avail, ObjClass[o], 0, 0)
                 ELSE st.tags[o]
        data  == rec.obj_type = OT_DATA_OBJECT /\ net_ref_get_spec(r0) # 1
                 /\ o \in Strings
        r     == IF data THEN net_ref_set_spec(r0, 1) ELSE r0
    IN  [anl    |-> buff_put_long(st.anl, rec.buff_pos, r),
         newobj |-> IF data THEN ot_pack_string_data(st.newobj, r, StringData[o])
                    ELSE st.newobj,
         tags   |-> [st.tags EXCEPT ![o] = r],
         objIds |-> IF fresh THEN [st.objIds EXCEPT ![o] = st.avail]
                    ELSE st.objIds,
         avail  |-> IF fresh THEN st.avail + 1 ELSE st.avail,
         fails  |-> st.fails \/ FillAtPosFails(st.anl, rec.buff_pos, 8)]

\* ot_tag_buff: every record of the command buffer, in order.
RECURSIVE ot_tag_buff(_, _)
ot_tag_buff(recs, st) ==
    IF recs = <<>> THEN st ELSE ot_tag_buff(Tail(recs), ot_tag_record(st, Head(recs)))

\* The locked part of objtag_thread_loop: tag the buffer, exchange its
\* command buffer with new_obj_buff, queue it for sending (_buffs_send),
\* release the global references, and clean the old command buffer, which
\* becomes new_obj_buff.
objtag_tag ==
    /\ exited = "no" /\ ot_pb # NULL
    /\ LET p == ot_pb
           R == ot_tag_buff(buf[cmdOf[p]].bytes,
                  [anl |-> buf[anlOf(p)], newobj |-> buf[ot_spare],
                   tags |-> tags, objIds |-> objIds, avail |-> avail_object_id,
                   fails |-> FALSE])
       IN  \/ R.fails /\ CheckError
           \/ /\ ~R.fails
              /\ buf' = [buf EXCEPT ![anlOf(p)] = R.anl,
                                    ![ot_spare] = R.newobj,
                                    ![cmdOf[p]] = buffer_clean(@)]
              /\ cmdOf' = [cmdOf EXCEPT ![p] = ot_spare]
              /\ ot_spare' = cmdOf[p]
              /\ owner' = [owner EXCEPT ![p] = PB_SEND]
              /\ sendQ' = Append(sendQ, p)
              /\ tags' = R.tags /\ objIds' = R.objIds
              /\ avail_object_id' = R.avail
              /\ ot_pb' = NULL
              /\ UNCHANGED <<emptyQ, oqVars, appVars, snd, wire, exited,
                             regVars>>

-----------------------------------------------------------------------------
(* The sending thread                                                      *)

\* The buffer _send_buffer is writing: first the command buffer, then the
\* analysis buffer.
Sending == IF snd.part = "cmd" THEN cmdOf[snd.pb] ELSE anlOf(snd.pb)

\* A variant of _buffs_send_get after which the analysis buffer is
\* written before the command buffer.
send_get_anl_first ==
    /\ exited = "no" /\ snd.pb = NULL /\ sendQ # <<>>
    /\ snd' = [pb |-> Head(sendQ), part |-> "anl", sent |-> 0]
    /\ sendQ' = Tail(sendQ)
    /\ UNCHANGED <<buf, cmdOf, owner, emptyQ, oqVars, appVars, otVars, wire,
                   exited, regVars>>

\* A variant of _buffs_send_get that takes the newest buffer of send_q.
send_get_newest ==
    /\ exited = "no" /\ snd.pb = NULL /\ sendQ # <<>>
    /\ snd' = [pb |-> Last(sendQ), part |-> "cmd", sent |-> 0]
    /\ sendQ' = Front(sendQ)
    /\ UNCHANGED <<buf, cmdOf, owner, emptyQ, oqVars, appVars, otVars, wire,
                   exited, regVars>>

\* _buffs_send_get: pop a buffer from send_q.
send_get ==
    /\ exited = "no" /\ snd.pb = NULL /\ sendQ # <<>>
    /\ snd' = [pb |-> Head(sendQ), part |-> "cmd", sent |-> 0]
    /\ sendQ' = Tail(sendQ)
    /\ UNCHANGED <<buf, cmdOf, owner, emptyQ, oqVars, appVars, otVars, wire,
                   exited, regVars>>

\* One round of the loop of send_data: send() writes res of the bytes
\* left, all of them or a short count, and sent grows by res.
send_data(res) ==
    /\ exited = "no" /\ snd.pb # NULL
    /\ LET b == buf[Sending]
       IN  /\ snd.sent # buffer_filled(b)
           /\ wire' = wire \o SubSeq(b.bytes, snd.sent + 1, snd.sent + res)
    /\ snd' = [snd EXCEPT !.sent = @ + res]
    /\ UNCHANGED <<buf, cmdOf, owner, emptyQ, oqVars, sendQ, appVars, otVars,
                   exited, regVars>>

\* send() returns -1: check_std_error ends the process.
send_error ==
    /\ exited = "no" /\ snd.pb # NULL
    /\ snd.sent # buffer_filled(buf[Sending])
    /\ exited' = "send_error"
    /\ UNCHANGED <<buf, cmdOf, owner, emptyQ, oqVars, sendQ, appVars, otVars,
                   snd, wire, regVars>>

\* send_data returns (sent = data_len): after the command buffer the
\* analysis buffer is written; after both, both are cleaned and the
\* buffer goes back by its owner: a utility buffer to utility_q
\* (_buffs_utility_release), any other to empty_q (_buffs_release).
send_done ==
    /\ exited = "no" /\ snd.pb # NULL
    /\ snd.sent = buffer_filled(buf[Sending])
    /\ \/ /\ snd.part = "cmd"
          /\ snd' = [snd EXCEPT !.part = "anl", !.sent = 0]
          /\ UNCHANGED <<buf, owner, emptyQ, utilityQ>>
       \/ /\ snd.part = "anl"
          /\ buf' = [buf EXCEPT ![anlOf(snd.pb)] = buffer_clean(@),
                                ![cmdOf[snd.pb]] = buffer_clean(@)]
          /\ snd' = [snd EXCEPT !.pb = NULL]
          /\ \/ /\ owner[snd.pb] = PB_UTILITY
                /\ utilityQ' = Append(utilityQ, snd.pb)
                /\ UNCHANGED <<owner, emptyQ>>
             \/ /\ owner[snd.pb] # PB_UTILITY
                /\ owner' = [owner EXCEPT ![snd.pb] = PB_FREE]
                /\ emptyQ' = Append(emptyQ, snd.pb)
                /\ UNCHANGED utilityQ
    /\ UNCHANGED <<cmdOf, oqVars, sendQ, appVars, otVars, wire, exited,
                   avail_analysis_id, mids>>

-----------------------------------------------------------------------------

\* The bytes a send() may write: all that is left, or SendChunk of them.
SendResults == LET left == buffer_filled(buf[Sending]) - snd.sent
               IN  {left, IF SendChunk < left THEN SendChunk ELSE left}

Next ==
    \/ register_method
    \/ \E m \in Range(mids), a \in ArgLists : analysis_start_get(m, a)
    \/ \E m \in Range(mids), a \in ArgLists : analysis_start(m, a)
    \/ \E m \in Range(mids), a \in ArgLists : analysis_start_buff_flush(m, a)
    \/ analysis_start_buff_get
    \/ sendInt
    \/ pack_object
    \/ analysis_end
    \/ analysis_end_buff
    \/ thread_end
    \/ \E i \in PBs : send_thread_buffers(i)
    \/ thread_end_done
    \/ thread_end_msg
    \/ vm_death
    \/ objtag_get
    \/ objtag_tag
    \/ send_get
    \/ snd.pb # NULL /\ \E res \in SendResults : send_data(res)
    \/ send_error
    \/ send_done

Spec == Init /\ [][Next]_vars

-----------------------------------------------------------------------------
(* The wire as the server reads it                                         *)

Streams == {ThreadId, OrderId}

NoMsg == [type |-> -1, id |-> 0, reqs |-> <<>>, str |-> <<>>]

\* n requests of an ANALYZE message from index i: method id, argument
\* length, arguments.  "short" when the wire ends inside them.
RECURSIVE ParseReqs(_, _, _)
ParseReqs(w, i, n) ==
    IF n = 0 THEN [ok |-> "done", reqs |-> <<>>, next |-> i]
    ELSE IF i + 3 > Len(w) THEN [ok |-> "short", reqs |-> <<>>, next |-> i]
    ELSE LET len == SignedFromNetworkOrder(SubSeq(w, i + 2, i + 3))
             req == [mid  |-> SignedFromNetworkOrder(SubSeq(w, i, i + 1)),
                     args |-> SubSeq(w, i + 4, i + 3 + len)]
         IN  IF len < 0 THEN [ok |-> "bad", reqs |-> <<>>, next |-> i]
             ELSE IF i + 3 + len > Len(w)
             THEN [ok |-> "short", reqs |-> <<>>, next |-> i]
             ELSE LET rest == ParseReqs(w, i + 4 + len, n - 1)
                  IN  [rest EXCEPT !.reqs = <<req>> \o @]

\* The complete messages from index i on, and "short" when the wire ends
\* inside a message; "bad" on an unknown type or a negative length or
\* count.
RECURSIVE ParseMsgs(_, _)
ParseMsgs(w, i) ==
    LET done(ms) == [ok |-> "done", msgs |-> ms]
        short    == [ok |-> "short", msgs |-> <<>>]
        bad      == [ok |-> "bad", msgs |-> <<>>]
        then(m, j) == LET rest == ParseMsgs(w, j)
                      IN  [rest EXCEPT !.msgs = <<m>> \o @]
    IN
    IF i > Len(w) THEN done(<<>>)
    ELSE IF w[i] = MSG_ANALYZE
    THEN IF i + 12 > Len(w) THEN short
         ELSE LET cnt == SignedFromNetworkOrder(SubSeq(w, i + 9, i + 12))
                  R   == ParseReqs(w, i + 13, IF cnt < 0 THEN 0 ELSE cnt)
                  m   == [NoMsg EXCEPT !.type = MSG_ANALYZE, !.reqs = R.reqs,
                           !.id = SignedFromNetworkOrder(SubSeq(w, i + 1, i + 8))]
              IN  CASE cnt < 0 \/ R.ok = "bad" -> bad
                    [] R.ok = "short"          -> short
                    [] OTHER                   -> then(m, R.next)
    ELSE IF w[i] = MSG_STRING_INFO
    THEN IF i + 10 > Len(w) THEN short
         ELSE LET len == FromNetworkOrder(SubSeq(w, i + 9, i + 10))
                  m   == [NoMsg EXCEPT !.type = MSG_STRING_INFO,
                           !.id = SignedFromNetworkOrder(SubSeq(w, i + 1, i + 8)),
                           !.str = SubSeq(w, i + 11, i + 10 + len)]
              IN  IF i + 10 + len > Len(w) THEN short
                  ELSE then(m, i + 11 + len)
    ELSE IF w[i] = MSG_THREAD_END
    THEN IF i + 8 > Len(w) THEN short
         ELSE then([NoMsg EXCEPT !.type = MSG_THREAD_END,
                      !.id = SignedFromNetworkOrder(SubSeq(w, i + 1, i + 8))],
                   i + 9)
    ELSE IF w[i] = MSG_REG_ANALYSIS
    THEN IF i + 4 > Len(w) THEN short
         ELSE LET len == FromNetworkOrder(SubSeq(w, i + 3, i + 4))
                  m   == [NoMsg EXCEPT !.type = MSG_REG_ANALYSIS,
                           !.id = SignedFromNetworkOrder(SubSeq(w, i + 1, i + 2)),
                           !.str = SubSeq(w, i + 5, i + 4 + len)]
              IN  IF i + 4 + len > Len(w) THEN short
                  ELSE then(m, i + 5 + len)
    ELSE bad

Messages == ParseMsgs(wire, 1)

\* The requests of stream s on the wire, in order, each with the index of
\* its message.
WireRequests(msgs, s) ==
    FlattenSeq([k \in DOMAIN msgs |->
        IF msgs[k].type = MSG_ANALYZE /\ msgs[k].id = s
        THEN [j \in DOMAIN msgs[k].reqs |-> [req |-> msgs[k].reqs[j], at |-> k]]
        ELSE <<>>])

\* A net reference on the wire names object o: not NULL, and equal to o's
\* tag but for the SPEC bit, which a later sendObjectPlusData may set.
Names(r, o) ==
    r # NULL_NET_REF /\ tags[o] # NULL_NET_REF /\ RefSetSpec(r) = RefSetSpec(tags[o])

ArgMatches(bs, a) ==
    CASE a.type = "int" -> bs = NetworkOrder(a.val, 4)
      [] a.val = NULL   -> bs = NetworkOrder(NULL_NET_REF, 8)
      [] OTHER          ->
           LET r == SignedFromNetworkOrder(bs)
           IN  Names(r, a.val) /\
               (a.type = "data_object" /\ a.val \in Strings =>
                    RefField(r, SPEC_MASK, SPEC_POS) = 1)

RECURSIVE ArgsMatch(_, _)
ArgsMatch(bs, args) ==
    IF args = <<>> THEN bs = <<>>
    ELSE LET n == IF Head(args).type = "int" THEN 4 ELSE 8
         IN  /\ Len(bs) >= n
             /\ ArgMatches(SubSeq(bs, 1, n), Head(args))
             /\ ArgsMatch(SubSeq(bs, n + 1, Len(bs)), Tail(args))

-----------------------------------------------------------------------------
(* Properties                                                              *)

TypeOK ==
    /\ \A i \in BufIds : buf[i].capacity \in Nat
                         /\ buffer_filled(buf[i]) <= buf[i].capacity
    /\ \A p \in AllPBs : \A i \in DOMAIN buf[anlOf(p)].bytes :
                         buf[anlOf(p)].bytes[i] \in Byte
    /\ \A i \in DOMAIN wire : wire[i] \in Byte
    /\ cmdOf \in [AllPBs -> BufIds]
    /\ owner \in [AllPBs -> {PB_FREE, PB_OBJTAG, PB_SEND, PB_UTILITY, ThreadId,
                             OrderId}]
    /\ avail_analysis_id \in -32768..32767
    /\ Objtag!TypeOK
    /\ pc \in {"idle", "buff_get", "args", "end", "end_msg", "done"}
    /\ exited \in {"no", "check_error", "send_error"}

\* What the server reads is what the thread marshalled: the bytes on the
\* socket parse as messages, whole ones whenever the sending thread is
\* between buffers (every count and argument length was patched before
\* the buffer left the thread), and on each stream the
\* requests are the ones the thread completed, in order, with every int
\* in network order and every object argument replaced by its net
\* reference at the position _fill_ot_rec recorded (shifted by
\* correct_cmd_buff_pos when the ordering buffer took it over).
WireDecodes ==
    LET P == Messages
    IN  /\ P.ok = "done" \/ (P.ok = "short" /\ snd.pb # NULL)
        /\ \A k \in DOMAIN P.msgs :
              P.msgs[k].type = MSG_ANALYZE => P.msgs[k].id \in Streams
        /\ \A s \in Streams :
              LET W == WireRequests(P.msgs, s)
              IN  /\ Len(W) <= Len(issued[s])
                  /\ \A k \in 1..Len(W) :
                        /\ W[k].req.mid = issued[s][k].mid
                        /\ ArgsMatch(W[k].req.args, issued[s][k].args)

\* The server learns a String's data before any request that passes it
\* with sendObjectPlusData: the tagging thread packs MSG_STRING_INFO into
\* the command buffer of the same process_buffs, and the sending thread
\* writes the command buffer before the analysis buffer.
StringInfoBeforeUse ==
    LET P == Messages
    IN  \A s \in Streams :
          LET W == WireRequests(P.msgs, s)
          IN  \A k \in 1..Len(W) : k <= Len(issued[s]) =>
                \A j \in DOMAIN issued[s][k].args :
                  LET a == issued[s][k].args[j]
                  IN  a.type = "data_object" /\ a.val \in Strings =>
                        \E i \in 1..(W[k].at - 1) :
                           /\ P.msgs[i].type = MSG_STRING_INFO
                           /\ Names(P.msgs[i].id, a.val)
                           /\ P.msgs[i].str = StringData[a.val]

\* The server knows an analysis method before any request calls it: a
\* MSG_REG_ANALYSIS with the request's method id, as a jshort, and the
\* method's descriptor comes earlier on the wire.  register_method queues
\* its utility buffer on send_q at once; a request gets there only after
\* the object-tagging thread, and the sending thread takes send_q in order.
RegisteredBeforeUse ==
    LET P == Messages
    IN  \A s \in Streams :
          LET W == WireRequests(P.msgs, s)
          IN  \A k \in 1..Len(W) :
                \E i \in 1..(W[k].at - 1) :
                   /\ P.msgs[i].type = MSG_REG_ANALYSIS
                   /\ P.msgs[i].id = W[k].req.mid
                   /\ P.msgs[i].str = MethodDesc

\* THREAD_END closes the thread's stream: no request of the thread comes
\* after it on the wire.  The hook queues it through objtag_q behind the
\* thread's other buffers, so that "proper ordering" holds (its comment).
ThreadEndLast ==
    LET P == Messages
    IN  \A i, k \in DOMAIN P.msgs :
          ( /\ P.msgs[i].type = MSG_THREAD_END
            /\ P.msgs[k].type = MSG_ANALYZE /\ P.msgs[k].reqs # <<>>
            /\ P.msgs[k].id = P.msgs[i].id ) => k < i

\* Nothing is left to do: the thread ended, VMDeath ran, both queues and
\* both daemon threads are idle.
Quiescent ==
    /\ pc = "done" /\ vmDead /\ exited = "no"
    /\ oq_occupied = 0 /\ ot_pb = NULL /\ sendQ = <<>> /\ snd.pb = NULL

\* No request is lost: once the thread end hook (send_thread_buffers) and
\* VMDeath (send_all_to_buffers) have sent the partly filled normal and
\* ordering buffers and the daemon threads are idle, every completed
\* request of every stream is on the wire.
AllDelivered ==
    Quiescent =>
        \A s \in Streams : Len(WireRequests(Messages.msgs, s)) = Len(issued[s])

\* No buffer_fill_at_pos (the argument length, the count, a net
\* reference) writes past the occupied part of its buffer: the positions
\* the thread and correct_cmd_buff_pos record stay inside it.
NoFillError == exited # "check_error"

\* Every tag get_net_reference made is the layout of netref.h's format
\* comment for the object id and class id it was made from, each cut to
\* its width, whatever the counter reached.
EncodingMatchesFormat ==
    \A o \in Objects : tags[o] # NULL_NET_REF =>
        \E sp \in 0..1 : tags[o] = ReferenceEncoding(objIds[o], ObjClass[o], sp, 0)

\* The getters of netref.h read back from every tag the fields
\* _set_net_reference and update_send_status wrote.
DecodeInvertsEncode ==
    \A o \in Objects : tags[o] # NULL_NET_REF =>
        /\ net_ref_get_object_id(tags[o]) = objIds[o] % 2^ObjectIdBits
        /\ net_ref_get_class_id(tags[o]) = ObjClass[o] % 2^ClassIdBits
        /\ net_ref_get_class_instance_bit(tags[o]) = 0
        /\ net_ref_get_spec(tags[o]) = RefField(tags[o], SPEC_MASK, SPEC_POS)

\* objtag_q is a FIFO queue (BlockingQueueRing refines BlockingQueue).
ImplementsBlockingQueue == Objtag!ImplementsBlockingQueue
=============================================================================
