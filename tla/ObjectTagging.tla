--------------------------- MODULE ObjectTagging ---------------------------
(***************************************************************************)
(* Object references through the shadow-VM agent (dislreagent.c with       *)
(* netref.h): application threads pass objects to sendObject,              *)
(* sendObjectPlusData and sendCurrentThread; the object tagging thread     *)
(* gives them net references under tagging_lock and puts the metadata of   *)
(* new classes, strings and threads in the command buffer; the class file  *)
(* load hook tags class loaders; the object free hook batches OBJ_FREE     *)
(* events; the sending thread writes command buffer, then analysis buffer. *)
(* The pool and queue machinery is the one of DislREAgent, cut down to the *)
(* buffers that carry references: ANALYZE headers, ordering slots and the  *)
(* shutdown of the workers are left to that module.                        *)
(***************************************************************************)
EXTENDS Integers, Sequences, FiniteSets, SequencesExt, NetReference

CONSTANTS
    Threads,             \* application threads
    Objs,                \* the heap: classes, class loaders and other objects
    Kind,                \* Kind[o] \in {"class", "loader", "string", "thread", "plain"}
    ClassOf,             \* ClassOf[o]: the class of an object that is no class
    Super,               \* Super[c]: the superclass of class c, or NULL
    Loader,              \* Loader[c]: the defining loader of class c, or NULL
    Args,                \* the objects (and NULL) application code passes
    NULL,
    NBuffers,            \* BQ_BUFFERS
    NUtility,            \* BQ_UTILITY
    AnalysisCount,       \* ANALYSIS_COUNT: calls per buffer before a flush
    MAX_OBJ_FREE_EVENTS, \* OBJ_FREE events per batch
    MaxSends             \* bound on the object-carrying calls of all threads

Classes     == {o \in Objs : Kind[o] = "class"}
\* Classes and their loaders live as long as the VM in this model.
Collectable == {o \in Objs : Kind[o] \in {"string", "thread", "plain"}}

GenBufs  == 1..NBuffers
UtilBufs == (NBuffers + 1)..(NBuffers + NUtility)
Bufs     == GenBufs \cup UtilBufs

NULL_NET_REF == 0

(* The items of command buffers, analysis buffers and the wire.  A REF is *)
(* the 8-byte net reference an object argument leaves in the analysis     *)
(* buffer; its type field records which native packed it.                 *)
OtRec(o, type, pos) == [m |-> "OT", obj |-> o, type |-> type, pos |-> pos]
RefItem(r, type)    == [m |-> "REF", ref |-> r, type |-> type]
ClassInfo(r, l, s)  == [m |-> "CLASS_INFO", ref |-> r, loader |-> l, super |-> s]
DataInfo(k, r)      == [m |-> IF k = "string" THEN "STRING_INFO" ELSE "THREAD_INFO",
                        ref |-> r]
NewClass(c, l)      == [m |-> "NEW_CLASS", cls |-> c, loader |-> l]
ObjFree(r)          == [m |-> "OBJ_FREE", ref |-> r]

OtTypes == {"OT_OBJECT", "OT_DATA_OBJECT"}

(* Net references are built and read with the arithmetic of their layout: *)
(* MCDataPath checks that _set_net_reference, the getters and            *)
(* net_ref_set_spec of netref.h compute exactly this for every input.     *)
NetRef(object_id, class_id, spec, cbit) == ReferenceEncoding(object_id, class_id, spec, cbit)
ObjId(r)   == RefField(r, OBJECT_ID_MASK, OBJECT_ID_POS)
ClassId(r) == RefField(r, CLASS_ID_MASK, CLASS_ID_POS)
SpecBit(r) == RefField(r, SPEC_MASK, SPEC_POS)

(***************************************************************************)
(* get_net_reference and its helpers (netref.h 191-328).  They work on a  *)
(* record st of what they touch: the JVMTI tags, the two id counters and  *)
(* the buffer the metadata goes to, and return [st |-> ..., ref |-> ...]. *)
(* The class is tagged before its loader and superclass are resolved, and *)
(* its CLASS_INFO is packed after them.                                   *)
(***************************************************************************)
RECURSIVE get_net_reference(_, _), _set_net_reference_for_class(_, _),
          _get_class_id_for_class(_, _)

\* A variant that does not advance avail_object_id for a class.
_set_net_reference_for_class_same_oid(st, c) ==
    LET r   == NetRef(st.oid, st.cid, 1, 1)
        s0  == [st EXCEPT !.tag[c] = r, !.cid = @ + 1]
        ldr == get_net_reference(s0, Loader[c])
        sup == get_net_reference(ldr.st, Super[c])
    IN  [st  |-> [sup.st EXCEPT !.buf = Append(@, ClassInfo(r, ldr.ref, sup.ref))],
         ref |-> r]

_set_net_reference_for_class(st, c) ==
    LET r   == NetRef(st.oid, st.cid, 1, 1)
        s0  == [st EXCEPT !.tag[c] = r, !.oid = @ + 1, !.cid = @ + 1]
        ldr == get_net_reference(s0, Loader[c])
        sup == get_net_reference(ldr.st, Super[c])
    IN  [st  |-> [sup.st EXCEPT !.buf = Append(@, ClassInfo(r, ldr.ref, sup.ref))],
         ref |-> r]

_get_class_id_for_class(st, c) ==
    IF st.tag[c] = 0
    THEN LET x == _set_net_reference_for_class(st, c)
         IN  [st |-> x.st, ref |-> ClassId(x.ref)]
    ELSE [st |-> st, ref |-> ClassId(st.tag[c])]

_set_net_reference_for_object(st, o) ==
    LET x == _get_class_id_for_class(st, ClassOf[o])
        r == NetRef(x.st.oid, x.ref, 0, 0)
    IN  [st |-> [x.st EXCEPT !.tag[o] = r, !.oid = @ + 1], ref |-> r]

get_net_reference(st, o) ==
    IF o = NULL THEN [st |-> st, ref |-> NULL_NET_REF]
    ELSE IF st.tag[o] # 0 THEN [st |-> st, ref |-> st.tag[o]]
    ELSE IF Kind[o] = "class" THEN _set_net_reference_for_class(st, o)
    ELSE _set_net_reference_for_object(st, o)

(***************************************************************************)
(* ot_pack_aditional_data (dislreagent.c 927-954): a string or thread     *)
(* whose SPEC bit is clear gets the bit set in its tag                    *)
(* (update_send_status) and its STRING_INFO or THREAD_INFO packed.        *)
(***************************************************************************)
\* A variant that does not test the SPEC bit first.
ot_pack_aditional_data_no_spec_check(st, r, o) ==
    IF Kind[o] \notin {"string", "thread"}
    THEN [st |-> st, ref |-> r]
    ELSE LET r1 == RefSetSpec(r)
         IN  [st  |-> [st EXCEPT !.tag[o] = r1,
                                 !.buf = Append(@, DataInfo(Kind[o], r1))],
              ref |-> r1]

ot_pack_aditional_data(st, r, o) ==
    IF SpecBit(r) = 1 \/ Kind[o] \notin {"string", "thread"}
    THEN [st |-> st, ref |-> r]
    ELSE LET r1 == RefSetSpec(r)
         IN  [st  |-> [st EXCEPT !.tag[o] = r1,
                                 !.buf = Append(@, DataInfo(Kind[o], r1))],
              ref |-> r1]

\* ot_tag_record (956-973): resolve, add the data of an OT_DATA_OBJECT, and
\* back-patch the reference into the analysis buffer at the recorded offset.
ot_tag_record(acc, rec) ==
    LET x == get_net_reference(acc.st, rec.obj)
        y == IF rec.type = "OT_DATA_OBJECT"
             THEN ot_pack_aditional_data(x.st, x.ref, rec.obj)
             ELSE x
    IN  [st |-> y.st, anl |-> [acc.anl EXCEPT ![rec.pos].ref = y.ref]]

\* ot_tag_buff (975-994): every record of the command buffer, in order.
ot_tag_buff(st, anlBuf, cmdBuf) ==
    FoldLeft(ot_tag_record, [st |-> st, anl |-> anlBuf], cmdBuf)

(***************************************************************************)
(* pack_object with _fill_ot_rec (456-482): a NULL net reference goes to  *)
(* the analysis buffer, and for an object that is not NULL a record with  *)
(* its offset and a new global reference goes to the command buffer.      *)
(***************************************************************************)
pack_object(anlBuf, cmdBuf, to_send, type) ==
    [anl |-> Append(anlBuf, RefItem(NULL_NET_REF, type)),
     cmd |-> IF to_send = NULL THEN cmdBuf
             ELSE Append(cmdBuf, OtRec(to_send, type, Len(anlBuf) + 1))]

VARIABLES
    tag,               \* JVMTI tag of each object, 0 when untagged
    avail_object_id, avail_class_id,
    cmd, anl,          \* command_buff and analysis_buff of each buffer
    emptyQ, utilityQ, objtagQ, sendQ,
    pb,                \* tldata->pb of each thread
    ended,             \* threads whose ThreadEnd hook ran
    tagPc,             \* "idle", or "send" inside tagging_lock before _buffs_send
    tagPb,             \* the buffer the tagging thread holds
    tagOld,            \* old_cmd_buff: records whose global refs are not yet released
    obj_free_buff, obj_free_event_count,
    alive,             \* objects the collector has not freed
    loaded,            \* classes whose class file load hook ran
    phase,             \* "primordial", "start" (jvm_started), "live" (VMInit), "dead"
    wire,              \* everything written to the socket
    sends              \* object-carrying calls so far

vars == <<tag, avail_object_id, avail_class_id, cmd, anl, emptyQ, utilityQ,
          objtagQ, sendQ, pb, ended, tagPc, tagPb, tagOld, obj_free_buff,
          obj_free_event_count, alive, loaded, phase, wire, sends>>

netVars == <<tag, avail_object_id, avail_class_id>>

\* The state get_net_reference works on, with buf as the metadata buffer.
St(buf) == [tag |-> tag, oid |-> avail_object_id, cid |-> avail_class_id, buf |-> buf]
SetNet(st) == /\ tag' = st.tag
              /\ avail_object_id' = st.oid
              /\ avail_class_id' = st.cid

OtObjs(s) == {s[i].obj : i \in {j \in DOMAIN s : s[j].m = "OT"}}
\* Objects held by a global reference of a not yet released record.
GlobalRefs == UNION {OtObjs(cmd[b]) : b \in Bufs} \cup OtObjs(tagOld)

\* An object a thread can hold: alive, and its class loaded.
Sendable(o) == /\ o \in alive
               /\ IF Kind[o] = "class" THEN o \in loaded ELSE ClassOf[o] \in loaded

Init == /\ tag = [o \in Objs |-> 0]
        /\ avail_object_id = 1
        /\ avail_class_id = 1
        /\ cmd = [b \in Bufs |-> <<>>]
        /\ anl = [b \in Bufs |-> <<>>]
        /\ emptyQ = [i \in 1..NBuffers |-> i]
        /\ utilityQ = [i \in 1..NUtility |-> NBuffers + i]
        /\ objtagQ = <<>> /\ sendQ = <<>>
        /\ pb = [t \in Threads |-> NULL]
        /\ ended = {}
        /\ tagPc = "idle" /\ tagPb = NULL /\ tagOld = <<>>
        /\ obj_free_buff = NULL /\ obj_free_event_count = 0
        /\ alive = Objs /\ loaded = {}
        /\ phase = "primordial"
        /\ wire = <<>> /\ sends = 0

(***************************************************************************)
(* One REDispatch call with an object argument: analysisStart takes a     *)
(* buffer from empty_q if the thread has none, sendObject,                *)
(* sendObjectPlusData or sendCurrentThread packs the object, and          *)
(* analysisEnd hands the buffer to objtag_q once it holds AnalysisCount   *)
(* calls.  The object may be NULL (sendCurrentThread before the thread    *)
(* object exists).                                                        *)
(***************************************************************************)
analysis_send_object(t, o, type) ==
    /\ phase \in {"start", "live"}
    /\ t \notin ended
    /\ sends < MaxSends
    /\ o = NULL \/ Sendable(o)
    /\ pb[t] = NULL => emptyQ # <<>>
    /\ LET b  == IF pb[t] = NULL THEN Head(emptyQ) ELSE pb[t]
           pk == pack_object(anl[b], cmd[b], o, type)
       IN  /\ anl' = [anl EXCEPT ![b] = pk.anl]
           /\ cmd' = [cmd EXCEPT ![b] = pk.cmd]
           /\ emptyQ' = IF pb[t] = NULL THEN Tail(emptyQ) ELSE emptyQ
           /\ IF Len(pk.anl) >= AnalysisCount
              THEN /\ objtagQ' = Append(objtagQ, b)
                   /\ pb' = [pb EXCEPT ![t] = NULL]
              ELSE /\ pb' = [pb EXCEPT ![t] = b]
                   /\ UNCHANGED objtagQ
    /\ sends' = sends + 1
    /\ UNCHANGED <<netVars, utilityQ, sendQ, ended, tagPc, tagPb, tagOld,
                   obj_free_buff, obj_free_event_count, alive, loaded, phase, wire>>

\* ThreadEnd: send_thread_buffers (1557-1575) queues the thread's buffer.
thread_end(t) ==
    /\ t \notin ended
    /\ ended' = ended \cup {t}
    /\ objtagQ' = IF pb[t] # NULL THEN Append(objtagQ, pb[t]) ELSE objtagQ
    /\ pb' = [pb EXCEPT ![t] = NULL]
    /\ UNCHANGED <<netVars, cmd, anl, emptyQ, utilityQ, sendQ, tagPc, tagPb,
                   tagOld, obj_free_buff, obj_free_event_count, alive, loaded,
                   phase, wire, sends>>

(***************************************************************************)
(* The object tagging thread (objtag_thread_loop, 1040-1075).  The first  *)
(* step pops a buffer and, inside tagging_lock, tags every record         *)
(* (ot_tag_buff) and swaps the new-object buffer in as command buffer.    *)
(* The second hands the buffer to send_q (_buffs_send), releases the      *)
(* global references of the old command buffer and leaves the lock.      *)
(* The tagging thread is started by the VMInit hook.                      *)
(***************************************************************************)
\* A variant that releases the global references before the hand-off.
objtag_tag_release_early ==
    /\ phase \in {"live", "dead"}
    /\ tagPc = "idle"
    /\ objtagQ # <<>>
    /\ LET b   == Head(objtagQ)
           res == ot_tag_buff(St(<<>>), anl[b], cmd[b])
       IN  /\ objtagQ' = Tail(objtagQ)
           /\ SetNet(res.st)
           /\ anl' = [anl EXCEPT ![b] = res.anl]
           /\ cmd' = [cmd EXCEPT ![b] = res.st.buf]
           /\ tagOld' = <<>>
           /\ tagPb' = b
    /\ tagPc' = "send"
    /\ UNCHANGED <<emptyQ, utilityQ, sendQ, pb, ended, obj_free_buff,
                   obj_free_event_count, alive, loaded, phase, wire, sends>>

objtag_tag ==
    /\ phase \in {"live", "dead"}
    /\ tagPc = "idle"
    /\ objtagQ # <<>>
    /\ LET b   == Head(objtagQ)
           res == ot_tag_buff(St(<<>>), anl[b], cmd[b])
       IN  /\ objtagQ' = Tail(objtagQ)
           /\ SetNet(res.st)
           /\ anl' = [anl EXCEPT ![b] = res.anl]
           /\ cmd' = [cmd EXCEPT ![b] = res.st.buf]
           /\ tagOld' = cmd[b]
           /\ tagPb' = b
    /\ tagPc' = "send"
    /\ UNCHANGED <<emptyQ, utilityQ, sendQ, pb, ended, obj_free_buff,
                   obj_free_event_count, alive, loaded, phase, wire, sends>>

objtag_send ==
    /\ tagPc = "send"
    /\ sendQ' = Append(sendQ, tagPb)
    /\ tagOld' = <<>>
    /\ tagPb' = NULL
    /\ tagPc' = "idle"
    /\ UNCHANGED <<netVars, cmd, anl, emptyQ, utilityQ, objtagQ, pb, ended,
                   obj_free_buff, obj_free_event_count, alive, loaded, phase,
                   wire, sends>>

(***************************************************************************)
(* The sending thread (send_thread_loop, 1159-1178): pop send_q, write    *)
(* the command buffer and then the analysis buffer, and release the       *)
(* buffer to utility_q or empty_q by its kind (_buffs_utility_release,    *)
(* _buffs_release), both cleaned.                                         *)
(***************************************************************************)
\* A variant that writes the analysis buffer before the command buffer.
send_write_analysis_first ==
    /\ sendQ # <<>>
    /\ LET b == Head(sendQ)
       IN  /\ sendQ' = Tail(sendQ)
           /\ wire' = wire \o anl[b] \o cmd[b]
           /\ cmd' = [cmd EXCEPT ![b] = <<>>]
           /\ anl' = [anl EXCEPT ![b] = <<>>]
           /\ IF b \in UtilBufs
              THEN utilityQ' = Append(utilityQ, b) /\ UNCHANGED emptyQ
              ELSE emptyQ' = Append(emptyQ, b) /\ UNCHANGED utilityQ
    /\ UNCHANGED <<netVars, objtagQ, pb, ended, tagPc, tagPb, tagOld,
                   obj_free_buff, obj_free_event_count, alive, loaded, phase, sends>>

send_write ==
    /\ sendQ # <<>>
    /\ LET b == Head(sendQ)
       IN  /\ sendQ' = Tail(sendQ)
           /\ wire' = wire \o cmd[b] \o anl[b]
           /\ cmd' = [cmd EXCEPT ![b] = <<>>]
           /\ anl' = [anl EXCEPT ![b] = <<>>]
           /\ IF b \in UtilBufs
              THEN utilityQ' = Append(utilityQ, b) /\ UNCHANGED emptyQ
              ELSE emptyQ' = Append(emptyQ, b) /\ UNCHANGED utilityQ
    /\ UNCHANGED <<netVars, objtagQ, pb, ended, tagPc, tagPb, tagOld,
                   obj_free_buff, obj_free_event_count, alive, loaded, phase, sends>>

(***************************************************************************)
(* The collector frees an object no global reference holds.  For a tagged *)
(* object JVMTI calls the object free hook (1432-1500), which under       *)
(* obj_free_lock takes a utility buffer for a new batch, adds the tag and *)
(* sends the batch straight to send_q when it holds MAX_OBJ_FREE_EVENTS.  *)
(* The batch header with its patched count is left out.                   *)
(***************************************************************************)
\* A variant whose batch test is off by one (> for >=).
jvmti_callback_object_free_hook_flush_late(r) ==
    /\ obj_free_buff = NULL => utilityQ # <<>>
    /\ LET b == IF obj_free_buff = NULL THEN Head(utilityQ) ELSE obj_free_buff
           n == IF obj_free_buff = NULL THEN 1 ELSE obj_free_event_count + 1
       IN  /\ utilityQ' = IF obj_free_buff = NULL THEN Tail(utilityQ) ELSE utilityQ
           /\ anl' = [anl EXCEPT ![b] = Append(@, ObjFree(r))]
           /\ IF n > MAX_OBJ_FREE_EVENTS
              THEN /\ sendQ' = Append(sendQ, b)
                   /\ obj_free_buff' = NULL
                   /\ obj_free_event_count' = 0
              ELSE /\ obj_free_buff' = b
                   /\ obj_free_event_count' = n
                   /\ UNCHANGED sendQ

jvmti_callback_object_free_hook(r) ==
    /\ obj_free_buff = NULL => utilityQ # <<>>
    /\ LET b == IF obj_free_buff = NULL THEN Head(utilityQ) ELSE obj_free_buff
           n == IF obj_free_buff = NULL THEN 1 ELSE obj_free_event_count + 1
       IN  /\ utilityQ' = IF obj_free_buff = NULL THEN Tail(utilityQ) ELSE utilityQ
           /\ anl' = [anl EXCEPT ![b] = Append(@, ObjFree(r))]
           /\ IF n >= MAX_OBJ_FREE_EVENTS
              THEN /\ sendQ' = Append(sendQ, b)
                   /\ obj_free_buff' = NULL
                   /\ obj_free_event_count' = 0
              ELSE /\ obj_free_buff' = b
                   /\ obj_free_event_count' = n
                   /\ UNCHANGED sendQ

gc_free(o) ==
    /\ o \in alive \cap Collectable
    /\ o \notin GlobalRefs
    /\ alive' = alive \ {o}
    /\ IF tag[o] = 0
       THEN UNCHANGED <<anl, utilityQ, sendQ, obj_free_buff, obj_free_event_count>>
       ELSE jvmti_callback_object_free_hook(tag[o])
    /\ UNCHANGED <<netVars, cmd, emptyQ, objtagQ, pb, ended, tagPc, tagPb,
                   tagOld, loaded, phase, wire, sends>>

(***************************************************************************)
(* The class file load hook (1335-1391), under tagging_lock: take a       *)
(* utility buffer, tag the loader once the VM has started (its metadata   *)
(* goes to the command buffer), pack NEW_CLASS and send the buffer        *)
(* straight to send_q.  A class loads after its superclass, and its       *)
(* loader exists.  Waiting for the utility buffer while holding the lock  *)
(* is taken as one step: the lock only removes interleavings.             *)
(***************************************************************************)
jvmti_callback_class_file_load_hook(c) ==
    /\ phase # "dead"
    /\ c \in Classes \ loaded
    /\ Super[c] \in loaded \cup {NULL}
    /\ IF Loader[c] = NULL THEN TRUE ELSE ClassOf[Loader[c]] \in loaded
    /\ tagPc = "idle"
    /\ utilityQ # <<>>
    /\ LET b == Head(utilityQ)
           x == IF phase = "primordial"
                THEN [st |-> St(cmd[b]), ref |-> NULL_NET_REF]
                ELSE get_net_reference(St(cmd[b]), Loader[c])
       IN  /\ SetNet(x.st)
           /\ cmd' = [cmd EXCEPT ![b] = x.st.buf]
           /\ anl' = [anl EXCEPT ![b] = Append(@, NewClass(c, x.ref))]
           /\ utilityQ' = Tail(utilityQ)
           /\ sendQ' = Append(sendQ, b)
    /\ loaded' = loaded \cup {c}
    /\ UNCHANGED <<emptyQ, objtagQ, pb, ended, tagPc, tagPb, tagOld,
                   obj_free_buff, obj_free_event_count, alive, phase, wire, sends>>

\* VMStart sets jvm_started (1505-1509); VMInit starts the tagging thread
\* (1514-1530).
jvmti_callback_vm_start_hook ==
    /\ phase = "primordial"
    /\ phase' = "start"
    /\ UNCHANGED <<netVars, cmd, anl, emptyQ, utilityQ, objtagQ, sendQ, pb,
                   ended, tagPc, tagPb, tagOld, obj_free_buff,
                   obj_free_event_count, alive, loaded, wire, sends>>

jvmti_callback_vm_init_hook ==
    /\ phase = "start"
    /\ phase' = "live"
    /\ UNCHANGED <<netVars, cmd, anl, emptyQ, utilityQ, objtagQ, sendQ, pb,
                   ended, tagPc, tagPb, tagOld, obj_free_buff,
                   obj_free_event_count, alive, loaded, wire, sends>>

\* VMDeath's send_obj_free_buffer (1577-1590, called at 1608) sends the
\* partial batch.  Application threads make no calls after it here.
send_obj_free_buffer ==
    /\ phase = "live"
    /\ phase' = "dead"
    /\ IF obj_free_buff # NULL
       THEN sendQ' = Append(sendQ, obj_free_buff) /\ obj_free_buff' = NULL
       ELSE UNCHANGED <<sendQ, obj_free_buff>>
    /\ UNCHANGED <<netVars, cmd, anl, emptyQ, utilityQ, objtagQ, pb, ended,
                   tagPc, tagPb, tagOld, obj_free_event_count, alive, loaded,
                   wire, sends>>

Next ==
    \/ \E t \in Threads, o \in Args, type \in OtTypes :
          analysis_send_object(t, o, type)
    \/ \E t \in Threads : thread_end(t)
    \/ objtag_tag
    \/ objtag_send
    \/ send_write
    \/ \E o \in Objs : gc_free(o)
    \/ \E c \in Objs : jvmti_callback_class_file_load_hook(c)
    \/ jvmti_callback_vm_start_hook
    \/ jvmti_callback_vm_init_hook
    \/ send_obj_free_buffer

Spec == Init /\ [][Next]_vars

-----------------------------------------------------------------------------
Item == [m : {"OT"}, obj : Objs, type : OtTypes, pos : Nat]
        \cup [m : {"REF"}, ref : Nat, type : OtTypes]
        \cup [m : {"CLASS_INFO"}, ref : Nat, loader : Nat, super : Nat]
        \cup [m : {"STRING_INFO", "THREAD_INFO", "OBJ_FREE"}, ref : Nat]
        \cup [m : {"NEW_CLASS"}, cls : Objs, loader : Nat]

TypeOK ==
    /\ tag \in [Objs -> Nat]
    /\ avail_object_id \in Nat /\ avail_class_id \in Nat
    /\ cmd \in [Bufs -> Seq(Item)] /\ anl \in [Bufs -> Seq(Item)]
    /\ \A q \in {emptyQ, utilityQ, objtagQ, sendQ} : q \in Seq(Bufs)
    /\ pb \in [Threads -> Bufs \cup {NULL}]
    /\ ended \subseteq Threads
    /\ tagPc \in {"idle", "send"} /\ tagPb \in Bufs \cup {NULL}
    /\ tagOld \in Seq(Item)
    /\ obj_free_buff \in UtilBufs \cup {NULL}
    /\ obj_free_event_count \in 0..(MAX_OBJ_FREE_EVENTS - 1)
    /\ alive \subseteq Objs /\ loaded \subseteq Classes
    /\ phase \in {"primordial", "start", "live", "dead"}
    /\ wire \in Seq(Item) /\ sends \in 0..MaxSends


\* The references an item on the wire carries, and those it relies on the
\* server knowing already (a CLASS_INFO introduces its own reference).
Refs(it) == CASE it.m = "CLASS_INFO" -> {it.ref, it.loader, it.super}
              [] it.m = "NEW_CLASS"  -> {it.loader}
              [] OTHER               -> {it.ref}
Uses(it) == IF it.m = "CLASS_INFO" THEN {it.loader, it.super} ELSE Refs(it)

\* The net reference r belongs to a string or a thread.
IsDataObject(r) == \E o \in Objs : /\ Kind[o] \in {"string", "thread"}
                                   /\ tag[o] # 0 /\ ObjId(tag[o]) = ObjId(r)

(***************************************************************************)
(* Spec 4.6: the server never sees OBJ_FREE for an object before a        *)
(* message that carried its reference.  The object free hook sends its    *)
(* batch straight to send_q, bypassing the tagging thread; this holds     *)
(* only because objtag_thread_loop releases the global references after   *)
(* _buffs_send (1063-1069), so the collector cannot free an object while  *)
(* the buffer that introduces it is still short of send_q.                *)
(***************************************************************************)
IntroducedBeforeFree ==
    \A i \in DOMAIN wire :
        wire[i].m = "OBJ_FREE" =>
            \E j \in 1..(i - 1) :
                \E r \in Refs(wire[j]) : r # NULL_NET_REF /\ ObjId(r) = ObjId(wire[i].ref)

(***************************************************************************)
(* Spec 4.3: every reference on the wire comes after the CLASS_INFO of    *)
(* its class (for a class, of itself), and every string or thread passed  *)
(* with its data comes after its STRING_INFO or THREAD_INFO.  The code    *)
(* gets this from the order of the recursion in                           *)
(* _set_net_reference_for_class, from the command buffer going out before *)
(* the analysis buffer (1166-1168), and from tagging_lock being held from *)
(* a tag to the hand-off of the buffer carrying its metadata.             *)
(***************************************************************************)
MetadataBeforeUse ==
    \A i \in DOMAIN wire :
        /\ \A r \in Uses(wire[i]) \ {NULL_NET_REF} :
              \E j \in 1..(i - 1) :
                  wire[j].m = "CLASS_INFO" /\ ClassId(wire[j].ref) = ClassId(r)
        /\ (/\ wire[i].m = "REF" /\ wire[i].type = "OT_DATA_OBJECT"
            /\ wire[i].ref # NULL_NET_REF /\ IsDataObject(wire[i].ref))
           => \E j \in 1..(i - 1) :
                 /\ wire[j].m \in {"STRING_INFO", "THREAD_INFO"}
                 /\ ObjId(wire[j].ref) = ObjId(wire[i].ref)

(***************************************************************************)
(* Spec 4.3: the metadata of an identity is sent exactly once: no two     *)
(* CLASS_INFO, STRING_INFO or THREAD_INFO messages on the wire are about  *)
(* the same object, whichever thread or hook resolved it.  The guard is   *)
(* the tag itself (a class is tagged before its CLASS_INFO is packed) and *)
(* the SPEC bit that update_send_status sets (921-925, checked at 934).   *)
(***************************************************************************)
MetadataOnce ==
    \A i, j \in DOMAIN wire :
        (/\ i < j
         /\ wire[i].m \in {"CLASS_INFO", "STRING_INFO", "THREAD_INFO"}
         /\ wire[j].m = wire[i].m)
        => ObjId(wire[i].ref) # ObjId(wire[j].ref)

(***************************************************************************)
(* Spec 3: two objects never hold the same object id, two classes never   *)
(* the same class id, and an object's reference carries its class's id.   *)
(* The counters are advanced in two places of netref.h (207-210, 292)     *)
(* and reached from both the tagging thread and the class file load hook. *)
(***************************************************************************)
NetRefsUnique ==
    /\ \A o1, o2 \in Objs :
          (o1 # o2 /\ tag[o1] # 0 /\ tag[o2] # 0)
          => /\ ObjId(tag[o1]) # ObjId(tag[o2])
             /\ (o1 \in Classes /\ o2 \in Classes) => ClassId(tag[o1]) # ClassId(tag[o2])
    /\ \A o \in Objs \ Classes :
          tag[o] # 0 => /\ tag[ClassOf[o]] # 0
                        /\ ClassId(tag[o]) = ClassId(tag[ClassOf[o]])

(***************************************************************************)
(* Spec 8: repeated resolution of a live object yields byte-identical     *)
(* net references, so every REF of one object on the wire is the same    *)
(* 8 bytes.                                                               *)
(***************************************************************************)
StableReference ==
    \A i, j \in DOMAIN wire :
        (/\ wire[i].m = "REF" /\ wire[j].m = "REF"
         /\ wire[i].ref # NULL_NET_REF /\ wire[j].ref # NULL_NET_REF
         /\ ObjId(wire[i].ref) = ObjId(wire[j].ref))
        => wire[i].ref = wire[j].ref

(***************************************************************************)
(* Spec 4.8, steps (3) and (6): VMDeath flushes any pending object-free   *)
(* batch, and the final scan reports the buffers left unsent.  So once    *)
(* send_obj_free_buffer has run, no OBJ_FREE event may wait in a batch:   *)
(* a tagged object the collector frees afterwards starts a new batch in a *)
(* utility buffer (owner PB_UTILITY), which the free hook only sends when *)
(* full and the scan of 1668-1693 does not look at.                       *)
(***************************************************************************)
FreesFlushedAtDeath ==
    phase = "dead" => obj_free_buff = NULL
=============================================================================
