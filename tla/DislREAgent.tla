----------------------------- MODULE DislREAgent -----------------------------
(***************************************************************************)
(* The event pipeline of the shadow-VM agent (src-shvm-agent/dislreagent.c)*)
(* : a fixed pool of process_buffs cycling through four blocking queues,   *)
(* application threads that fill buffers through the REDispatch natives,   *)
(* the total-ordering slots (to_buff_array), the object-tagging thread,    *)
(* the sending thread, the ThreadEnd hook and the VMDeath shutdown         *)
(* sequence.  The queues are the FIFO of BlockingQueue (refined by         *)
(* BlockingQueueRing).  A buffer's analysis_buff is a sequence of items:   *)
(* message headers and analysis requests; the socket is the sequence wire. *)
(***************************************************************************)
EXTENDS Integers, Sequences, FiniteSets, SequencesExt, FiniteSetsExt

CONSTANTS
    Threads,        \* application threads (model values)
    OrderIds,       \* ordering ids used with analysisStart(S, B), in 0..127
    NBuffers,       \* BQ_BUFFERS, the general pool
    NUtility,       \* BQ_UTILITY, the utility pool
    AnalysisCount,  \* ANALYSIS_COUNT, requests per ANALYZE message
    MaxCalls,       \* bound: analysis calls of all threads together
    MaxMethods,     \* bound: registerMethod calls in total
    DaemonActivity, \* may threads start new REDispatch calls after VMDeath?
    NULL, NoThread

ASSUME /\ OrderIds \subseteq 0 .. 127
       /\ NBuffers \in Nat \ {0} /\ NUtility \in Nat \ {0}
       /\ AnalysisCount \in Nat \ {0}
       /\ MaxCalls \in Nat /\ MaxMethods \in Nat
       /\ DaemonActivity \in BOOLEAN

\* owner_id values and other sentinels of dislreagent.c
INVALID_THREAD_ID == -1
INVALID_BUFF_ID == -1
STARTING_THREAD_ID == 128
PB_FREE == -100
PB_OBJTAG == -101
PB_SEND == -102
PB_UTILITY == -1000
BAADF00D == -1163005939     \* 0xBAADF00D as a jint: the unpatched count

NormalBufs == 1 .. NBuffers                  \* pb_list[0 .. BQ_BUFFERS-1]
Bufs == 1 .. NBuffers + NUtility             \* ... and the utility ones
ThreadIds == STARTING_THREAD_ID .. STARTING_THREAD_ID + Cardinality(Threads) - 1
StreamIds == OrderIds \cup ThreadIds         \* the id of an ANALYZE message

\* An analysis request: thread t's n-th call, meant for stream s.
Event == [t : Threads, n : 1 .. MaxCalls, s : StreamIds]

\* The items written into an analysis_buff (and onto the socket).
Hdr(id, c) == [k |-> "ANALYZE", id |-> id, count |-> c]
Req(e) == [k |-> "REQ", ev |-> e]
RegMsg(a) == [k |-> "REG_ANALYSIS", id |-> a]
EndMsg(id) == [k |-> "THREAD_END", id |-> id]
CloseMsg == [k |-> "CLOSE"]
Item == [k : {"ANALYZE"}, id : StreamIds, count : Int]
        \cup [k : {"REQ"}, ev : Event]
        \cup [k : {"REG_ANALYSIS"}, id : Nat]
        \cup [k : {"THREAD_END"}, id : ThreadIds]
        \cup {CloseMsg}

VARIABLES
    owner,          \* pb_list[b].owner_id
    anl,            \* pb_list[b].analysis_buff contents
    emptyQ, utilityQ, objtagQ, sendQ,   \* the four blocking queues
    tid, pb, localPb, abuf, toBuffId, acount, \* struct tldata fields
    tpc,            \* where each application thread is
    calls,          \* analysis calls made so far (bounded by MaxCalls)
    slotPb, slotCount,  \* to_buff_array[o].pb and .analysis_count
    toLock,         \* holder of to_buff_lock
    availTid,       \* avail_thread_id
    availAid,       \* avail_analysis_id
    noTaggingWork, noSendingWork,
    tagPc,          \* the object tagging thread
    sendPc,         \* the sending thread
    sdThread, sdPc, \* the thread running the VMDeath hook, and its step
    wire,           \* everything written to the socket
    produced,       \* history: requests of each stream in production order
    mustDeliver     \* history: requests the shutdown promises to deliver

bufVars == <<owner, anl, emptyQ, utilityQ, objtagQ, sendQ>>
tldVars == <<tid, pb, localPb, abuf, toBuffId, acount, tpc, calls>>
vars == <<owner, anl, emptyQ, utilityQ, objtagQ, sendQ, tid, pb, localPb,
          abuf, toBuffId, acount, tpc, calls, slotPb, slotCount, toLock,
          availTid, availAid, noTaggingWork, noSendingWork, tagPc, sendPc, sdThread, sdPc, wire, produced, mustDeliver>>

SendQCap == NBuffers + NUtility              \* send_q capacity

\* Agent_OnLoad: every buffer released once, normal ones to empty_q and
\* the rest to utility_q; no slot bound; the sending thread started.
\* The tagging thread (started in VMInit) is taken as running.
Init ==
    /\ owner = [b \in Bufs |-> IF b \in NormalBufs THEN PB_FREE ELSE PB_UTILITY]
    /\ anl = [b \in Bufs |-> <<>>]
    /\ emptyQ = [i \in 1 .. NBuffers |-> i]
    /\ utilityQ = [i \in 1 .. NUtility |-> NBuffers + i]
    /\ objtagQ = <<>> /\ sendQ = <<>>
    /\ tid = [t \in Threads |-> INVALID_THREAD_ID]
    /\ pb = [t \in Threads |-> NULL] /\ localPb = [t \in Threads |-> NULL]
    /\ abuf = [t \in Threads |-> NULL]
    /\ toBuffId = [t \in Threads |-> INVALID_BUFF_ID]
    /\ acount = [t \in Threads |-> 0]
    /\ tpc = [t \in Threads |-> "idle"]
    /\ calls = [t \in Threads |-> 0]
    /\ slotPb = [o \in OrderIds |-> NULL] /\ slotCount = [o \in OrderIds |-> 0]
    /\ toLock = NoThread
    /\ availTid = STARTING_THREAD_ID /\ availAid = 1
    /\ noTaggingWork = FALSE /\ noSendingWork = FALSE
    /\ tagPc = "check"
    /\ sendPc = "check"
    /\ sdThread = NoThread /\ sdPc = "none"
    /\ wire = <<>>
    /\ produced = [s \in StreamIds |-> <<>>]
    /\ mustDeliver = {}
-----------------------------------------------------------------------------
(* Helpers shared by several handlers.                                     *)

\* A new REDispatch call may begin: before VMDeath, or after it when
\* threads other than the dying one keep running.
MayCall(t) ==
    /\ tpc[t] = "idle" /\ t # sdThread
    /\ (sdPc = "none" \/ DaemonActivity)

\* The bound on analysis calls, counted over all threads.
CallsLeft == FoldFunction(+, 0, calls) < MaxCalls

\* next_thread_id() under to_buff_lock, if the thread is not marked yet.
MarkedId(t) == IF tid[t] = INVALID_THREAD_ID THEN availTid ELSE tid[t]
CanMark(t) == tid[t] = INVALID_THREAD_ID => toLock = NoThread
\* Variant of MarkThread (mutant for TypeOK): avail_thread_id advanced
\* twice per new thread.
MarkThreadTwice(t) ==
    /\ tid' = [tid EXCEPT ![t] = MarkedId(t)]
    /\ availTid' = IF tid[t] = INVALID_THREAD_ID THEN availTid + 2 ELSE availTid

MarkThread(t) ==
    /\ tid' = [tid EXCEPT ![t] = MarkedId(t)]
    /\ availTid' = IF tid[t] = INVALID_THREAD_ID THEN availTid + 1 ELSE availTid

\* The back-patched request count in the header at the buffer's start.
PatchCount(items, c) == [items EXCEPT ![1] = Hdr(@.id, c)]

\* buffs_objtag on each buffer of S, in pb_list order.
ObjtagAll(S) ==
    /\ Len(objtagQ) + Cardinality(S) <= NBuffers
    /\ objtagQ' = objtagQ \o SetToSortSeq(S, <)
    /\ owner' = [b \in Bufs |-> IF b \in S THEN PB_OBJTAG ELSE owner[b]]

\* send_thread_buffers: every normal buffer owned by the thread's id goes
\* to the tagging queue; the tld buffer pointers are reset (local_pb is
\* left dangling, as in the code).
SendThreadBuffers(t) ==
    /\ ObjtagAll(IF tid[t] = INVALID_THREAD_ID THEN {}
                 ELSE {b \in NormalBufs : owner[b] = tid[t]})
    /\ pb' = [pb EXCEPT ![t] = NULL]
    /\ abuf' = [abuf EXCEPT ![t] = NULL]

\* The requests produced so far for the stream of thread t.
OwnRequests(t) ==
    IF tid[t] = INVALID_THREAD_ID THEN {} ELSE ToSet(produced[tid[t]])
-----------------------------------------------------------------------------
(* Application threads: the REDispatch natives and the ThreadEnd hook.     *)

\* Variant of analysis_end (mutant for CountsPatched): the count is
\* written only when the buffer is handed to tagging.
analysis_end_patch_on_flush(t, b, items, c) ==
    /\ acount' = [acount EXCEPT ![t] = c]
    /\ anl' = [anl EXCEPT ![b] = IF c >= AnalysisCount
                                  THEN PatchCount(items, c) ELSE items]
    /\ IF c >= AnalysisCount
       THEN /\ ObjtagAll({b})
            /\ pb' = [pb EXCEPT ![t] = NULL]
            /\ abuf' = [abuf EXCEPT ![t] = NULL]
       ELSE /\ owner' = [owner EXCEPT ![b] = MarkedId(t)]
            /\ pb' = [pb EXCEPT ![t] = b]
            /\ abuf' = [abuf EXCEPT ![t] = b]
            /\ UNCHANGED objtagQ

\* analysis_end for the per-thread API, on buffer b holding items after
\* the request: count it (c), back-patch the count, and hand the buffer to
\* tagging once ANALYSIS_COUNT is reached.
analysis_end(t, b, items, c) ==
    /\ acount' = [acount EXCEPT ![t] = c]
    /\ anl' = [anl EXCEPT ![b] = PatchCount(items, c)]
    /\ IF c >= AnalysisCount
       THEN /\ ObjtagAll({b})
            /\ pb' = [pb EXCEPT ![t] = NULL]
            /\ abuf' = [abuf EXCEPT ![t] = NULL]
       ELSE /\ owner' = [owner EXCEPT ![b] = MarkedId(t)]
            /\ pb' = [pb EXCEPT ![t] = b]
            /\ abuf' = [abuf EXCEPT ![t] = b]
            /\ UNCHANGED objtagQ

\* One per-thread call: analysis_start (on the first call after a flush,
\* mark the thread, take a buffer from empty_q, blocking, and write the
\* ANALYZE header with an unpatched count; then the request header), the
\* argument natives and analysis_end.  No other thread reads the calling
\* thread's buffer in between, so the call is one step.
analysis_start(t) ==
    /\ MayCall(t) /\ CallsLeft
    /\ LET id    == MarkedId(t)
           e     == [t |-> t, n |-> calls[t] + 1, s |-> id]
           fresh == abuf[t] = NULL
           b     == IF fresh THEN Head(emptyQ) ELSE abuf[t]
           items == IF fresh THEN <<Hdr(id, BAADF00D), Req(e)>>
                    ELSE Append(anl[b], Req(e))
       IN /\ fresh => emptyQ # <<>> /\ CanMark(t)
          /\ emptyQ' = IF fresh THEN Tail(emptyQ) ELSE emptyQ
          /\ MarkThread(t)
          /\ produced' = [produced EXCEPT ![id] = Append(@, e)]
          /\ analysis_end(t, b, items, (IF fresh THEN 0 ELSE acount[t]) + 1)
    /\ calls' = [calls EXCEPT ![t] = @ + 1]
    /\ UNCHANGED <<utilityQ, sendQ, localPb, toBuffId, tpc, slotPb,
                   slotCount, toLock, availAid, noTaggingWork, noSendingWork,
                   tagPc, sendPc, sdThread, sdPc, wire, mustDeliver>>

\* analysis_start_buff, first part: flush the thread's normal buffer to
\* the tagging queue before each ordered call.
analysis_start_buff_flush(t, o) ==
    /\ MayCall(t) /\ CallsLeft
    /\ IF abuf[t] # NULL
       THEN /\ ObjtagAll({pb[t]})
            /\ pb' = [pb EXCEPT ![t] = NULL]
            /\ abuf' = [abuf EXCEPT ![t] = NULL]
       ELSE UNCHANGED <<owner, objtagQ, pb, abuf>>
    /\ toBuffId' = [toBuffId EXCEPT ![t] = o]
    /\ tpc' = [tpc EXCEPT ![t] = "startBuffGet"]
    /\ UNCHANGED <<anl, emptyQ, utilityQ, sendQ, tid, localPb, acount, calls,
                   slotPb, slotCount, toLock, availTid, availAid,
                   noTaggingWork, noSendingWork, tagPc, sendPc, sdThread, sdPc, wire, produced, mustDeliver>>

\* analysis_start_buff, second part: take the thread's local buffer
\* (marking the thread and blocking on empty_q the first time) and write
\* a bare request header into it.
analysis_start_buff_get(t) ==
    /\ tpc[t] = "startBuffGet"
    /\ LET e == [t |-> t, n |-> calls[t] + 1, s |-> toBuffId[t]]
       IN IF localPb[t] = NULL
          THEN /\ emptyQ # <<>> /\ CanMark(t)
               /\ LET b == Head(emptyQ) IN
                  /\ emptyQ' = Tail(emptyQ)
                  /\ owner' = [owner EXCEPT ![b] = MarkedId(t)]
                  /\ anl' = [anl EXCEPT ![b] = <<Req(e)>>]
                  /\ localPb' = [localPb EXCEPT ![t] = b]
                  /\ abuf' = [abuf EXCEPT ![t] = b]
               /\ MarkThread(t)
          ELSE /\ anl' = [anl EXCEPT ![localPb[t]] = Append(@, Req(e))]
               /\ abuf' = [abuf EXCEPT ![t] = localPb[t]]
               /\ UNCHANGED <<owner, emptyQ, localPb, tid, availTid>>
    /\ tpc' = [tpc EXCEPT ![t] = "inEvent"]
    /\ calls' = [calls EXCEPT ![t] = @ + 1]
    /\ UNCHANGED <<utilityQ, objtagQ, sendQ, pb, toBuffId, acount, slotPb,
                   slotCount, toLock, availAid, noTaggingWork, noSendingWork,
                   tagPc, sendPc, sdThread, sdPc, wire,
                   produced, mustDeliver>>

\* analysis_end for the ordered API: enter to_buff_lock.
analysis_end_buff_lock(t) ==
    /\ tpc[t] = "inEvent" /\ toBuffId[t] # INVALID_BUFF_ID
    /\ toLock = NoThread
    /\ toLock' = t
    /\ tpc' = [tpc EXCEPT ![t] = "endBuff"]
    /\ UNCHANGED <<bufVars, tid, pb, localPb, abuf, toBuffId, acount, calls,
                   slotPb, slotCount, availTid, availAid, noTaggingWork,
                   noSendingWork, tagPc, sendPc, sdThread,
                   sdPc, wire, produced, mustDeliver>>

\* Variant of analysis_end_buff (mutant for BufferPlacement): a full
\* slot buffer is queued but stays bound to the slot.
analysis_end_buff_keep_slot(t) ==
    /\ tpc[t] = "endBuff"
    /\ LET o     == toBuffId[t]
           fresh == slotPb[o] = NULL
           sb    == IF fresh THEN Head(emptyQ) ELSE slotPb[o]
           cnt   == (IF fresh THEN 0 ELSE slotCount[o]) + 1
           base  == IF fresh THEN <<Hdr(o, BAADF00D)>> ELSE anl[sb]
           local == anl[localPb[t]]
           full  == cnt >= AnalysisCount
       IN /\ fresh => emptyQ # <<>>
          /\ emptyQ' = IF fresh THEN Tail(emptyQ) ELSE emptyQ
          /\ anl' = [anl EXCEPT ![sb] = PatchCount(base \o local, cnt),
                                ![localPb[t]] = <<>>]
          /\ IF full
             THEN ObjtagAll({sb})
             ELSE /\ owner' = [owner EXCEPT ![sb] = o]
                  /\ UNCHANGED objtagQ
          /\ slotPb' = [slotPb EXCEPT ![o] = sb]
          /\ slotCount' = [slotCount EXCEPT ![o] = cnt]
          /\ produced' = [produced EXCEPT ![o] =
                             @ \o [i \in DOMAIN local |-> local[i].ev]]
    /\ toLock' = NoThread
    /\ abuf' = [abuf EXCEPT ![t] = NULL]
    /\ toBuffId' = [toBuffId EXCEPT ![t] = INVALID_BUFF_ID]
    /\ tpc' = [tpc EXCEPT ![t] = "idle"]
    /\ UNCHANGED <<utilityQ, sendQ, tid, pb, localPb, acount, calls, availTid,
                   availAid, noTaggingWork, noSendingWork, tagPc, sendPc, sdThread, sdPc, wire, mustDeliver>>

\* Variant of analysis_end_buff (mutant for StreamIntegrity): the local
\* buffer is not cleaned after it is copied into the slot buffer.
analysis_end_buff_no_clean(t) ==
    /\ tpc[t] = "endBuff"
    /\ LET o     == toBuffId[t]
           fresh == slotPb[o] = NULL
           sb    == IF fresh THEN Head(emptyQ) ELSE slotPb[o]
           cnt   == (IF fresh THEN 0 ELSE slotCount[o]) + 1
           base  == IF fresh THEN <<Hdr(o, BAADF00D)>> ELSE anl[sb]
           local == anl[localPb[t]]
           full  == cnt >= AnalysisCount
       IN /\ fresh => emptyQ # <<>>
          /\ emptyQ' = IF fresh THEN Tail(emptyQ) ELSE emptyQ
          /\ anl' = [anl EXCEPT ![sb] = PatchCount(base \o local, cnt)]
          /\ IF full
             THEN ObjtagAll({sb})
             ELSE /\ owner' = [owner EXCEPT ![sb] = o]
                  /\ UNCHANGED objtagQ
          /\ slotPb' = [slotPb EXCEPT ![o] = IF full THEN NULL ELSE sb]
          /\ slotCount' = [slotCount EXCEPT ![o] = cnt]
          /\ produced' = [produced EXCEPT ![o] =
                             @ \o [i \in DOMAIN local |-> local[i].ev]]
    /\ toLock' = NoThread
    /\ abuf' = [abuf EXCEPT ![t] = NULL]
    /\ toBuffId' = [toBuffId EXCEPT ![t] = INVALID_BUFF_ID]
    /\ tpc' = [tpc EXCEPT ![t] = "idle"]
    /\ UNCHANGED <<utilityQ, sendQ, tid, pb, localPb, acount, calls, availTid,
                   availAid, noTaggingWork, noSendingWork, tagPc, sendPc, sdThread, sdPc, wire, mustDeliver>>

\* analysis_end_buff, under to_buff_lock: bind a buffer to the slot if it
\* has none (blocking on empty_q while holding the lock), append the
\* thread's local buffer to it, clean the local buffer, count and patch,
\* and hand the slot's buffer to tagging once ANALYSIS_COUNT is reached.
analysis_end_buff(t) ==
    /\ tpc[t] = "endBuff"
    /\ LET o     == toBuffId[t]
           fresh == slotPb[o] = NULL
           sb    == IF fresh THEN Head(emptyQ) ELSE slotPb[o]
           cnt   == (IF fresh THEN 0 ELSE slotCount[o]) + 1
           base  == IF fresh THEN <<Hdr(o, BAADF00D)>> ELSE anl[sb]
           local == anl[localPb[t]]
           full  == cnt >= AnalysisCount
       IN /\ fresh => emptyQ # <<>>
          /\ emptyQ' = IF fresh THEN Tail(emptyQ) ELSE emptyQ
          /\ anl' = [anl EXCEPT ![sb] = PatchCount(base \o local, cnt),
                                ![localPb[t]] = <<>>]
          /\ IF full
             THEN ObjtagAll({sb})
             ELSE /\ owner' = [owner EXCEPT ![sb] = o]
                  /\ UNCHANGED objtagQ
          /\ slotPb' = [slotPb EXCEPT ![o] = IF full THEN NULL ELSE sb]
          /\ slotCount' = [slotCount EXCEPT ![o] = cnt]
          /\ produced' = [produced EXCEPT ![o] =
                             @ \o [i \in DOMAIN local |-> local[i].ev]]
    /\ toLock' = NoThread
    /\ abuf' = [abuf EXCEPT ![t] = NULL]
    /\ toBuffId' = [toBuffId EXCEPT ![t] = INVALID_BUFF_ID]
    /\ tpc' = [tpc EXCEPT ![t] = "idle"]
    /\ UNCHANGED <<utilityQ, sendQ, tid, pb, localPb, acount, calls, availTid,
                   availAid, noTaggingWork, noSendingWork, tagPc, sendPc, sdThread, sdPc, wire, mustDeliver>>

\* The queue hand-offs of the buffer pool (bq_push blocks while the queue
\* is full).  buffs_utility_send queues a utility buffer for sending and
\* leaves its owner PB_UTILITY.
buffs_utility_send(b) ==
    /\ Len(sendQ) < SendQCap
    /\ sendQ' = Append(sendQ, b)

\* _buffs_utility_release: clean, owner PB_UTILITY (as it already is),
\* back on utility_q.
_buffs_utility_release(b) ==
    /\ Len(utilityQ) < NUtility
    /\ utilityQ' = Append(utilityQ, b)
    /\ owner' = [owner EXCEPT ![b] = PB_UTILITY]

\* _buffs_release: clean, owner PB_FREE, back on empty_q.
_buffs_release(b) ==
    /\ Len(emptyQ) < NBuffers
    /\ emptyQ' = Append(emptyQ, b)
    /\ owner' = [owner EXCEPT ![b] = PB_FREE]

\* _buffs_send: owner PB_SEND, pushed on send_q.
_buffs_send(b) ==
    /\ Len(sendQ) < SendQCap
    /\ sendQ' = Append(sendQ, b)
    /\ owner' = [owner EXCEPT ![b] = PB_SEND]

\* register_method: take the next analysis id (under the tagging lock),
\* a utility buffer (blocking), write REG_ANALYSIS and queue it for
\* sending directly.
register_method(t) ==
    /\ MayCall(t) /\ availAid <= MaxMethods
    /\ utilityQ # <<>> /\ Len(sendQ) < SendQCap
    /\ LET b == Head(utilityQ) IN
       /\ utilityQ' = Tail(utilityQ)
       /\ anl' = [anl EXCEPT ![b] = <<RegMsg(availAid)>>]
       /\ buffs_utility_send(b)
    /\ availAid' = availAid + 1
    /\ UNCHANGED <<owner, emptyQ, objtagQ, tid, pb, localPb, abuf, toBuffId,
                   acount, tpc, calls, slotPb, slotCount, toLock, availTid,
                   noTaggingWork, noSendingWork, tagPc, sendPc, sdThread, sdPc, wire, produced, mustDeliver>>

\* jvmti_callback_thread_end_hook, first part: nothing for an unmarked
\* thread; otherwise send_thread_buffers.  No event is delivered after
\* VMDeath, so the hook only starts before it.
thread_end_flush(t) ==
    /\ tpc[t] = "idle" /\ sdPc = "none"
    /\ IF tid[t] = INVALID_THREAD_ID
       THEN /\ tpc' = [tpc EXCEPT ![t] = "ended"]
            /\ UNCHANGED <<owner, objtagQ, pb, abuf, mustDeliver>>
       ELSE /\ SendThreadBuffers(t)
            /\ tpc' = [tpc EXCEPT ![t] = "endMsg"]
            /\ mustDeliver' = mustDeliver \cup OwnRequests(t)
    /\ UNCHANGED <<anl, emptyQ, utilityQ, sendQ, tid, localPb, toBuffId,
                   acount, calls, slotPb, slotCount, toLock, availTid,
                   availAid, noTaggingWork, noSendingWork, tagPc, sendPc, sdThread, sdPc, wire, produced>>

\* Variant of thread_end_msg (mutant for ThreadEndAfterData): THREAD_END
\* is queued for sending directly, bypassing the tagging queue.
thread_end_msg_direct(t) ==
    /\ tpc[t] = "endMsg"
    /\ emptyQ # <<>>
    /\ LET b == Head(emptyQ) IN
       /\ emptyQ' = Tail(emptyQ)
       /\ anl' = [anl EXCEPT ![b] = <<EndMsg(tid[t])>>]
       /\ Len(sendQ) < SendQCap
       /\ sendQ' = Append(sendQ, b)
       /\ owner' = [owner EXCEPT ![b] = PB_SEND]
    /\ tpc' = [tpc EXCEPT ![t] = "ended"]
    /\ UNCHANGED <<utilityQ, objtagQ, tid, pb, localPb, abuf, toBuffId, acount,
                   calls, slotPb, slotCount, toLock, availTid, availAid,
                   noTaggingWork, noSendingWork, tagPc, sendPc, sdThread, sdPc, wire, produced, mustDeliver>>

\* jvmti_callback_thread_end_hook, second part: a buffer from empty_q
\* (blocking) carrying THREAD_END, queued behind the thread's data on the
\* tagging queue.
thread_end_msg(t) ==
    /\ tpc[t] = "endMsg"
    /\ emptyQ # <<>>
    /\ LET b == Head(emptyQ) IN
       /\ emptyQ' = Tail(emptyQ)
       /\ anl' = [anl EXCEPT ![b] = <<EndMsg(tid[t])>>]
       /\ Len(objtagQ) < NBuffers
       /\ objtagQ' = Append(objtagQ, b)
       /\ owner' = [owner EXCEPT ![b] = PB_OBJTAG]
    /\ tpc' = [tpc EXCEPT ![t] = "ended"]
    /\ UNCHANGED <<utilityQ, sendQ, tid, pb, localPb, abuf, toBuffId, acount,
                   calls, slotPb, slotCount, toLock, availTid, availAid,
                   noTaggingWork, noSendingWork, tagPc, sendPc, sdThread, sdPc, wire, produced, mustDeliver>>
-----------------------------------------------------------------------------
(* The object tagging thread (objtag_thread_loop).  With no object         *)
(* references in the buffers the tagging pass leaves the analysis buffer  *)
(* as it is; the buffer is handed to the sending queue.                   *)

\* Variant of objtag_check (mutant for DeliveredAtClose): the loop ends
\* on no_tagging_work alone.
objtag_check_flag_only ==
    /\ tagPc = "check"
    /\ tagPc' = IF noTaggingWork THEN "done" ELSE "pop"
    /\ UNCHANGED <<bufVars, tldVars, slotPb, slotCount, toLock, availTid,
                   availAid, noTaggingWork, noSendingWork, sendPc,
                   sdThread, sdPc, wire, produced, mustDeliver>>

\* while(!(no_tagging_work && bq_length(&objtag_q) == 0)) with objtag_q
\* empty: the loop ends, or the thread blocks in bq_pop ("pop").  The
\* flag only goes from FALSE to TRUE, so reading it and then the length
\* is the same as reading both at the length's moment.  With a buffer
\* queued the check passes and objtag_tag_send runs at once.
objtag_check ==
    /\ tagPc = "check" /\ objtagQ = <<>>
    /\ tagPc' = IF noTaggingWork THEN "done" ELSE "pop"
    /\ UNCHANGED <<bufVars, tldVars, slotPb, slotCount, toLock, availTid,
                   availAid, noTaggingWork, noSendingWork, sendPc,
                   sdThread, sdPc, wire, produced, mustDeliver>>

otherVars == <<slotPb, slotCount, toLock, availTid, availAid, sdThread,
               produced, mustDeliver>>

\* _buffs_objtag_get (bq_pop, blocking), then under tagging_lock:
\* ot_tag_buff, swap the new-objects buffer in as command buffer,
\* _buffs_send (owner PB_SEND, push on send_q) and release the global
\* references.  The tagging thread is objtag_q's only consumer and no
\* other thread looks at a buffer it holds, so this is one step.
objtag_tag_send ==
    /\ tagPc \in {"check", "pop"} /\ objtagQ # <<>> /\ Len(sendQ) < SendQCap
    /\ LET b == Head(objtagQ) IN
       /\ objtagQ' = Tail(objtagQ)
       /\ _buffs_send(b)
    /\ tagPc' = "check"
    /\ UNCHANGED <<anl, emptyQ, utilityQ, tldVars, otherVars, noTaggingWork,
                   noSendingWork, sendPc, sdPc, wire>>
-----------------------------------------------------------------------------
(* The sending thread (send_thread_loop and close_connection).            *)

\* while(!(no_sending_work && bq_length(&send_q) == 0)) with send_q
\* empty: close the connection, or block in bq_pop ("pop").
send_check ==
    /\ sendPc = "check" /\ sendQ = <<>>
    /\ sendPc' = IF noSendingWork THEN "close" ELSE "pop"
    /\ UNCHANGED <<bufVars, tldVars, otherVars, noTaggingWork, noSendingWork,
                   tagPc, sdPc, wire>>

\* _buffs_send_get (bq_pop, blocking); write the command buffer, then
\* the analysis buffer, to the socket; clean the buffer and release it to
\* utility_q if it is PB_UTILITY, otherwise to empty_q as PB_FREE.  The
\* sending thread is send_q's only consumer and the socket's only writer.
send_write ==
    /\ sendPc \in {"check", "pop"} /\ sendQ # <<>>
    /\ LET b == Head(sendQ) IN
       /\ sendQ' = Tail(sendQ)
       /\ wire' = wire \o anl[b]
       /\ anl' = [anl EXCEPT ![b] = <<>>]
       /\ IF owner[b] = PB_UTILITY
          THEN /\ _buffs_utility_release(b)
               /\ UNCHANGED emptyQ
          ELSE /\ _buffs_release(b)
               /\ UNCHANGED utilityQ
    /\ sendPc' = "check"
    /\ UNCHANGED <<objtagQ, tldVars, otherVars, noTaggingWork,
                   noSendingWork, tagPc, sdPc>>

\* close_connection: take a buffer from empty_q (blocking), write CLOSE
\* from it straight to the socket, release it and close the socket.
close_connection ==
    /\ sendPc = "close" /\ emptyQ # <<>>
    /\ wire' = Append(wire, CloseMsg)
    /\ emptyQ' = Append(Tail(emptyQ), Head(emptyQ))
    /\ sendPc' = "done"
    /\ UNCHANGED <<owner, anl, utilityQ, objtagQ, sendQ, tldVars, otherVars,
                   noTaggingWork, noSendingWork, tagPc, sdPc>>
-----------------------------------------------------------------------------
(* jvmti_callback_vm_death_hook, run by thread sdThread, one step per      *)
(* statement that touches shared state.                                    *)

\* The hook starts on an idle thread, or on one whose ThreadEnd already
\* ran (the thread that destroys the VM).
vm_death(t) ==
    /\ sdPc = "none" /\ tpc[t] \in {"idle", "ended"}
    /\ sdThread' = t
    /\ sdPc' = "flushTo"
    /\ UNCHANGED <<bufVars, tldVars, slotPb, slotCount, toLock, availTid, availAid,
                   noTaggingWork, noSendingWork, tagPc, sendPc, wire, produced, mustDeliver>>

\* send_all_to_buffers: under to_buff_lock, every bound slot buffer to the
\* tagging queue in slot order.
send_all_to_buffers ==
    /\ sdPc = "flushTo" /\ toLock = NoThread
    /\ ObjtagAll({slotPb[o] : o \in {p \in OrderIds : slotPb[p] # NULL}})
    /\ slotPb' = [o \in OrderIds |-> NULL]
    /\ mustDeliver' = mustDeliver \cup UNION {ToSet(produced[o]) : o \in OrderIds}
    /\ sdPc' = "flushThread"
    /\ UNCHANGED <<anl, emptyQ, utilityQ, sendQ, tldVars, slotCount, toLock,
                   availTid, availAid, noTaggingWork, noSendingWork, tagPc,
                   sendPc, sdThread, wire, produced>>

\* send_thread_buffers(tld) for the dying thread.
vm_death_send_thread_buffers ==
    /\ sdPc = "flushThread"
    /\ SendThreadBuffers(sdThread)
    /\ mustDeliver' = mustDeliver \cup OwnRequests(sdThread)
    /\ sdPc' = "stopTagging"
    /\ UNCHANGED <<anl, emptyQ, utilityQ, sendQ, tid, localPb, toBuffId,
                   acount, tpc, calls, slotPb, slotCount, toLock, availTid,
                   availAid, noTaggingWork, noSendingWork, tagPc, sendPc, sdThread, wire, produced>>

\* no_tagging_work = TRUE
vm_death_stop_tagging ==
    /\ sdPc = "stopTagging"
    /\ noTaggingWork' = TRUE
    /\ sdPc' = "poisonTag"
    /\ UNCHANGED <<bufVars, tldVars, otherVars, noSendingWork, tagPc, sendPc, wire>>

\* buffs_get (blocking) and buffs_objtag of an empty buffer, to wake a
\* tagging thread blocked in bq_pop.
vm_death_poison_tagging ==
    /\ sdPc = "poisonTag" /\ emptyQ # <<>>
    /\ emptyQ' = Tail(emptyQ)
    /\ ObjtagAll({Head(emptyQ)})
    /\ sdPc' = "joinTag"
    /\ UNCHANGED <<anl, utilityQ, sendQ, tldVars, otherVars, noTaggingWork,
                   noSendingWork, tagPc, sendPc, wire>>

\* pthread_join(objtag_thread); then no_sending_work = TRUE
vm_death_join_tagging ==
    /\ sdPc = "joinTag" /\ tagPc = "done"
    /\ noSendingWork' = TRUE
    /\ sdPc' = "poisonSend"
    /\ UNCHANGED <<bufVars, tldVars, otherVars, noTaggingWork, tagPc, sendPc, wire>>

\* buffs_get (blocking) and _buffs_send of an empty buffer.
vm_death_poison_sending ==
    /\ sdPc = "poisonSend" /\ emptyQ # <<>>
    /\ emptyQ' = Tail(emptyQ)
    /\ _buffs_send(Head(emptyQ))
    /\ sdPc' = "joinSend"
    /\ UNCHANGED <<anl, utilityQ, objtagQ, tldVars, otherVars, noTaggingWork,
                   noSendingWork, tagPc, sendPc, wire>>

\* pthread_join(send_thread), then the scan of pb_list[0 .. BQ_BUFFERS-1]:
\* check_error on a buffer still PB_OBJTAG or PB_SEND ends the process
\* with an error ("fatal"); buffers of live threads are only reported.
vm_death_join_sending_and_scan ==
    /\ sdPc = "joinSend" /\ sendPc = "done"
    /\ sdPc' = IF \E b \in NormalBufs : owner[b] \in {PB_OBJTAG, PB_SEND}
               THEN "fatal" ELSE "done"
    /\ UNCHANGED <<bufVars, tldVars, otherVars, noTaggingWork, noSendingWork,
                   tagPc, sendPc, wire>>
-----------------------------------------------------------------------------
ThreadStep(t) ==
    \/ analysis_start(t)
    \/ \E o \in OrderIds : analysis_start_buff_flush(t, o)
    \/ analysis_start_buff_get(t)
    \/ analysis_end_buff_lock(t)
    \/ analysis_end_buff(t)
    \/ register_method(t)
    \/ thread_end_flush(t)
    \/ thread_end_msg(t)

TaggingStep == objtag_check \/ objtag_tag_send
SendingStep == send_check \/ send_write \/ close_connection
VMDeathStep ==
    \/ send_all_to_buffers \/ vm_death_send_thread_buffers
    \/ vm_death_stop_tagging \/ vm_death_poison_tagging
    \/ vm_death_join_tagging \/ vm_death_poison_sending
    \/ vm_death_join_sending_and_scan

Next ==
    \/ \E t \in Threads : ThreadStep(t) \/ vm_death(t)
    \/ TaggingStep \/ SendingStep \/ VMDeathStep

\* The two worker threads and the VMDeath hook are native threads that the
\* OS keeps scheduling; so is a thread that is inside a REDispatch native
\* or the ThreadEnd hook.  Nothing forces an idle thread to call again,
\* to end, or the VM to die.
InCall(t) ==
    \/ analysis_start_buff_get(t) \/ analysis_end_buff_lock(t) \/ analysis_end_buff(t) \/ thread_end_msg(t)

Fairness ==
    /\ WF_vars(TaggingStep) /\ WF_vars(SendingStep) /\ WF_vars(VMDeathStep)
    /\ \A t \in Threads : WF_vars(InCall(t))

Spec == Init /\ [][Next]_vars /\ Fairness
-----------------------------------------------------------------------------
(* Properties.                                                             *)

Owners == {PB_FREE, PB_OBJTAG, PB_SEND, PB_UTILITY, INVALID_THREAD_ID}
          \cup OrderIds \cup ThreadIds
PCs == {"idle", "startBuffGet", "inEvent", "endBuff", "endMsg", "ended"}
BufOrNull == Bufs \cup {NULL}

TypeOK ==
    /\ owner \in [Bufs -> Owners]
    /\ anl \in [Bufs -> Seq(Item)]
    /\ \A q \in {emptyQ, utilityQ, objtagQ, sendQ} : q \in Seq(Bufs)
    /\ Len(emptyQ) <= NBuffers /\ Len(utilityQ) <= NUtility
    /\ Len(objtagQ) <= NBuffers /\ Len(sendQ) <= SendQCap
    /\ tid \in [Threads -> ThreadIds \cup {INVALID_THREAD_ID}]
    /\ pb \in [Threads -> BufOrNull] /\ localPb \in [Threads -> BufOrNull]
    /\ abuf \in [Threads -> BufOrNull]
    /\ toBuffId \in [Threads -> OrderIds \cup {INVALID_BUFF_ID}]
    /\ acount \in [Threads -> 0 .. MaxCalls]
    /\ tpc \in [Threads -> PCs] /\ calls \in [Threads -> 0 .. MaxCalls]
    /\ slotPb \in [OrderIds -> BufOrNull]
    /\ toLock \in Threads \cup {NoThread}
    /\ tagPc \in {"check", "pop", "done"}
    /\ sendPc \in {"check", "pop", "close", "done"}
    /\ sdThread \in Threads \cup {NoThread}
    /\ wire \in Seq(Item)
    /\ produced \in [StreamIds -> Seq(Event)] /\ mustDeliver \subseteq Event

\* A thread's local_pb pointer is stale once send_thread_buffers ran for it.
LocalLive(t) ==
    /\ tpc[t] \notin {"endMsg", "ended"}
    /\ ~(t = sdThread /\ sdPc \notin {"none", "flushTo", "flushThread"})

Occ(q, b) == Cardinality({i \in DOMAIN q : q[i] = b})
Holders(b) ==
    Occ(emptyQ, b) + Occ(utilityQ, b) + Occ(objtagQ, b) + Occ(sendQ, b)
    + Cardinality({t \in Threads : pb[t] = b})
    + Cardinality({t \in Threads : LocalLive(t) /\ localPb[t] = b})
    + Cardinality({o \in OrderIds : slotPb[o] = b})

\* At most one owner (spec section 8): every buffer of pb_list is held by
\* exactly one queue, thread, slot or worker at every moment, and its
\* owner_id says which: PB_FREE in empty_q, PB_OBJTAG on the way through
\* tagging, PB_SEND or PB_UTILITY on the way through sending, the thread
\* id for a thread's pb or local_pb, the ordering id for a bound slot.
BufferPlacement ==
    \A b \in Bufs :
        /\ Holders(b) = 1
        /\ b \in ToSet(emptyQ) => owner[b] = PB_FREE
        /\ b \in ToSet(utilityQ) => owner[b] = PB_UTILITY
        /\ b \in ToSet(objtagQ) => owner[b] = PB_OBJTAG
        /\ b \in ToSet(sendQ) => owner[b] \in {PB_SEND, PB_UTILITY}
        /\ \A t \in Threads :
              (pb[t] = b \/ (LocalLive(t) /\ localPb[t] = b)) => owner[b] = tid[t]
        /\ \A o \in OrderIds : slotPb[o] = b => owner[b] = o

\* The requests on the socket, in order, and the message each belongs to:
\* the last non-request item before it.
ReqPos == {i \in DOMAIN wire : wire[i].k = "REQ"}
MsgStart(i) == Max({j \in 1 .. i : wire[j].k # "REQ"} \cup {0})
WireReqs ==
    LET r == SelectSeq(wire, LAMBDA x : x.k = "REQ")
    IN [i \in DOMAIN r |-> r[i].ev]

\* Per-stream ordering (spec sections 2 and 4.5): each request reaches the
\* socket inside an ANALYZE message whose id is the stream it was made for
\* (the thread's id, or the ordering id), and the requests of each stream
\* reach the socket in the order they were made (for an ordering id: the
\* order the threads reached the slot), none lost in between, none twice.
StreamIntegrity ==
    /\ \A i \in ReqPos :
          /\ MsgStart(i) > 0
          /\ wire[MsgStart(i)].k = "ANALYZE"
          /\ wire[MsgStart(i)].id = wire[i].ev.s
    /\ \A s \in StreamIds :
          IsPrefix(SelectSeq(WireReqs, LAMBDA e : e.s = s), produced[s])

\* The request count back-patched into every ANALYZE header that reaches
\* the socket equals the number of requests the message carries, whatever
\* flushed the buffer (threshold, ordered call, thread end, shutdown).
CountsPatched ==
    \A i \in DOMAIN wire :
        wire[i].k = "ANALYZE" =>
            wire[i].count = Cardinality({j \in ReqPos : MsgStart(j) = i})

\* THREAD_END of a thread is written after every request of that thread's
\* own stream (the hook queues it on the tagging queue behind the data).
ThreadEndAfterData ==
    \A i, j \in DOMAIN wire :
        (i < j /\ wire[i].k = "THREAD_END" /\ wire[j].k = "REQ")
            => wire[j].ev.s # wire[i].id

\* Once the sending thread has closed the connection, every request the
\* shutdown must deliver is on the socket: the requests of threads whose
\* ThreadEnd hook ran, of the dying thread, and every ordered request
\* merged into a slot before send_all_to_buffers.
DeliveredAtClose ==
    sendPc = "done" => mustDeliver \subseteq ToSet(WireReqs)

\* Once VMDeath begins, the hook runs to its end: both workers drain,
\* exit and are joined, and close_connection gets its buffer (1128).
\* The TODO at 1156-1158 expects this to fail when application threads
\* hold every buffer; MCDislREAgent_hang.cfg shows that it does.
ShutdownCompletes == sdPc # "none" ~> sdPc \in {"done", "fatal"}

\* Spec section 4.8 (6): after a completed shutdown, every request made
\* is on the socket or sits in a buffer the final scan reports as lost
\* (owner_id >= STARTING_THREAD_ID, a live thread's buffer).
LossReported ==
    sdPc = "done" =>
        \A s \in StreamIds : \A e \in ToSet(produced[s]) :
            \/ e \in ToSet(WireReqs)
            \/ \E b \in NormalBufs :
                  owner[b] >= STARTING_THREAD_ID /\ Req(e) \in ToSet(anl[b])

\* The final scan of pb_list finds no buffer left PB_OBJTAG or PB_SEND;
\* if it did, check_error would end the VM with an error.
ScanClean == sdPc # "fatal"
=============================================================================
