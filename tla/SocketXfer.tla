----------------------------- MODULE SocketXfer -----------------------------
(***************************************************************************)
(* The transfer loops of connection.c in src/src-disl-agent: __socket_xfer *)
(* (one buffer, used by the MINGW build) and __socket_xfer_iov (a vector  *)
(* of buffers, used by msgchannel.c on every other build).  Both call     *)
(* send/recv (writev/readv) until everything is transferred, and return   *)
(* early on an error.                                                      *)
(*                                                                         *)
(* A byte is named by the buffer it belongs to and its offset there.  The *)
(* kernel call is the environment: on an open socket it transfers some of *)
(* the bytes still described by the buffers (at least one, since a         *)
(* blocking call waits for data), or fails; a zero-length request returns *)
(* 0.  Once the peer has closed the socket, recv/readv return 0 (end of    *)
(* stream) and send/writev fail with EPIPE.                                *)
(***************************************************************************)
EXTENDS Integers, Sequences, SequencesExt

CONSTANTS MaxBuffers,   \* buffers in one vectored call (3 in __send)
          MaxLen        \* bytes per buffer

ASSUME MaxBuffers \in Nat \ {0} /\ MaxLen \in Nat

VARIABLES mode,       \* "plain" (__socket_xfer) or "iov" (__socket_xfer_iov)
          dir,        \* "send" or "recv"
          lens,       \* the lengths the caller passed
          iov_base,   \* per buffer: offset of its next byte (buf_tail)
          iov_len,    \* per buffer: bytes left (remaining)
          iov_index,  \* first buffer not yet done
          total,      \* bytes counted as transferred
          pc,         \* "loop", or the returned value's sign: "done", "error"
          ret,        \* the value returned
          wire,       \* the bytes transferred, in order
          peerOpen    \* the other end has not closed the socket

vars == <<mode, dir, lens, iov_base, iov_len, iov_index, total, pc, ret,
          wire, peerOpen>>

\* The bytes a call transfers when nothing goes wrong, in order.
Flatten(ls) == FlattenSeq([j \in DOMAIN ls |-> [o \in 1..ls[j] |-> <<j, o - 1>>]])

\* The bytes the buffers still describe, from iov_index on.
Pending ==
    FlattenSeq([j \in DOMAIN lens |->
        IF j < iov_index THEN <<>>
        ELSE [o \in 1..iov_len[j] |-> <<j, iov_base[j] + o - 1>>]])

\* The values the kernel call may return for the pending bytes: 0 for an
\* empty request; on an open socket an error (a reset) or a transfer; once
\* the peer has closed, 0 for a receive at end of stream (every time) and
\* -1 (EPIPE) for a send.
XferResults ==
    LET rem == Len(Pending) IN
    IF rem = 0 THEN {0}
    ELSE IF peerOpen THEN {-1} \cup 1..rem
    ELSE IF dir = "recv" THEN {0} ELSE {-1}

\* The caller: connection_send/connection_recv pass one buffer to
\* __socket_xfer; connection_send_iov/connection_recv_iov pass the vectors
\* msgchannel.c builds, of which any may be empty.
Init ==
    /\ mode \in {"plain", "iov"}
    /\ dir \in {"send", "recv"}
    /\ lens \in UNION {[1..k -> 0..MaxLen] :
                         k \in IF mode = "plain" THEN {1} ELSE 1..MaxBuffers}
    /\ iov_base = [j \in DOMAIN lens |-> 0]
    /\ iov_len = lens
    /\ iov_index = 1
    /\ total = 0
    /\ pc = "loop"
    /\ ret = 0
    /\ wire = <<>>
    /\ peerOpen = TRUE

\* __socket_xfer: while (remaining > 0) one send/recv; a negative result
\* returns -remaining, otherwise remaining and buf_tail move on.
socket_xfer ==
    /\ mode = "plain" /\ pc = "loop"
    /\ IF iov_len[1] > 0
       THEN \E xferred \in XferResults :
              IF xferred < 0
              THEN /\ pc' = "error" /\ ret' = -iov_len[1]
                   /\ UNCHANGED <<iov_base, iov_len, wire>>
              ELSE /\ wire' = wire \o SubSeq(Pending, 1, xferred)
                   /\ iov_len' = [iov_len EXCEPT ![1] = @ - xferred]
                   /\ iov_base' = [iov_base EXCEPT ![1] = @ + xferred]
                   /\ UNCHANGED <<pc, ret>>
       ELSE /\ pc' = "done" /\ ret' = lens[1]
            /\ UNCHANGED <<iov_base, iov_len, wire>>
    /\ UNCHANGED <<mode, dir, lens, iov_index, total, peerOpen>>

\* A variant of SkipDone that stops at a buffer it has exactly used up.
RECURSIVE SkipDoneStrict(_, _)
SkipDoneStrict(idx, count) ==
    IF idx <= Len(lens) /\ count > iov_len[idx]
    THEN SkipDoneStrict(idx + 1, count - iov_len[idx])
    ELSE <<idx, count>>

\* The inner loop of __socket_xfer_iov: skip the buffers count covers
\* completely, zero-length ones included; returns the new index and the
\* bytes left over for the buffer it stops at.
RECURSIVE SkipDone(_, _)
SkipDone(idx, count) ==
    IF idx <= Len(lens) /\ count >= iov_len[idx]
    THEN SkipDone(idx + 1, count - iov_len[idx])
    ELSE <<idx, count>>

\* A variant of the adjustment that moves the base of a partly transferred
\* buffer but not its length.
AdjustPartialBaseOnly(idx, count) ==
    /\ iov_base' = IF count # 0 THEN [iov_base EXCEPT ![idx] = @ + count] ELSE iov_base
    /\ iov_len' = iov_len

\* if (count != 0): the buffer the transfer stopped in starts further on.
AdjustPartial(idx, count) ==
    /\ iov_base' = IF count # 0 THEN [iov_base EXCEPT ![idx] = @ + count] ELSE iov_base
    /\ iov_len' = IF count # 0 THEN [iov_len EXCEPT ![idx] = @ - count] ELSE iov_len

\* __socket_xfer_iov: while (iov_index < iov_count) one writev/readv from
\* iov_index on; a negative result is returned as it is, otherwise it is
\* added to total, the finished buffers are skipped and the one it stopped
\* in is adjusted.  After the loop it returns total.
socket_xfer_iov ==
    /\ mode = "iov" /\ pc = "loop"
    /\ IF iov_index <= Len(lens)
       THEN \E res \in XferResults :
              IF res < 0
              THEN /\ pc' = "error" /\ ret' = res
                   /\ UNCHANGED <<iov_base, iov_len, iov_index, total, wire>>
              ELSE LET s == SkipDone(iov_index, res) IN
                   /\ wire' = wire \o SubSeq(Pending, 1, res)
                   /\ total' = total + res
                   /\ iov_index' = s[1]
                   /\ AdjustPartial(s[1], s[2])
                   /\ UNCHANGED <<pc, ret>>
       ELSE /\ pc' = "done" /\ ret' = total
            /\ UNCHANGED <<iov_base, iov_len, iov_index, total, wire>>
    /\ UNCHANGED <<mode, dir, lens, peerOpen>>

\* The other end closes the socket (the server ends or drops the
\* connection), at any time.
peer_close ==
    /\ peerOpen
    /\ peerOpen' = FALSE
    /\ UNCHANGED <<mode, dir, lens, iov_base, iov_len, iov_index, total, pc,
                   ret, wire>>

Next == socket_xfer \/ socket_xfer_iov \/ peer_close

\* The looping thread keeps running.
Spec == Init /\ [][Next]_vars /\ WF_vars(socket_xfer) /\ WF_vars(socket_xfer_iov)

-----------------------------------------------------------------------------
Byte == (1..MaxBuffers) \X (0..MaxLen)

TypeOK ==
    /\ mode \in {"plain", "iov"} /\ dir \in {"send", "recv"}
    /\ lens \in UNION {[1..k -> 0..MaxLen] : k \in 1..MaxBuffers}
    /\ iov_base \in [DOMAIN lens -> 0..MaxLen]
    /\ iov_len \in [DOMAIN lens -> 0..MaxLen]
    /\ iov_index \in 1..(Len(lens) + 1)
    /\ total \in 0..(MaxBuffers * MaxLen)
    /\ pc \in {"loop", "done", "error"}
    /\ ret \in -(MaxBuffers * MaxLen)..(MaxBuffers * MaxLen)
    /\ wire \in Seq(Byte)
    /\ peerOpen \in BOOLEAN

\* Whatever the kernel calls return, the bytes transferred so far are a
\* prefix of the caller's data, in order, with nothing skipped or repeated,
\* and what the adjusted buffers still describe is exactly the rest; total
\* counts the bytes transferred; a successful return means every byte went
\* and returns that count, and an error returns a negative value (which
\* connection_send/_recv and their _iov forms turn into a fatal error).
TransfersInOrder ==
    /\ wire \o Pending = Flatten(lens)
    /\ mode = "iov" => total = Len(wire)
    /\ pc = "done" => wire = Flatten(lens) /\ ret = Len(wire)
    /\ pc = "error" => ret < 0

\* A send (message_send of a request or of the shutdown message) always
\* returns: the loop makes progress while the peer reads, and fails once
\* the peer has closed.
SendReturns == dir = "send" ~> pc # "loop"

\* A receive (message_recv of the server's answer) always returns, even
\* when the server closes the connection.
RecvReturns == dir = "recv" ~> pc # "loop"
=============================================================================
