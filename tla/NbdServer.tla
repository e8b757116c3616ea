----------------------------- MODULE NbdServer -----------------------------
(***************************************************************************)
(* The NBD protocol engine of src/src/nbd/nbd.c: the listener callbacks    *)
(* (nbd_new_conn, nbd_old_conn), the per-connection read callback          *)
(* nbd_client_handler with its drain loop, the handshake and option        *)
(* parsers (__check_zero_handshake, __check_opt_header), the request       *)
(* engine (__check_request, __handle_read, __handle_write) and its effect  *)
(* on the backing file.                                                    *)
(*                                                                         *)
(* One libevent loop drives every connection: at most one read callback    *)
(* runs at a time (variable active).  A callback is modelled one loop      *)
(* iteration per step, so the loop's control (return true = wait for more  *)
(* bytes, return false = iterate again) is visible.  The bytes a client    *)
(* has sent are a sequence of messages (stream); avail counts the bytes of *)
(* that stream libevent has already read into the input evbuffer, so every *)
(* fragmentation of the TCP stream is a different sequence of Arrive       *)
(* steps.  Byte counts are abstract units: every header is HdrLen units,   *)
(* a write payload and an export name are as long as their length field.  *)
(***************************************************************************)
EXTENDS Integers, Sequences, SequencesExt, FiniteSets

CONSTANTS
    Conns,          \* client connections the listener may accept
    NoConn,         \* model value: no read callback is running
    OldStyle,       \* TRUE: nbd_old_conn is installed, else nbd_new_conn
    ExportName,     \* the configured export name
    NameLen,        \* function: name -> its length in units
    Handles,        \* opaque client handles
    NoHandle,       \* model value: the handle field of non-command replies
    Data,           \* payload values a client may write
    Orig,           \* model value: content of the backing file at startup
    Zero,           \* model value: bytes of a hole (never written / trimmed)
    Garbage,        \* model value: bytes of a buffer the server did not fill
    HdrLen,         \* length of every protocol header, in units
    FileSize0,      \* size of the backing file at startup
    OffLimit,       \* 2^63 in units: a larger offset is negative as off64_t
    MaxChunk,       \* the most units one socket read hands to the callback
    MaxMsgs,        \* the most messages one client sends
    ClientZeros,    \* the zero acknowledgements a client may send
    ClientOpts,     \* the option requests a client may send
    ClientReqs,     \* the command requests a client may send
    AssertsEnabled, \* FALSE: the build defines NDEBUG
    IoErrors,       \* TRUE: lseek/read/write/fsync/fallocate may fail (EIO)
    SendsAfterDisc, \* TRUE: a client may keep sending after NBD_CMD_DISC
    ClosingConns,   \* the clients that may close their socket (libevent EOF)
    SocketErrors,   \* TRUE: a socket may fail instead (libevent ERROR)
    ShortWrites     \* TRUE: write() may store less than asked (file system full)

ASSUME
    /\ OldStyle \in BOOLEAN /\ AssertsEnabled \in BOOLEAN /\ IoErrors \in BOOLEAN
    /\ ClosingConns \subseteq Conns /\ SocketErrors \in BOOLEAN /\ ShortWrites \in BOOLEAN
    /\ HdrLen \in Nat \ {0} /\ MaxChunk \in Nat \ {0} /\ MaxMsgs \in Nat
    /\ FileSize0 \in Nat /\ OffLimit \in Nat /\ FileSize0 <= OffLimit
    /\ ExportName \in DOMAIN NameLen

(* Client states of enum NBD_CLIENT_STATE, plus the two states a client    *)
(* object has outside the enum: not yet accepted, and freed.               *)
States == {"NONE", "HANDSHAKE_SENT", "ZERO_RECEIVED", "DATA_PUSHING",
           "DISCONNECTED", "FREED"}
Cmds == {"READ", "WRITE", "DISC", "FLUSH", "TRIM", "UNKNOWN"}
Opts == {"EXPORT_NAME", "ABORT", "LIST", "UNKNOWN"}

(* Messages a client sends; ok is FALSE for a non-zero acknowledgement or  *)
(* a wrong magic number.                                                   *)
ZeroMsg(ok) == [kind |-> "zero", ok |-> ok, opt |-> "NONE", name |-> ExportName,
                cmd |-> "NONE", handle |-> NoHandle, off |-> 0, len |-> 0,
                data |-> Zero]
OptMsg(ok, opt, name) ==
               [kind |-> "opt", ok |-> ok, opt |-> opt, name |-> name,
                cmd |-> "NONE", handle |-> NoHandle, off |-> 0,
                len |-> IF opt = "EXPORT_NAME" THEN NameLen[name] ELSE 0,
                data |-> Zero]
ReqMsg(ok, cmd, h, off, len, d) ==
               [kind |-> "req", ok |-> ok, opt |-> "NONE", name |-> ExportName,
                cmd |-> cmd, handle |-> h, off |-> off, len |-> len, data |-> d]

(* Bytes a message occupies on the wire: only option and write payloads    *)
(* follow their header.                                                    *)
Size(m) == HdrLen + IF m.kind = "opt" \/ (m.kind = "req" /\ m.cmd = "WRITE")
                    THEN m.len ELSE 0
StreamSize(s) == FoldLeft(LAMBDA acc, m : acc + Size(m), 0, s)

MaxLen == LET lens == {r.len : r \in ClientReqs}
          IN IF lens = {} THEN 0 ELSE CHOOSE l \in lens : \A k \in lens : k <= l
Units == 0..(OffLimit + 2 * MaxLen)

(* Replies: the handshake, the export-info reply, the unsupported-option   *)
(* reply and command replies (handle, error, payload).  seen is a history  *)
(* variable: how many mutations of the backing file preceded the reply.   *)
Reply(kind, h, err, data, seen) ==
    [kind |-> kind, handle |-> h, err |-> err, data |-> data, seen |-> seen]
Errors == {"OK", "EINVAL", "EIO", "ENOSPC"}

VARIABLES
    conn,      \* conn[c]: client->state (or NONE / FREED)
    stream,    \* stream[c]: messages sent by the client, not yet drained
    avail,     \* avail[c]: units of stream[c] in the input evbuffer
    out,       \* out[c]: replies written to the connection
    buf,       \* buf[c]: client->buf is non-NULL
    active,    \* the connection whose read callback is running, or NoConn
    disk,      \* the backing file's content, unit -> value
    fsize,     \* the backing file's size
    fault,     \* "none", or how the whole process stopped
    history,   \* history[c]: every message the client sent (client's view)
    phase,     \* phase[c]: where the client is in its own protocol
    applied,   \* every mutation of the backing file, in execution order
    peer       \* peer[c]: the client's end of the socket: "open", "closed"
               \* (EOF not yet reported), "reset" (ERROR not yet reported),
               \* "eof" or "error" (reported; libevent reads no more)

vars == <<conn, stream, avail, out, buf, active, disk, fsize, fault, history,
          phase, applied, peer>>

-----------------------------------------------------------------------------
(* Backing-store I/O (lseek64 + read/write loops, fallocate).  A read or   *)
(* write at an offset of OffLimit or more fails in lseek64 with EINVAL.    *)
SeekFails(off) == off >= OffLimit
RegionShifted(d, off, len) == [i \in 1..len |-> d[off + i]]  \* variant: off by one
Region(d, off, len) == [i \in 1..len |-> d[off + i - 1]]
WriteAtPastEnd(d, off, len, v) ==  \* variant: one unit past the range
    [u \in DOMAIN d |-> IF off <= u /\ u <= off + len THEN v ELSE d[u]]
WriteAt(d, off, len, v) == [u \in DOMAIN d |-> IF off <= u /\ u < off + len
                                               THEN v ELSE d[u]]
(* The write() loop of __handle_write: while (pos < len) each call is      *)
(* write(fd, &buf[pos], len), asking for len bytes whatever pos is.  With  *)
(* whole writes the first call stores the range and pos = len.  After a    *)
(* short write of k units, a failing call (ENOSPC) ends the loop with the  *)
(* first k units of the range written; a call that succeeds stores the    *)
(* rest of the payload and then the bytes past the end of buf, so the loop *)
(* ends at some pos between len + 1 and 2 * len - 1.  WriteEnds is every   *)
(* pos a successful loop can end at, TornEnds every pos a failing one can *)
(* (0: the first call fails).                                              *)
WriteEnds(len) == {len} \cup (IF ShortWrites THEN len + 1 .. 2 * len - 1 ELSE {})
TornEnds(len) == IF ShortWrites THEN 0 .. len - 1 ELSE {}
Grown(off, n) == IF n > 0 /\ off + n > fsize THEN off + n ELSE fsize
Mutation(op, off, len, data) == [op |-> op, off |-> off, len |-> len, data |-> data]
Apply(d, ops) == FoldLeft(LAMBDA acc, o : WriteAt(acc, o.off, o.len, o.data), d, ops)
InitDisk == [u \in Units |-> IF u < FileSize0 THEN Orig ELSE Zero]

-----------------------------------------------------------------------------
Head1(c) == Head(stream[c])
Buffered(c, n) == avail[c] >= n
DrainHeaderOnly(c, m) == /\ stream' = [stream EXCEPT ![c] = Tail(@)]  \* variant
                         /\ avail' = [avail EXCEPT ![c] = @ - HdrLen]
Drain(c, m) == /\ stream' = [stream EXCEPT ![c] = Tail(@)]
               /\ avail' = [avail EXCEPT ![c] = @ - Size(m)]
Send(c, r) == out' = [out EXCEPT ![c] = Append(@, r)]

(* __send_export_info and __send_unsupported_opt: the export size and     *)
(* flags, or NBD_REP_ERR_UNSUP for the option; the fields are abstracted. *)
SendExportInfo(c) == Send(c, Reply("export_info", NoHandle, "OK", <<>>, 0))
SendUnsupportedOpt(c) == Send(c, Reply("unsupported_opt", NoHandle, "OK", <<>>, 0))

(* nbd_ev_handler with BEV_EVENT_EOF: frees the bufferevent, client->buf   *)
(* and the client.                                                         *)
EvHandlerFree(c) == conn' = [conn EXCEPT ![c] = "FREED"]
Running == fault = "none"

(* realloc(client->buf, len): glibc returns NULL for a zero length when    *)
(* the old buffer was non-NULL (it frees it), and a live buffer otherwise. *)
Realloc(c, len) == ~(len = 0 /\ buf[c])

Init ==
    /\ conn = [c \in Conns |-> "NONE"]
    /\ stream = [c \in Conns |-> <<>>]
    /\ avail = [c \in Conns |-> 0]
    /\ out = [c \in Conns |-> <<>>]
    /\ buf = [c \in Conns |-> FALSE]
    /\ active = NoConn
    /\ disk = InitDisk
    /\ fsize = FileSize0
    /\ fault = "none"
    /\ history = [c \in Conns |-> <<>>]
    /\ phase = [c \in Conns |-> "none"]
    /\ applied = <<>>
    /\ peer = [c \in Conns |-> "open"]

-----------------------------------------------------------------------------
(* nbd_new_conn / nbd_old_conn: the listener accepts a socket, allocates   *)
(* the client in its initial state and queues the handshake.               *)
Accept(c) ==
    /\ Running /\ active = NoConn /\ conn[c] = "NONE"
    /\ conn' = [conn EXCEPT ![c] = IF OldStyle THEN "DATA_PUSHING"
                                               ELSE "HANDSHAKE_SENT"]
    /\ buf' = [buf EXCEPT ![c] = FALSE]
    /\ Send(c, Reply(IF OldStyle THEN "old_handshake" ELSE "new_handshake",
                     NoHandle, "OK", <<>>, 0))
    /\ phase' = [phase EXCEPT ![c] = IF OldStyle THEN "req" ELSE "zero"]
    /\ UNCHANGED <<stream, avail, active, disk, fsize, fault, history, applied, peer>>

(* The client, a separate process, writes its next message to the socket. *)
(* It pipelines: it does not wait for replies.                             *)
MsgsFor(p) == CASE p = "zero" -> ClientZeros
                [] p = "opt"  -> ClientOpts
                [] p = "req"  -> ClientReqs
                [] OTHER      -> {}
NextPhase(p, m) == CASE p = "zero" -> "opt"
                     [] p = "opt" /\ m.opt = "EXPORT_NAME" -> "req"
                     [] p = "opt" /\ m.opt = "ABORT" -> "done"
                     [] p = "req" /\ m.cmd = "DISC" /\ ~SendsAfterDisc -> "done"
                     [] OTHER -> p

ClientSend(c) ==
    /\ Running
    /\ conn[c] \notin {"NONE", "FREED"} /\ peer[c] = "open"
    /\ Len(history[c]) < MaxMsgs
    /\ \E m \in MsgsFor(phase[c]) :
         /\ stream' = [stream EXCEPT ![c] = Append(@, m)]
         /\ history' = [history EXCEPT ![c] = Append(@, m)]
         /\ phase' = [phase EXCEPT ![c] = NextPhase(@, m)]
    /\ UNCHANGED <<conn, avail, out, buf, active, disk, fsize, fault, applied, peer>>

(* libevent reads 1..MaxChunk bytes of the socket into the input evbuffer *)
(* and calls nbd_client_handler.  After an error it reads nothing more.   *)
Arrive(c) ==
    /\ Running /\ active = NoConn
    /\ conn[c] \notin {"NONE", "FREED"} /\ peer[c] \in {"open", "closed"}
    /\ \E k \in 1..MaxChunk :
         /\ avail[c] + k <= StreamSize(stream[c])
         /\ avail' = [avail EXCEPT ![c] = @ + k]
    /\ active' = c
    /\ UNCHANGED <<conn, stream, out, buf, disk, fsize, fault, history, phase,
                   applied, peer>>

(* The client closes its socket, or (with SocketErrors) the connection is *)
(* reset.  The server has not freed the client yet (a freed client's       *)
(* socket is closed).                                                      *)
ClientCloses(c) ==
    /\ Running /\ c \in ClosingConns
    /\ conn[c] \notin {"NONE", "FREED"} /\ peer[c] = "open"
    /\ \E p \in {"closed"} \cup (IF SocketErrors THEN {"reset"} ELSE {}) :
         peer' = [peer EXCEPT ![c] = p]
    /\ UNCHANGED <<conn, stream, avail, out, buf, active, disk, fsize, fault,
                   history, phase, applied>>

(* Variant: nbd_ev_handler returning on EOF as it does on ERROR. *)
EvEofReturns(c) ==
    /\ Running /\ active = NoConn /\ conn[c] \notin {"NONE", "FREED"}
    /\ peer[c] = "closed" /\ avail[c] = StreamSize(stream[c])
    /\ peer' = [peer EXCEPT ![c] = "eof"]
    /\ UNCHANGED <<conn, stream, avail, out, buf, active, disk, fsize, fault,
                   history, phase, applied>>

(* libevent reports BEV_EVENT_EOF once it has read every byte the client  *)
(* sent (each read ran nbd_client_handler): nbd_ev_handler frees the      *)
(* bufferevent, client->buf and the client.                               *)
EvEof(c) ==
    /\ Running /\ active = NoConn /\ conn[c] \notin {"NONE", "FREED"}
    /\ peer[c] = "closed" /\ avail[c] = StreamSize(stream[c])
    /\ EvHandlerFree(c)
    /\ peer' = [peer EXCEPT ![c] = "eof"]
    /\ UNCHANGED <<stream, avail, out, buf, active, disk, fsize, fault,
                   history, phase, applied>>

(* libevent reports BEV_EVENT_ERROR and stops reading: nbd_ev_handler     *)
(* returns at its first test, and the client, its buffer and its          *)
(* bufferevent are never freed.                                            *)
EvError(c) ==
    /\ Running /\ active = NoConn /\ conn[c] \notin {"NONE", "FREED"}
    /\ peer[c] = "reset"
    /\ peer' = [peer EXCEPT ![c] = "error"]
    /\ UNCHANGED <<conn, stream, avail, out, buf, active, disk, fsize, fault,
                   history, phase, applied>>

-----------------------------------------------------------------------------
(* The while (evbuffer_get_length(in)) condition is false: the callback    *)
(* returns to the event loop.                                              *)
LoopExit(c) ==
    /\ Running /\ active = c /\ avail[c] = 0
    /\ active' = NoConn
    /\ UNCHANGED <<conn, stream, avail, out, buf, disk, fsize, fault, history,
                   phase, applied, peer>>

(* Any helper that returns true: the callback returns and waits for the    *)
(* next read.                                                              *)
Wait == active' = NoConn

(* __check_zero_handshake *)
CheckZeroHandshake(c) ==
    /\ Running /\ active = c /\ avail[c] > 0 /\ conn[c] = "HANDSHAKE_SENT"
    /\ LET m == Head1(c) IN
       \/ /\ ~Buffered(c, HdrLen)
          /\ Wait
          /\ UNCHANGED <<conn, stream, avail>>
       \/ /\ Buffered(c, HdrLen) /\ ~m.ok
          /\ conn' = [conn EXCEPT ![c] = "DISCONNECTED"]
          /\ UNCHANGED <<stream, avail, active>>
       \/ /\ Buffered(c, HdrLen) /\ m.ok
          /\ Drain(c, m)
          /\ conn' = [conn EXCEPT ![c] = "ZERO_RECEIVED"]
          /\ UNCHANGED active
    /\ UNCHANGED <<out, buf, disk, fsize, fault, history, phase, applied, peer>>

(* __check_opt_header.  An unsupported option is answered but never        *)
(* drained, and the helper returns false.                                  *)
NameMatchesIgnored(m) == TRUE  \* variant: the strncmp left out
NameMatches(m) == m.name = ExportName
CheckOptHeader(c) ==
    /\ Running /\ active = c /\ avail[c] > 0 /\ conn[c] = "ZERO_RECEIVED"
    /\ LET m == Head1(c) IN
       \/ /\ ~Buffered(c, HdrLen)
          /\ Wait
          /\ UNCHANGED <<conn, stream, avail, out>>
       \/ /\ Buffered(c, HdrLen)
          /\ \/ ~m.ok
             \/ m.opt = "ABORT"
             \/ m.opt = "EXPORT_NAME" /\ m.len # NameLen[ExportName]
          /\ conn' = [conn EXCEPT ![c] = "DISCONNECTED"]
          /\ UNCHANGED <<stream, avail, out, active>>
       \/ /\ Buffered(c, HdrLen) /\ m.ok /\ m.opt = "EXPORT_NAME"
          /\ m.len = NameLen[ExportName] /\ ~Buffered(c, HdrLen + m.len)
          /\ Wait
          /\ UNCHANGED <<conn, stream, avail, out>>
       \/ /\ Buffered(c, HdrLen + m.len) /\ m.ok /\ m.opt = "EXPORT_NAME"
          /\ m.len = NameLen[ExportName]
          /\ IF NameMatches(m)
               THEN /\ SendExportInfo(c)
                    /\ conn' = [conn EXCEPT ![c] = "DATA_PUSHING"]
                    /\ Drain(c, m)
               ELSE \* the header is drained, the name stays buffered and
                    \* the client is freed in the next iteration: the model
                    \* keeps the message whole, as no byte of it is read again
                    /\ conn' = [conn EXCEPT ![c] = "DISCONNECTED"]
                    /\ UNCHANGED <<stream, avail, out>>
          /\ UNCHANGED active
       \/ /\ Buffered(c, HdrLen) /\ m.ok /\ m.opt \in {"LIST", "UNKNOWN"}
          /\ SendUnsupportedOpt(c)
          /\ UNCHANGED <<conn, stream, avail, active>>
    /\ UNCHANGED <<buf, disk, fsize, fault, history, phase, applied, peer>>

(* case NBD_DISCONNECTED of nbd_client_handler: nbd_ev_handler frees the   *)
(* bufferevent and the client, and the callback returns.                   *)
FreeDisconnected(c) ==
    /\ Running /\ active = c /\ avail[c] > 0 /\ conn[c] = "DISCONNECTED"
    /\ EvHandlerFree(c)
    /\ Wait
    /\ UNCHANGED <<stream, avail, out, buf, disk, fsize, fault, history, phase,
                   applied, peer>>

(* The loop iterates after a helper freed the client: switch on           *)
(* client->state reads freed memory.                                       *)
UseAfterFree(c) ==
    /\ Running /\ active = c /\ avail[c] > 0 /\ conn[c] = "FREED"
    /\ fault' = "use_after_free"
    /\ UNCHANGED <<conn, stream, avail, out, buf, active, disk, fsize, history,
                   phase, applied, peer>>

-----------------------------------------------------------------------------
(* __check_request before the dispatch: with fewer than a header buffered  *)
(* it waits; with a wrong magic number it also just returns true, leaving  *)
(* the bad header at the front of the buffer.                              *)
RequestWaits(c) ==
    /\ Running /\ active = c /\ avail[c] > 0 /\ conn[c] = "DATA_PUSHING"
    /\ \/ ~Buffered(c, HdrLen)
       \/ Buffered(c, HdrLen) /\ ~Head1(c).ok
    /\ Wait
    /\ UNCHANGED <<conn, stream, avail, out, buf, disk, fsize, fault, history,
                   phase, applied, peer>>

IsCmd(c, cmd) ==
    /\ Running /\ active = c /\ avail[c] > 0 /\ conn[c] = "DATA_PUSHING"
    /\ Buffered(c, HdrLen) /\ Head1(c).ok /\ Head1(c).cmd = cmd

(* The NBD_CMD_READ and NBD_CMD_WRITE cases of __check_request once the   *)
(* helper returned an error code: drain the request and send the reply,   *)
(* with client->buf for a read.  A write reply reports the state after    *)
(* the write.                                                             *)
RespondRead(c, m, err, data) ==
    /\ Drain(c, m)
    /\ Send(c, Reply("cmd", m.handle, err, data, Len(applied)))
RespondWrite(c, m, err) ==
    /\ Drain(c, m)
    /\ Send(c, Reply("cmd", m.handle, err, <<>>, Len(applied')))

(* NBD_CMD_READ: __handle_read, then drain the header and reply with the   *)
(* error code and client->buf.  The reply carries the payload whatever the *)
(* error.  A read that reaches the end of the file spins: read() returns 0 *)
(* and len never decreases.                                                *)
HandleRead(c) ==
    /\ IsCmd(c, "READ")
    /\ LET m == Head1(c)
           nb == Realloc(c, m.len)
           ok(data) == RespondRead(c, m, "OK", data)
           fail(err) == RespondRead(c, m, err, [i \in 1..m.len |-> Garbage])
       IN \/ /\ ~nb /\ AssertsEnabled
             /\ fault' = "abort"
             /\ UNCHANGED <<stream, avail, out, buf>>
          \/ /\ nb \/ ~AssertsEnabled
             /\ buf' = [buf EXCEPT ![c] = nb]
             /\ \/ SeekFails(m.off) /\ fail("EINVAL") /\ UNCHANGED fault
                \/ /\ ~SeekFails(m.off) /\ m.len > 0 /\ m.off + m.len > fsize
                   /\ fault' = "hang"
                   /\ UNCHANGED <<stream, avail, out>>
                \/ /\ ~SeekFails(m.off) /\ (m.off + m.len <= fsize \/ m.len = 0)
                   /\ ok(Region(disk, m.off, m.len))
                   /\ UNCHANGED fault
                \/ /\ IoErrors /\ ~SeekFails(m.off) /\ m.len > 0
                   /\ fail("EIO") /\ UNCHANGED fault
    /\ UNCHANGED <<conn, active, disk, fsize, history, phase, applied, peer>>

(* NBD_CMD_WRITE: __handle_write reallocs client->buf before it checks     *)
(* that the payload is buffered; on success it writes at the offset (the   *)
(* file grows when what was written ends past it) and the callback drains *)
(* the payload and replies.  An lseek64 or write() failure is replied with *)
(* the error; the payload is drained all the same.  A loop that ends past  *)
(* len has also written len..pos-1 from past the end of buf (a spill); one *)
(* that fails after a short write leaves the range torn.                  *)
HandleWrite(c) ==
    /\ IsCmd(c, "WRITE")
    /\ LET m == Head1(c)
           nb == Realloc(c, m.len)
           reply(err) == RespondWrite(c, m, err)
       IN \/ /\ ~nb /\ AssertsEnabled
             /\ fault' = "abort"
             /\ UNCHANGED <<stream, avail, out, buf, active, disk, fsize, applied, peer>>
          \/ /\ nb \/ ~AssertsEnabled
             /\ buf' = [buf EXCEPT ![c] = nb]
             /\ UNCHANGED fault
             /\ \/ /\ ~Buffered(c, Size(m))
                   /\ Wait
                   /\ UNCHANGED <<stream, avail, out, disk, fsize, applied, peer>>
                \/ /\ Buffered(c, Size(m))
                   /\ \/ SeekFails(m.off) \/ (IoErrors /\ m.len > 0)
                   /\ UNCHANGED <<active, disk, fsize, applied, peer>>
                   /\ reply(IF SeekFails(m.off) THEN "EINVAL" ELSE "EIO")
                \/ /\ Buffered(c, Size(m)) /\ ~SeekFails(m.off)
                   /\ \E pos \in WriteEnds(m.len) :
                        LET ops == <<Mutation("write", m.off, m.len, m.data)>> \o
                                   IF pos > m.len
                                     THEN <<Mutation("spill", m.off + m.len,
                                                     pos - m.len, Garbage)>>
                                     ELSE <<>>
                        IN /\ disk' = Apply(disk, ops)
                           /\ applied' = applied \o ops
                           /\ fsize' = Grown(m.off, pos)
                   /\ reply("OK")
                   /\ UNCHANGED active
                \/ /\ Buffered(c, Size(m)) /\ ~SeekFails(m.off)
                   /\ \E pos \in TornEnds(m.len) :
                        /\ disk' = WriteAt(disk, m.off, pos, m.data)
                        /\ applied' = Append(applied, Mutation("torn", m.off, pos, m.data))
                        /\ fsize' = Grown(m.off, pos)
                   /\ reply("ENOSPC")
                   /\ UNCHANGED active
    /\ UNCHANGED <<conn, history, phase, peer>>

(* NBD_CMD_DISC: the state becomes DISCONNECTED, the header is drained and *)
(* nbd_ev_handler frees the client; the helper returns false, so the loop  *)
(* tests the (still referenced) input buffer once more.                    *)
HandleDisc(c) ==
    /\ IsCmd(c, "DISC")
    /\ Drain(c, Head1(c))
    /\ EvHandlerFree(c)
    /\ UNCHANGED <<out, buf, active, disk, fsize, fault, history, phase, applied, peer>>

(* Variant: NBD_CMD_FLUSH that forgets to drain the header. *)
HandleFlushNoDrain(c) ==
    /\ IsCmd(c, "FLUSH")
    /\ Send(c, Reply("cmd", Head1(c).handle, "OK", <<>>, Len(applied)))
    /\ UNCHANGED <<conn, stream, avail, buf, active, disk, fsize, fault, history,
                   phase, applied, peer>>

(* Variant: a callback that returns to the event loop after a flush, with *)
(* the rest of the input left for a later read event.                     *)
HandleFlushThenWait(c) ==
    /\ IsCmd(c, "FLUSH")
    /\ Drain(c, Head1(c))
    /\ Send(c, Reply("cmd", Head1(c).handle, "OK", <<>>, Len(applied)))
    /\ Wait
    /\ UNCHANGED <<conn, buf, disk, fsize, fault, history, phase, applied, peer>>

(* NBD_CMD_FLUSH: drain, fsync, reply with its result. *)
HandleFlush(c) ==
    /\ IsCmd(c, "FLUSH")
    /\ Drain(c, Head1(c))
    /\ \E err \in IF IoErrors THEN {"OK", "EIO"} ELSE {"OK"} :
         Send(c, Reply("cmd", Head1(c).handle, err, <<>>, Len(applied)))
    /\ UNCHANGED <<conn, buf, active, disk, fsize, fault, history, phase, applied, peer>>

(* Variant: NBD_CMD_TRIM that forgets to drain the header. *)
HandleTrimNoDrain(c) ==
    /\ IsCmd(c, "TRIM")
    /\ Send(c, Reply("cmd", Head1(c).handle, "OK", <<>>, Len(applied)))
    /\ UNCHANGED <<conn, stream, avail, buf, active, disk, fsize, fault, history,
                   phase, applied, peer>>

(* NBD_CMD_TRIM: drain, fallocate(PUNCH_HOLE | KEEP_SIZE) over the range,  *)
(* reply with its result.  fallocate fails with EINVAL for a negative     *)
(* offset or a zero length.  A punched range reads back as zeros; the     *)
(* file size is kept.                                                      *)
HandleTrim(c) ==
    /\ IsCmd(c, "TRIM")
    /\ LET m == Head1(c) IN
       /\ Drain(c, m)
       /\ \/ /\ SeekFails(m.off) \/ m.len = 0 \/ IoErrors
             /\ Send(c, Reply("cmd", m.handle,
                              IF SeekFails(m.off) \/ m.len = 0 THEN "EINVAL" ELSE "EIO",
                              <<>>, Len(applied)))
             /\ UNCHANGED <<disk, applied, peer>>
          \/ /\ ~SeekFails(m.off) /\ m.len > 0
             /\ disk' = WriteAt(disk, m.off, m.len, Zero)
             /\ applied' = Append(applied, Mutation("trim", m.off, m.len, Zero))
             /\ Send(c, Reply("cmd", m.handle, "OK", <<>>, Len(applied')))
    /\ UNCHANGED <<conn, buf, active, fsize, fault, history, phase, peer>>

(* default: an unknown command.  Its declared length is drained if it is   *)
(* buffered, the client is freed and the helper returns true.              *)
HandleUnknown(c) ==
    /\ IsCmd(c, "UNKNOWN")
    /\ EvHandlerFree(c)
    /\ Wait
    /\ UNCHANGED <<stream, avail, out, buf, disk, fsize, fault, history, phase,
                   applied, peer>>

-----------------------------------------------------------------------------
Handler(c) ==
    \/ LoopExit(c)
    \/ CheckZeroHandshake(c)
    \/ CheckOptHeader(c)
    \/ FreeDisconnected(c)
    \/ UseAfterFree(c)
    \/ RequestWaits(c)
    \/ HandleRead(c)
    \/ HandleWrite(c)
    \/ HandleDisc(c)
    \/ HandleFlush(c)
    \/ HandleTrim(c)
    \/ HandleUnknown(c)

Next ==
    \E c \in Conns :
        \/ Accept(c)
        \/ ClientSend(c)
        \/ Arrive(c)
        \/ Handler(c)
        \/ ClientCloses(c)
        \/ EvEof(c)
        \/ EvError(c)

(* The event loop is one thread that runs each callback to its end, and    *)
(* the kernel delivers every byte a client has written and reports its    *)
(* EOF or error: all are weakly fair.  The client and the listener are    *)
(* not.                                                                    *)
Fairness == \A c \in Conns : /\ WF_vars(Handler(c))
                             /\ WF_vars(Arrive(c))
                             /\ WF_vars(EvEof(c))
                             /\ WF_vars(EvError(c))

Spec == Init /\ [][Next]_vars /\ Fairness

-----------------------------------------------------------------------------
(***************************************************************************)
(* Properties.                                                             *)
(***************************************************************************)
Msgs == {ZeroMsg(b) : b \in BOOLEAN} \cup ClientOpts \cup ClientReqs
TypeOK ==
    /\ conn \in [Conns -> States]
    /\ stream \in [Conns -> Seq(Msgs)]
    /\ avail \in [Conns -> Nat]
    /\ \A c \in Conns : avail[c] <= StreamSize(stream[c])
    /\ buf \in [Conns -> BOOLEAN]
    /\ active \in Conns \cup {NoConn}
    /\ disk \in [Units -> Data \cup {Orig, Zero, Garbage}]
    /\ fsize \in 0..Cardinality(Units)
    /\ fault \in {"none", "hang", "abort", "use_after_free"}
    /\ peer \in [Conns -> {"open", "closed", "reset", "eof", "error"}]
    /\ \A c \in Conns : \A i \in 1..Len(out[c]) :
          out[c][i].err \in Errors /\ out[c][i].handle \in Handles \cup {NoHandle}

(* The requests a client expects replies to, in the order it sent them,   *)
(* and the command replies it got, in the order they arrived.              *)
ReplyingReqs(c) == SelectSeq(history[c], LAMBDA m : m.kind = "req" /\ m.ok
                                       /\ m.cmd \in {"READ", "WRITE", "FLUSH", "TRIM"})
CmdReplies(c) == SelectSeq(out[c], LAMBDA r : r.kind = "cmd")

(* The content of unit u after the mutations ops, in the abstract: the     *)
(* data of the last mutation covering u, else the startup content.        *)
Contents(ops, u) ==
    LET covering == {k \in 1..Len(ops) : ops[k].off <= u /\ u < ops[k].off + ops[k].len}
    IN IF covering = {} THEN InitDisk[u] ELSE ops[Max(covering)].data

(* Clients correlate replies by handle (spec section 3): the i-th command  *)
(* reply on a connection answers the i-th well-formed read, write, flush   *)
(* or trim that client sent, whatever the fragmentation of the stream and  *)
(* however the event loop interleaved other connections.                  *)
RepliesAnswerRequestsInOrder ==
    \A c \in Conns :
        /\ Len(CmdReplies(c)) <= Len(ReplyingReqs(c))
        /\ \A i \in 1..Len(CmdReplies(c)) :
               CmdReplies(c)[i].handle = ReplyingReqs(c)[i].handle

(* Read-after-write consistency (spec section 8): a successful read        *)
(* returns, for every unit, what the last write or trim executed before it *)
(* (on any connection) left there.                                         *)
ReadsSeeLatestWrites ==
    \A c \in Conns : \A i \in 1..Len(CmdReplies(c)) :
        LET r == CmdReplies(c)[i]
            q == ReplyingReqs(c)[i]
        IN q.cmd = "READ" /\ r.err = "OK" =>
             r.data = [k \in 1..q.len |-> Contents(SubSeq(applied, 1, r.seen),
                                                   q.off + k - 1)]

(* In the new-style handshake the only way into the command phase is an   *)
(* export-name option carrying exactly the configured name (spec section  *)
(* 8): a connection that is pushing data, or that got an export-info or a  *)
(* command reply, was sent that option by its client.                     *)
OnlyExactNameOpensExport ==
    ~OldStyle =>
      \A c \in Conns :
        (\/ conn[c] = "DATA_PUSHING"
         \/ \E i \in 1..Len(out[c]) : out[c][i].kind \in {"export_info", "cmd"})
        => \E i \in 1..Len(history[c]) :
              history[c][i] = OptMsg(TRUE, "EXPORT_NAME", ExportName)

(* Every well-formed read, write, flush or trim a client sends is          *)
(* eventually answered: nbd_client_handler keeps draining its input while  *)
(* bytes are buffered, so no request is left behind in the evbuffer when   *)
(* the client falls silent.  A client sends at most MaxMsgs messages, so   *)
(* this is: eventually every request sent so far is answered, for good.    *)
EveryRequestAnswered ==
    \A c \in Conns :
        <>[](Len(CmdReplies(c)) = Len(ReplyingReqs(c)) \/ ~Running)

(* The callback of c answers an unsupported option it never drains, and   *)
(* iterates on it for ever (finding 1).                                    *)
SpinsOnOption(c) ==
    /\ active = c /\ conn[c] = "ZERO_RECEIVED" /\ stream[c] # <<>>
    /\ Buffered(c, HdrLen) /\ Head1(c).ok /\ Head1(c).opt \in {"LIST", "UNKNOWN"}

(* A client that closes its socket is eventually freed, whatever state the *)
(* handshake or the request loop was in: before its acknowledgement, after *)
(* a wrong name or option magic, or with a request of wrong magic stuck at *)
(* the head of its buffer.  libevent reports the EOF once the read         *)
(* callbacks have consumed what they could, and nbd_ev_handler frees the   *)
(* client; only a callback that never returns (the unsupported-option     *)
(* spin) or a stopped process keeps it.                                    *)
ClosedClientsFreed ==
    \A c \in Conns :
        <>[](peer[c] \in {"closed", "eof"} =>
               conn[c] = "FREED" \/ ~Running \/ SpinsOnOption(c))

(* The server as a block device (module BlockDevice): the store is the     *)
(* backing file, a connection's pending requests are the read, write,      *)
(* flush and trim requests its client sent beyond those answered, and its  *)
(* answers are the command replies without the history field.              *)
BD == INSTANCE BlockDevice WITH
        store    <- disk,
        pending  <- [c \in Conns |-> SubSeq(ReplyingReqs(c), Len(CmdReplies(c)) + 1,
                                            Len(ReplyingReqs(c)))],
        answered <- [c \in Conns |-> [i \in 1 .. Len(CmdReplies(c)) |->
                        [handle |-> CmdReplies(c)[i].handle, err |-> CmdReplies(c)[i].err,
                         data |-> CmdReplies(c)[i].data]]],
        Requests <- {m \in ClientReqs : m.ok /\ m.cmd \in {"READ", "WRITE", "FLUSH", "TRIM"}},
        InitStore <- InitDisk

(* Every step of the event loop, on any connection, is a step of the block *)
(* device or leaves it alone: each reply answers the oldest unanswered     *)
(* request of its connection, and the backing file changes exactly when a  *)
(* write or trim is answered with success, by exactly that request's      *)
(* range.  This is what __handle_write, fallocate and the reply written in *)
(* the same callback together guarantee; it fails if a failed pwrite left  *)
(* a change, if a success reply went out before the data reached the file, *)
(* or if a reply carried another request's handle.                         *)
ImplementsBlockDevice == BD!BDSpec

-----------------------------------------------------------------------------
(***************************************************************************)
(* What spec.md states of the engine and the code does not do; each is     *)
(* checked by a run that expects a violation.                              *)
(***************************************************************************)

(* Spec 4.3: every iteration of the drain loop of nbd_client_handler       *)
(* that does not return to the event loop either consumes input or changes *)
(* the client's state, so the callback returns once the complete messages  *)
(* are processed.  Only the callback's own steps count: the client may     *)
(* send meanwhile.                                                         *)
LoopIterationsConsume ==
    [][\A c \in Conns :
         (Handler(c) /\ active' = c /\ fault' = "none")
           => (avail' # avail \/ conn' # conn)]_vars

(* Spec 4.3: Disconnected is terminal and no further bytes are processed:  *)
(* the loop never touches a client that NBD_CMD_DISC freed.               *)
NoUseAfterFree == fault # "use_after_free"

(* Spec 8: a request header with a wrong magic number always ends in       *)
(* disconnection.                                                          *)
BadMagicDisconnects ==
    \A c \in Conns :
        (/\ conn[c] = "DATA_PUSHING" /\ stream[c] # <<>>
         /\ avail[c] >= HdrLen /\ ~Head1(c).ok)
        ~> (conn[c] \in {"DISCONNECTED", "FREED"} \/ ~Running)

(* Spec 8 (end to end): a read of a range of the export that was never     *)
(* written is answered; __handle_read does not spin at the end of file.    *)
ReadsNeverSpin == fault # "hang"

(* Spec 4.4: a header the buffer cannot grow for is rejected by            *)
(* disconnecting, never by stopping the process (a zero-length read or     *)
(* write after an earlier one).                                            *)
ZeroLengthNoAbort == fault # "abort"

(* Spec 4.4: a failed read is replied with an error header and no payload. *)
ErrorRepliesCarryNoData ==
    \A c \in Conns : \A i \in 1..Len(CmdReplies(c)) :
        CmdReplies(c)[i].err # "OK" => CmdReplies(c)[i].data = <<>>

=============================================================================
