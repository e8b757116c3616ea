----------------------------- MODULE NbdSystem -----------------------------
(***************************************************************************)
(* The whole nbd-queuer process: the NBD engine of NbdServer and the       *)
(* write-queue publisher of RedisPublisher on one libevent loop.  A write  *)
(* that reached the backing file is handed to the publisher in the same    *)
(* step (__handle_write issues the two LPUSH before it returns), and the   *)
(* hiredis callbacks run between NBD read callbacks.  A fault of either   *)
(* part stops the one process both live in.                                *)
(***************************************************************************)
EXTENDS Integers, Sequences, SequencesExt

CONSTANTS
    Conns, NoConn, OldStyle, ExportName, NameLen, Handles, NoHandle, Data,
    Orig, Zero, Garbage, HdrLen, FileSize0, OffLimit, MaxChunk,
    MaxMsgs, ClientZeros, ClientOpts, ClientReqs, AssertsEnabled, IoErrors,
    SendsAfterDisc, ClosingConns, SocketErrors, ShortWrites,
    Dbs, Db, RedisMayBeDown, MaxDrops

VARIABLES
    conn, stream, avail, out, buf, active, disk, fsize, fault, history,
    phase, applied, peer,
    rpending, rexec, rdb, wq, pfault, published, drops

S == INSTANCE NbdServer
P == INSTANCE RedisPublisher

svars == <<conn, stream, avail, out, buf, active, disk, fsize, fault, history,
           phase, applied, peer>>
pvars == <<rpending, rexec, rdb, wq, pfault, published, drops>>
allvars == <<svars, pvars>>

Alive == fault = "none" /\ pfault = "none"

Init == S!Init /\ P!PInit

(* The successful writes among the mutations of the backing file, as the  *)
(* (sector, payload) pairs __handle_write publishes: the offset divided by *)
(* 512 is the sector, and offsets are counted in sectors here.             *)
WritePairs(ops) ==
    LET ws == SelectSeq(ops, LAMBDA o : o.op = "write")
    IN [i \in DOMAIN ws |-> <<ws[i].off, ws[i].data>>]

(* Variant: the publish issued whenever the write was answered, failed or *)
(* not.                                                                    *)
WriteAndPublishOnReply(c) ==
    /\ S!HandleWrite(c)
    /\ IF out' # out
         THEN P!Publish(S!Head1(c).off, S!Head1(c).data)
         ELSE UNCHANGED pvars

(* NBD_CMD_WRITE with its publish: the LPUSH pair goes out exactly when    *)
(* the write() loop completed, the path on which __handle_write returns 0 *)
(* and the callback replies with success.                                  *)
WriteAndPublish(c) ==
    /\ S!HandleWrite(c)
    /\ IF out' # out /\ Last(out'[c]).err = "OK"
         THEN P!Publish(S!Head1(c).off, S!Head1(c).data)
         ELSE UNCHANGED pvars

(* Every other step of the NBD engine leaves the publisher alone. *)
ServerStep(c) ==
    /\ \/ S!Accept(c) \/ S!ClientSend(c) \/ S!Arrive(c)
       \/ S!LoopExit(c) \/ S!CheckZeroHandshake(c) \/ S!CheckOptHeader(c)
       \/ S!FreeDisconnected(c) \/ S!UseAfterFree(c) \/ S!RequestWaits(c)
       \/ S!HandleRead(c) \/ S!HandleDisc(c) \/ S!HandleFlush(c)
       \/ S!HandleTrim(c) \/ S!HandleUnknown(c)
       \/ S!ClientCloses(c) \/ S!EvEof(c) \/ S!EvError(c)
    /\ UNCHANGED pvars

(* hiredis callbacks are libevent callbacks: they run when no NBD read     *)
(* callback does.  The Redis server executes commands on its own.          *)
RedisStep ==
    /\ \/ active = NoConn /\ (P!ReplyCallback \/ P!RedisCloses \/ P!RedisFails)
       \/ P!RedisExecute
    /\ UNCHANGED svars

Next ==
    \/ Alive /\ \E c \in Conns : ServerStep(c) \/ WriteAndPublish(c)
    \/ Alive /\ RedisStep

Spec == Init /\ [][Next]_allvars

-----------------------------------------------------------------------------
(* The LPUSH items of the commands hiredis has sent and Redis has yet to   *)
(* execute, oldest first.                                                  *)
Unexecuted == LET cmds == SubSeq(rpending, rexec + 1, Len(rpending))
                  pushes == SelectSeq(cmds, LAMBDA cmd : cmd.op = "lpush")
              IN [i \in DOMAIN pushes |-> pushes[i].arg]

(* While the process runs, the Redis write queue followed by the pushes in *)
(* flight is exactly the sector and payload items of the writes that       *)
(* reached the backing file, in the order they reached it: no failed write *)
(* or trim published, no write lost or pushed twice, none into another     *)
(* database, across Redis closing the connection and the reconnect of      *)
(* redis_disconnect_callback, whatever the interleaving of the clients'   *)
(* callbacks with hiredis's.                                               *)
QueueFollowsFile ==
    Alive => wq[Db] \o Unexecuted = P!Items(WritePairs(applied))
====
