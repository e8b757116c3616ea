--------------------------- MODULE RedisPublisher ---------------------------
(***************************************************************************)
(* The write-queue publisher of src/src/nbd/nbd.c: the two LPUSH commands  *)
(* __handle_write issues per successful write, the "select" issued by      *)
(* nbd_init_both, the reply callback redis_async_callback and the          *)
(* reconnect logic of redis_disconnect_callback, over one hiredis async    *)
(* context driven by the same libevent loop as the NBD connections.        *)
(*                                                                         *)
(* rpending holds the commands of the current context whose callbacks are  *)
(* outstanding, in order; Redis has already executed the first rexec of    *)
(* them.  When hiredis frees a context it runs every outstanding callback  *)
(* with a NULL reply and then, for a context that was connected, the       *)
(* disconnect callback.  Every redisAsyncCommand call of the code sits     *)
(* inside assert(), so a build with NDEBUG issues none of them, and        *)
(* nothing reads handle->redis_c: whether it still points at a live        *)
(* context is then of no consequence and is not kept.                      *)
(***************************************************************************)
EXTENDS Integers, Sequences, SequencesExt

CONSTANTS
    Dbs,            \* Redis logical databases
    Db,             \* handle->redis_db, the database selected at startup
    AssertsEnabled, \* FALSE: the build defines NDEBUG
    RedisMayBeDown, \* TRUE: a reconnect attempt may fail to connect
    MaxDrops        \* the most times Redis closes the connection

ASSUME Db \in Dbs /\ 0 \in Dbs /\ MaxDrops \in Nat
       /\ AssertsEnabled \in BOOLEAN /\ RedisMayBeDown \in BOOLEAN

VARIABLES
    rpending,   \* commands with an outstanding callback, oldest first
    rexec,      \* how many of them Redis has executed
    rdb,        \* the database the Redis session of the context has selected
    wq,         \* wq[d]: the "writequeue" list of database d, in push order
    pfault,     \* "none", or how the publisher stopped the process
    published,  \* every (sector, payload) __handle_write handed over
    drops       \* connections Redis has closed so far

pvars == <<rpending, rexec, rdb, wq, pfault, published, drops>>

Select(d) == [op |-> "select", arg |-> d]
LPush(v) == [op |-> "lpush", arg |-> v]
SectorItem(s) == <<"sector", s>>
PayloadItem(p) == <<"payload", p>>

(* The commands a fresh context starts with: the select of nbd_init_both   *)
(* or of the reconnect, compiled out with NDEBUG.                          *)
FreshCommands == IF AssertsEnabled THEN <<Select(Db)>> ELSE <<>>

PInit ==
    /\ rpending = FreshCommands
    /\ rexec = 0
    /\ rdb = 0
    /\ wq = [d \in Dbs |-> <<>>]
    /\ pfault = "none"
    /\ published = <<>>
    /\ drops = 0

(* Variant: the payload pushed before the sector index. *)
PublishSwapped(sector, payload) ==
    /\ pfault = "none"
    /\ published' = Append(published, <<sector, payload>>)
    /\ rpending' = rpending \o <<LPush(PayloadItem(payload)),
                                LPush(SectorItem(sector))>>
    /\ UNCHANGED <<rexec, rdb, wq, drops, pfault>>

(* __handle_write after the data reached the file: the sector index and    *)
(* the payload go out as two LPUSH commands on handle->redis_c, inside     *)
(* assert().  With asserts the context is live: every path that frees it  *)
(* aborts first.                                                           *)
Publish(sector, payload) ==
    /\ pfault = "none"
    /\ published' = Append(published, <<sector, payload>>)
    /\ rpending' = rpending \o (IF AssertsEnabled
                                THEN <<LPush(SectorItem(sector)),
                                       LPush(PayloadItem(payload))>>
                                ELSE <<>>)
    /\ UNCHANGED <<rexec, rdb, wq, pfault, drops>>

(* The Redis server executes the next command it has read. *)
RedisExecute ==
    /\ pfault = "none"
    /\ rexec < Len(rpending)
    /\ LET cmd == rpending[rexec + 1] IN
       IF cmd.op = "select"
         THEN rdb' = cmd.arg /\ UNCHANGED wq
         ELSE wq' = [wq EXCEPT ![rdb] = Append(@, cmd.arg)] /\ UNCHANGED rdb
    /\ rexec' = rexec + 1
    /\ UNCHANGED <<rpending, pfault, published, drops>>

(* hiredis reads a reply and runs redis_async_callback with it. *)
ReplyCallback ==
    /\ pfault = "none"
    /\ rexec > 0
    /\ rpending' = Tail(rpending)
    /\ rexec' = rexec - 1
    /\ UNCHANGED <<rdb, wq, pfault, published, drops>>

(* Variant: redis_async_callback tolerating a NULL reply. *)
NullRepliesIgnored == FALSE

(* The outstanding callbacks run with a NULL reply when the context is     *)
(* freed: assert(reply != NULL) in redis_async_callback.                   *)
NullRepliesAbort == rpending # <<>> /\ AssertsEnabled

(* Variant: the reconnect that does not re-issue the select. *)
RedisClosesNoReselect ==
    /\ pfault = "none" /\ drops < MaxDrops
    /\ ~NullRepliesAbort
    /\ drops' = drops + 1
    /\ rpending' = <<>>
    /\ rexec' = 0
    /\ rdb' = 0
    /\ UNCHANGED <<pfault, wq, published>>

(* Redis closes the connection (idle timeout, CLIENT KILL, restart):       *)
(* hiredis reads EOF.  redis_disconnect_callback then reconnects, attaches *)
(* the new context and re-issues the select.  If Redis cannot be reached, *)
(* hiredis frees the new context and the pending select gets a NULL reply *)
(* (an abort with asserts; without them no select was issued).            *)
RedisCloses ==
    /\ pfault = "none" /\ drops < MaxDrops
    /\ drops' = drops + 1
    /\ \/ /\ NullRepliesAbort
          /\ pfault' = "abort"
          /\ UNCHANGED <<rpending, rexec, rdb>>
       \/ /\ ~NullRepliesAbort
          /\ rpending' = FreshCommands
          /\ rexec' = 0
          /\ rdb' = 0
          /\ UNCHANGED pfault
       \/ /\ ~NullRepliesAbort /\ RedisMayBeDown /\ AssertsEnabled
          /\ pfault' = "abort"
          /\ UNCHANGED <<rpending, rexec, rdb>>
    /\ UNCHANGED <<wq, published>>

(* Any other disconnection (REDIS_ERR_IO, e.g. a reset): NULL replies and  *)
(* then assert(false); without asserts the callback returns, and nothing  *)
(* was pending.                                                            *)
RedisFails ==
    /\ pfault = "none" /\ drops < MaxDrops
    /\ drops' = drops + 1
    /\ pfault' = IF AssertsEnabled THEN "abort" ELSE pfault
    /\ UNCHANGED <<rpending, rexec, rdb, wq, published>>

(* Steps the Redis side and hiredis take on their own. *)
PEnvNext == RedisExecute \/ ReplyCallback \/ RedisCloses \/ RedisFails

-----------------------------------------------------------------------------
(***************************************************************************)
(* Properties of the publisher.                                            *)
(***************************************************************************)
Items(pairs) == FlattenSeq([i \in DOMAIN pairs |->
                            <<SectorItem(pairs[i][1]), PayloadItem(pairs[i][2])>>])

(* Every LPUSH Redis executes lands in the database chosen at startup,     *)
(* also after redis_disconnect_callback replaced the context (a new Redis  *)
(* session starts in database 0).                                          *)
PushesLandInConfiguredDb == \A d \in Dbs \ {Db} : wq[d] = <<>>

(* s is what remains of t after removing some of its elements: t read at *)
(* some of its indices, in increasing order.                               *)
IsSubsequence(s, t) ==
    \E D \in SUBSET DOMAIN t :
        LET idx == SetToSortSeq(D, <)
        IN  s = [i \in DOMAIN idx |-> t[idx[i]]]

(* The queue holds sector and payload items in the order the writes were   *)
(* published, possibly with some missing (spec section 4.5: ordering of    *)
(* the writes of one connection is preserved).                             *)
QueuedInPublishOrder == IsSubsequence(wq[Db], Items(published))

(* The consumer reads the queue two items at a time (async_queuer pops a  *)
(* sector, then its payload).  While the process runs, the queue is whole  *)
(* sector/payload pairs of published writes, followed at most by one      *)
(* sector whose payload LPUSH is the next command Redis executes: no       *)
(* reconnect of redis_disconnect_callback and no reply callback separates  *)
(* the two LPUSH of one write.  (A process that stopped may leave half a   *)
(* pair; nothing restarts it here.)                                        *)
QueuedPairsIntact ==
    pfault = "none" =>
      LET q == wq[Db]
          whole == 2 * (Len(q) \div 2)
      IN /\ \A k \in 1 .. whole \div 2 :
               /\ q[2 * k - 1][1] = "sector" /\ q[2 * k][1] = "payload"
               /\ <<q[2 * k - 1][2], q[2 * k][2]>> \in Range(published)
         /\ Len(q) > whole =>
               /\ q[Len(q)][1] = "sector"
               /\ rexec < Len(rpending)
               /\ rpending[rexec + 1].op = "lpush"
               /\ rpending[rexec + 1].arg[1] = "payload"

(* Every write handed to the publisher is eventually in the queue, unless  *)
(* the process stopped first (spec section 4.5: publish is best effort    *)
(* only across failures of the queue connection).                          *)
EveryPublishQueued(maxPub) ==
    \A n \in 1..maxPub :
        (Len(published) >= n) ~> (Len(wq[Db]) >= 2 * n \/ pfault # "none")

(* A timeout-class disconnect (Redis closing the connection) is not fatal: *)
(* redis_disconnect_callback reconnects and the process carries on.        *)
TimeoutDisconnectRecovers == [][RedisCloses => pfault' = "none"]_pvars
=============================================================================
