---------------------------- MODULE BlockDevice ----------------------------
(***************************************************************************)
(* What an NBD export promises its clients (spec sections 3 and 8): one    *)
(* store of units shared by every connection.  A connection's requests are *)
(* answered one at a time, in the order it sent them, and each takes       *)
(* effect atomically in the step that answers it: a read returns the store *)
(* as it is then, a write or a trim changes it in that step, a flush       *)
(* leaves it alone, and a failed request of any kind leaves it alone.      *)
(* Nothing is said about when a request is answered, or about the payload  *)
(* of a failed reply.                                                      *)
(***************************************************************************)
EXTENDS Naturals, Sequences, SequencesExt

CONSTANTS
    Conns,      \* the connections
    Requests,   \* requests: [cmd, handle, off, len, data]
    Zero,       \* the value of a trimmed unit
    InitStore   \* the store at startup, unit -> value

VARIABLES
    store,      \* unit -> value
    pending,    \* pending[c]: requests c sent that have no answer yet
    answered    \* answered[c]: the answers c got, [handle, err, data]

bdvars == <<store, pending, answered>>

Span(r) == {u \in DOMAIN store : r.off <= u /\ u < r.off + r.len}
Overwrite(r, v) == [u \in DOMAIN store |-> IF u \in Span(r) THEN v ELSE store[u]]
Contents(r) == [i \in 1 .. r.len |-> store[r.off + i - 1]]

BDInit ==
    /\ store = InitStore
    /\ pending = [c \in Conns |-> <<>>]
    /\ answered = [c \in Conns |-> <<>>]

(* A connection sends a request. *)
Submit(c, r) ==
    /\ pending' = [pending EXCEPT ![c] = Append(@, r)]
    /\ UNCHANGED <<store, answered>>

(* The oldest pending request of c gets the answer a. *)
AnswerWith(c, a) ==
    /\ answered' = [answered EXCEPT ![c] = Append(@, a)]
    /\ pending' = [pending EXCEPT ![c] = Tail(@)]

(* It succeeds, with its effect on the store. *)
Succeed(c) ==
    /\ pending[c] # <<>>
    /\ LET r == Head(pending[c])
           ok(data) == [handle |-> r.handle, err |-> "OK", data |-> data]
       IN CASE r.cmd = "READ"  -> AnswerWith(c, ok(Contents(r))) /\ UNCHANGED store
            [] r.cmd = "WRITE" -> AnswerWith(c, ok(<<>>)) /\ store' = Overwrite(r, r.data)
            [] r.cmd = "TRIM"  -> AnswerWith(c, ok(<<>>)) /\ store' = Overwrite(r, Zero)
            [] r.cmd = "FLUSH" -> AnswerWith(c, ok(<<>>)) /\ UNCHANGED store

(* It fails: an answer with its handle and an error, whatever the payload; *)
(* the store is left alone.                                                *)
Fail(c) ==
    /\ pending[c] # <<>>
    /\ pending' = [pending EXCEPT ![c] = Tail(@)]
    /\ DOMAIN answered' = Conns
    /\ \A d \in Conns \ {c} : answered'[d] = answered[d]
    /\ Len(answered'[c]) = Len(answered[c]) + 1
    /\ IsPrefix(answered[c], answered'[c])
    /\ Last(answered'[c]).handle = Head(pending[c]).handle
    /\ Last(answered'[c]).err # "OK"
    /\ UNCHANGED store

BDNext == \E c \in Conns : (\E r \in Requests : Submit(c, r)) \/ Succeed(c) \/ Fail(c)

BDSpec == BDInit /\ [][BDNext]_bdvars
=============================================================================
