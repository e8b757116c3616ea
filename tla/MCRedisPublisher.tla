-------------------------- MODULE MCRedisPublisher --------------------------
(***************************************************************************)
(* The publisher on its own, fed by a writer that stands for the NBD       *)
(* connections: any of a few sectors and payloads, at most MaxPublishes    *)
(* times.                                                                  *)
(***************************************************************************)
EXTENDS RedisPublisher, TLC

CONSTANTS Sectors, Payloads, MaxPublishes

Writer ==
    /\ Len(published) < MaxPublishes
    /\ \E s \in Sectors, p \in Payloads : Publish(s, p)

PNext == Writer \/ PEnvNext

(* Redis executes what it has read and hiredis delivers the replies while  *)
(* the event loop runs.                                                    *)
PSpec == PInit /\ [][PNext]_pvars
         /\ WF_pvars(RedisExecute) /\ WF_pvars(ReplyCallback)

MCEveryPublishQueued == EveryPublishQueued(MaxPublishes)
=============================================================================
