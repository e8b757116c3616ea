---------------------------- MODULE MCNbdSystem ----------------------------
(***************************************************************************)
(* Two old-style clients writing and trimming, and the publisher, whose    *)
(* Redis may close the connection or fail once.                            *)
(***************************************************************************)
EXTENDS NbdSystem, TLC

CONSTANTS c1, c2, h1, h2, d1, d2, nm

MCConns == {c1, c2}
MCOneConn == {c1}
MCHandles == {h1, h2}
MCNameLen == nm :> 1

(* Writes of two values at two offsets, a trim, a write at an offset     *)
(* negative as off64_t, and a zero-length write.                        *)
Req(cmd, h, off, len, d) ==
    [kind |-> "req", ok |-> TRUE, opt |-> "NONE", name |-> nm, cmd |-> cmd,
     handle |-> h, off |-> off, len |-> len, data |-> d]
MCReqs ==
    {Req("WRITE", h2, 0, 1, d1), Req("WRITE", h1, 1, 1, d2),
     Req("TRIM", h1, 0, 1, d1), Req("WRITE", h2, 3, 1, d2),
     Req("WRITE", h1, 0, 0, d1)}

Symm == Permutations(Conns)
=============================================================================
