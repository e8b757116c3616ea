---------------------------- MODULE MCNbdServer ----------------------------
(* Model values and small input sets for checking NbdServer. *)
EXTENDS NbdServer, TLC

CONSTANTS c1, c2, h1, h2, d1, d2, nm, other, longer

MCConns == {c1, c2}
MCOneConn == {c1}
MCHandles == {h1, h2}
MCNameLen == nm :> 1 @@ other :> 1 @@ longer :> 2

(* A new-style client acknowledges with zeros, or with a non-zero word. *)
MCZeros == {ZeroMsg(TRUE), ZeroMsg(FALSE)}

(* It asks for the export by the right name, a wrong name of the same     *)
(* length, a name of another length, or lists the exports.                 *)
MCOpts == {OptMsg(TRUE, "EXPORT_NAME", nm), OptMsg(TRUE, "EXPORT_NAME", other),
           OptMsg(TRUE, "EXPORT_NAME", longer), OptMsg(TRUE, "LIST", nm),
           OptMsg(TRUE, "ABORT", nm), OptMsg(FALSE, "EXPORT_NAME", nm)}

(* Well-formed traffic inside the file: reads, writes of two values,       *)
(* flush, trim and disconnect.                                             *)
MCCleanReqs ==
    {ReqMsg(TRUE, "READ", h1, 0, 1, d1), ReqMsg(TRUE, "WRITE", h2, 0, 1, d1),
     ReqMsg(TRUE, "WRITE", h1, 0, 1, d2), ReqMsg(TRUE, "FLUSH", h2, 0, 0, d1),
     ReqMsg(TRUE, "TRIM", h1, 0, 1, d1), ReqMsg(TRUE, "DISC", h2, 0, 0, d1)}

(* Past the clean traffic: a read running past the end of the file, a     *)
(* read and a write at an offset negative as off64_t, a two-unit write     *)
(* that grows the file, zero-length reads and writes, a wrong magic        *)
(* number, an unknown command, and trims inside and at a negative offset.  *)
MCEdgeReqs ==
    {ReqMsg(TRUE, "READ", h1, 0, 1, d1), ReqMsg(TRUE, "WRITE", h2, 0, 1, d1),
     ReqMsg(TRUE, "READ", h1, 0, 2, d1), ReqMsg(TRUE, "READ", h2, 3, 1, d1),
     ReqMsg(TRUE, "WRITE", h2, 1, 2, d2), ReqMsg(TRUE, "WRITE", h1, 3, 1, d1),
     ReqMsg(TRUE, "READ", h2, 0, 0, d1), ReqMsg(TRUE, "WRITE", h1, 0, 0, d1),
     ReqMsg(FALSE, "READ", h1, 0, 1, d1), ReqMsg(TRUE, "UNKNOWN", h1, 0, 0, d1),
     ReqMsg(TRUE, "TRIM", h2, 0, 1, d1), ReqMsg(TRUE, "TRIM", h1, 3, 1, d1)}

(* Everything above. *)
MCAllReqs == MCCleanReqs \cup MCEdgeReqs

(* Negotiation is followed by clean traffic and a zero-length read. *)
MCNegReqs == MCCleanReqs \cup {ReqMsg(TRUE, "READ", h2, 0, 0, d1),
                               ReqMsg(TRUE, "WRITE", h1, 0, 0, d1)}

(* Replies on one connection before the checker stops extending a run.  *)
MaxOut == 6
OutBound == \A c \in Conns : Len(out[c]) <= MaxOut

Symm == Permutations(Conns)
=============================================================================
