------------------------------- MODULE BitSet -------------------------------
(***************************************************************************)
(* What a struct bitarray promises its callers (gray-crawler marks the     *)
(* blocks of a disk in one, the queuer keeps a filter in one): a set of    *)
(* the bit indices 0 .. size-1, where size is the length the caller asked  *)
(* for.  Indices at or past size are ignored by every operation.  A        *)
(* serialized copy records the members at the time it was taken.           *)
(***************************************************************************)
EXTENDS Naturals, Sequences

CONSTANTS Lengths, Bits

VARIABLES
    size,       \* the length asked for at creation
    members,    \* the indices that are set
    alive,      \* the set exists (created and not yet destroyed)
    emitted     \* the member sets of the copies serialized so far

absvars == <<size, members, alive, emitted>>

InRange(b) == b < size

AbsInit == size = 0 /\ members = {} /\ alive = FALSE /\ emitted = <<>>

(* Create an empty set of n bits. *)
Create(n) ==
    /\ ~alive
    /\ size' = n /\ members' = {} /\ alive' = TRUE
    /\ UNCHANGED emitted

(* Create a set of one of the lengths holding some indices below it. *)
CreateFrom ==
    /\ ~alive
    /\ size' \in Lengths /\ members' \subseteq 0 .. size' - 1 /\ alive' = TRUE
    /\ UNCHANGED emitted

Add(b) ==
    /\ alive
    /\ members' = IF InRange(b) THEN members \cup {b} ELSE members
    /\ UNCHANGED <<size, alive, emitted>>

Remove(b) ==
    /\ alive
    /\ members' = members \ {b}
    /\ UNCHANGED <<size, alive, emitted>>

AddAll ==
    /\ alive /\ members' = 0 .. size - 1
    /\ UNCHANGED <<size, alive, emitted>>

RemoveAll ==
    /\ alive /\ members' = {}
    /\ UNCHANGED <<size, alive, emitted>>

Emit ==
    /\ alive /\ emitted' = Append(emitted, members)
    /\ UNCHANGED <<size, members, alive>>

Destroy ==
    /\ alive /\ alive' = FALSE
    /\ UNCHANGED <<size, members, emitted>>

AbsNext ==
    \/ \E n \in Lengths : Create(n)
    \/ CreateFrom
    \/ \E b \in Bits : Add(b) \/ Remove(b)
    \/ AddAll \/ RemoveAll \/ Emit \/ Destroy

AbsSpec == AbsInit /\ [][AbsNext]_absvars
=============================================================================
