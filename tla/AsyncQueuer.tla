---------------------------- MODULE AsyncQueuer ----------------------------
(***************************************************************************)
(* read_loop of src/src/stream_analyzer/async_queuer.c: it reads qemu's    *)
(* stream of block writes from a pipe (a header of QEMU_HEADER_SIZE bytes, *)
(* then nb_sectors sectors of data) and hands each write to the queue.     *)
(* It is one blocking loop, so it is an operator: given the bytes qemu     *)
(* wrote and what each read() call returns, the loop's outcome is fixed.   *)
(*                                                                         *)
(* A sector is one unit.  Every unit of the stream says which write it     *)
(* belongs to and where in it: a header unit also carries the fields it   *)
(* encodes (qemu_parse_header takes the sector from the first header unit  *)
(* and the count from the last), so a header assembled from the wrong     *)
(* bytes decodes to the wrong write.                                       *)
(***************************************************************************)
EXTENDS Integers, Sequences, SequencesExt

CONSTANTS
    HeaderSize,   \* QEMU_HEADER_SIZE, in units
    MaxChunk,     \* the most units one read() on the pipe returns
    MaxWrites,    \* the most block writes in a checked stream
    MaxSectors,   \* the most sectors in one checked write
    MaxReads      \* read() results chosen before the pipe hands over MaxChunk

ASSUME HeaderSize \in Nat \ {0} /\ MaxChunk \in Nat \ {0}

(* Unit i of the k-th write qemu sends: sector k, nb sectors of data. *)
Unit(k, i, nb) == [frame |-> k, i |-> i, sector |-> k, nb |-> nb]
(* Bytes of a buffer nothing has written. *)
Junk == Unit(0, 0, 0)

(* The units of the writes whose sector counts are nbs, back to back. *)
Wire(nbs) == FlattenSeq([k \in DOMAIN nbs |->
                           [i \in 1 .. HeaderSize + nbs[k] |-> Unit(k, i, nbs[k])]])

(* qemu_parse_header: sector_num and nb_sectors out of the header bytes. *)
ParseHeader(buf) == [sector |-> buf[1].sector, nb |-> buf[HeaderSize].nb]

(* One read(fd, p, want) on the pipe: -1 when the next choice is an error, *)
(* 0 once the stream is exhausted and qemu closed it, else as many units   *)
(* as the pipe hands over, up to want.  chunks holds the choices; after    *)
(* the last one the pipe hands over MaxChunk.                              *)
ReadCall(st, want) ==
    LET c == IF st.chunks = <<>> THEN MaxChunk ELSE Head(st.chunks)
        m == IF c < want THEN c ELSE want
        n == CASE c < 0 -> -1 [] m < Len(st.s) -> m [] OTHER -> Len(st.s)
    IN [ret  |-> n,
        got  |-> IF n > 0 THEN SubSeq(st.s, 1, n) ELSE <<>>,
        st   |-> [st EXCEPT !.s = IF n > 0 THEN SubSeq(@, n + 1, Len(@)) ELSE @,
                            !.chunks = IF @ = <<>> THEN @ ELSE Tail(@)]]

(* The units got stored into x from position pos on. *)
PutAtStart(x, pos, got) ==  \* variant: every read into the start of x
    got \o SubSeq(x, Len(got) + 1, Len(x))
Put(x, pos, got) ==
    SubSeq(x, 1, pos) \o got \o SubSeq(x, pos + Len(got) + 1, Len(x))

(* The read loops of read_loop: read_ret = read(fd, &x[total], len -       *)
(* total); total += read_ret; while read_ret > 0 and total < len.  The     *)
(* first call, into &x[0], is the loop's first iteration.                  *)
RECURSIVE Fill(_, _, _, _)
Fill(st, x, total, size) ==
    LET r == ReadCall(st, size - total)
        y == Put(x, total, r.got)
    IN IF r.ret > 0 /\ total + r.ret < size
         THEN Fill(r.st, y, total + r.ret, size)
         ELSE [st |-> r.st, x |-> y, ret |-> r.ret]

(* realloc(write.data, len): the old units kept, the rest junk. *)
Resized(x, size) == [i \in 1 .. size |-> IF i <= Len(x) THEN x[i] ELSE Junk]

Outcome(st, exit) == [handled |-> st.handled, exit |-> exit]

(* One iteration of while (1) per call: the header, the EOF and error     *)
(* tests, the parse, the realloc (with glibc, realloc(p, 0) frees p and    *)
(* returns NULL, which read_loop takes for out of memory), the payload,    *)
(* then redis_async_write_enqueue, whose failure drops the write.         *)
RECURSIVE ReadLoop(_)
ReadLoop(st) ==
    LET h   == Fill(st, st.buf, 0, HeaderSize)
        hdr == ParseHeader(h.x)
        size == hdr.nb
        p   == Fill([h.st EXCEPT !.buf = h.x], Resized(st.data, size), 0, size)
        blocks == p.st.blocks # <<>> /\ Head(p.st.blocks)
        next == [p.st EXCEPT !.data = p.x,
                             !.blocks = IF @ = <<>> THEN @ ELSE Tail(@),
                             !.handled = Append(@, [sector |-> hdr.sector,
                                                    data |-> p.x,
                                                    queued |-> ~blocks])]
    IN CASE h.ret = 0   -> Outcome(h.st, "eof")
         [] h.ret < 0   -> Outcome(h.st, "fail")
         [] size = 0     -> Outcome(h.st, "fail")
         [] p.ret <= 0  -> Outcome(p.st, "fail")
         [] OTHER       -> ReadLoop(next)

(* read_loop on the stream s, with the read results chunks and the         *)
(* enqueue results blocks (TRUE: the queue would block).                   *)
RunReadLoop(s, chunks, blocks) ==
    ReadLoop([s |-> s, chunks |-> chunks, blocks |-> blocks,
              buf |-> [i \in 1 .. HeaderSize |-> Junk], data |-> <<>>,
              handled |-> <<>>])

(* Reference: the writes of a stream, as the loop should hand them over. *)
Writes(nbs) == [k \in DOMAIN nbs |->
                  [sector |-> k,
                   data |-> [j \in 1 .. nbs[k] |-> Unit(k, HeaderSize + j, nbs[k])]]]
(* How many writes lie wholly in the first n units. *)
WholeWrites(nbs, n) ==
    Len(SelectSeq([k \in DOMAIN nbs |-> Len(Wire(SubSeq(nbs, 1, k)))],
                  LAMBDA e : e <= n))

(* What the pipe may do: a split of the stream into reads of 1 to MaxChunk *)
(* units, with or without one read that fails.                             *)
Splits == [1 .. MaxReads -> 1 .. MaxChunk]
ReadResults == Splits \cup {[r EXCEPT ![i] = -1] : r \in Splits, i \in 1 .. MaxReads}

(* read_loop hands the queue whole writes only, in the order qemu sent     *)
(* them, each with the sector and the data of that write, whatever the    *)
(* stream, the way the pipe splits it into reads, read errors and queue    *)
(* drops; it returns EXIT_SUCCESS only after handing over every write that *)
(* lies wholly in the stream; and a stream of whole writes, each with      *)
(* data, read without a read error ends in EXIT_SUCCESS with all of them   *)
(* handed over, however short the reads are (the &buf[total] and          *)
(* &write.data[total] loops).                                              *)
ReadLoopHandsOverWholeWrites ==
    \A nbs \in BoundedSeq(0 .. MaxSectors, MaxWrites), chunks \in ReadResults,
       blocks \in {<<>>, <<TRUE>>} :
      \A cut \in 0 .. Len(Wire(nbs)) :
      \A o \in {RunReadLoop(SubSeq(Wire(nbs), 1, cut), chunks, blocks)} :
      \A got \in {[k \in DOMAIN o.handled |->
                     [sector |-> o.handled[k].sector, data |-> o.handled[k].data]]} :
        /\ IsPrefix(got, SubSeq(Writes(nbs), 1, WholeWrites(nbs, cut)))
        /\ o.exit = "eof" => Len(got) = WholeWrites(nbs, cut)
        /\ (/\ cut = Len(Wire(nbs))
            /\ \A k \in DOMAIN nbs : nbs[k] > 0
            /\ \A i \in 1 .. MaxReads : chunks[i] > 0)
           => o.exit = "eof" /\ got = Writes(nbs)
=============================================================================
