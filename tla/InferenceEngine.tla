-------------------------- MODULE InferenceEngine --------------------------
(***************************************************************************)
(* read_loop of src/src/stream_analyzer/inference_engine_ntfs.c: after     *)
(* reading the NTFS boot file and the partition offset from Redis, it      *)
(* dequeues block writes one at a time, infers and inspects each, and      *)
(* frees its data, until a dequeue fails.  The dequeue, the inference and  *)
(* the inspection are in libraries outside the repository: what a dequeue  *)
(* does to write.data is an input, and so is whether the two lookups       *)
(* before the loop succeed.  read_loop is an operator from those inputs to *)
(* the calls it made and what it returns.  Buffers are numbered by the     *)
(* dequeue that allocated them.                                            *)
(***************************************************************************)
EXTENDS Naturals, Sequences, SequencesExt

(* What redis_async_write_dequeue may do: succeed with a fresh buffer in   *)
(* write.data, or fail after allocating one, or fail leaving write.data    *)
(* as it found it.                                                         *)
DequeueResults == {"ok", "fail_alloc", "fail_untouched"}

NULL == 0

(* The top of while (1): write.data = NULL. *)
LoopTopNoReset(data) == data  \* variant: without the reset
LoopTop(data) == NULL

(* The loop from the dequeue with results rs on; counter is write_counter, *)
(* data the value write.data holds, t the calls made so far.               *)
RECURSIVE Loop(_, _, _, _)
Loop(rs, counter, data, t) ==
    IF rs = <<>> THEN [trace |-> t, exit |-> "running"]
    ELSE LET d    == LoopTop(data)
             new  == counter + 1
             held == IF Head(rs) = "fail_untouched" THEN d ELSE new
             freeIt == IF held # NULL THEN <<<<"free", held>>>> ELSE <<>>
         IN IF Head(rs) # "ok"
              THEN [trace |-> t \o freeIt, exit |-> "success"]
              ELSE Loop(Tail(rs), counter + 1, held,
                        t \o <<<<"infer", held>>, <<"inspect", held, counter>>>> \o freeIt)

(* read_loop: the boot file and the partition offset, then the loop. *)
NtfsReadLoop(bootf, ptoff, rs) ==
    IF ~bootf \/ ~ptoff THEN [trace |-> <<>>, exit |-> "failure"]
    ELSE Loop(rs, 0, NULL, <<>>)

(* read_loop frees every buffer a dequeue allocated exactly once, after   *)
(* the write in it was inspected, and frees nothing else: not NULL, and    *)
(* not the buffer of an earlier write again when a failed dequeue leaves   *)
(* write.data alone (the reset at the top of the loop).                   *)
EachBufferFreedOnce ==
    \A rs \in BoundedSeq(DequeueResults, 3), bootf, ptoff \in BOOLEAN :
      \A o \in {NtfsReadLoop(bootf, ptoff, rs)} :
        LET t == o.trace
            allocated == {k \in 1 .. Len(rs) :
                            /\ bootf /\ ptoff
                            /\ rs[k] \in {"ok", "fail_alloc"}
                            /\ \A j \in 1 .. k - 1 : rs[j] = "ok"}
            at(e) == {i \in DOMAIN t : t[i] = e}
        IN /\ \A i \in DOMAIN t : t[i][1] = "free" => t[i][2] \in allocated
           /\ \A b \in allocated :
                /\ Cardinality(at(<<"free", b>>)) = 1
                /\ \A i \in at(<<"free", b>>), j \in DOMAIN t :
                     t[j][1] = "inspect" /\ t[j][2] = b => j < i
=============================================================================
