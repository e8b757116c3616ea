----------------------------- MODULE MCBitArray -----------------------------
(* Inputs for checking BitArray: the block counts gray-crawler would pass  *)
(* for 32 KiB and 64 KiB images (both powers of two), bits inside and past *)
(* either length, and data and junk bytes with and without ones in them.   *)
(* With them, async_queuer's read_loop, which feeds the writes it reads to *)
(* the queue with this filter: a header of two units, reads of one or two  *)
(* units, streams of up to two writes of up to two sectors.                *)
(* And gray-crawler's main, which sizes and writes this filter, over every *)
(* content of its four partitions and every first failing call.  And the  *)
(* inference engine's read_loop, over up to three dequeues.                *)
(* START_SIZE is 16 rather than 4096 so that the 47- and 48-byte documents *)
(* make check_size resize twice, as documents past 4 KiB do in the code.   *)
EXTENDS BitArray, AsyncQueuer, GrayCrawler, InferenceEngine

MCLengths == {8, 16}
MCBits == {3, 9, 12, 16}
MCDataBytes == {{}, {1, 6}}
MCJunkBytes == {{}, {5}}

(* read_loop hands over whole writes only, in order and intact, and ends  *)
(* in EXIT_SUCCESS exactly when it should (ReadLoopHandsOverWholeWrites of *)
(* AsyncQueuer).  That is a constant, computed once; it is stated of      *)
(* every state the filter reaches so that a false one is reported as a    *)
(* violated invariant.                                                     *)
MCReadLoopHandsOverWholeWrites == live \in BOOLEAN /\ ReadLoopHandsOverWholeWrites

(* gray-crawler writes the index in order, each recognised partition once  *)
(* (CrawlerWritesEachPartitionOnce of GrayCrawler), stated like the above. *)
MCCrawlerWritesEachPartitionOnce == live \in BOOLEAN /\ CrawlerWritesEachPartitionOnce

(* gray-crawler releases the files, the bitmap and every probed crawler    *)
(* exactly once on every path (CrawlerReleasesEverything of GrayCrawler).  *)
MCCrawlerReleasesEverything == live \in BOOLEAN /\ CrawlerReleasesEverything

(* The inference engine frees each dequeued buffer exactly once           *)
(* (EachBufferFreedOnce of InferenceEngine).                               *)
MCEachBufferFreedOnce == live \in BOOLEAN /\ EachBufferFreedOnce
=============================================================================
