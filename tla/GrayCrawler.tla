---------------------------- MODULE GrayCrawler ----------------------------
(***************************************************************************)
(* main of src/src/gray-crawler/gray-crawler.c: parse the MBR, size the    *)
(* block bitmap, write the MBR, then for each of the four partitions probe *)
(* the file-system crawlers in turn and write the partition entry and the  *)
(* file system of the first that recognises it, and finally write the      *)
(* bitmap.  The parsers, probes and serializers are in libraries outside   *)
(* the repository; what each returns is an input.  Since every failure     *)
(* returns at once, an input is the partitions' contents and the first     *)
(* call that fails.  main is then an operator from the input to what it   *)
(* did: the calls it made, in order, and its exit status.                  *)
(***************************************************************************)
EXTENDS Naturals, Sequences, SequencesExt

(* crawlers[], without its guard entry. *)
Crawlers == <<"ext4", "ntfs">>
(* for (i = 0; i < 4; i++) *)
Partitions == 0 .. 3

(* A partition: whether mbr_partition_offset is positive, and the set of   *)
(* the crawlers whose probe recognises it.                                 *)
Contents == {[used |-> FALSE, rec |-> {}]} \cup [used : {TRUE}, rec : SUBSET DOMAIN Crawlers]
(* The calls whose failure makes main return EXIT_FAILURE, and the final  *)
(* bitarray_serialize, whose fwrite failing makes bson_writef free the     *)
(* buffer and bson_cleanup free it again.                                  *)
FailSites == {<<"mbr_parse">>, <<"fstat">>, <<"bits_alloc">>, <<"mbr_ser">>,
              <<"bits_ser">>, <<"none">>}
             \cup {<<"part_ser", i>> : i \in Partitions}
             \cup {<<"fs_ser", i>> : i \in Partitions}
(* The failures that leave bits NULL when main cleans up. *)
Unallocated == {<<"mbr_parse">>, <<"fstat">>, <<"bits_alloc">>}
Inputs == [part : [Partitions -> Contents], failAt : FailSites]

(* cleanup(disk, sockfp, bits): both files are open by then; bits is NULL  *)
(* until bitarray_init has succeeded.                                      *)
Cleanup(bits) == <<<<"fclose_disk">>, <<"fclose_sock">>>> \o (IF bits THEN <<<<"destroy_bits">>>> ELSE <<>>)

Fail(t) == [trace |-> t, exit |-> "failure"]

(* The probe loop's condition: crawler->fs_name && !present. *)
KeepProbingAll(j, present) == j <= Len(Crawlers)  \* variant: without !present
KeepProbing(j, present) == j <= Len(Crawlers) /\ ~present

(* A failed partition or file-system write: crawler->cleanup, cleanup, return. *)
FailInProbeNoFsCleanup(t, i, j) == Fail(t \o Cleanup(TRUE))  \* variant: no crawler->cleanup
FailInProbe(t, i, j) == Fail(Append(t, <<"cleanup_fs", i, j>>) \o Cleanup(TRUE))

(* while (crawler->fs_name && !present) for partition i, from the j-th    *)
(* crawler on: probe; if it recognises the partition, write the partition *)
(* entry and the file system; then crawler->cleanup and the next crawler. *)
RECURSIVE ProbeLoop(_, _, _, _, _)
ProbeLoop(in, i, j, present, t) ==
    IF ~KeepProbing(j, present) THEN [trace |-> t, exit |-> "running"]
    ELSE LET tp == Append(t, <<"probe", i, j>>)
             tw == Append(tp, <<"part_ser", i>>)
             tf == Append(tw, <<"fs_ser", i, j>>)
         IN CASE j \notin in.part[i].rec         ->
                   ProbeLoop(in, i, j + 1, present, Append(tp, <<"cleanup_fs", i, j>>))
              [] in.failAt = <<"part_ser", i>>  -> FailInProbe(tw, i, j)
              [] in.failAt = <<"fs_ser", i>>    -> FailInProbe(tf, i, j)
              [] OTHER                         ->
                   ProbeLoop(in, i, j + 1, TRUE, Append(tf, <<"cleanup_fs", i, j>>))

(* for (i = 0; i < 4; i++), from partition i on; a partition whose offset *)
(* is 0 is skipped.                                                        *)
RECURSIVE PartitionLoop(_, _, _)
PartitionLoop(in, i, t) ==
    IF i \notin Partitions THEN [trace |-> t, exit |-> "running"]
    ELSE IF ~in.part[i].used THEN PartitionLoop(in, i + 1, t)
    ELSE LET r == ProbeLoop(in, i, 1, FALSE, t)
         IN IF r.exit = "failure" THEN r ELSE PartitionLoop(in, i + 1, r.trace)

(* main from the MBR parse on.  bitarray_serialize and fflush are called   *)
(* for their effect only: main ignores what they return.  A failed write   *)
(* in bitarray_serialize never returns: glibc aborts the process on the    *)
(* double free (bson-encoder.c 480, then 500) before cleanup runs.  A      *)
(* failed fflush is ignored and main reports success.                      *)
Main(in) ==
    CASE in.failAt \in Unallocated -> Fail(Cleanup(FALSE))
      [] in.failAt = <<"mbr_ser">> -> Fail(<<<<"mbr_ser">>>> \o Cleanup(TRUE))
      [] OTHER ->
           LET r == PartitionLoop(in, 0, <<<<"mbr_ser">>>>)
           IN CASE r.exit = "failure"         -> r
                [] in.failAt = <<"bits_ser">>  ->
                     [trace |-> Append(r.trace, <<"bits_ser">>), exit |-> "abort"]
                [] OTHER ->
                     [trace |-> r.trace \o <<<<"bits_ser">>, <<"fflush">>>> \o Cleanup(TRUE),
                      exit |-> "success"]

(* Reference: what the index should hold: the MBR, then for each partition *)
(* that some crawler recognises, in order, its entry and its file system   *)
(* as the first such crawler writes it, then the bitmap.                   *)
FirstCrawler(s) == CHOOSE j \in s : \A k \in s : j <= k
Recognised(in) == SelectSeq([k \in 1 .. 4 |-> k - 1],
                            LAMBDA i : in.part[i].rec # {})
Index(in) ==
    <<<<"mbr_ser">>>>
    \o FlattenSeq([k \in DOMAIN Recognised(in) |->
                    LET i == Recognised(in)[k]
                    IN <<<<"part_ser", i>>, <<"fs_ser", i, FirstCrawler(in.part[i].rec)>>>>])
    \o <<<<"bits_ser">>>>
IsWrite(e) == e[1] \in {"mbr_ser", "part_ser", "fs_ser", "bits_ser"}
Releases == {<<"fclose_disk">>, <<"fclose_sock">>, <<"destroy_bits">>}
Count(t, e) == Len(SelectSeq(t, LAMBDA x : x = e))

(* main writes the index in order and each recognised partition once, by   *)
(* the first crawler that recognises it even when a later one would too    *)
(* (the !present in the probe loop): on EXIT_SUCCESS its writes are the    *)
(* whole index, and when it fails or aborts a prefix of it.                *)
CrawlerWritesEachPartitionOnce ==
    \A in \in Inputs : \A o \in {Main(in)} :
      \A w \in {SelectSeq(o.trace, IsWrite)} :
        /\ o.exit = "success" => w = Index(in)
        /\ IsPrefix(w, Index(in))

(* Whatever call fails, every crawler probed is cleaned up before the     *)
(* next probe (crawler->cleanup on the loop's path and on both early       *)
(* returns in it), and a main that returns releases everything exactly     *)
(* once, last: the disk and the socket are closed and the bitmap is        *)
(* destroyed if it was allocated.  The abort in bitarray_serialize         *)
(* releases nothing.                                                       *)
CrawlerReleasesEverything ==
    \A in \in Inputs : \A o \in {Main(in)} :
      LET t    == o.trace
          bits == in.failAt \notin Unallocated
          pc   == SelectSeq(t, LAMBDA e : e[1] \in {"probe", "cleanup_fs"})
      IN /\ o.exit # "abort" =>
              /\ Count(t, <<"fclose_disk">>) = 1
              /\ Count(t, <<"fclose_sock">>) = 1
              /\ Count(t, <<"destroy_bits">>) = IF bits THEN 1 ELSE 0
         /\ \A a, b \in DOMAIN t : a < b /\ t[a] \in Releases => t[b] \in Releases
         /\ Len(pc) % 2 = 0
         /\ \A k \in 1 .. Len(pc) \div 2 :
              pc[2 * k - 1][1] = "probe" /\ pc[2 * k] = <<"cleanup_fs">> \o Tail(pc[2 * k - 1])
=============================================================================
