------------------------------ MODULE BitArray ------------------------------
(***************************************************************************)
(* struct bitarray of src/src/datastructures/bitarray.c: a length in bits  *)
(* and a malloc'ed byte array.  A byte is the set of its bit positions     *)
(* 0..7 that are 1, so "|= 1 << (bit & 0x07)" is a union and "&= 0xff ^    *)
(* mask" a set difference.  Bytes malloc returns and nothing writes hold   *)
(* one of JunkBytes (reading them is undefined; the model lets them hold   *)
(* any of a few patterns).  bitarray_serialize runs the encoder of Bson    *)
(* on a document holding the first len/8 bytes of the array and writes it; *)
(* images holds the bytes of every document written.                       *)
(***************************************************************************)
EXTENDS Naturals, Sequences
LOCAL INSTANCE FiniteSetsExt

CONSTANTS
    Lengths,        \* the len arguments callers pass to the init functions
    Bits,           \* the bit arguments of get/set/unset
    DataBytes,      \* byte values of the buffer bitarray_init_data copies
    JunkBytes,      \* what an uninitialized byte of malloc'ed memory holds
    MaxSerialize,   \* serializations before the checker stops extending
    StartSize,      \* START_SIZE of the BSON encoder
    SubtypeBytes,   \* what the never-assigned value.subtype may hold
    WriteErrors     \* whether fwrite of the document may fail

ASSUME Lengths \subseteq Nat \ {0} /\ Bits \subseteq Nat
       /\ JunkBytes \subseteq SUBSET (0 .. 7) /\ JunkBytes # {}
       /\ DataBytes \subseteq SUBSET (0 .. 7) /\ MaxSerialize \in Nat
       /\ SubtypeBytes \subseteq 0 .. 255 /\ SubtypeBytes # {}
       /\ WriteErrors \in BOOLEAN

VARIABLES
    requested,  \* the len argument of the init call that made the array
    len,        \* bits->len
    array,      \* bits->array: byte index -> set of bit positions that are 1
    live,       \* the struct is allocated (init returned, destroy not called)
    images,     \* the BSON documents bitarray_serialize has written so far
    fault       \* "none"; "overflow": memcpy wrote past bits->array;
                \* "double_free": bson_cleanup freed the buffer again

vars == <<requested, len, array, live, images, fault>>

(* highest_set_bit64(n): the index of the most significant 1 of n > 0. *)
HighestSetBit(n) == CHOOSE k \in 0 .. 63 : 2^k <= n /\ n < 2^(k + 1)

(* malloc((bits->len + 7) / 8) for the array. *)
ArrayBytes(l) == (l + 7) \div 8
Malloc(l) == [0 .. ArrayBytes(l) - 1 -> JunkBytes]

(* memset / memcpy of the first k bytes of a. *)
Memset(a, k, v) == [i \in DOMAIN a |-> IF i < k THEN v ELSE a[i]]
Memcpy(a, k, src) == [i \in DOMAIN a |-> IF i < k THEN src[i] ELSE a[i]]

Init ==
    /\ requested = 0 /\ len = 0 /\ array = <<>> /\ live = FALSE
    /\ images = <<>> /\ fault = "none"

Running == fault = "none"

(* bitarray_get_bit: bits at or past len read as false. *)
GetBit(b) == b < len /\ (b % 8) \in array[b \div 8]

(* bitarray_init: round len down to a power of two, allocate, and clear    *)
(* the first len/8 bytes (bitarray_unset_all).                             *)
BitarrayInit(n) ==
    /\ Running /\ ~live
    /\ LET l == 2^HighestSetBit(n)
       IN /\ len' = l
          /\ \E a \in Malloc(l) : array' = Memset(a, l \div 8, {})
    /\ requested' = n /\ live' = TRUE
    /\ UNCHANGED <<images, fault>>

(* bitarray_init_data: as bitarray_init, but the first n/8 bytes are       *)
(* copied from data, n being the length asked for, not the rounded one.    *)
BitarrayInitData(n, data) ==
    /\ Running /\ ~live
    /\ LET l == 2^HighestSetBit(n)
       IN /\ len' = l
          /\ IF n \div 8 <= ArrayBytes(l)
               THEN /\ \E a \in Malloc(l) : array' = Memcpy(a, n \div 8, data)
                    /\ UNCHANGED fault
               ELSE fault' = "overflow" /\ UNCHANGED array
    /\ requested' = n /\ live' = TRUE
    /\ UNCHANGED images

(* Variant: the bit position not masked to the byte. *)
SetBitUnmasked(b) ==
    /\ Running /\ live
    /\ array' = IF b < len THEN [array EXCEPT ![b \div 8] = @ \cup {b}]
                           ELSE array
    /\ UNCHANGED <<requested, len, live, images, fault>>

(* bitarray_set_bit *)
SetBit(b) ==
    /\ Running /\ live
    /\ array' = IF b < len THEN [array EXCEPT ![b \div 8] = @ \cup {b % 8}]
                           ELSE array
    /\ UNCHANGED <<requested, len, live, images, fault>>

(* Variant: "&=" with the mask itself instead of its complement. *)
UnsetBitWrongMask(b) ==
    /\ Running /\ live
    /\ array' = IF b < len THEN [array EXCEPT ![b \div 8] = @ \cap {b % 8}]
                           ELSE array
    /\ UNCHANGED <<requested, len, live, images, fault>>

(* bitarray_unset_bit *)
UnsetBit(b) ==
    /\ Running /\ live
    /\ array' = IF b < len THEN [array EXCEPT ![b \div 8] = @ \ {b % 8}]
                           ELSE array
    /\ UNCHANGED <<requested, len, live, images, fault>>

(* bitarray_set_all and bitarray_unset_all: memset of len/8 bytes. *)
SetAll ==
    /\ Running /\ live
    /\ array' = Memset(array, len \div 8, 0 .. 7)
    /\ UNCHANGED <<requested, len, live, images, fault>>

UnsetAll ==
    /\ Running /\ live
    /\ array' = Memset(array, len \div 8, {})
    /\ UNCHANGED <<requested, len, live, images, fault>>

Enc == INSTANCE Bson

(* A byte of the array as the value fwrite writes. *)
ByteValue(bits) == SumSet({2^j : j \in bits})

(* The characters of the string literals of bitarray_serialize. *)
TypeKey        == <<116, 121, 112, 101>>                           \* "type"
BitarrayKey    == <<98, 105, 116, 97, 114, 114, 97, 121>>          \* "bitarray"
MetadataFilter == <<109, 101, 116, 97, 100, 97, 116, 97, 95, 102,
                    105, 108, 116, 101, 114>>                      \* "metadata_filter"

(* bitarray_serialize: fails on an empty array; else bson_init, a string   *)
(* element type = "metadata_filter", a binary element "bitarray" of the    *)
(* len/8 bytes of the array (value.subtype is never assigned), finalize,   *)
(* bson_writef, bson_cleanup.  When fwrite fails bson_writef frees the     *)
(* buffer and bson_cleanup frees it again.                                 *)
Serialize ==
    /\ Running /\ live /\ len # 0
    /\ Len(images) < MaxSerialize
    /\ \E subtype \in SubtypeBytes :
        LET size == len \div 8
            s1 == Enc!SerializeElement(Enc!BsonInit,
                    [type |-> Enc!BSON_STRING, size |-> Len(MetadataFilter),
                     key |-> TypeKey, data |-> MetadataFilter])
            s2 == Enc!SerializeElement(s1,
                    [type |-> Enc!BSON_BINARY, size |-> size, key |-> BitarrayKey,
                     subtype |-> subtype,
                     data |-> [i \in 1 .. size |-> ByteValue(array[i - 1])]])
            doc == Enc!BsonFinalize(s2)
        IN IF doc.hang
             THEN fault' = "hang" /\ UNCHANGED images
             ELSE \/ images' = Append(images, Enc!Written(doc)) /\ UNCHANGED fault
                  \/ /\ WriteErrors
                     /\ fault' = IF Enc!CleanupDoubleFrees(Enc!WritefFails(doc))
                                  THEN "double_free" ELSE fault
                     /\ UNCHANGED images
    /\ UNCHANGED <<requested, len, array, live>>

(* bitarray_destroy *)
Destroy ==
    /\ Running /\ live
    /\ live' = FALSE
    /\ UNCHANGED <<requested, len, array, images, fault>>

(* The byte buffers init_data may be given for a length of n bits. *)
DataFor(n) == [0 .. n \div 8 - 1 -> DataBytes]

Next ==
    \/ \E n \in Lengths : BitarrayInit(n)
    \/ \E n \in Lengths : \E data \in DataFor(n) : BitarrayInitData(n, data)
    \/ \E b \in Bits : SetBit(b) \/ UnsetBit(b)
    \/ SetAll \/ UnsetAll \/ Serialize \/ Destroy

Spec == Init /\ [][Next]_vars

-----------------------------------------------------------------------------
TypeOK ==
    /\ len \in {0} \cup {2^HighestSetBit(n) : n \in Lengths}
    /\ DOMAIN array = 0 .. ArrayBytes(len) - 1
    /\ \A i \in DOMAIN array : array[i] \subseteq 0 .. 7
    /\ \A k \in DOMAIN images : \A i \in DOMAIN images[k] : images[k][i] \in 0 .. 255
    /\ fault \in {"none", "overflow", "double_free", "hang"}

(* A reference reader of the document, from the BSON grammar:             *)
(*   document ::= int32 e_list 0x00      (the int32 counts every byte)    *)
(*   element  ::= 0x02 e_name string | 0x05 e_name binary                  *)
(*   string   ::= int32 bytes 0x00       (the int32 counts the NUL)       *)
(*   binary   ::= int32 subtype bytes    (the int32 counts the bytes)     *)
At(doc, i) == IF i \in 1 .. Len(doc) THEN doc[i] ELSE 256
Slice(doc, m, n) == [i \in 1 .. n - m + 1 |-> At(doc, m + i - 1)]
Int32At(doc, k) ==
    At(doc, k) + 256 * At(doc, k + 1) + 65536 * At(doc, k + 2) + 16777216 * At(doc, k + 3)
(* The element at k, read as one with the given key: its tag, whether the *)
(* key and its NUL are there, its value and where the next one starts.     *)
ElementAt(doc, k, key) ==
    LET e == k + Len(key) + 1
        n == Int32At(doc, e + 1)
        string == At(doc, k) = 2
    IN [tag   |-> At(doc, k),
        ok    |-> /\ Slice(doc, k + 1, e - 1) = key /\ At(doc, e) = 0
                  /\ string => n >= 1 /\ At(doc, e + 4 + n) = 0,
        value |-> IF string THEN Slice(doc, e + 5, e + 3 + n)
                            ELSE Slice(doc, e + 6, e + 5 + n),
        next  |-> IF string THEN e + 5 + n ELSE e + 6 + n]

(* The bitarray a written document carries, or <<256>> when it is not a   *)
(* document of the two elements bitarray_serialize writes.                 *)
Carried(doc) ==
    LET e1 == ElementAt(doc, 5, TypeKey)
        e2 == ElementAt(doc, e1.next, BitarrayKey)
    IN IF /\ Len(doc) >= 5 /\ Int32At(doc, 1) = Len(doc) /\ At(doc, Len(doc)) = 0
          /\ e1.tag = 2 /\ e1.ok /\ e1.value = MetadataFilter
          /\ e2.tag = 5 /\ e2.ok /\ e2.next = Len(doc)
         THEN e2.value ELSE <<256>>

(* The bytes after the fixed 45-byte prefix of a bitarray document (length *)
(* field, the "type" element, the binary element's tag, key, length and    *)
(* subtype) and before its final NUL.                                       *)
Payload(doc) == Slice(doc, 46, Len(doc) - 1)

(* The indices a byte image holds. *)
Decode(img) ==
    UNION {{8 * (i - 1) + j : j \in {j \in 0 .. 7 : (img[i] \div 2^j) % 2 = 1}} :
           i \in DOMAIN img}

(* bitarray_serialize writes well-formed BSON: a reader that follows the   *)
(* length fields (the document's total, the string's size with its NUL,    *)
(* the binary's byte count) finds the two elements, ending where the       *)
(* document ends, and the bitarray where the fixed layout puts it.         *)
SerializedDocumentsWellFormed ==
    \A k \in DOMAIN images : Carried(images[k]) = Payload(images[k])

(* The bit array implements the set of the length the caller asked for:   *)
(* get_bit after any sequence of init, set, unset, set_all and unset_all   *)
(* calls answers as that set, and every serialized image holds exactly its *)
(* members, as a reader of the BSON document finds them.                  *)
Abs == INSTANCE BitSet WITH
    size <- requested,
    members <- {b \in 0 .. requested - 1 : GetBit(b)},
    alive <- live,
    emitted <- [i \in DOMAIN images |-> Decode(Payload(images[i]))]

RefinesBitSet == Abs!AbsSpec
=============================================================================
