-------------------------------- MODULE Bson --------------------------------
(***************************************************************************)
(* The BSON encoder of src/src/bson/bson-encoder.c, as operators on a      *)
(* struct bson_info: the malloc'ed buffer (offset -> byte value 0..255),   *)
(* its size and the write position.  Each serializer is a function from    *)
(* one bson_info to the next, the way the C functions update it in place.  *)
(* Strings are the byte sequences of their characters.  Bytes malloc       *)
(* returns and nothing writes hold Junk.  The element types modelled are   *)
(* the ones the repository serializes (string and binary, from             *)
(* bitarray_serialize) and double.                                         *)
(***************************************************************************)
EXTENDS Naturals, Sequences, FiniteSets

CONSTANT StartSize  \* START_SIZE: 4096 (2^12) in the code; sizes stay powers of two

ASSUME StartSize \in {2^k : k \in 0 .. 30}

(* A byte malloc returned and nothing has written. *)
Junk == 170

(* The type tags of the element grammar. *)
BSON_DOUBLE == 1
BSON_STRING == 2
BSON_BINARY == 5

(* The 4 little-endian bytes of an int32 memcpy'd into the buffer. *)
Int32LE(v) == [i \in 1 .. 4 |-> (v \div 2^(8 * (i - 1))) % 256]

(* bson_init: a START_SIZE buffer, nothing written. *)
BsonInit ==
    [buffer |-> [i \in 0 .. StartSize - 1 |-> Junk], size |-> StartSize,
     position |-> 0, freed |-> FALSE, hang |-> FALSE]

(* new_size: double old_size until it reaches needed_size.  The int32      *)
(* shift reaches 2^30, then -2^31, then 0, and 0 << 1 stays 0: when no     *)
(* doubling of old_size up to 2^30 is large enough the loop never ends.    *)
Doublings(old) == {v \in {2^k : k \in 0 .. 30} : v >= old}
NewSizeHangs(old, needed) == \A v \in Doublings(old) : v < needed
NewSize(old, needed) ==
    CHOOSE v \in Doublings(old) :
        v >= needed /\ \A w \in Doublings(old) : w >= needed => v <= w

(* resize: a new buffer of new_size bytes holding the old size bytes.      *)
Resize(b, needed) ==
    IF NewSizeHangs(b.size, needed)
      THEN [b EXCEPT !.hang = TRUE]
      ELSE LET n == NewSize(b.size, needed)
           IN [b EXCEPT !.size = n,
                        !.buffer = [i \in 0 .. n - 1 |->
                                      IF i < b.size THEN b.buffer[i] ELSE Junk]]

(* check_size: resize when added_size more bytes would not fit. *)
CheckSize(b, added) ==
    IF b.position + added > b.size THEN Resize(b, b.position + added) ELSE b

(* memcpy of the bytes to buffer[position], then position += their count. *)
Put(b, bytes) ==
    [b EXCEPT !.buffer = [i \in DOMAIN b.buffer |->
                            IF b.position <= i /\ i < b.position + Len(bytes)
                              THEN bytes[i - b.position + 1] ELSE b.buffer[i]],
              !.position = b.position + Len(bytes)]

(* serialize_cstring: the characters and a NUL. *)
SerializeCstring(b, cstr) ==
    Put(CheckSize(b, Len(cstr) + 1), cstr \o <<0>>)

(* serialize_string: int32 str_size = len + 1, the len bytes, a NUL. *)
SerializeString(b, len, str) ==
    Put(CheckSize(b, len + 1 + 4), Int32LE(len + 1) \o SubSeq(str, 1, len) \o <<0>>)

(* serialize_double: 8 bytes. *)
SerializeDouble(b, dbl) == Put(CheckSize(b, 8), dbl)

(* serialize_binary: int32 len, the subtype byte, the len bytes. *)
SerializeBinary(b, len, subtype, binary) ==
    Put(CheckSize(b, 4 + 1 + len), Int32LE(len) \o <<subtype>> \o SubSeq(binary, 1, len))

(* serialize_element (bson_serialize): check_size(1), whose result is      *)
(* ignored, the type tag, the key as a cstring, then the value.            *)
SerializeElement(b, value) ==
    LET tagged == Put(CheckSize(b, 1), <<value.type>>)
        keyed  == SerializeCstring(tagged, value.key)
    IN CASE value.type = BSON_DOUBLE -> SerializeDouble(keyed, value.data)
         [] value.type = BSON_STRING -> SerializeString(keyed, value.size, value.data)
         [] value.type = BSON_BINARY ->
                SerializeBinary(keyed, value.size, value.subtype, value.data)

(* Variant: total_bytes counting the 4-byte length field but not the NUL. *)
BsonFinalizeShort(b) ==
    LET c     == CheckSize(b, 5)
        total == c.position + 4
        moved == [i \in DOMAIN c.buffer |->
                    CASE i < 4 -> Int32LE(total)[i + 1]
                      [] i < c.position + 4 -> c.buffer[i - 4]
                      [] i = c.position + 4 -> 0
                      [] OTHER -> c.buffer[i]]
    IN [c EXCEPT !.buffer = moved, !.position = c.position + 5]

(* bson_finalize: make room for 5 bytes, move the elements up by 4, write  *)
(* total_bytes = position + 5 in front and a NUL after them.               *)
BsonFinalize(b) ==
    LET c     == CheckSize(b, 5)
        total == c.position + 5
        moved == [i \in DOMAIN c.buffer |->
                    CASE i < 4 -> Int32LE(total)[i + 1]
                      [] i < c.position + 4 -> c.buffer[i - 4]
                      [] i = c.position + 4 -> 0
                      [] OTHER -> c.buffer[i]]
    IN [c EXCEPT !.buffer = moved, !.position = c.position + 5]

(* The position bytes bson_writef hands to fwrite, as a sequence. *)
Written(b) == [i \in 1 .. b.position |-> b.buffer[i - 1]]

(* bson_writef when fwrite fails (feof or ferror): the buffer is freed     *)
(* and the pointer left as it was.                                         *)
WritefFails(b) == [b EXCEPT !.freed = TRUE]

(* bson_cleanup frees a non-NULL buffer: a second free after a failed      *)
(* bson_writef.                                                             *)
CleanupDoubleFrees(b) == b.freed
=============================================================================
