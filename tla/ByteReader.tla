------------------------------ MODULE ByteReader ------------------------------
(***************************************************************************)
(* kstd/byte_reader.hh: Byte_Reader over a source of bytes, the base of    *)
(* the DWARF and image readers.  A byte has BYTE_BITS bits (8 in the code) *)
(* and a word WORD_BITS (64), so that all sources of a small length can be *)
(* read in every way.                                                      *)
(***************************************************************************)
EXTENDS Integers, Sequences, SequencesExt, FiniteSets

CONSTANTS
    BYTE_BITS, WORD_BITS,
    LEB_MAX_BYTES,          \* 10: the bytes a word may take as LEB128
    SourceBytes,            \* the bytes sources are made of
    MAX_SOURCE,             \* bound on the length of a source
    ReadWidths              \* the widths of the fixed-size reads, in bytes

ASSUME ByteReaderAssumption ==
    /\ BYTE_BITS \in Nat \ {0, 1}
    /\ LEB_MAX_BYTES * (BYTE_BITS - 1) >= WORD_BITS

VARIABLES
    source, current_offset,
    last    \* what the last read was, from where, whether ok and its result

readerVars == <<source, current_offset, last>>

LEB_VALUE_BIT_COUNT == BYTE_BITS - 1
LEB_CONTINUE        == 2 ^ LEB_VALUE_BIT_COUNT
LEB_SIGN            == 2 ^ (LEB_VALUE_BIT_COUNT - 1)

Size        == Len(source)
remaining   == Size - current_offset
ByteAt(i)   == source[current_offset + i + 1]
ToSigned(v, bits) == IF v >= 2 ^ (bits - 1) THEN v - 2 ^ bits ELSE v

Failed(what)       == [what |-> what, from |-> current_offset, ok |-> FALSE, result |-> 0]
Result(what, v)    == [what |-> what, from |-> current_offset, ok |-> TRUE, result |-> v]

Fails(what) == last' = Failed(what) /\ UNCHANGED <<source, current_offset>>
Reads(what, v, length) ==
    /\ last' = Result(what, v)
    /\ current_offset' = current_offset + length
    /\ UNCHANGED source

\* read_u8 .. read_u64: byte i is shifted by i bytes.
LittleEndian(n) ==
    FoldLeft(LAMBDA sum, i : sum + ByteAt(i) * 2 ^ (BYTE_BITS * i), 0, [i \in 1 .. n |-> i - 1])

read_unsigned(n) ==
    IF remaining < n THEN Fails("unsigned") ELSE Reads("unsigned", LittleEndian(n), n)

\* The loop of the two LEB128 readers: the index of the first byte without the
\* continue bit, or -1 when the source or the limit comes first.
Stops(i) == ByteAt(i) < LEB_CONTINUE

LebStop ==
    LET stops == {i \in 0 .. Size : i < remaining /\ i < LEB_MAX_BYTES /\ Stops(i)}
    IN IF stops = {} THEN -1 ELSE Min(stops)

\* Digits or-ed into a word; what is shifted out of it is lost.
LebBits(stop) ==
    FoldLeft(LAMBDA sum, i : sum + (ByteAt(i) % LEB_CONTINUE) * 2 ^ (LEB_VALUE_BIT_COUNT * i),
             0, [i \in 1 .. stop + 1 |-> i - 1]) % 2 ^ WORD_BITS

read_uleb128 ==
    IF LebStop = -1 THEN Fails("uleb") ELSE Reads("uleb", LebBits(LebStop), LebStop + 1)

\* Extending from the first byte's sign bit.
Extended_FirstSign(bits, stop) ==
    LET count == (stop + 1) * LEB_VALUE_BIT_COUNT
    IN IF count < WORD_BITS /\ (ByteAt(0) % LEB_CONTINUE) >= LEB_SIGN
       THEN bits + (2 ^ WORD_BITS - 2 ^ count) ELSE bits

\* The sign is the highest value bit of the last byte, and extended only while
\* it lies inside the word.
Extended(bits, stop) ==
    LET count == (stop + 1) * LEB_VALUE_BIT_COUNT
    IN IF count < WORD_BITS /\ (ByteAt(stop) % LEB_CONTINUE) >= LEB_SIGN
       THEN bits + (2 ^ WORD_BITS - 2 ^ count) ELSE bits

read_sleb128 ==
    IF LebStop = -1 THEN Fails("sleb")
    ELSE Reads("sleb", ToSigned(Extended(LebBits(LebStop), LebStop), WORD_BITS), LebStop + 1)

\* read_bytes and skip: count comes from the data read and is not negative.
read_bytes(n) == IF remaining < n THEN Fails("bytes") ELSE Reads("bytes", n, n)

skip(n) == IF remaining < n THEN Fails("skip") ELSE Reads("skip", n, n)

\* The terminator's index; the string excludes it, the offset goes past it.
read_cstring ==
    LET ends == {i \in 0 .. Size : i < remaining /\ ByteAt(i) = 0}
    IN IF ends = {} THEN Fails("cstring") ELSE Reads("cstring", Min(ends), Min(ends) + 1)

NoRead == [what |-> "none", from |-> 0, ok |-> TRUE, result |-> 0]

Byte_Reader(bytes) ==
    /\ source = <<>> /\ last = NoRead
    /\ source' = bytes
    /\ UNCHANGED <<current_offset, last>>

ReaderInit == source = <<>> /\ current_offset = 0 /\ last = NoRead

ReaderNext ==
    \/ \E n \in 1 .. MAX_SOURCE : \E bytes \in [1 .. n -> SourceBytes] : Byte_Reader(bytes)
    \/ \E n \in ReadWidths : read_unsigned(n)
    \/ read_uleb128 \/ read_sleb128 \/ read_cstring
    \/ \E n \in 0 .. MAX_SOURCE : read_bytes(n) \/ skip(n)
-----------------------------------------------------------------------------
\* No read leaves the source, and a read that fails leaves the reader where it
\* was, even in the middle of a number or a string.
ReaderTypeOK ==
    /\ current_offset \in 0 .. Size
    /\ last.from \in 0 .. Size
    /\ ~last.ok => current_offset = last.from

ConsumedBytes == SubSeq(source, last.from + 1, current_offset)

\* The number the consumed bytes spell in base 2^bits, least digit first.
Spelled(bytes, bits) ==
    FoldSet(LAMBDA i, sum : sum + (bytes[i] % 2 ^ bits) * 2 ^ (bits * (i - 1)), 0, DOMAIN bytes)

\* A read that succeeds gives what its bytes spell: fixed-size numbers in little
\* endian; LEB128 in digits of one bit less than a byte, the signed form in two's
\* complement of exactly these digits, both cut to the word.
ReadsWhatIsThere ==
    last.ok =>
        LET digits == Spelled(ConsumedBytes, LEB_VALUE_BIT_COUNT)
            bits   == LEB_VALUE_BIT_COUNT * Len(ConsumedBytes)
        IN CASE last.what = "unsigned" -> last.result = Spelled(ConsumedBytes, BYTE_BITS)
             [] last.what = "uleb"     -> last.result = digits % 2 ^ WORD_BITS
             [] last.what = "sleb"     ->
                    last.result = ToSigned(ToSigned(digits, bits) % 2 ^ WORD_BITS, WORD_BITS)
             [] last.what = "cstring"  ->
                    /\ last.result = Len(ConsumedBytes) - 1
                    /\ \A i \in 1 .. Len(ConsumedBytes) :
                           ConsumedBytes[i] = 0 <=> i = Len(ConsumedBytes)
             [] OTHER -> last.result = Len(ConsumedBytes)

\* A LEB128 number that ends inside the source and the limit is read; one that
\* does not is refused.  Past the limit no byte is looked at.
LebIsRefusedOnlyWhenCut ==
    last.what \in {"uleb", "sleb"} /\ ~last.ok =>
        \A i \in 1 .. LEB_MAX_BYTES :
            last.from + i <= Size => source[last.from + i] >= LEB_CONTINUE

\* The byte reader's invariant: what it gives is what is there, up to the edges of
\* the source and of the word, and a refused read leaves no trace.
ReaderSound ==
    /\ ReaderTypeOK
    /\ ReadsWhatIsThere
    /\ LebIsRefusedOnlyWhenCut
=============================================================================
