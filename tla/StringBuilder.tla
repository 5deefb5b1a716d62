---------------------------- MODULE StringBuilder ----------------------------
(***************************************************************************)
(* kstd/string_builder.hh: String_Builder, a chain of buffers that starts  *)
(* with one inside the builder, with the strings it hands out and how they *)
(* are freed (kstd/string.hh).  Characters are model letters, NUL among    *)
(* them; an allocation of a further buffer may fail.                       *)
(***************************************************************************)
EXTENDS Integers, Sequences

CONSTANTS
    Chars, NUL,
    INITIAL_DATA_SIZE,      \* characters of the buffer inside the builder
    BufferSizes,            \* the constructor's buffer_size
    MAX_TEXT,               \* bound on the text of one append
    MAX_BUFFERS,            \* bound on the further buffers one append can have
    MAX_CHARS               \* bound on what is appended between two resets

ASSUME BuilderAssumption ==
    /\ NUL \in Chars
    /\ INITIAL_DATA_SIZE \in Nat \ {0} /\ BufferSizes \subseteq Nat \ {0}
    /\ MAX_TEXT \in Nat /\ MAX_BUFFERS \in Nat

VARIABLES
    chain,          \* the buffers: the base one, then the allocated ones
    current,        \* current_buffer: 0 for nullptr, else an index of chain
    subsequent,     \* subsequent_buffer_size
    failed,
    asked,          \* ghost: the characters appended since the last reset
    further,         \* ghost: the further buffers that were not freed
    out             \* the string handed out last and not yet freed, or NoString

builderVars == <<chain, current, subsequent, failed, asked, further, out>>

NoString == [is |-> "none"]

Buffer(n) == [data |-> <<>>, allocated |-> n]

get_current_buffer(b) == IF b.current = 0 THEN 1 ELSE b.current

\* The last buffer of a chain, with another character in it.
WithChar(buffers, at, c) ==
    [buffers EXCEPT ![at] = [data |-> Append(@.data, c), allocated |-> @.allocated]]

Stop(b) == [b EXCEPT !.stopped = TRUE]
Put(b, c) == [b EXCEPT !.chain = WithChar(@, get_current_buffer(b), c)]

\* The new buffer becomes the current one; it is linked behind the old one.
expand_builder(b) ==
    [chain |-> Append(b.chain, Buffer(subsequent)), current |-> Len(b.chain) + 1,
     further |-> b.further + 1, left |-> b.left - 1, stopped |-> b.stopped]

IsFull(b) == LET at == b.chain[get_current_buffer(b)] IN Len(at.data) = at.allocated

\* A copy loop that fills a buffer and drops the character it had no room for.
PutChar_DropsAtEnd(b, c) ==
    IF b.stopped THEN b
    ELSE IF ~IsFull(b) THEN Put(b, c)
    ELSE IF b.left = 0 THEN Stop(b)
    ELSE expand_builder(b)

\* One character of append: into the current buffer, into a new one when that
\* is full; when none can be had the rest of the text is dropped.
PutChar(b, c) ==
    IF b.stopped THEN b
    ELSE IF ~IsFull(b) THEN Put(b, c)
    ELSE IF b.left = 0 THEN Stop(b)
    ELSE Put(expand_builder(b), c)

\* The builder after the text was appended to it, character by character.
FilledWith(b, text) ==
    LET after[i \in 0 .. Len(text)] == IF i = 0 THEN b ELSE PutChar(after[i - 1], text[i])
    IN after[Len(text)]

\* append(bytes, length), with the number of buffers that can still be had.
append(text, available) ==
    /\ Len(asked) + Len(text) <= MAX_CHARS
    /\ LET b == FilledWith([chain |-> chain, current |-> current, further |-> further,
                           left |-> available, stopped |-> FALSE], text)
       IN /\ chain' = b.chain /\ current' = b.current /\ further' = b.further
          /\ failed' = (failed \/ b.stopped)
    /\ asked' = asked \o text
    /\ UNCHANGED <<subsequent, out>>

\* What the buffers hold, one after the other.
TextOf(buffers) ==
    LET upTo[i \in 0 .. Len(buffers)] == IF i = 0 THEN <<>> ELSE upTo[i - 1] \o buffers[i].data
    IN upTo[Len(buffers)]

Text   == TextOf(chain)
length == Len(Text)

\* free_buffers walks the chain behind the base buffer.
FreedBuffers(n) == n

Reset ==
    /\ chain' = <<Buffer(INITIAL_DATA_SIZE)>>
    /\ current' = 0 /\ failed' = FALSE /\ asked' = <<>>
    /\ further' = further - FreedBuffers(Len(chain) - 1)

reset_builder == Reset /\ UNCHANGED <<subsequent, out>>

\* to_string: nothing is allocated for an empty text.  With the reset goes
\* `failed`, which sprint does not look at: it may hand out a cut text.
to_string(do_reset) ==
    /\ out = NoString
    /\ out' = IF length = 0 THEN NoString ELSE [is |-> "string", text |-> Text, size |-> length]
    /\ IF do_reset THEN Reset ELSE UNCHANGED <<chain, current, failed, asked, further>>
    /\ UNCHANGED subsequent

\* to_c_string: one character more, for the terminator.
to_c_string(do_reset) ==
    /\ out = NoString
    /\ out' = [is |-> "c_string", text |-> Append(Text, NUL), size |-> length + 1]
    /\ IF do_reset THEN Reset ELSE UNCHANGED <<chain, current, failed, asked, further>>
    /\ UNCHANGED subsequent

strlen(text) == (CHOOSE i \in DOMAIN text : text[i] = NUL /\ \A j \in 1 .. i - 1 : text[j] # NUL) - 1

\* The size free_string and free_c_string give to the allocator.
FreedSize(s) == IF s.is = "string" THEN s.size ELSE strlen(s.text) + 1

free_string ==
    /\ out # NoString
    /\ out' = NoString
    /\ UNCHANGED <<chain, current, subsequent, failed, asked, further>>

BuilderInit ==
    /\ chain = <<Buffer(INITIAL_DATA_SIZE)>>
    /\ current = 0 /\ failed = FALSE /\ asked = <<>> /\ further = 0 /\ out = NoString
    /\ subsequent \in BufferSizes

BuilderNext ==
    \/ \E n \in 0 .. MAX_TEXT, available \in 0 .. MAX_BUFFERS :
           \E text \in [1 .. n -> Chars] : append(text, available)
    \/ reset_builder
    \/ \E do_reset \in BOOLEAN : to_string(do_reset) \/ to_c_string(do_reset)
    \/ free_string

BuilderSpec == BuilderInit /\ [][BuilderNext]_builderVars
-----------------------------------------------------------------------------
\* The chain fills up in order: only the current buffer, its last, has room, and
\* no buffer holds more than was allocated for it.
BuilderTypeOK ==
    /\ \A i \in 1 .. Len(chain) : Len(chain[i].data) <= chain[i].allocated
    /\ \A i \in 1 .. Len(chain) - 1 : Len(chain[i].data) = chain[i].allocated
    /\ current = IF Len(chain) = 1 THEN 0 ELSE Len(chain)

\* The text of the builder is what was appended, across all buffer borders;
\* when characters were dropped, `failed` says so.
TextIsKept == IF failed THEN length < Len(asked) ELSE Text = asked

\* Every buffer that was allocated is in the chain, so reset frees them all.
BuffersInChain == further = Len(chain) - 1

\* A string is freed with the size it was allocated with, except for a C string
\* made from a text that holds the terminator itself.
FreedWithItsSize ==
    out # NoString /\ (out.is = "c_string" => \A i \in 1 .. out.size - 1 : out.text[i] # NUL)
        => FreedSize(out) = out.size /\ Len(out.text) = out.size

\* The string builder's invariant: its text is what was appended, across its chain
\* of buffers, and all of it is given back in the sizes it was taken.
TextSound ==
    /\ BuilderTypeOK
    /\ TextIsKept
    /\ BuffersInChain
    /\ FreedWithItsSize
=============================================================================
