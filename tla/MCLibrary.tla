----------------------------- MODULE MCLibrary -----------------------------
(***************************************************************************)
(* The library, kstd/, with the thread-local context that tells its         *)
(* allocators.  Its parts share no state: a behaviour exercises one of      *)
(* them, and the variables of the others keep their initial values.         *)
(***************************************************************************)
EXTENDS RingBuffer, BumpAllocators, DebugAllocator, HashTable, Arrays, StringBuilder, ByteReader, Matrices,
        DebugInfo, LineTable, Tls

VARIABLE part

\* Keys whose hashes meet in a table of four and part in one of eight.
Hashes == [a |-> 0, b |-> 2, c |-> 6]

\* Vectors, quaternions and view volumes whose products stay small integers.
Shifts == {<<1, 0, -2>>, <<0, 3, 1>>}
Factors == {<<2, 1, -1>>, <<0, 1, 3>>}
Quaternions == {<<1, 1, 1, 1>>, <<2, 0, 0, 0>>, <<1, -1, 1, -1>>}
SomePoints == {<<1, 0, 0>>, <<1, -1, 2>>}
Volumes == [l : {-1}, r : {1, 2}, b : {-2, -1}, t : {1}, n : {1, 2}, f : {3}, depth_range_01 : BOOLEAN]
Directions == {<<0, 0, 1>>, <<0, 0, -2>>, <<0, 1, 0>>, <<0, -1, 0>>, <<3, 0, 0>>, <<-1, 0, 0>>}
SomeLooks ==
    {look \in BOOLEAN \X Shifts \X {Plus(t, d) : t \in Shifts, d \in Directions} \X {<<0, 0, 1>>, <<0, 1, 0>>} :
        /\ Minus(look[3], look[2]) \in Directions
        /\ cross(Minus(look[3], look[2]), look[4]) # <<0, 0, 0>>}

\* Line tables with a relative directory, and with an absolute file name.
SomeTables ==
    {[directories |-> <<<<"/", "a">>, <<"/", "b", "/">>>>,
      files |-> <<[path |-> <<"x">>, directory |-> 0], [path |-> <<"y">>, directory |-> 1]>>],
     [directories |-> <<<<"/", "a">>, <<"b">>>>,
      files |-> <<[path |-> <<"/", "x">>, directory |-> 0], [path |-> <<"y">>, directory |-> 1]>>]}
LineBase == -1

-----------------------------------------------------------------------------
\* What a part that is not exercised starts with, where its Init leaves a choice.
Chosen(name, choice) == part = name \/ choice

LibraryInit ==
    /\ part \in {"ring", "bump", "debug", "hash", "arrays", "builder", "reader", "matrices", "info", "lines", "tls"}
    /\ Init /\ Chosen("ring", element = 1 /\ data = [i \in 0 .. N - 1 |-> 1])
    /\ BumpInit /\ DebugInit /\ HashInit
    /\ ArraysInit /\ Chosen("arrays", kind = "Array")
    /\ BuilderInit /\ Chosen("builder", subsequent = 1)
    /\ ReaderInit
    /\ MatricesInit /\ Chosen("matrices", instance = Placed(<<1, 0, -2>>, <<2, 1, -1>>))
    /\ DebugInfoInit
    /\ LineTableInit /\ Chosen("lines", lineHeader = CHOOSE t \in Tables : TRUE)
    /\ TlsInit

\* The parts that are not exercised.
Others ==
    /\ UNCHANGED part
    /\ IF part = "ring" THEN TRUE ELSE UNCHANGED vars
    /\ IF part = "bump" THEN TRUE ELSE UNCHANGED bumpVars
    /\ IF part = "debug" THEN TRUE ELSE UNCHANGED debugVars
    /\ IF part = "hash" THEN TRUE ELSE UNCHANGED hashVars
    /\ IF part = "arrays" THEN TRUE ELSE UNCHANGED arrayVars
    /\ IF part = "builder" THEN TRUE ELSE UNCHANGED builderVars
    /\ IF part = "reader" THEN TRUE ELSE UNCHANGED readerVars
    /\ IF part = "matrices" THEN TRUE ELSE UNCHANGED matrixVars
    /\ IF part = "info" THEN TRUE ELSE UNCHANGED infoVars
    /\ IF part = "lines" THEN TRUE ELSE UNCHANGED lineVars
    /\ IF part = "tls" THEN TRUE ELSE UNCHANGED tlsVars

LibraryNext ==
    /\ Others
    /\ \/ part = "ring" /\ Next
       \/ part = "bump" /\ BumpNext
       \/ part = "debug" /\ DebugNext
       \/ part = "hash" /\ HashNext
       \/ part = "arrays" /\ ArraysNext
       \/ part = "builder" /\ BuilderNext
       \/ part = "reader" /\ ReaderNext
       \/ part = "matrices" /\ MatricesNext
       \/ part = "info" /\ DebugInfoNext
       \/ part = "lines" /\ LineTableNext
       \/ part = "tls" /\ TlsNext

libraryVars == <<part, vars, bumpVars, debugVars, hashVars, arrayVars, builderVars, readerVars, matrixVars,
                 infoVars, lineVars, tlsVars>>

LibrarySpec == LibraryInit /\ [][LibraryNext]_libraryVars

-----------------------------------------------------------------------------
\* The invariant of the DWARF readers: every subprogram comes out under its name,
\* and every row, address and frame of a trace is attributed to the line and the
\* function it was compiled from, whatever forms and opcodes were stepped over.
DwarfSound ==
    /\ DebugInfoTypeOK /\ SubprogramsNamed
    /\ LineTableTypeOK /\ RowsNameTheirFile /\ AddressesAttributed /\ TracesTellTheStack
=============================================================================
