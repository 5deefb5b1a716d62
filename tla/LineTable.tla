------------------------------ MODULE LineTable ------------------------------
(***************************************************************************)
(* kstd/dwarf.hh: the line number program of .debug_line executed into     *)
(* rows, the lookup of an address in the rows and in the subprograms, and  *)
(* gameos/stack_trace.hh, which walks the frames of a halted CPU with both.*)
(*                                                                         *)
(* The compiler is external: it emits a function as one sequence, row by   *)
(* row, choosing opcodes; `meant` holds what it wanted the rows to be.     *)
(* Instructions hold one operation (maximum_operations_per_instruction is 1*)
(* for x86-64).                                                            *)
(***************************************************************************)
EXTENDS Integers, Sequences, FiniteSets, SequencesExt, FiniteSetsExt

CONSTANTS
    MAX_ADDRESS, MAX_LINE, MAX_ROWS,    \* bounds on the program
    MAX_OPCODE,                         \* 255
    OPCODE_BASE, LINE_BASE, LINE_RANGE, \* of the header
    Tables,                             \* directories and files of the headers
    MAX_FRAMES, SKIP_FRAME_COUNT, MAX_DEPTH     \* MAX_DEPTH bounds the stack

ASSUME LineTableAssumption ==
    /\ LINE_RANGE > 0 /\ OPCODE_BASE \in 1 .. MAX_OPCODE

VARIABLES
    linePhase,      \* "running", "done" or "traced"
    lineHeader,     \* [directories, files]
    state,          \* Debug_Line_State
    rows,
    meantState, meant,      \* what the compiler wants: registers and rows
    stack,          \* return addresses of the frames of a halted CPU
    traces

lineVars == <<linePhase, lineHeader, state, rows, meantState, meant, stack, traces>>
-----------------------------------------------------------------------------
\* A path is its parts, separators included.
SEPARATOR == "/"

join(part1, part2) ==
    IF part2 = <<>> THEN part1
    ELSE IF part1 = <<>> \/ part2[1] = SEPARATOR THEN part2
    ELSE IF Last(part1) = SEPARATOR THEN part1 \o part2
    ELSE part1 \o <<SEPARATOR>> \o part2

\* parse_debug_line_header: file_names, counted from 0; a relative path is below
\* the directory its entry names.
FileName(file) ==
    LET f == lineHeader.files[file + 1]
    IN IF f.path = <<>> \/ f.path[1] = SEPARATOR THEN f.path
       ELSE join(lineHeader.directories[f.directory + 1], f.path)

\* The registers rows are made of; column, is_stmt, the block and prologue marks,
\* isa and discriminator are set and never read.
Debug_Line_State == [address |-> 0, file_index |-> 1, line |-> 1]

Row(s, end) == [address |-> s.address, file_name |-> FileName(s.file_index), line |-> s.line,
                is_end_of_sequence |-> end]

\* What the compiler means by a row: a file, not a path.
MeantRow(s, end) == [address |-> s.address, file |-> s.file_index, line |-> s.line, end |-> end]
-----------------------------------------------------------------------------
\* The addresses and lines of the sequences written so far.
Ends == {i \in DOMAIN meant : meant[i].end}
FirstOf(e) == 1 + Max({0} \cup {d \in Ends : d < e})
Sequence(e) == FirstOf(e) .. e
Within(e, a) == meant[FirstOf(e)].address <= a /\ a < meant[e].address
InSequence == meant # <<>> /\ ~Last(meant).end

\* A turn of the loop of parse_line_table takes the registers to s; the compiler
\* wanted t and stays within the bounds.
Become(s, t) ==
    /\ linePhase = "running" /\ Len(rows) < MAX_ROWS
    /\ t.address \in 0 .. MAX_ADDRESS /\ t.line \in 1 .. MAX_LINE
    /\ state' = s /\ meantState' = t
    /\ UNCHANGED <<linePhase, lineHeader, stack, traces>>

Silent == UNCHANGED <<rows, meant>>

RowOf(s, t) ==
    /\ rows' = Append(rows, Row(s, FALSE))
    /\ meant' = Append(meant, MeantRow(t, FALSE))

COPY == Become(state, meantState) /\ RowOf(state, meantState)

ADVANCE_PC(n) ==
    Become([state EXCEPT !.address = @ + n], [meantState EXCEPT !.address = @ + n]) /\ Silent

ADVANCE_LINE(d) ==
    Become([state EXCEPT !.line = @ + d], [meantState EXCEPT !.line = @ + d]) /\ Silent

SET_FILE(f) ==
    Become([state EXCEPT !.file_index = f], [meantState EXCEPT !.file_index = f]) /\ Silent

\* The compiler's side of an advance "as much as the last special opcode", and
\* the code's.
LargestAdvance == Max({n \in 0 .. MAX_OPCODE : OPCODE_BASE + LINE_RANGE * n <= MAX_OPCODE})
ConstAdvance == (MAX_OPCODE - OPCODE_BASE) \div LINE_RANGE

CONST_ADD_PC ==
    Become([state EXCEPT !.address = @ + ConstAdvance],
         [meantState EXCEPT !.address = @ + LargestAdvance]) /\ Silent

FIXED_ADVANCE_PC(n) ==
    Become([state EXCEPT !.address = @ + n], [meantState EXCEPT !.address = @ + n]) /\ Silent

\* The registers after a special opcode.
Special(opcode) ==
    LET adjusted_opcode == opcode - OPCODE_BASE
    IN [state EXCEPT !.address = @ + (adjusted_opcode \div LINE_RANGE),
                     !.line = @ + LINE_BASE + (adjusted_opcode % LINE_RANGE)]

\* The compiler packs both advances in one opcode where they fit.
special_opcode(op_advance, line_advance) ==
    LET opcode == line_advance - LINE_BASE + LINE_RANGE * op_advance + OPCODE_BASE
        t == [meantState EXCEPT !.address = @ + op_advance, !.line = @ + line_advance]
    IN /\ opcode <= MAX_OPCODE
       /\ Become(Special(opcode), t) /\ RowOf(Special(opcode), t)

\* A function's code starts at its address, once, outside the others.
SET_ADDRESS(a) ==
    /\ ~InSequence /\ meantState = Debug_Line_State
    /\ Become([state EXCEPT !.address = a], [meantState EXCEPT !.address = a]) /\ Silent

\* The registers behind the end of a sequence.
AfterSequence == Debug_Line_State

END_SEQUENCE ==
    /\ InSequence
    /\ \A e \in Ends : \A a \in meant[FirstOf(Len(meant) + 1)].address .. meantState.address - 1 : ~Within(e, a)
    /\ meant[FirstOf(Len(meant) + 1)].address < meantState.address
    /\ Become(AfterSequence, Debug_Line_State)
    /\ rows' = Append(rows, Row(state, TRUE))
    /\ meant' = Append(meant, MeantRow(meantState, TRUE))

parse_line_table_ends ==
    /\ linePhase = "running" /\ ~InSequence /\ meant # <<>>
    /\ linePhase' = "done"
    /\ UNCHANGED <<lineHeader, state, rows, meantState, meant, stack, traces>>
-----------------------------------------------------------------------------
NoRow == [address |-> 0, file_name |-> <<>>, line |-> 0, is_end_of_sequence |-> FALSE]
Searching == [result |-> NoRow, found |-> FALSE, sequence_result |-> NoRow, sequence_found |-> FALSE,
              in_sequence |-> FALSE]

\* One row of source_for_address.
Scan(address, s, row) ==
    IF row.is_end_of_sequence
    THEN LET hit == s.in_sequence /\ s.sequence_found /\ address < row.address
         IN [s EXCEPT !.result = IF hit THEN s.sequence_result ELSE @, !.found = @ \/ hit,
                      !.in_sequence = FALSE, !.sequence_found = FALSE]
    ELSE LET found == s.in_sequence /\ s.sequence_found
             better == row.address <= address /\ (~found \/ row.address > s.sequence_result.address)
         IN [s EXCEPT !.sequence_result = IF better THEN row ELSE @,
                      !.sequence_found = found \/ better, !.in_sequence = TRUE]

source_for_address(address) ==
    LET s == FoldLeft(LAMBDA t, row : Scan(address, t, row), Searching, rows)
    IN IF s.in_sequence /\ s.sequence_found THEN [row |-> s.sequence_result, found |-> TRUE]
       ELSE [row |-> s.result, found |-> s.found]

\* The subprograms, as DebugInfo finds them: a function is a sequence, named by
\* its end.
subprograms == [i \in 1 .. Cardinality(Ends) |->
            LET e == CHOOSE e \in Ends : Cardinality({d \in Ends : d <= e}) = i
            IN [name |-> e, low_pc |-> meant[FirstOf(e)].address, high_pc |-> meant[e].address]]
UNKNOWN == 0

function_name_for_address(address) ==
    LET i == SelectInSeq(subprograms, LAMBDA f : f.low_pc <= address /\ address < f.high_pc)
    IN IF i = 0 THEN UNKNOWN ELSE subprograms[i].name

Trace(rip) == [function_address |-> rip, function_name |-> function_name_for_address(rip),
               row |-> source_for_address(rip).row]

\* The frames that get_stack_trace_from visits: a return address of 0 and the
\* limit, which counts the skipped frames, end the walk.
Visited(frames) ==
    LET zero == SelectInSeq(frames, LAMBDA rip : rip = 0)
        n == IF zero = 0 THEN Len(frames) ELSE zero - 1
    IN SubSeq(frames, 1, Min({n, MAX_FRAMES}))

\* get_stack_trace_from, called by halt with the frames of the halted CPU.
get_stack_trace_from(frames) ==
    LET visited == Visited(frames)
    IN /\ linePhase = "done"
       /\ stack' = frames
       /\ traces' = [i \in 1 .. Max({0, Len(visited) - SKIP_FRAME_COUNT}) |->
                       Trace(visited[i + SKIP_FRAME_COUNT])]
       /\ linePhase' = "traced"
       /\ UNCHANGED <<lineHeader, state, rows, meantState, meant>>

LineTableInit ==
    /\ linePhase = "running" /\ lineHeader \in Tables
    /\ state = Debug_Line_State /\ meantState = Debug_Line_State
    /\ rows = <<>> /\ meant = <<>> /\ stack = <<>> /\ traces = <<>>

Addresses == 0 .. MAX_ADDRESS

LineTableNext ==
    \/ COPY \/ CONST_ADD_PC \/ END_SEQUENCE \/ parse_line_table_ends
    \/ \E n \in 1 .. 2 : ADVANCE_PC(n) \/ FIXED_ADVANCE_PC(n)
    \/ \E d \in {-1, 1} : ADVANCE_LINE(d)
    \/ \E f \in 0 .. Len(lineHeader.files) - 1 : SET_FILE(f)
    \/ \E a \in Addresses : SET_ADDRESS(a)
    \/ \E n \in 0 .. LargestAdvance, d \in LINE_BASE .. LINE_BASE + LINE_RANGE - 1 : special_opcode(n, d)
    \/ \E frames \in SeqOf(Addresses, MAX_DEPTH) : get_stack_trace_from(frames)
-----------------------------------------------------------------------------
\* A file's path as the standard means it: absolute as given, otherwise below the
\* directory of its entry with one separator between them.
MeantPath(file) ==
    LET f == lineHeader.files[file + 1]
        directory == lineHeader.directories[f.directory + 1]
    IN IF f.path = <<>> \/ f.path[1] = SEPARATOR \/ directory = <<>> THEN f.path
       ELSE (IF Last(directory) = SEPARATOR THEN Front(directory) ELSE directory)
            \o <<SEPARATOR>> \o f.path

\* The registers and rows are those the compiler encoded, over any mix of
\* special, standard and extended opcodes and from one sequence to the next.
LineTableTypeOK ==
    /\ state.address = meantState.address /\ state.line = meantState.line
    /\ Len(rows) = Len(meant)
    /\ \A i \in DOMAIN rows : rows[i].address = meant[i].address /\ rows[i].line = meant[i].line
                              /\ rows[i].is_end_of_sequence = meant[i].end

\* Every row names the path of its file.
RowsNameTheirFile == \A i \in DOMAIN rows : rows[i].file_name = MeantPath(meant[i].file)

\* The lines meant for an address: those of the last rows at or before it in the
\* sequence that holds it.
LinesMeant(a) ==
    LET held == {e \in Ends : Within(e, a)}
        before == {i \in UNION {Sequence(e) : e \in held} : meant[i].address <= a /\ ~meant[i].end}
    IN {meant[i].line : i \in {j \in before : \A k \in before : meant[k].address <= meant[j].address}}

\* An address inside a function is attributed to one of its lines, in whatever
\* order the functions were laid out, and one outside to none.
AddressesAttributed ==
    linePhase = "done" => \A a \in Addresses :
        LET r == source_for_address(a)
        IN IF LinesMeant(a) = {} THEN ~r.found ELSE r.found /\ r.row.line \in LinesMeant(a)

\* A trace names a frame of the stack, in the stack's order, and its line is one
\* of the function it names; the frames of the halt itself are left out and a
\* frame without a return address ends it.
TracesTellTheStack ==
    linePhase = "traced" =>
        /\ Len(traces) <= MAX_FRAMES - SKIP_FRAME_COUNT
        /\ \A i \in DOMAIN traces :
               /\ traces[i].function_address = stack[i + SKIP_FRAME_COUNT]
               /\ traces[i].function_address # 0
               /\ \A e \in Ends : Within(e, traces[i].function_address) =>
                      traces[i].function_name = e
                      /\ \E k \in Sequence(e) : traces[i].row.line = meant[k].line
        /\ Len(traces) + SKIP_FRAME_COUNT < Len(stack) =>
               Len(traces) + SKIP_FRAME_COUNT = MAX_FRAMES
               \/ \E i \in 1 .. Len(traces) + SKIP_FRAME_COUNT + 1 : stack[i] = 0
=============================================================================
