------------------------------ MODULE DebugInfo ------------------------------
(***************************************************************************)
(* kstd/dwarf.hh: the walk over .debug_info that finds the subprograms of  *)
(* the kernel for its stack traces (parse_subprograms), with the           *)
(* abbreviation tables, the forms and the string offsets it relies on.     *)
(*                                                                         *)
(* The compiler is external: it writes units entry by entry, in the sizes  *)
(* of the DWARF 5 standard, and offsets are byte offsets in what it wrote. *)
(* The parser then advances by what the code reads.                        *)
(***************************************************************************)
EXTENDS Integers, Sequences, FiniteSets, SequencesExt

CONSTANTS
    OtherForms,     \* forms of attributes the parser only steps over
    MAX_UNITS,      \* bound on units
    MAX_DIES,       \* bound on the entries below the units, of all units together
    ADDRESS_SIZE

ASSUME DebugInfoAssumption == ADDRESS_SIZE \in {4, 8}

VARIABLES
    infoPhase,      \* "compiling", "parsing", "done"
    units,          \* unit -> [abbreviations, entries, start, size]
    offset,         \* debug_info.current_offset
    unitAt,         \* the unit being parsed
    inEntries,      \* its header has been read
    scope_stack,    \* its size
    names, pending_subprograms, infos,
    debug_line_offset,      \* 0 until one was found
    str_offsets_base, addr_base     \* of Sections; kept from unit to unit

infoVars == <<infoPhase, units, offset, unitAt, inEntries, scope_stack, names,
              pending_subprograms, infos, debug_line_offset, str_offsets_base, addr_base>>
parserVars == <<offset, unitAt, inEntries, scope_stack, names, pending_subprograms, infos,
                debug_line_offset, str_offsets_base, addr_base>>

HEADER_SIZE_OF_UNIT == 12   \* length, version, type, address size, abbreviation offset
LebSize(n) == IF n < 128 THEN 1 ELSE 2
-----------------------------------------------------------------------------
\* The bytes of a form in the standard; v is the attribute's value, a number or
\* a length.
StandardSize(form, v) ==
    CASE form \in {"DATA1", "REF1", "FLAG", "STRX1", "ADDRX1"} -> 1
      [] form \in {"DATA2", "REF2", "STRX2", "ADDRX2"} -> 2
      [] form \in {"STRX3", "ADDRX3"} -> 3
      [] form \in {"DATA4", "REF4", "STRX4", "ADDRX4", "REF_SUP4"} -> 4
      [] form \in {"DATA8", "REF8", "REF_SIG8", "REF_SUP8"} -> 8
      [] form \in {"STRP", "LINE_STRP", "STRP_SUP", "SEC_OFFSET", "REF_ADDR"} -> 4
      [] form \in {"UDATA", "SDATA", "REF_UDATA", "STRX", "ADDRX", "LOCLISTX", "RNGLISTX"} -> LebSize(v)
      [] form = "DATA16" -> 16
      [] form = "ADDR" -> ADDRESS_SIZE
      [] form = "STRING" -> v + 1
      [] form = "BLOCK1" -> 1 + v
      [] form = "BLOCK2" -> 2 + v
      [] form = "BLOCK4" -> 4 + v
      [] form \in {"BLOCK", "EXPRLOC"} -> LebSize(v) + v
      [] form = "INDIRECT" -> 1 + 4
      [] form \in {"FLAG_PRESENT", "IMPLICIT_CONST"} -> 0

\* read_attribute_value: the bytes it reads for the value or the length of a form.
FixedSize(form) ==
    CASE form = "ADDR" -> IF ADDRESS_SIZE = 8 THEN 8 ELSE 4
      [] form \in {"DATA1", "REF1", "FLAG", "STRX1", "ADDRX1", "BLOCK1"} -> 1
      [] form \in {"DATA2", "REF2", "STRX2", "ADDRX2", "BLOCK2"} -> 2
      [] form \in {"STRX3", "ADDRX3"} -> 3
      [] form \in {"DATA4", "REF_ADDR", "REF4", "SEC_OFFSET", "STRP", "LINE_STRP", "STRX4",
                   "ADDRX4", "REF_SUP4", "STRP_SUP", "BLOCK4"} -> 4
      [] form \in {"DATA8", "REF8", "REF_SIG8", "REF_SUP8"} -> 8
      [] form = "DATA16" -> 16
      [] OTHER -> 0

\* The bytes read_attribute_value consumes.  An indirect form names the form
\* that follows it (DATA4, 0x06, here).
read_attribute_value(form, v) ==
    CASE form \in {"SDATA", "UDATA", "REF_UDATA", "STRX", "ADDRX", "LOCLISTX", "RNGLISTX"} -> LebSize(v)
      [] form \in {"BLOCK1", "BLOCK2", "BLOCK4"} -> FixedSize(form) + v
      [] form \in {"BLOCK", "EXPRLOC"} -> LebSize(v) + v
      [] form = "STRING" -> v + 1
      [] form = "INDIRECT" -> LebSize(6) + FixedSize("DATA4")
      [] OTHER -> FixedSize(form)
-----------------------------------------------------------------------------
Spec_of(type, form) == [type |-> type, form |-> form]
Abbreviation(tag, children, specs) == [tag |-> tag, has_children |-> children, specs |-> specs]

\* The abbreviations units use: the unit itself (its name is an index that is
\* read before its string offsets are known), a declaration, a definition with
\* and without a name, one that refers to a declaration, and entries of no
\* interest.
UNIT       == Abbreviation("COMPILE_UNIT", TRUE, <<Spec_of("NAME", "STRX1"),
                  Spec_of("STMT_LIST", "SEC_OFFSET"), Spec_of("STR_OFFSETS_BASE", "SEC_OFFSET"),
                  Spec_of("ADDR_BASE", "SEC_OFFSET")>>)
DECLARED   == Abbreviation("SUBPROGRAM", FALSE, <<Spec_of("NAME", "STRX1")>>)
DEFINED    == Abbreviation("SUBPROGRAM", TRUE, <<Spec_of("NAME", "STRX2"), Spec_of("LOW_PC", "ADDRX1"),
                  Spec_of("HIGH_PC", "DATA4")>>)
SPECIFIED  == Abbreviation("SUBPROGRAM", FALSE, <<Spec_of("SPECIFICATION", "REF4"),
                  Spec_of("LOW_PC", "ADDR"), Spec_of("HIGH_PC", "ADDR")>>)
NAMELESS   == Abbreviation("SUBPROGRAM", FALSE, <<Spec_of("LOW_PC", "ADDR"), Spec_of("HIGH_PC", "DATA4")>>)
Other_entry(form, children) == Abbreviation("OTHER", children, <<Spec_of("OTHER", form)>>)

Declarations == {DECLARED, DEFINED, SPECIFIED, NAMELESS}
                \cup {Other_entry(f, c) : f \in OtherForms, c \in BOOLEAN}

\* An entry as it was written: where it starts in its unit, its abbreviation
\* code (0 closes a scope) and its values.
IsNull(e) == e.code = 0

\* Bytes of an entry.
EntrySize(table, code, values) ==
    IF code = 0 THEN 1
    ELSE FoldLeft(LAMBDA sum, i : sum + StandardSize(table[code].specs[i].form, values[i]),
                  LebSize(code), [i \in 1 .. Len(values) |-> i])

\* A unit with one more entry.
AddDie(unit, table, code, values) ==
    [unit EXCEPT !.abbreviations = table,
                 !.entries = Append(@, [at |-> unit.size, code |-> code, values |-> values]),
                 !.size = @ + EntrySize(table, code, values)]
UnitEnd(u) == units[u].start + units[u].size

\* The open scopes after the first i entries of a unit.
Depth(unit, i) ==
    FoldLeft(LAMBDA d, e : IF IsNull(e) THEN d - 1
                           ELSE IF unit.abbreviations[e.code].has_children THEN d + 1 ELSE d,
             0, SubSeq(unit.entries, 1, i))

DefinedOf(unit, i) == unit.abbreviations[unit.entries[i].code]
IsNamed(unit, i) == ~IsNull(unit.entries[i]) /\ DefinedOf(unit, i) \in {DECLARED, DEFINED}
-----------------------------------------------------------------------------
\* The compiler.  The string and address tables of a unit start at its own base;
\* name index k of unit u is the string <<u, k>>, address index k is LowPc(u, k).
Base(u) == 8 * u

begin_unit ==
    /\ infoPhase = "compiling" /\ Len(units) < MAX_UNITS
    /\ IF units = <<>> THEN TRUE ELSE Depth(Last(units), Len(Last(units).entries)) = 0
    /\ LET u == Len(units) + 1
           empty == [abbreviations |-> <<>>, entries |-> <<>>, size |-> HEADER_SIZE_OF_UNIT,
                     start |-> IF u = 1 THEN 0 ELSE UnitEnd(u - 1)]
       IN units' = Append(units, AddDie(empty, <<UNIT>>, 1, <<0, u, Base(u), Base(u)>>))
    /\ UNCHANGED <<infoPhase, parserVars>>

\* The code of an abbreviation in a unit's table, which grows when it is new.
CodeIn(table, a) == IF a \in ToSet(table) THEN SelectInSeq(table, LAMBDA b : b = a) ELSE Len(table) + 1

\* A value for each attribute; a definition starts at an address of its own.
LowPc(u, i)  == 100 * u + 10 * i
ValuesFor(u, i, a, target) ==
    [k \in 1 .. Len(a.specs) |->
        CASE a.specs[k].type = "NAME" -> i
          [] a.specs[k].type = "LOW_PC" -> IF a.specs[k].form = "ADDRX1" THEN i ELSE LowPc(u, i)
          [] a.specs[k].type = "HIGH_PC" -> IF a.specs[k].form = "ADDR" THEN LowPc(u, i) + 5 ELSE 5
          [] a.specs[k].type = "SPECIFICATION" -> target
          [] OTHER -> 2]

Written == FoldLeft(LAMBDA sum, unit : sum + Len(SelectSeq(unit.entries, LAMBDA e : e.code > 1)), 0, units)

emit_entry(a, target) ==
    /\ infoPhase = "compiling" /\ units # <<>>
    /\ LET u == Len(units)
           n == Len(units[u].entries)
           code == CodeIn(units[u].abbreviations, a)
       IN /\ Depth(units[u], n) > 0 /\ Written < MAX_DIES
          /\ IF a = SPECIFIED THEN target \in 2 .. n + 2 ELSE target = 2
          /\ units' = [units EXCEPT ![u] =
                 AddDie(@, IF code > Len(@.abbreviations) THEN Append(@.abbreviations, a) ELSE @.abbreviations,
                      code, ValuesFor(u, n + 1, a, target))]
    /\ UNCHANGED <<infoPhase, parserVars>>

close_scope ==
    /\ infoPhase = "compiling" /\ units # <<>>
    /\ LET u == Len(units)
       IN /\ Depth(units[u], Len(units[u].entries)) > 0
          /\ units' = [units EXCEPT ![u] = AddDie(@, @.abbreviations, 0, <<>>)]
    /\ UNCHANGED <<infoPhase, parserVars>>

\* References are patched to offsets once all entries are known; a reference
\* goes to a named entry of the same unit, before or behind it.
Linked(unit) ==
    [unit EXCEPT !.entries = [i \in DOMAIN unit.entries |->
        LET e == unit.entries[i]
        IN IF ~IsNull(e) /\ DefinedOf(unit, i) = SPECIFIED
           THEN [e EXCEPT !.values[1] = unit.entries[e.values[1]].at] ELSE e]]

link ==
    /\ infoPhase = "compiling" /\ units # <<>>
    /\ Depth(Last(units), Len(Last(units).entries)) = 0
    /\ \A u \in DOMAIN units : \A i \in DOMAIN units[u].entries :
           ~IsNull(units[u].entries[i]) /\ DefinedOf(units[u], i) = SPECIFIED =>
               LET t == units[u].entries[i].values[1]
               IN t \in DOMAIN units[u].entries /\ IsNamed(units[u], t)
    /\ units' = [u \in DOMAIN units |-> Linked(units[u])]
    /\ infoPhase' = "parsing"
    /\ UNCHANGED parserVars
-----------------------------------------------------------------------------
\* parse_abbreviations and parse_attribute_specs read one table, up to its
\* terminator.
parse_abbreviations(u) == units[u].abbreviations

parse_compilation_unit_header ==
    /\ infoPhase = "parsing" /\ ~inEntries /\ unitAt <= Len(units)
    /\ offset' = offset + HEADER_SIZE_OF_UNIT
    /\ inEntries' = TRUE /\ scope_stack' = 0
    /\ names' = {} /\ pending_subprograms' = <<>>
    /\ UNCHANGED <<infoPhase, units, unitAt, infos, debug_line_offset, str_offsets_base, addr_base>>

\* resolve_strx: the string offsets table at the base last seen.
resolve_strx(index) ==
    IF \E u \in DOMAIN units : Base(u) = str_offsets_base THEN <<str_offsets_base \div 8, index>>
    ELSE <<0, index>>

\* resolve_addrx, likewise.
resolve_addrx(index) ==
    IF \E u \in DOMAIN units : Base(u) = addr_base THEN LowPc(addr_base \div 8, index) ELSE index

\* The value of an attribute of the entry being read, 0 when it has none.
ValueOf(declaration, e, type) ==
    LET k == SelectInSeq(declaration.specs, LAMBDA s : s.type = type)
    IN IF k = 0 THEN 0 ELSE e.values[k]
Has(declaration, type) == \E s \in ToSet(declaration.specs) : s.type = type
FormOf(declaration, type) ==
    declaration.specs[SelectInSeq(declaration.specs, LAMBDA s : s.type = type)].form

\* The end address of a subprogram; a form that is not an address is a length.
HighPc_AlwaysAddress(p) == p.high_pc

HighPc(p) == IF p.high_pc_is_offset THEN p.low_pc + p.high_pc ELSE p.high_pc

Pending(declaration, e) ==
    [specification_offset |-> IF Has(declaration, "SPECIFICATION")
                              THEN units[unitAt].start + ValueOf(declaration, e, "SPECIFICATION") ELSE 0,
     has_name |-> Has(declaration, "NAME"),
     name     |-> resolve_strx(ValueOf(declaration, e, "NAME")),
     low_pc   |-> IF FormOf(declaration, "LOW_PC") = "ADDRX1"
                  THEN resolve_addrx(ValueOf(declaration, e, "LOW_PC"))
                  ELSE ValueOf(declaration, e, "LOW_PC"),
     high_pc  |-> ValueOf(declaration, e, "HIGH_PC"),
     high_pc_is_offset |-> FormOf(declaration, "HIGH_PC") # "ADDR"]

InUnit == infoPhase = "parsing" /\ inEntries /\ offset < UnitEnd(unitAt)
EntriesHere == {i \in DOMAIN units[unitAt].entries :
                   units[unitAt].start + units[unitAt].entries[i].at = offset}

\* One turn of parse_compilation_unit_debug_information_entries: an entry with
\* its attributes, by the table of its unit.
parse_entry ==
    /\ InUnit /\ EntriesHere # {}
    /\ LET e     == units[unitAt].entries[CHOOSE i \in EntriesHere : TRUE]
           table == parse_abbreviations(unitAt)
           d     == table[e.code]
           sub   == d.tag = "SUBPROGRAM"
       IN /\ ~IsNull(e)
          /\ offset' = FoldLeft(LAMBDA o, k : o + read_attribute_value(d.specs[k].form, e.values[k]),
                                offset + LebSize(e.code), [k \in 1 .. Len(d.specs) |-> k])
          /\ names' = IF sub /\ Has(d, "NAME")
                      THEN names \cup {<<offset, resolve_strx(ValueOf(d, e, "NAME"))>>} ELSE names
          /\ pending_subprograms' = IF sub /\ Has(d, "LOW_PC") /\ Has(d, "HIGH_PC")
                                    THEN Append(pending_subprograms, Pending(d, e))
                                    ELSE pending_subprograms
          /\ scope_stack' = IF d.has_children THEN scope_stack + 1 ELSE scope_stack
          /\ str_offsets_base' = IF Has(d, "STR_OFFSETS_BASE") THEN ValueOf(d, e, "STR_OFFSETS_BASE")
                                 ELSE str_offsets_base
          /\ addr_base' = IF Has(d, "ADDR_BASE") THEN ValueOf(d, e, "ADDR_BASE") ELSE addr_base
          /\ debug_line_offset' = IF Has(d, "STMT_LIST") /\ debug_line_offset = 0
                                  THEN ValueOf(d, e, "STMT_LIST") ELSE debug_line_offset
    /\ UNCHANGED <<infoPhase, units, unitAt, inEntries, infos>>

parse_null ==
    /\ InUnit /\ EntriesHere # {} /\ scope_stack > 0
    /\ IsNull(units[unitAt].entries[CHOOSE i \in EntriesHere : TRUE])
    /\ offset' = offset + 1
    /\ scope_stack' = scope_stack - 1
    /\ UNCHANGED <<infoPhase, units, unitAt, inEntries, names, pending_subprograms, infos,
                   debug_line_offset, str_offsets_base, addr_base>>

\* The pending subprograms: a missing name comes from the entry referred to,
\* which is in `names` whether it came before or behind.
NameOf(p) ==
    IF p.has_name THEN {p.name}
    ELSE IF p.specification_offset = 0 THEN {}
    ELSE {n[2] : n \in {m \in names : m[1] = p.specification_offset}}

finish_unit ==
    /\ infoPhase = "parsing" /\ inEntries /\ ~InUnit
    /\ LET found == SelectSeq(pending_subprograms, LAMBDA p : NameOf(p) # {})
       IN infos' = infos \o [i \in DOMAIN found |->
              [name |-> CHOOSE n \in NameOf(found[i]) : TRUE, low_pc |-> found[i].low_pc,
               high_pc |-> HighPc(found[i])]]
    /\ offset' = UnitEnd(unitAt)
    /\ unitAt' = unitAt + 1 /\ inEntries' = FALSE
    /\ UNCHANGED <<infoPhase, units, scope_stack, names, pending_subprograms, debug_line_offset,
                   str_offsets_base, addr_base>>

finish_subprograms ==
    /\ infoPhase = "parsing" /\ ~inEntries /\ unitAt > Len(units)
    /\ infoPhase' = "done"
    /\ UNCHANGED <<units, parserVars>>

DebugInfoInit ==
    /\ infoPhase = "compiling" /\ units = <<>> /\ offset = 0 /\ unitAt = 1 /\ inEntries = FALSE
    /\ scope_stack = 0 /\ names = {} /\ pending_subprograms = <<>> /\ infos = <<>>
    /\ debug_line_offset = 0 /\ str_offsets_base = 0 /\ addr_base = 0

DebugInfoNext ==
    \/ begin_unit \/ close_scope \/ link
    \/ \E a \in Declarations, target \in 2 .. MAX_DIES + 2 : emit_entry(a, target)
    \/ parse_compilation_unit_header \/ parse_entry \/ parse_null
    \/ finish_unit \/ finish_subprograms
-----------------------------------------------------------------------------
\* The walk stays on the entries as they were written, whatever forms it steps
\* over and in whatever order the abbreviations of a unit are numbered, and the
\* scopes it counts are the open ones.
DebugInfoTypeOK ==
    /\ infoPhase \in {"compiling", "parsing", "done"}
    /\ infoPhase = "parsing" /\ inEntries =>
           /\ offset = UnitEnd(unitAt) \/ EntriesHere # {}
           /\ \A i \in EntriesHere : scope_stack = Depth(units[unitAt], i - 1)

\* What the compiler meant: the definitions with their own name or that of the
\* entry they specify.
MeantIn(u, i) ==
    LET e == units[u].entries[i]
        a == DefinedOf(units[u], i)
        named == IF a = DEFINED THEN i
                 ELSE CHOOSE t \in DOMAIN units[u].entries : units[u].entries[t].at = e.values[1]
    IN [name |-> <<u, named>>, low_pc |-> LowPc(u, i), high_pc |-> LowPc(u, i) + 5]

Meant == UNION {{MeantIn(u, i) : i \in {j \in DOMAIN units[u].entries :
                    ~IsNull(units[u].entries[j]) /\ DefinedOf(units[u], j) \in {DEFINED, SPECIFIED}}} :
                u \in DOMAIN units}

\* At the end every definition is known by its name, of its own unit, and with
\* its own range of addresses, and nothing else is.
SubprogramsNamed ==
    infoPhase = "done" => ToSet(infos) = Meant /\ Len(infos) = Cardinality(Meant)
=============================================================================
