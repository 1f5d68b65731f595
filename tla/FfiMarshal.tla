----------------------------- MODULE FfiMarshal -----------------------------
(***************************************************************************)
(* How results cross from C++ to Rust: an exported function of the shim    *)
(* (bindings/rust/idax-sys/shim/idax_shim.cpp) copies its result into      *)
(* blocks it allocates, and the Rust wrapper copies them into its own      *)
(* values and has them freed.  Any allocation may fail half way.           *)
(*                                                                         *)
(* Of the data only the pointers are kept.  A slot is where a pointer      *)
(* lives: a local of the wrapper or a field of a block that is allocated.  *)
(* An exported function and its wrapper are sequences of statements on     *)
(* slots, written with the names of the functions they stand for.          *)
(***************************************************************************)
EXTENDS Naturals, Sequences, FiniteSets, SequencesExt

CONSTANT MaxElements  \* bound: elements of an array a function returns

-----------------------------------------------------------------------------
(* Slots and statements. *)

Out == <<"out">>
At(i) == <<"out", i>>
Field(i, f) == <<"out", i, f>>
Fields(n, names) == {Field(i, f) : i \in 1 .. n, f \in names}

Statement(op, slot, inside, then) ==
  [op |-> op, slot |-> slot, inside |-> inside, then |-> then]

(* The slots in a fresh block hold garbage after malloc, null after calloc.*)
Malloc(s, inside) == Statement("malloc", s, inside, << >>)
Calloc(s, inside) == Statement("calloc", s, inside, << >>)
(* operator new throws when it fails, which nothing here catches.          *)
New(s) == Statement("new", s, {}, << >>)
Free(s) == Statement("free", s, {}, << >>)
SetNull(s) == Statement("null", s, {}, << >>)
Read(s) == Statement("read", s, {}, << >>)     \* after a test for null
Write(s) == Statement("write", s, {}, << >>)   \* without one
Take(s) == Statement("take", s, {}, << >>)     \* a Rust value owns it now
IfSet(s, then) == Statement("if set", s, {}, then)
(* An allocation is missing: clean up and return an error.  IfLost lets a  *)
(* missing copy of an empty string pass.                                   *)
IfNull(slots, cleanup) == Statement("if null", Out, slots, cleanup)
IfLost(slots, cleanup) == Statement("if lost", Out, slots, cleanup)

ForEach(n, Body(_)) == FlattenSeq([i \in 1 .. n |-> Body(i)])
OnAll(slots, Op(_)) == [k \in DOMAIN slots |-> Op(slots[k])]
Frees(slots) == OnAll(slots, Free)
Drops(slots) == FlattenSeq(OnAll(slots, LAMBDA s : <<Free(s), SetNull(s)>>))
Reads(slots) == OnAll(slots, Read)
(* dup_string, called for every slot *)
Dups(slots) == OnAll(slots, LAMBDA s : Malloc(s, {}))
All(slots) == {slots[k] : k \in DOMAIN slots}
Row(i, names) == [k \in DOMAIN names |-> Field(i, names[k])]

(* An empty result is a null pointer. *)
Unless0(n, body) == IF n = 0 THEN <<SetNull(Out)>> ELSE body
(* The wrapper has nothing to free then. *)
IfAny(body) == <<IfSet(Out, body)>>

-----------------------------------------------------------------------------
(* Strings, bytes, numbers. *)

RETURN_RESULT_STRING == <<Malloc(Out, {})>>
cstr_to_string_free == IfAny(<<Read(Out), Free(Out)>>)

RETURN_RESULT_VEC_ADDR(n) == Unless0(n, <<Malloc(Out, {}), IfNull({Out}, << >>)>>)
callers == IfAny(<<Read(Out), Free(Out)>>)

idax_data_read_bytes(n) == Unless0(n, <<Malloc(Out, {}), IfNull({Out}, << >>)>>)
read_bytes == IfAny(<<Read(Out), Free(Out)>>)

idax_graph_edges(n) == Unless0(n, <<Malloc(Out, {}), IfNull({Out}, << >>), Write(Out)>>)

(* fill_xrefs writes through the pointer without a look at it. *)
fill_xrefs(n) == Unless0(n, <<Malloc(Out, {}), Write(Out)>>)
refs_from_ffi == IfAny(<<Read(Out), Free(Out)>>)

fill_string_array(n) ==
  Unless0(n, <<Malloc(Out, {At(i) : i \in 1 .. n}), IfNull({Out}, << >>)>> \o
    ForEach(n, LAMBDA i :
      <<Malloc(At(i), {}),
        IfNull({At(i)}, ForEach(i - 1, LAMBDA j : <<Free(At(j))>>) \o <<Free(Out)>>)>>))

string_array_free(n) == ForEach(n, LAMBDA i : <<Free(At(i))>>) \o <<Free(Out)>>

operand_struct_offset_path_names(n) ==
  IfAny(ForEach(n, LAMBDA i : <<Read(At(i))>>) \o string_array_free(n))

copy_lines_to_c_array(n) ==
  Unless0(n, <<Malloc(Out, {At(i) : i \in 1 .. n}), IfNull({Out}, << >>)>> \o
    ForEach(n, LAMBDA i :
      <<Malloc(At(i), {}),
        IfLost({At(i)}, ForEach(i - 1, LAMBDA j : <<Free(At(j))>>)
                          \o <<Free(Out), SetNull(Out)>>)>>))

lines(n) == IfAny(ForEach(n, LAMBDA i : <<Read(At(i))>>) \o string_array_free(n))

-----------------------------------------------------------------------------
(* Records of strings. *)

CompilerInfo == << <<"name">>, <<"abbreviation">> >>
idax_database_compiler_info == Dups(CompilerInfo) \o <<IfLost(All(CompilerInfo), Drops(CompilerInfo))>>
compiler_info == Reads(CompilerInfo) \o Drops(CompilerInfo)

FrameVariable == << <<"name">>, <<"comment">> >>
idax_function_frame_variable_by_name ==
  Dups(FrameVariable) \o <<IfLost(All(FrameVariable), Drops(FrameVariable))>>
frame_variable_from_raw == FlattenSeq(OnAll(FrameVariable, LAMBDA s : <<Read(s), Free(s)>>))

Entry == << <<"name">>, <<"forwarder">> >>
fill_entry == Dups(Entry)
by_index == Reads(Entry) \o Drops(Entry)

Segment == << <<"name">>, <<"class_name">> >>
fill_segment == Dups(Segment)
segment_from_raw == FlattenSeq(OnAll(Segment, LAMBDA s : <<Read(s), Free(s)>>))

fill_function == <<Malloc(<<"name">>, {})>>
function_from_raw == <<Read(<<"name">>), Free(<<"name">>)>>

AppcallResult == << <<"string_value">>, <<"diagnostics">> >>
fill_appcall_result_out ==
  <<Malloc(AppcallResult[1], {}), IfLost({AppcallResult[1]}, << >>),
    Malloc(AppcallResult[2], {}), IfLost({AppcallResult[2]}, Drops(<<AppcallResult[1]>>))>>
appcall == Reads(AppcallResult) \o Drops(AppcallResult)

(* An executor's answer goes the other way: executor_trampoline makes the  *)
(* strings, a NUL in one of them is an error, and execute of the shim      *)
(* frees them either way.                                                  *)
executor_trampoline ==
  <<New(AppcallResult[1]), IfLost({<<"name">>}, Drops(AppcallResult)), New(AppcallResult[2])>>
execute == Reads(AppcallResult) \o Drops(AppcallResult)

-----------------------------------------------------------------------------
(* Arrays of records of strings. *)

FrameNames == <<"name", "comment">>
idax_function_frame(n) ==
  Unless0(n, <<Malloc(Out, Fields(n, All(FrameNames))), IfNull({Out}, << >>)>> \o
    ForEach(n, LAMBDA i : Dups(Row(i, FrameNames))))
(* The strings are consumed one by one: only the array is left to free.    *)
frame(n) ==
  IfAny(ForEach(n, LAMBDA i : FlattenSeq(OnAll(Row(i, FrameNames), LAMBDA s : <<Read(s), Free(s)>>)))
        \o <<Free(Out)>>)

RegisterNames == <<"canonical_name", "user_name", "comment">>
register_variables_free(n) == ForEach(n, LAMBDA i : Drops(Row(i, RegisterNames))) \o <<Free(Out)>>
idax_function_register_variables(n) ==
  Unless0(n, <<Calloc(Out, Fields(n, All(RegisterNames))), IfNull({Out}, << >>)>> \o
    ForEach(n, LAMBDA i :
      Dups(Row(i, RegisterNames)) \o
      <<IfLost(All(Row(i, RegisterNames)), register_variables_free(i) \o <<SetNull(Out)>>)>>))
register_variables(n) ==
  IfAny(ForEach(n, LAMBDA i : Reads(Row(i, RegisterNames))) \o register_variables_free(n))

name_entries_free(n) == ForEach(n, LAMBDA i : Drops(<<Field(i, "name")>>)) \o <<Free(Out)>>
idax_name_all_user_defined(n) ==
  Unless0(n, <<Calloc(Out, Fields(n, {"name"})), IfNull({Out}, << >>)>> \o
    ForEach(n, LAMBDA i :
      <<Malloc(Field(i, "name"), {}),
        IfLost({Field(i, "name")}, name_entries_free(n) \o <<SetNull(Out)>>)>>))
all_user_defined(n) ==
  IfAny(ForEach(n, LAMBDA i : <<Read(Field(i, "name"))>>) \o name_entries_free(n))

BackendNames == <<"name", "display_name">>
idax_debugger_available_backends(n) ==
  Unless0(n, <<Calloc(Out, Fields(n, All(BackendNames))), IfNull({Out}, << >>)>> \o
    ForEach(n, LAMBDA i : Dups(Row(i, BackendNames))))
available_backends(n) ==
  IfAny(ForEach(n, LAMBDA i : Reads(Row(i, BackendNames)))
        \o ForEach(n, LAMBDA i : Drops(Row(i, BackendNames))) \o <<Free(Out)>>)

VariableNames == <<"name", "type_name", "comment">>
idax_decompiled_variables(n) ==
  Unless0(n, <<Malloc(Out, Fields(n, All(VariableNames))), IfNull({Out}, << >>)>> \o
    ForEach(n, LAMBDA i : Dups(Row(i, VariableNames))))
variables(n) ==
  IfAny(ForEach(n, LAMBDA i : Reads(Row(i, VariableNames)))
        \o ForEach(n, LAMBDA i : Drops(Row(i, VariableNames))) \o <<Free(Out)>>)

EnumNames == <<"name", "comment">>
enum_members_free(n) == ForEach(n, LAMBDA i : Drops(Row(i, EnumNames))) \o <<Free(Out)>>
idax_type_enum_members(n) ==
  Unless0(n, <<Malloc(Out, Fields(n, All(EnumNames))), IfNull({Out}, << >>)>> \o
    ForEach(n, LAMBDA i :
      Dups(Row(i, EnumNames)) \o <<IfNull(All(Row(i, EnumNames)), enum_members_free(i))>>))
enum_members(n) == IfAny(ForEach(n, LAMBDA i : Reads(Row(i, EnumNames))) \o enum_members_free(n))

-----------------------------------------------------------------------------
(* Handles of type objects, which the Rust values take over. *)

idax_type_function_argument_types(n) ==
  Unless0(n, <<Malloc(Out, {At(i) : i \in 1 .. n}), IfNull({Out}, << >>)>> \o
    ForEach(n, LAMBDA i : <<New(At(i))>>))
function_argument_types(n) ==
  IfAny(ForEach(n, LAMBDA i : <<Take(At(i)), SetNull(At(i))>>) \o string_array_free(n))

MemberNames == <<"name", "type", "comment">>
fill_type_member(i, onfail) ==
  <<Malloc(Field(i, "name"), {}), New(Field(i, "type")), Malloc(Field(i, "comment"), {}),
    IfNull({Field(i, "name"), Field(i, "comment")}, Drops(Row(i, MemberNames)) \o onfail)>>
members_free(n) == ForEach(n, LAMBDA i : Drops(Row(i, MemberNames))) \o <<Free(Out)>>
idax_type_members(n) ==
  Unless0(n, <<Malloc(Out, Fields(n, All(MemberNames))), IfNull({Out}, << >>)>> \o
    ForEach(n, LAMBDA i :
      OnAll(Row(i, MemberNames), SetNull) \o fill_type_member(i, members_free(i))))
members(n) ==
  IfAny(ForEach(n, LAMBDA i :
          <<Take(Field(i, "type")), SetNull(Field(i, "type")),
            Read(Field(i, "name")), Read(Field(i, "comment"))>>)
        \o members_free(n))

idax_decompiled_capture_user_lvar_settings == <<New(Out)>>
capture_user_lvar_settings == <<Take(Out)>>

-----------------------------------------------------------------------------
(* Nested blocks. *)

Symbol(i, j) == <<"out", i, "symbols", j>>
Symbols(i, n) == [j \in 1 .. n |-> Symbol(i, j)]

import_modules_free(k, n) ==
  ForEach(k, LAMBDA i :
    <<IfSet(Field(i, "symbols"), Drops(Symbols(i, n)) \o Drops(<<Field(i, "symbols")>>))>>
      \o Drops(<<Field(i, "name")>>))
  \o <<Free(Out)>>

idax_database_import_modules_Malloc(n) ==
  Unless0(n, <<Malloc(Out, Fields(n, {"name", "symbols"})), IfNull({Out}, << >>)>> \o
    ForEach(n, LAMBDA i :
      LET fails == import_modules_free(i, n) \o <<SetNull(Out)>>
      IN  <<Malloc(Field(i, "name"), {}), IfLost({Field(i, "name")}, fails),
            Calloc(Field(i, "symbols"), All(Symbols(i, n))),
            IfNull({Field(i, "symbols")}, fails)>> \o
          ForEach(n, LAMBDA j : <<Malloc(Symbol(i, j), {}), IfLost({Symbol(i, j)}, fails)>>)))

idax_database_import_modules(n) ==
  Unless0(n, <<Calloc(Out, Fields(n, {"name", "symbols"})), IfNull({Out}, << >>)>> \o
    ForEach(n, LAMBDA i :
      LET fails == import_modules_free(i, n) \o <<SetNull(Out)>>
      IN  <<Malloc(Field(i, "name"), {}), IfLost({Field(i, "name")}, fails),
            Calloc(Field(i, "symbols"), All(Symbols(i, n))),
            IfNull({Field(i, "symbols")}, fails)>> \o
          ForEach(n, LAMBDA j : <<Malloc(Symbol(i, j), {}), IfLost({Symbol(i, j)}, fails)>>)))

import_modules(n) ==
  IfAny(ForEach(n, LAMBDA i :
          <<Read(Field(i, "name")), IfSet(Field(i, "symbols"), Reads(Symbols(i, n)))>>)
        \o import_modules_free(n, n))

(* Snapshots form a tree: here roots with children that are leaves. *)
SnapshotNames == <<"description", "filename">>
Child(i, j, f) == <<"out", i, "children", j, f>>
ChildRow(i, j, names) == [k \in DOMAIN names |-> Child(i, j, names[k])]
Children(i, n, names) == {Child(i, j, f) : j \in 1 .. n, f \in All(names)}

free_snapshot_contents(i, n) ==
  <<IfSet(Field(i, "children"),
          ForEach(n, LAMBDA j : Drops(ChildRow(i, j, SnapshotNames))) \o Drops(<<Field(i, "children")>>))>>
  \o Drops(Row(i, SnapshotNames))

fill_snapshot_child(i, j, onfail) ==
  Dups(ChildRow(i, j, SnapshotNames)) \o
  <<IfLost(All(ChildRow(i, j, SnapshotNames)), Drops(ChildRow(i, j, SnapshotNames)) \o onfail)>>

fill_snapshot_ForgetsOwnStrings(i, n, onfail) ==
  Dups(Row(i, SnapshotNames)) \o
  <<SetNull(Field(i, "children")),
    IfLost(All(Row(i, SnapshotNames)), free_snapshot_contents(i, n) \o onfail)>> \o
  (IF n = 0 THEN << >> ELSE
    <<Calloc(Field(i, "children"), Children(i, n, SnapshotNames)),
      IfNull({Field(i, "children")}, free_snapshot_contents(i, n) \o onfail)>> \o
    ForEach(n, LAMBDA j :
      fill_snapshot_child(i, j,
        ForEach(j - 1, LAMBDA k : Drops(ChildRow(i, k, SnapshotNames)))
        \o Drops(<<Field(i, "children")>>) \o OnAll(Row(i, SnapshotNames), SetNull) \o onfail)))

fill_snapshot(i, n, onfail) ==
  Dups(Row(i, SnapshotNames)) \o
  <<SetNull(Field(i, "children")),
    IfLost(All(Row(i, SnapshotNames)), free_snapshot_contents(i, n) \o onfail)>> \o
  (IF n = 0 THEN << >> ELSE
    <<Calloc(Field(i, "children"), Children(i, n, SnapshotNames)),
      IfNull({Field(i, "children")}, free_snapshot_contents(i, n) \o onfail)>> \o
    ForEach(n, LAMBDA j :
      fill_snapshot_child(i, j,
        ForEach(j - 1, LAMBDA k : Drops(ChildRow(i, k, SnapshotNames)))
        \o Drops(<<Field(i, "children")>>) \o Drops(Row(i, SnapshotNames)) \o onfail)))

snapshots_free(n) == ForEach(n, LAMBDA i : free_snapshot_contents(i, n)) \o <<Free(Out)>>

idax_database_snapshots(n) ==
  Unless0(n, <<Calloc(Out, Fields(n, All(SnapshotNames) \cup {"children"})), IfNull({Out}, << >>)>> \o
    ForEach(n, LAMBDA i : fill_snapshot(i, n, snapshots_free(n) \o <<SetNull(Out)>>)))

snapshots(n) ==
  IfAny(ForEach(n, LAMBDA i :
          Reads(Row(i, SnapshotNames)) \o
          <<IfSet(Field(i, "children"), ForEach(n, LAMBDA j : Reads(ChildRow(i, j, SnapshotNames))))>>)
        \o snapshots_free(n))

(* A typed value: an array whose elements hold no arrays. *)
ValueNames == <<"string_value", "bytes">>
Value == << <<"string_value">>, <<"bytes">> >>
free_typed_value_contents(n) ==
  Drops(Value) \o
  <<IfSet(Out, ForEach(n, LAMBDA i : Drops(Row(i, ValueNames))) \o Drops(<<Out>>))>>

fill_typed_value_contents(slots, onfail) ==
  OnAll(slots, SetNull) \o
  <<Malloc(slots[1], {}), IfLost({slots[1]}, onfail),
    Malloc(slots[2], {}), IfNull({slots[2]}, onfail)>>

fill_typed_value(n) ==
  fill_typed_value_contents(Value, free_typed_value_contents(n)) \o
  (IF n = 0 THEN << >> ELSE
    <<Calloc(Out, Fields(n, All(ValueNames))), IfNull({Out}, free_typed_value_contents(n))>> \o
    ForEach(n, LAMBDA i :
      fill_typed_value_contents(Row(i, ValueNames),
        Drops(Row(i, ValueNames)) \o free_typed_value_contents(n))))

read_typed(n) ==
  Reads(Value) \o <<IfSet(Out, ForEach(n, LAMBDA i : Reads(Row(i, ValueNames))))>>
  \o free_typed_value_contents(n)

(* The operands of an instruction are written without a look at the block. *)
fill_instruction(n) ==
  <<Malloc(<<"name">>, {})>> \o
  Unless0(n, <<Malloc(Out, Fields(n, {"register_name"}))>> \o
    ForEach(n, LAMBDA i : <<Write(Out), Malloc(Field(i, "register_name"), {})>>))

decode(n) ==
  <<Read(<<"name">>), IfSet(Out, ForEach(n, LAMBDA i : <<Read(Field(i, "register_name"))>>))>> \o
  Drops(<< <<"name">> >>) \o
  <<IfSet(Out, ForEach(n, LAMBDA i : <<Free(Field(i, "register_name"))>>) \o Drops(<<Out>>))>>

(* A microcode instruction: a left operand that nests another instruction, *)
(* and two operands that nest none.                                        *)
Operands == << <<"left">>, <<"right">>, <<"destination">> >>
Nested == [k \in 1 .. 3 |-> Append(Out, k)]

free_microcode_operand(s) == Drops(<<s>>)
idax_microcode_instruction_free ==
  free_microcode_operand(Operands[1]) \o <<IfSet(Out, Drops(Nested) \o Drops(<<Out>>))>>
  \o free_microcode_operand(Operands[2]) \o free_microcode_operand(Operands[3])

fill_microcode_operand(s, onfail) == <<Malloc(s, {}), IfLost({s}, onfail)>>

fill_nested_instruction(onfail) ==
  LET fails == Drops(Nested) \o Drops(<<Out>>) \o Drops(<<Operands[1]>>) \o onfail
  IN  <<Calloc(Out, All(Nested)), IfNull({Out}, Drops(<<Operands[1]>>) \o onfail)>>
      \o fill_microcode_operand(Nested[1], fails)
      \o fill_microcode_operand(Nested[2], Drops(<<Nested[1]>>) \o fails)
      \o fill_microcode_operand(Nested[3], Drops(<<Nested[2]>>) \o Drops(<<Nested[1]>>) \o fails)

fill_microcode_instruction(n) ==
  LET left == free_microcode_operand(Operands[1]) \o
                <<IfSet(Out, Drops(Nested) \o Drops(<<Out>>))>>
      fails == idax_microcode_instruction_free
  IN  OnAll(Operands, SetNull) \o <<SetNull(Out)>>
      \o fill_microcode_operand(Operands[1], fails)
      \o (IF n = 0 THEN << >> ELSE fill_nested_instruction(fails))
      \o fill_microcode_operand(Operands[2], left \o fails)
      \o fill_microcode_operand(Operands[3], Drops(<<Operands[2]>>) \o left \o fails)

instruction_at_index ==
  Reads(Operands) \o <<IfSet(Out, Reads(Nested))>> \o idax_microcode_instruction_free

(* The basic blocks of a flow chart: a failure returns at once. *)
BlockNames == <<"successors", "predecessors">>
fill_basic_blocks(n) ==
  Unless0(n, <<Malloc(Out, Fields(n, All(BlockNames))), IfNull({Out}, << >>)>> \o
    ForEach(n, LAMBDA i :
      FlattenSeq(OnAll(Row(i, BlockNames), LAMBDA s : <<Malloc(s, {}), IfNull({s}, << >>)>>))))
flowchart(n) ==
  IfAny(ForEach(n, LAMBDA i : Reads(Row(i, BlockNames)))
        \o ForEach(n, LAMBDA i : Drops(Row(i, BlockNames))) \o <<Free(Out)>>)

-----------------------------------------------------------------------------
(* Calls: one at a time, since no state is shared between two of them. *)

Program(n) ==
  [name_at |-> RETURN_RESULT_STRING \o cstr_to_string_free,
   callers |-> RETURN_RESULT_VEC_ADDR(n) \o callers,
   read_bytes |-> idax_data_read_bytes(n) \o read_bytes,
   edges |-> idax_graph_edges(n) \o callers,
   refs_from |-> fill_xrefs(n) \o refs_from_ffi,
   operand_struct_offset_path_names |-> fill_string_array(n) \o operand_struct_offset_path_names(n),
   lines |-> copy_lines_to_c_array(n) \o lines(n),
   compiler_info |-> idax_database_compiler_info \o compiler_info,
   frame_variable_by_name |-> idax_function_frame_variable_by_name \o frame_variable_from_raw,
   by_index |-> fill_entry \o by_index,
   segment_at |-> fill_segment \o segment_from_raw,
   function_at |-> fill_function \o function_from_raw,
   appcall |-> fill_appcall_result_out \o appcall,
   appcall_with_executor |-> executor_trampoline \o execute,
   frame |-> idax_function_frame(n) \o frame(n),
   register_variables |-> idax_function_register_variables(n) \o register_variables(n),
   all_user_defined |-> idax_name_all_user_defined(n) \o all_user_defined(n),
   available_backends |-> idax_debugger_available_backends(n) \o available_backends(n),
   variables |-> idax_decompiled_variables(n) \o variables(n),
   enum_members |-> idax_type_enum_members(n) \o enum_members(n),
   function_argument_types |-> idax_type_function_argument_types(n) \o function_argument_types(n),
   members |-> idax_type_members(n) \o members(n),
   capture_user_lvar_settings |->
     idax_decompiled_capture_user_lvar_settings \o capture_user_lvar_settings,
   import_modules |-> idax_database_import_modules(n) \o import_modules(n),
   snapshots |-> idax_database_snapshots(n) \o snapshots(n),
   read_typed |-> fill_typed_value(n) \o read_typed(n),
   decode |-> fill_instruction(n) \o decode(n),
   instruction_at_index |-> fill_microcode_instruction(n) \o instruction_at_index,
   flowchart |-> fill_basic_blocks(n) \o flowchart(n)]

Programs == [n \in 0 .. MaxElements |-> Program(n)]
Functions == DOMAIN Programs[0]

VARIABLES
  call,    \* the exported function being called, "none" between calls
  todo,    \* the statements still to run
  memory,  \* what each slot that exists holds
  lost,    \* has a live block lost its last pointer?
  fault    \* the first illegal use of a pointer, after which all is undefined

mvars == <<call, todo, memory, lost, fault>>

(* The wrapper's own locals start as null pointers. *)
Locals == {Out} \cup {<<f>> : f \in {"name", "abbreviation", "comment", "forwarder", "class_name",
                                    "string_value", "bytes", "diagnostics",
                                    "left", "right", "destination"}}
Pointer == {"garbage", "null", "live", "freed", "taken"}

MarshalTypeOK ==
  /\ call \in Functions \cup {"none"}
  /\ \A k \in DOMAIN todo : DOMAIN todo[k] = {"op", "slot", "inside", "then"}
  /\ Locals \subseteq DOMAIN memory
  /\ \A s \in DOMAIN memory : memory[s] \in Pointer
  /\ lost \in BOOLEAN
  /\ fault \in {"none", "null", "wild", "garbage", "freed", "taken"}

MarshalInit ==
  /\ call = "none"
  /\ todo = << >>
  /\ memory = [s \in Locals |-> "null"]
  /\ lost = FALSE
  /\ fault = "none"

-----------------------------------------------------------------------------
CallsShim(f, n) ==
  /\ call = "none"
  /\ call' = f
  /\ todo' = Programs[n][f]
  /\ UNCHANGED <<memory, lost, fault>>

Next1 == Head(todo)
Running(ops) == todo # << >> /\ Next1.op \in ops
Held(s) == IF s \in DOMAIN memory THEN memory[s] ELSE "wild"
Within(s) == {t \in DOMAIN memory : IsStrictPrefix(s, t)}

Faults(kind) ==
  /\ fault' = kind
  /\ todo' = << >>
  /\ UNCHANGED <<call, memory, lost>>

(* Storing into a slot forgets the pointer it held. *)
Points(s, pointer, inside, content) ==
  /\ memory' = [t \in DOMAIN memory \cup inside |->
                  IF t = s THEN pointer ELSE IF t \in inside THEN content ELSE memory[t]]
  /\ lost' = (lost \/ memory[s] = "live")
  /\ todo' = Tail(todo)
  /\ UNCHANGED <<call, fault>>

Stores ==
  /\ Running({"malloc", "calloc", "new", "null"})
  /\ LET s == Next1.slot IN
       IF Held(s) = "wild" THEN Faults("wild")
       ELSE \/ /\ Next1.op # "null"
               /\ Points(s, "live", Next1.inside, IF Next1.op = "malloc" THEN "garbage" ELSE "null")
            \/ /\ Next1.op # "new"
               /\ Points(s, "null", {}, "null")

(* Freeing a block loses what only its own slots pointed to. *)
Frees1 ==
  /\ Running({"free"})
  /\ LET s == Next1.slot IN
       CASE Held(s) = "null" -> todo' = Tail(todo) /\ UNCHANGED <<call, memory, lost, fault>>
         [] Held(s) = "live" ->
              /\ memory' = [t \in DOMAIN memory \ Within(s) |->
                              IF t = s THEN "freed" ELSE memory[t]]
              /\ lost' = (lost \/ \E t \in Within(s) : memory[t] = "live")
              /\ todo' = Tail(todo)
              /\ UNCHANGED <<call, fault>>
         [] OTHER -> Faults(Held(s))

Uses ==
  /\ Running({"read", "write", "take", "if set"})
  /\ LET s == Next1.slot
         legal == IF Next1.op = "write" THEN {"live"} ELSE {"live", "null"}
     IN  IF Held(s) \notin legal THEN Faults(Held(s))
         ELSE /\ todo' = IF Next1.op = "if set" /\ Held(s) = "live"
                         THEN Next1.then \o Tail(todo) ELSE Tail(todo)
              /\ memory' = IF Next1.op = "take" /\ Held(s) = "live"
                           THEN [memory EXCEPT ![s] = "taken"] ELSE memory
              /\ UNCHANGED <<call, lost, fault>>

ChecksResult ==
  /\ Running({"if null", "if lost"})
  /\ LET missing == {s \in Next1.inside : Held(s) # "live"} IN
       \/ /\ missing = {} \/ Next1.op = "if lost"
          /\ todo' = Tail(todo)
       \/ /\ missing # {}
          /\ todo' = Next1.then
  /\ UNCHANGED <<call, memory, lost, fault>>

CallReturns ==
  /\ call # "none"
  /\ todo = << >>
  /\ call' = "none"
  /\ todo' = << >>
  /\ memory' = [s \in Locals |-> "null"]
  /\ lost' = FALSE
  /\ fault' = "none"

MarshalNext ==
  \/ \E f \in Functions, n \in 0 .. MaxElements : CallsShim(f, n)
  \/ Stores
  \/ Frees1
  \/ Uses
  \/ ChecksResult
  \/ CallReturns

MarshalSpec == MarshalInit /\ [][MarshalNext]_mvars

-----------------------------------------------------------------------------
(* Properties. *)

(* Whichever allocation fails, no wrapper reads and no cleanup frees a     *)
(* pointer that was never set, was freed or was taken over; and only the   *)
(* two functions that do not look at their array write through a null      *)
(* pointer.                                                                *)
PointersRespected ==
  fault # "none" => fault = "null" /\ call \in {"decode", "refs_from"}

(* "... invoke shim free helpers exactly once ... to avoid leaks": when a  *)
(* call is over every block it allocated has been freed or belongs to a    *)
(* Rust value, after a failure as well, except for the basic blocks of a   *)
(* flow chart whose copy failed.  (It includes that the variables have     *)
(* their types.)                                                           *)
NothingLeaks ==
  /\ MarshalTypeOK
  /\ call # "none" /\ todo = << >> /\ fault = "none" =>
       \/ ~lost /\ \A s \in DOMAIN memory : memory[s] # "live"
       \/ call = "flowchart"

(* Every block handed over has one owner at a time, who frees it once.     *)
MarshallingSound == PointersRespected /\ NothingLeaks
=============================================================================
