------------------------------ MODULE TypedData ------------------------------
(***************************************************************************)
(* Typed reads and writes of the program's bytes (src/data.cpp).  A type   *)
(* is a record with its kind and size, an array also with the type and     *)
(* number of its elements; a value is a record with its kind and the       *)
(* payload of that kind.  The string_value of a string is its bytes up to  *)
(* the first zero.                                                         *)
(*                                                                         *)
(* A byte is a number below Base instead of 256, so that words are small;  *)
(* bytes are stored least significant first.                               *)
(***************************************************************************)
EXTENDS Integers, Sequences, FiniteSets, SequencesExt

CONSTANTS
  Base,                   \* how many values a byte has
  Printable,              \* the bytes is_printable_ascii accepts
  Mapped,                 \* how many addresses the database has bytes for
  Contents,               \* bytes the database starts with
  DataTypes, DataValues   \* what clients pass

ASSUME DataAssumption ==
  /\ Base \in Nat /\ Base > 1
  /\ Printable \subseteq 1 .. Base - 1
  /\ Mapped \in Nat
  /\ Contents \subseteq 0 .. Base - 1

Unloaded == -1
DataAddresses == 0 .. Mapped - 1
BadAddress == Mapped + 1

VARIABLES
  memory,     \* external: the byte at each address, or Unloaded
  written     \* history: the typed write

datavars == <<memory, written>>

-----------------------------------------------------------------------------
(* external: the SDK's access to bytes.  A value is read whenever its      *)
(* first byte is loaded; bytes outside the database are never stored.      *)

ByteOf(number, i) == (number \div Base ^ i) % Base

is_loaded(m, ea) == ea \in DataAddresses /\ m[ea] # Unloaded

RECURSIVE Number(_, _, _)
Number(m, ea, width) ==
  IF width = 0 THEN 0
  ELSE (IF is_loaded(m, ea) THEN m[ea] ELSE Base - 1)
         + Base * Number(m, ea + 1, width - 1)

put_bytes(m, ea, sequence) ==
  [a \in DataAddresses |->
     IF a \in ea .. ea + Len(sequence) - 1 THEN sequence[a - ea + 1] ELSE m[a]]

(* Reading bytes stops at the first that is not loaded. *)
get_bytes(m, ea, count) ==
  LET loaded == {n \in 0 .. count : \A i \in 0 .. n - 1 : is_loaded(m, ea + i)}
      most == CHOOSE n \in loaded : \A k \in loaded : k <= n
  IN [i \in 1 .. most |-> m[ea + i - 1]]

(* A float holds half as many numbers as a double. *)
Single(number) == number - (number % 2)

-----------------------------------------------------------------------------
Widths == {1, 2, 4, 8}
MaxTypedDepth == 64

fits_unsigned_width(width, number) == width \in Widths /\ number < Base ^ width

fits_signed_width(width, number) ==
  width \in Widths /\ 2 * number \in -(Base ^ width) .. Base ^ width - 1

(* What may be absent, an error, is a sequence of length at most one. *)
Absent == << >>

read_unsigned_fixed(m, ea, width) ==
  IF is_loaded(m, ea) /\ width \in Widths THEN <<Number(m, ea, width)>> ELSE Absent

read_signed_fixed_ZeroExtends(m, ea, width) == read_unsigned_fixed(m, ea, width)

read_signed_fixed(m, ea, width) ==
  LET raw == read_unsigned_fixed(m, ea, width) IN
  IF raw = Absent THEN Absent
  ELSE <<IF 2 * raw[1] < Base ^ width THEN raw[1] ELSE raw[1] - Base ^ width>>

(* A write answers whether it succeeded and leaves a m. *)
WriteRefused(m) == [ok |-> FALSE, memory |-> m]
WriteDone(m, ea, sequence) == [ok |-> TRUE, memory |-> put_bytes(m, ea, sequence)]
Stored(m, ea, width, number) ==
  WriteDone(m, ea, [i \in 1 .. width |-> ByteOf(number % (Base ^ width), i - 1)])

write_unsigned_fixed(m, ea, width, number) ==
  IF fits_unsigned_width(width, number) THEN Stored(m, ea, width, number)
  ELSE WriteRefused(m)

write_signed_fixed(m, ea, width, number) ==
  IF fits_signed_width(width, number) THEN Stored(m, ea, width, number)
  ELSE WriteRefused(m)

resolve_if_typedef(type) == IF type.kind = "Typedef" THEN type.of ELSE type

is_byte_integer(type) ==
  LET t == resolve_if_typedef(type) IN t.kind \in {"Signed", "Unsigned"} /\ t.size = 1

(* Element i, counted from 0, and the check that its address does not wrap. *)
ElementAt(ea, type, i) == ea + i * type.of.size
Overflows(ea, type, i) == ElementAt(ea, type, i) > BadAddress

-----------------------------------------------------------------------------
Payload(kind, number, sequence, elements) ==
  [kind |-> kind, number |-> number, bytes |-> sequence, elements |-> elements]
RawBytes(sequence) == <<Payload("Bytes", 0, sequence, << >>)>>
Numeric(kind, result) ==
  IF result = Absent THEN Absent ELSE <<Payload(kind, result[1], << >>, << >>)>>

(* The text of a byte array ends at its first zero. *)
Text(raw) ==
  LET zeros == {i \in DOMAIN raw : raw[i] = 0} IN
  IF zeros = {} THEN raw
  ELSE SubSeq(raw, 1, (CHOOSE i \in zeros : \A j \in zeros : i <= j) - 1)

ByteArray(raw) ==
  IF Text(raw) # << >> /\ ToSet(Text(raw)) \subseteq Printable
  THEN <<Payload("String", 0, raw, << >>)>> ELSE RawBytes(raw)

RECURSIVE read_typed(_, _, _, _)
read_typed(m, ea, declared, depth) ==
  LET type == resolve_if_typedef(declared) IN
  CASE depth > MaxTypedDepth -> Absent
    [] type.kind = "Array" /\ is_byte_integer(type.of) ->
         ByteArray(get_bytes(m, ea, type.length))
    [] type.kind = "Array" /\ ~is_byte_integer(type.of) ->
         LET element(i) == IF Overflows(ea, type, i) THEN Absent
                           ELSE read_typed(m, ElementAt(ea, type, i), type.of, depth + 1)
             elements == [i \in 1 .. type.length |-> element(i - 1)]
         IN IF Absent \in ToSet(elements) THEN Absent
            ELSE <<Payload("Array", 0, << >>, [i \in DOMAIN elements |-> elements[i][1]])>>
    [] type.kind = "Pointer" -> Numeric("Pointer", read_unsigned_fixed(m, ea, type.size))
    [] type.kind = "Float" /\ type.size \in {4, 8} ->
         Numeric("FloatingPoint", read_unsigned_fixed(m, ea, type.size))
    [] type.kind = "Signed" /\ type.size <= 8 ->
         Numeric("SignedInteger", read_signed_fixed(m, ea, type.size))
    [] type.kind = "Unsigned" /\ type.size <= 8 ->
         Numeric("UnsignedInteger", read_unsigned_fixed(m, ea, type.size))
    [] OTHER -> RawBytes(get_bytes(m, ea, type.size))

(* The bytes a byte array is given: a string is filled up with zeros. *)
Raw(value, length) ==
  IF value.kind = "Bytes"
  THEN IF Len(value.bytes) = length THEN <<value.bytes>> ELSE Absent
  ELSE IF Len(Text(value.bytes)) > length THEN Absent
       ELSE <<[i \in 1 .. length |-> IF i <= Len(Text(value.bytes)) THEN value.bytes[i] ELSE 0]>>

RECURSIVE write_typed(_, _, _, _, _), write_elements(_, _, _, _, _, _)

(* Elements are written one by one; the first that fails ends the write    *)
(* and the ones before it stay written.                                    *)
write_elements(m, ea, type, value, i, depth) ==
  IF i = type.length THEN [ok |-> TRUE, memory |-> m]
  ELSE IF Overflows(ea, type, i) THEN WriteRefused(m)
  ELSE LET one == write_typed(m, ElementAt(ea, type, i), type.of,
                              value.elements[i + 1], depth + 1)
       IN IF one.ok THEN write_elements(one.memory, ea, type, value, i + 1, depth) ELSE one

write_typed(m, ea, declared, value, depth) ==
  LET type == resolve_if_typedef(declared)
      kind == value.kind
  IN
  CASE depth > MaxTypedDepth -> WriteRefused(m)
    [] type.kind = "Array" /\ is_byte_integer(type.of) /\ kind \in {"Bytes", "String"} ->
         LET raw == Raw(value, type.length) IN
         IF raw = Absent THEN WriteRefused(m) ELSE WriteDone(m, ea, raw[1])
    [] type.kind = "Array" /\ ~(is_byte_integer(type.of) /\ kind \in {"Bytes", "String"}) ->
         IF kind # "Array" \/ Len(value.elements) # type.length THEN WriteRefused(m)
         ELSE write_elements(m, ea, type, value, 0, depth)
    [] type.kind = "Pointer" ->
         IF kind \in {"Pointer", "UnsignedInteger"}
         THEN write_unsigned_fixed(m, ea, type.size, value.number) ELSE WriteRefused(m)
    [] type.kind = "Float" ->
         IF kind # "FloatingPoint" \/ type.size \notin {4, 8} THEN WriteRefused(m)
         ELSE Stored(m, ea, type.size,
                     IF type.size = 4 THEN Single(value.number) ELSE value.number)
    [] type.kind = "Signed" ->
         IF kind \in {"SignedInteger", "UnsignedInteger"} /\ 2 * value.number < Base ^ 8
         THEN write_signed_fixed(m, ea, type.size, value.number) ELSE WriteRefused(m)
    [] type.kind = "Unsigned" ->
         IF kind \in {"SignedInteger", "UnsignedInteger"} /\ value.number >= 0
         THEN write_unsigned_fixed(m, ea, type.size, value.number) ELSE WriteRefused(m)
    [] type.kind = "Struct" ->
         IF kind = "Bytes" /\ Len(value.bytes) = type.size
         THEN WriteDone(m, ea, value.bytes) ELSE WriteRefused(m)

-----------------------------------------------------------------------------
NotWritten == [at |-> 0, type |-> [kind |-> "None", size |-> 0],
               value |-> Payload("Bytes", 0, << >>, << >>), ok |-> FALSE]

(* A segment has its bytes loaded up to some address; the rest has none. *)
DataInit ==
  /\ memory \in [DataAddresses -> Contents \cup {Unloaded}]
  /\ \A a \in DataAddresses :
       memory[a] # Unloaded => \A b \in 0 .. a : memory[b] # Unloaded
  /\ written = NotWritten

WriteTyped(ea, type, value) ==
  /\ LET result == write_typed(memory, ea, type, value, 0)
     IN /\ memory' = result.memory
        /\ written' = [at |-> ea, type |-> type, value |-> value, ok |-> result.ok]

(* Bound: one write to a behaviour.  DataInit has what earlier ones left.  *)
DataNext ==
  written = NotWritten /\
  \E ea \in DataAddresses, type \in DataTypes, value \in DataValues :
    WriteTyped(ea, type, value)

DataSpec == DataInit /\ [][DataNext]_datavars

-----------------------------------------------------------------------------
(* Properties. *)

(* Is this what a client that wrote the value expects to read?  Numbers    *)
(* come back as numbers of the type's kind, bytes and strings as bytes.    *)
RECURSIVE Same(_, _, _)
Same(declared, value, read) ==
  LET type == resolve_if_typedef(declared) IN
  CASE type.kind = "Array" /\ read.kind = "Array" ->
         /\ Len(read.elements) = type.length
         /\ \A i \in 1 .. type.length : Same(type.of, value.elements[i], read.elements[i])
    [] type.kind = "Array" /\ read.kind # "Array" ->
         /\ Len(read.bytes) = type.length
         /\ IF value.kind = "Array"
            THEN \A i \in 1 .. type.length : read.bytes[i] = value.elements[i].number % Base
            ELSE <<read.bytes>> = Raw(value, type.length)
    [] type.kind = "Struct" -> read.bytes = value.bytes
    [] type.kind = "Float" ->
         read.number = IF type.size = 4 THEN Single(value.number) ELSE value.number
    [] OTHER -> read.number = value.number

Span(ea, type) == ea .. ea + type.size - 1

(* A typed write that reports success is read back, by the same type, as   *)
(* the value that was written; one that fails has written whole elements   *)
(* of an array, from the first on, or nothing; and neither touches a byte  *)
(* outside the value.  Bytes outside the database are not stored.          *)
TypedWritesReadBack ==
  [][written' # written =>
       LET at == written'.at
           type == resolve_if_typedef(written'.type)
           changed == {a \in DataAddresses : memory'[a] # memory[a]}
           read == read_typed(memory', at, written'.type, 0)
       IN /\ changed \subseteq Span(at, type)
          /\ written'.ok /\ Span(at, type) \subseteq DataAddresses =>
               read # Absent /\ Same(type, written'.value, read[1])
          /\ ~written'.ok /\ type.kind # "Array" => changed = {}
          /\ ~written'.ok /\ type.kind = "Array" =>
               \E done \in 0 .. type.length - 1 :
                 /\ changed \subseteq at .. ElementAt(at, type, done) - 1
                 /\ done > 0 /\ ElementAt(at, type, done) \in DataAddresses =>
                      LET prefix == read_typed(memory', at, [type EXCEPT !.length = done], 0)
                      IN prefix # Absent /\
                         Same([type EXCEPT !.length = done], written'.value, prefix[1])]_datavars
=============================================================================
