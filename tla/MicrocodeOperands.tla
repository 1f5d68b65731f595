------------------------- MODULE MicrocodeOperands -------------------------
(***************************************************************************)
(* Typed microcode instructions (src/decompiler.cpp): a MicrocodeContext   *)
(* builds SDK instructions from typed ones when it emits, and parses SDK   *)
(* instructions into typed ones when a filter reads the block back.        *)
(* Instructions are trees, an operand may hold a nested instruction.       *)
(*                                                                         *)
(* What may be absent, an error, a null pointer or nothing built, is a     *)
(* sequence of length at most one.  An operand's payload is two integers   *)
(* (a register, two registers, an index and an offset, an address, a       *)
(* number); -1 stands for every payload the code calls negative, BadAddress*)
(* or an empty name.                                                       *)
(***************************************************************************)
EXTENDS Integers, Sequences

CONSTANTS
  Instructions,           \* the typed instructions programs emit
  MaxNestedDepth,         \* kMaxNestedInstructionDepth
  SdkWidth,               \* the width the SDK gives an operand by itself
  Word                    \* how many unsigned 64-bit numbers there are

VARIABLES
  asked,     \* the typed instruction emitted last
  emitted,   \* the SDK instruction last_emitted points to
  parsed     \* what reading it back gave, once it was read back

codecvars == <<asked, emitted, parsed>>

-----------------------------------------------------------------------------
(* The two tables of opcodes. *)

to_sdk_opcode ==
  [NoOperation |-> "m_nop", Move |-> "m_mov", Add |-> "m_add",
   Subtract |-> "m_sub", Multiply |-> "m_mul", ZeroExtend |-> "m_xdu",
   LoadMemory |-> "m_ldx", StoreMemory |-> "m_stx", BitwiseOr |-> "m_or",
   BitwiseAnd |-> "m_and", BitwiseXor |-> "m_xor", ShiftLeft |-> "m_shl",
   ShiftRightLogical |-> "m_shr", ShiftRightArithmetic |-> "m_sar",
   FloatAdd |-> "m_fadd", FloatSub |-> "m_fsub", FloatMul |-> "m_fmul",
   FloatDiv |-> "m_fdiv", IntegerToFloat |-> "m_i2f", FloatToFloat |-> "m_f2f"]

parse_sdk_opcode ==
  [m_nop |-> "NoOperation", m_mov |-> "Move", m_add |-> "Add",
   m_sub |-> "Subtract", m_mul |-> "Multiply", m_xdu |-> "ZeroExtend",
   m_ldx |-> "LoadMemory", m_stx |-> "StoreMemory", m_or |-> "BitwiseOr",
   m_and |-> "BitwiseAnd", m_xor |-> "BitwiseXor", m_shl |-> "ShiftLeft",
   m_shr |-> "ShiftRightLogical", m_sar |-> "ShiftRightArithmetic",
   m_fadd |-> "FloatAdd", m_fsub |-> "FloatSub", m_fmul |-> "FloatMul",
   m_fdiv |-> "FloatDiv", m_i2f |-> "IntegerToFloat", m_f2f |-> "FloatToFloat"]

Opcodes == DOMAIN to_sdk_opcode

Empty == [kind |-> "Empty", a |-> 0, b |-> 0, width |-> 0, udt |-> FALSE, nested |-> << >>]
mop_z == [t |-> "z", a |-> 0, b |-> 0, size |-> 0, udt |-> FALSE, d |-> << >>]

(* external: the constructors of mop_t.  make_reg_pair is given the width  *)
(* of one half.                                                            *)
Mop(t, a, b, size) == [mop_z EXCEPT !.t = t, !.a = a, !.b = b, !.size = size]

-----------------------------------------------------------------------------
(* Building. *)

(* Load and store need their three operands. *)
MemoryOperandsGiven(i) ==
  i.opcode \in {"LoadMemory", "StoreMemory"} =>
    \A operand \in {i.left, i.right, i.destination} : operand.kind # "Empty"

(* What build_typed_instruction_operand demands of an operand of a kind.   *)
Buildable(operand) ==
  CASE operand.kind \in {"Empty", "StackVariable"} -> TRUE
    [] operand.kind = "Register" -> operand.a >= 0 /\ operand.width > 0
    [] operand.kind = "RegisterPair" ->
         operand.a >= 0 /\ operand.b >= 0 /\ operand.width > 0 /\ operand.width % 2 = 0
    [] operand.kind \in {"LocalVariable", "GlobalAddress", "HelperReference",
                         "BlockReference"} -> operand.a >= 0
    [] operand.kind = "NestedInstruction" -> operand.nested # << >>
    [] operand.kind \in {"UnsignedImmediate", "SignedImmediate"} -> operand.width > 0

SizeFor(operand) == IF operand.width > 0 THEN operand.width ELSE SdkWidth

RECURSIVE build_operand(_, _), build_nested(_, _)

build_operand(operand, depth) ==
  LET Marked(mop) == <<[mop EXCEPT !.udt = operand.udt]>>
      width == operand.width
  IN
  IF depth > MaxNestedDepth \/ ~Buildable(operand) THEN << >>
  ELSE CASE operand.kind = "Empty" -> Marked(mop_z)
         [] operand.kind = "Register" -> Marked(Mop("r", operand.a, 0, width))
         [] operand.kind = "RegisterPair" ->
              Marked(Mop("p", operand.a, operand.b, 2 * (width \div 2)))
         [] operand.kind = "LocalVariable" ->
              Marked(Mop("l", operand.a, operand.b, SizeFor(operand)))
         [] operand.kind = "GlobalAddress" -> Marked(Mop("v", operand.a, 0, SizeFor(operand)))
         [] operand.kind = "StackVariable" -> Marked(Mop("S", operand.a, 0, SizeFor(operand)))
         [] operand.kind = "HelperReference" -> Marked(Mop("h", operand.a, 0, SizeFor(operand)))
         [] operand.kind = "BlockReference" -> Marked(Mop("b", operand.a, 0, SizeFor(operand)))
         [] operand.kind \in {"UnsignedImmediate", "SignedImmediate"} ->
              Marked(Mop("n", operand.a % Word, 0, width))
         [] operand.kind = "NestedInstruction" ->
              LET nested == build_nested(operand.nested[1], depth + 1) IN
              IF nested = << >> THEN << >>
              ELSE Marked([Mop("d", 0, 0, SizeFor(operand)) EXCEPT !.d = nested])

Sdk(i, left, right, destination) ==
  IF << >> \in {left, right, destination} THEN << >>
  ELSE <<[opcode |-> to_sdk_opcode[i.opcode], l |-> left[1], r |-> right[1],
          d |-> destination[1], fp |-> i.fp]>>

build_nested(i, depth) ==
  IF depth > MaxNestedDepth \/ ~MemoryOperandsGiven(i) THEN << >>
  ELSE Sdk(i, build_operand(i.left, depth + 1), build_operand(i.right, depth + 1),
           build_operand(i.destination, depth + 1))

(* emit_instruction_with_policy: a no-op is emitted without its operands. *)
build_instruction(i) ==
  CASE ~MemoryOperandsGiven(i) -> << >>
    [] i.opcode = "NoOperation" -> Sdk(i, <<mop_z>>, <<mop_z>>, <<mop_z>>)
    [] OTHER -> Sdk(i, build_operand(i.left, 0), build_operand(i.right, 0),
                    build_operand(i.destination, 0))

-----------------------------------------------------------------------------
(* Parsing. *)

KindOf ==
  [z |-> "Empty", r |-> "Register", n |-> "UnsignedImmediate",
   d |-> "NestedInstruction", v |-> "GlobalAddress", b |-> "BlockReference",
   h |-> "HelperReference", S |-> "StackVariable", l |-> "LocalVariable",
   p |-> "RegisterPair"]

RECURSIVE parse_sdk_operand(_), parse_sdk_instruction(_)

parse_sdk_operand_NoOffset(mop) ==
  LET nested == IF mop.d = << >> THEN << >> ELSE parse_sdk_instruction(mop.d[1]) IN
  IF mop.t \notin DOMAIN KindOf \/ (mop.d # << >> /\ nested = << >>) THEN << >>
  ELSE <<[kind |-> KindOf[mop.t], a |-> mop.a, b |-> 0, width |-> mop.size,
          udt |-> mop.udt, nested |-> nested]>>

parse_sdk_operand(mop) ==
  LET nested == IF mop.d = << >> THEN << >> ELSE parse_sdk_instruction(mop.d[1]) IN
  IF mop.t \notin DOMAIN KindOf \/ (mop.d # << >> /\ nested = << >>) THEN << >>
  ELSE <<[kind |-> KindOf[mop.t], a |-> mop.a, b |-> mop.b, width |-> mop.size,
          udt |-> mop.udt, nested |-> nested]>>

parse_sdk_instruction(m) ==
  LET left == parse_sdk_operand(m.l)
      right == parse_sdk_operand(m.r)
      destination == parse_sdk_operand(m.d)
  IN
  IF m.opcode \notin DOMAIN parse_sdk_opcode \/ << >> \in {left, right, destination}
  THEN << >>
  ELSE <<[opcode |-> parse_sdk_opcode[m.opcode], left |-> left[1],
          right |-> right[1], destination |-> destination[1], fp |-> m.fp]>>

-----------------------------------------------------------------------------
CodecInit == asked = << >> /\ emitted = << >> /\ parsed = << >>

(* A typed emission that succeeds; one that is refused, by the builder or  *)
(* by the SDK, leaves the context as it was.                               *)
EmitTyped(i) ==
  /\ build_instruction(i) # << >>
  /\ asked' = <<i>>
  /\ emitted' = build_instruction(i)
  /\ parsed' = << >>

(* external: the SDK also emits what no typed instruction describes, the   *)
(* call of a helper, whose operand is a list of arguments.                 *)
EmitHelper ==
  /\ asked' = << >>
  /\ emitted' = <<[opcode |-> "m_call", l |-> Mop("h", 0, 0, SdkWidth), r |-> mop_z,
                   d |-> Mop("f", 0, 0, SdkWidth), fp |-> FALSE]>>
  /\ parsed' = << >>

(* last_emitted_instruction, and instruction_at_index at the same place. *)
ReadBack ==
  /\ emitted # << >>
  /\ parsed' = <<parse_sdk_instruction(emitted[1])>>
  /\ UNCHANGED <<asked, emitted>>

CodecNext ==
  \/ \E i \in Instructions : EmitTyped(i)
  \/ EmitHelper
  \/ ReadBack

CodecSpec == CodecInit /\ [][CodecNext]_codecvars

-----------------------------------------------------------------------------
(* Properties. *)

(* The same operand, the way the read side names it: immediates are        *)
(* unsigned, a width the program left open is the SDK's, and a field its   *)
(* kind has no use for is zero.                                            *)
RECURSIVE Same(_, _), SameInstruction(_, _)
Same(x, y) ==
  /\ y.kind = IF x.kind = "SignedImmediate" THEN "UnsignedImmediate" ELSE x.kind
  /\ x.udt = y.udt
  /\ x.kind # "Empty" => y.width = SizeFor(x)
  /\ x.kind \notin {"Empty", "NestedInstruction"} =>
       y.a = IF x.kind = "SignedImmediate" THEN x.a % Word ELSE x.a
  /\ x.kind \in {"LocalVariable", "RegisterPair"} => x.b = y.b
  /\ x.kind = "NestedInstruction" => SameInstruction(x.nested[1], y.nested[1])
SameInstruction(x, y) ==
  /\ x.opcode = y.opcode /\ x.fp = y.fp
  /\ Same(x.left, y.left) /\ Same(x.right, y.right)
  /\ Same(x.destination, y.destination)

(* What a filter emitted it can read back, whole: every instruction the    *)
(* builder accepts is one the parser understands, however its operands     *)
(* nest, and reading it gives the instruction asked for.  Only a no-op at  *)
(* the top loses its operands, which the SDK is not given.                 *)
ReadBackIsWhatWasEmitted ==
  asked # << >> /\ parsed # << >> =>
    LET i == asked[1]
        answer == parsed[1]
    IN /\ answer # << >>
       /\ IF i.opcode = "NoOperation"
          THEN answer[1].opcode = "NoOperation" /\ answer[1].fp = i.fp
          ELSE SameInstruction(i, answer[1])
=============================================================================
