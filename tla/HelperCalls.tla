---------------------------- MODULE HelperCalls ----------------------------
(***************************************************************************)
(* Helper calls of a microcode filter (src/decompiler.cpp): the typed      *)
(* arguments are turned into SDK arguments, those without a location may   *)
(* be laid out on the stack, the options are applied to the call, and only *)
(* then is it inserted into the block.  Every error path leaves the block  *)
(* alone, except in the form that stores the result in an operand.         *)
(*                                                                         *)
(* Of an argument the model keeps what the checks look at: its kind, what  *)
(* it names, its width, its type, where it is.  Numbers the code calls     *)
(* optional use Unset.  Where the block keeps a call is the subject of     *)
(* module MicrocodeBlock.                                                  *)
(***************************************************************************)
EXTENDS Integers, Sequences, FiniteSets, SequencesExt

CONSTANTS
  HelperCallInputs,  \* the arguments and options programs pass, and where they
                     \* want the result
  DefaultSpoiled,    \* registers the SDK says a helper call spoils
  DefaultReturned,   \* those it says the call returns in
  OperandWidth,      \* the width the SDK gives an operand by itself
  LocalVariables,    \* how many local variables the function has
  MaxPart            \* 0xFFFF in the code

LocationKinds ==
  {"Unspecified", "Register", "RegisterWithOffset", "RegisterPair", "RegisterRelative",
   "StackOffset", "StaticAddress", "Scattered"}
MicrocodeLocationPart ==
  [kind : LocationKinds, id : Int, second : Int, parts : {<< >>}, offset : Int, size : Int]
MicrocodeValueLocation ==
  [kind : LocationKinds, id : Int, second : Int, parts : Seq(MicrocodeLocationPart),
   offset : Int, size : Int]

SupportedFlags == {"Hidden", "ReturnPointer", "Struct", "Array", "Unused"}
(* "Unknown" stands for the other bits of the flags. *)
MicrocodeArgumentFlags == SupportedFlags \cup {"Unknown"}

MicrocodeValueKinds ==
  {"Register", "RegisterPair", "LocalVariable", "GlobalAddress", "StackVariable",
   "HelperReference", "BlockReference", "NestedInstruction", "UnsignedImmediate",
   "SignedImmediate", "Float32Immediate", "Float64Immediate", "ByteArray", "Vector",
   "FloatingVector", "TypeDeclarationView"}
MicrocodeValue ==
  [kind : MicrocodeValueKinds, id : Int, second : Int, width : Int, declaration : Int,
   element : Int, count : Int, flags : SUBSET MicrocodeArgumentFlags, where : MicrocodeValueLocation]

(* What a call returns in it spoils, as far as the SDK says.               *)
ASSUME HelperCallsAssumption ==
  /\ OperandWidth \in Int
  /\ DefaultReturned \subseteq DefaultSpoiled
  /\ \A input \in HelperCallInputs :
       input[1] \in Seq(MicrocodeValue) /\ input[2].start \in Int

VARIABLES
  call,      \* the call inserted last: a sequence of at most one
  stored     \* was its result stored where the program wanted it?

callvars == <<call, stored>>

-----------------------------------------------------------------------------
(* Types.  Of a declaration its size counts: there is no declaration, it   *)
(* does not parse, or its type has no known size, which get_size says with *)
(* BADSIZE, -1 once it is cast to int.                                     *)
NoDeclaration == -3
Unparsable == -2
BadSize == -1

Unset == -9
Given(option) == option # Unset
ValueOr(option, default) == IF Given(option) THEN option ELSE default
BadAddress == -1
Unlocated == << >>

Refused == << >>
Typed(type, size) == <<[type |-> type, size |-> size]>>

(* make_integer_type *)
IntegerWidth == {1, 2, 4, 8}

(* An integer of that width, or else an array of bytes. *)
infer_typed_value_type(width) == IF width > 0 THEN Typed(width, width) ELSE Refused

(* What a declaration says together with a width: the width alone counts   *)
(* without one, and the two must agree when there are both.                *)
WithDeclaration(declaration, width, inferred) ==
  CASE declaration \in {Unparsable, 0} -> Refused
    [] declaration = NoDeclaration -> inferred
    [] width <= 0 -> Typed(declaration, declaration)
    [] OTHER -> IF declaration = width THEN Typed(width, width) ELSE Refused

(* The operands whose width the SDK knows when the program gives none: a   *)
(* declaration without a size will do, too.                                *)
OperandArgument(x) ==
  LET width == IF x.width > 0 THEN x.width ELSE x.declaration
  IN
  CASE x.declaration = Unparsable -> Refused
    [] x.declaration = NoDeclaration -> infer_typed_value_type(x.width)
    [] x.declaration \notin {0, width} -> Refused
    [] OTHER -> Typed(x.declaration, IF width > 0 THEN width ELSE OperandWidth)

-----------------------------------------------------------------------------
(* The kinds of MicrocodeValue.  x.id is what the value names: a register, *)
(* a variable, an address, a block; -1 is no name.                         *)

register_argument(x) ==
  IF x.id < 0 THEN Refused
  ELSE WithDeclaration(x.declaration, x.width, infer_typed_value_type(x.width))

register_pair_argument(x) ==
  IF x.id < 0 \/ x.second < 0 \/ x.width <= 0 \/ x.width % 2 # 0 THEN Refused
  ELSE WithDeclaration(x.declaration, x.width, infer_typed_value_type(x.width))

local_variable_argument(x) ==
  IF x.id \in 0 .. LocalVariables - 1 THEN OperandArgument(x) ELSE Refused

global_address_argument(x) ==
  IF x.id = BadAddress THEN Refused ELSE OperandArgument(x)

stack_variable_argument(x) == OperandArgument(x)

helper_reference_argument(x) == IF x.id = -1 THEN Refused ELSE OperandArgument(x)

block_reference_argument(x) == IF x.id < 0 THEN Refused ELSE OperandArgument(x)

(* x.id: can the nested instruction be built? *)
nested_instruction_argument(x) ==
  IF x.id = -1 THEN Refused
  ELSE OperandArgument([x EXCEPT !.width = IF @ > 0 THEN @ ELSE OperandWidth])

immediate_argument(x) ==
  WithDeclaration(x.declaration, x.width,
                  IF x.width \in IntegerWidth THEN Typed(x.width, x.width) ELSE Refused)

float_argument(x, size) == IF x.width \in {0, size} THEN Typed(size, size) ELSE Refused

(* The last three kinds have no operand, and must be told where they are.  *)
byte_array_argument(x, auto) ==
  IF x.width > 0 /\ (x.where.kind # "Unspecified" \/ auto) THEN Typed(x.width, 0) ELSE Refused

vector_argument(x, auto) ==
  LET widths == IF x.kind = "Vector" THEN IntegerWidth ELSE {4, 8}
      element == WithDeclaration(x.declaration, x.element,
                   IF x.element \in widths THEN Typed(x.element, x.element) ELSE Refused)
      count(e) == IF x.count > 0 THEN x.count
                  ELSE IF e > 0 /\ x.width > 0 /\ x.width % e = 0 THEN x.width \div e
                  ELSE 0
  IN
  IF element = Refused \/ (x.where.kind = "Unspecified" /\ ~auto) THEN Refused
  ELSE LET e == element[1].size
           n == count(e)
       IN IF n <= 0 \/ (x.width > 0 /\ e > 0 /\ n * e # x.width) THEN Refused
          ELSE Typed(IF e > 0 THEN n * e ELSE BadSize, 0)

type_declaration_argument(x, auto) ==
  IF x.declaration \in {NoDeclaration, Unparsable} \/ (x.where.kind = "Unspecified" /\ ~auto)
  THEN Refused ELSE Typed(x.declaration, 0)

build_argument(x, auto) ==
  CASE x.kind = "Register" -> register_argument(x)
    [] x.kind = "RegisterPair" -> register_pair_argument(x)
    [] x.kind = "LocalVariable" -> local_variable_argument(x)
    [] x.kind = "GlobalAddress" -> global_address_argument(x)
    [] x.kind = "StackVariable" -> stack_variable_argument(x)
    [] x.kind = "HelperReference" -> helper_reference_argument(x)
    [] x.kind = "BlockReference" -> block_reference_argument(x)
    [] x.kind = "NestedInstruction" -> nested_instruction_argument(x)
    [] x.kind \in {"UnsignedImmediate", "SignedImmediate"} -> immediate_argument(x)
    [] x.kind = "Float32Immediate" -> float_argument(x, 4)
    [] x.kind = "Float64Immediate" -> float_argument(x, 8)
    [] x.kind = "ByteArray" -> byte_array_argument(x, auto)
    [] x.kind \in {"Vector", "FloatingVector"} -> vector_argument(x, auto)
    [] x.kind = "TypeDeclarationView" -> type_declaration_argument(x, auto)

-----------------------------------------------------------------------------
(* Locations: of a register or an address, which must be one (`id` again), *)
(* on the stack, or scattered over parts with an offset and a size each.   *)

apply_single_location_to_argloc(location) ==
  \/ location.kind \in {"Register", "RegisterWithOffset", "RegisterRelative"} /\ location.id >= 0
  \/ location.kind = "RegisterPair" /\ location.id >= 0 /\ location.second >= 0
  \/ location.kind = "StaticAddress" /\ location.id # BadAddress
  \/ location.kind = "StackOffset"

apply_location_to_argloc(location, allow_unspecified) ==
  CASE location.kind = "Unspecified" -> allow_unspecified
    [] location.kind = "Scattered" ->
         /\ location.parts # << >>
         /\ \A k \in DOMAIN location.parts :
              LET part == location.parts[k]
              IN  /\ part.offset \in 0 .. MaxPart /\ part.size \in 1 .. MaxPart
                  /\ apply_single_location_to_argloc(part)
    [] OTHER -> apply_single_location_to_argloc(location)

OnStack(offset) ==
  [kind |-> "StackOffset", id |-> offset, second |-> 0, parts |-> << >>, offset |-> 0, size |-> 0]

ImpliedFlags(flags) == flags \cup (IF "ReturnPointer" \in flags THEN {"Hidden"} ELSE {})

-----------------------------------------------------------------------------
(* The layout of arguments on the stack. *)

PowersOfTwo == {1, 2, 4, 8, 16, 32, 64}

OptionsAcceptable(options) ==
  /\ Given(options.start) => options.start >= 0
  /\ Given(options.alignment) => options.alignment \in PowersOfTwo

stack_alignment_for_size(size) ==
  IF size > 64 THEN 64 ELSE CHOOSE a \in {8, 16, 32, 64} :
    a >= size /\ \A b \in {8, 16, 32, 64} : b >= size => a <= b

AlignedUp_AddsRemainder(offset, alignment) ==
  offset + (offset % alignment)

AlignedUp(offset, alignment) ==
  IF offset % alignment = 0 THEN offset ELSE offset + alignment - (offset % alignment)

(* Sizes come from the type, or else from the operand. *)
StackSize(typed) == IF typed.type > 0 THEN typed.type ELSE typed.size

(* One iteration of build_call_arguments.  `done` holds what the loop has: *)
(* the arguments, the next free offset, and whether a location was given.  *)
NextArgument(done, x, options) ==
  LET typed == build_argument(x, options.auto)
      automatic == x.where.kind = "Unspecified" /\ options.auto
  IN
  IF \/ done = Refused \/ typed = Refused
     \/ ~(x.flags \subseteq SupportedFlags)
     \/ automatic /\ StackSize(typed[1]) <= 0
     \/ ~apply_location_to_argloc(x.where, TRUE)
  THEN Refused
  ELSE LET size == StackSize(typed[1])
           alignment == ValueOr(options.alignment, stack_alignment_for_size(size))
           at == AlignedUp(done[1].offset, alignment)
       IN <<[arguments |-> Append(done[1].arguments,
               [type |-> typed[1].type, size |-> typed[1].size, automatic |-> automatic,
                flags |-> ImpliedFlags(x.flags),
                alignment |-> IF automatic THEN alignment ELSE 1,
                where |-> IF automatic THEN OnStack(at) ELSE x.where]),
             offset |-> IF automatic THEN at + size ELSE done[1].offset,
             explicit |-> done[1].explicit \/ automatic \/ x.where.kind # "Unspecified"]>>

(* What the loop has after each of the arguments. *)
BuiltUpTo(list, options) ==
  LET done[k \in 0 .. Len(list)] ==
        IF k = 0
        THEN <<[arguments |-> << >>, offset |-> ValueOr(options.start, 0), explicit |-> FALSE]>>
        ELSE NextArgument(done[k - 1], list[k], options)
  IN  done

build_call_arguments(list, options) ==
  IF OptionsAcceptable(options) THEN BuiltUpTo(list, options)[Len(list)] ELSE Refused

-----------------------------------------------------------------------------
(* The options of a call.  A list of register ranges <<register, width>>   *)
(* stands for the bytes of the registers; a list that is not empty         *)
(* replaces the SDK's.                                                     *)

RangesAcceptable(ranges) == \A r \in ranges : r[1] >= 0 /\ r[2] > 0

apply_register_ranges(ranges, otherwise) ==
  IF ranges = {} THEN otherwise
  ELSE UNION {r[1] .. r[1] + r[2] - 1 : r \in ranges}

(* Ranges of memory <<address, size>>, or all of it. *)
apply_visible_memory_ranges(ranges, all) ==
  /\ ~(all /\ ranges # {})
  /\ \A r \in ranges : r[1] # BadAddress /\ r[2] > 0

(* apply_call_options, of a call the SDK has made for the arguments: the   *)
(* registers returned in are spoiled, those passed through must be.        *)
apply_call_options(built, options) ==
  LET returned == apply_register_ranges(options.returned, DefaultReturned)
      spoiled == apply_register_ranges(options.spoiled, DefaultSpoiled) \cup returned
      passed == apply_register_ranges(options.passed, {})
      solid == ValueOr(options.solid, Len(built.arguments))
  IN
  IF \/ solid < 0
     \/ options.located # Unlocated /\ ~apply_location_to_argloc(options.located, FALSE)
     \/ \E ranges \in {options.returned, options.spoiled, options.passed, options.dead} :
          ~RangesAcceptable(ranges)
     \/ ~(passed \subseteq spoiled)
     \/ ~apply_visible_memory_ranges(options.memory, options.memory_all)
  THEN Refused
  ELSE <<[arguments |-> built.arguments, solid |-> solid,
          explicit |-> options.explicit \/ built.explicit,
          spoiled |-> spoiled, returned |-> returned, passed |-> passed]>>

(* The type of the result must have the width of the destination.  A       *)
(* register's width is positive; an operand's may be the SDK's, or else    *)
(* the declaration's.                                                      *)
ReturnFits(destination, options) ==
  LET declared == options.returns
      width == IF destination.width > 0 THEN destination.width ELSE OperandWidth
  IN
  CASE destination.kind = "none" -> declared # Unparsable
    [] destination.kind = "unwritable" -> FALSE
    [] destination.kind \in {"register", "stored"} ->
         destination.width > 0 /\ declared \in {NoDeclaration, destination.width}
    [] destination.kind = "operand" -> declared \in {NoDeclaration, width}

(* A call for these arguments, or Refused. *)
MakeCall(list, options, destination) ==
  LET built == build_call_arguments(list, options) IN
  IF built = Refused \/ ~ReturnFits(destination, options) THEN Refused
  ELSE apply_call_options(built[1], options)

-----------------------------------------------------------------------------
CallsInit == call = << >> /\ stored = FALSE

(* Bound: a behaviour makes one call.  A call depends on nothing but what  *)
(* it is given.                                                            *)
FirstCall == call = << >>

(* emit_helper_call: no arguments, no options. *)
emit_helper_call ==
  /\ call' = <<[arguments |-> << >>, solid |-> 0, explicit |-> FALSE,
                spoiled |-> DefaultSpoiled, returned |-> DefaultReturned, passed |-> {}]>>
  /\ stored' = FALSE

(* emit_helper_call_with_arguments, ..._to_register and                    *)
(* ..._to_micro_operand, and their _and_options forms.                     *)
emit_helper_call_with_arguments(list, options, destination) ==
  /\ destination.kind # "stored"
  /\ LET made == MakeCall(list, options, destination)
     IN made # Refused /\ call' = made
  /\ stored' = (destination.kind # "none")

(* ..._to_operand: the call writes a temporary register, which is stored   *)
(* into the operand afterwards.  When that fails the error is returned and *)
(* the call stays in the block.                                            *)
emit_helper_call_to_operand(list, options, destination) ==
  /\ destination.kind = "stored"
  /\ LET made == MakeCall(list, options, destination)
     IN made # Refused /\ call' = made
  /\ stored' \in BOOLEAN

CallsNext ==
  /\ FirstCall
  /\ \/ emit_helper_call
     \/ \E input \in HelperCallInputs :
          \/ emit_helper_call_with_arguments(input[1], input[2], input[3])
          \/ emit_helper_call_to_operand(input[1], input[2], input[3])

CallsSpec == CallsInit /\ [][CallsNext]_callvars

-----------------------------------------------------------------------------
(* Properties. *)

Offset(x) == x.where.id
ByteRange(x) == Offset(x) .. Offset(x) + StackSize(x) - 1

(* Arguments placed on the stack automatically are aligned as asked, keep  *)
(* the order of the vector and share no byte, whatever mixture of kinds,   *)
(* widths and declared types they have.                                    *)
ArgumentsApart(c) ==
  \A i, j \in DOMAIN c.arguments :
    LET x == c.arguments[i]
        y == c.arguments[j]
    IN /\ x.automatic => Offset(x) >= 0 /\ Offset(x) % x.alignment = 0
       /\ i < j /\ x.automatic /\ y.automatic =>
            Offset(x) < Offset(y) /\ ByteRange(x) \cap ByteRange(y) = {}

(* The decompiler is told of the locations there are. *)
LocationsAnnounced(c) ==
  (\E i \in DOMAIN c.arguments : c.arguments[i].where.kind # "Unspecified") => c.explicit

(* The registers a call returns in, or passes through, are among those it  *)
(* spoils: the decompiler would otherwise keep values in them.             *)
RegistersSpoiled(c) == c.returned \cup c.passed \subseteq c.spoiled

HelperCallSound ==
  call # << >> => /\ ArgumentsApart(call[1])
                  /\ LocationsAnnounced(call[1])
                  /\ RegistersSpoiled(call[1])
=============================================================================
