--------------------------- MODULE MicrocodeBlock ---------------------------
(***************************************************************************)
(* What a microcode filter does to the block being lifted, through the     *)
(* MicrocodeContext it is given (src/decompiler.cpp): emission under an    *)
(* insertion policy, removal by index and of the last emitted instruction, *)
(* and MicrocodeFilterBridge::apply, which makes a context for every call  *)
(* of the filter and answers the decompiler.                               *)
(*                                                                         *)
(* An instruction is a number, fresh when the SDK creates it; the SDK may  *)
(* refuse to create one or to insert it.  Decompilation runs the filters   *)
(* of a block one at a time, so there is one context.                      *)
(***************************************************************************)
EXTENDS Naturals, Sequences, FiniteSets, SequencesExt, Selections

CONSTANTS
  MaxInstructions,   \* bound: instructions created in a behaviour
  MaxBatch           \* bound: instructions passed to emit_instructions

ASSUME BlockAssumption ==
  MaxInstructions \in Nat /\ MaxBatch \in Nat

VARIABLES
  block,         \* the instructions of codegen->mb, from head to tail
  created,       \* how many instructions the SDK has created
  applying,      \* is a filter's apply running?
  last_emitted,  \* of its context: 0 for nullptr
  emitted_noop,  \* of its context
  kept,          \* history: the block when apply was called
  answer         \* what the last apply answered: "none" before the first

context == <<applying, last_emitted, emitted_noop, kept, answer>>
bvars == <<block, created, context>>

Instruction == 1 .. MaxInstructions
InsertPolicy == {"Tail", "Beginning", "BeforeTail"}

BlockTypeOK ==
  /\ block \in Seq(Instruction)
  /\ created \in 0 .. MaxInstructions
  /\ {applying, emitted_noop} \subseteq BOOLEAN
  /\ last_emitted \in Instruction \cup {0}
  /\ kept \in Seq(Instruction)
  /\ answer \in {"none", "MERR_OK", "MERR_INSN"}

BlockInit ==
  /\ block = << >>
  /\ created = 0
  /\ applying = FALSE
  /\ last_emitted = 0
  /\ emitted_noop = FALSE
  /\ kept = << >>
  /\ answer = "none"

-----------------------------------------------------------------------------
(* external: mblock_t::insert_into_block(instruction, anchor) inserts after *)
(* the anchor, at the beginning when there is none.  Anchors are positions. *)
InsertAfter(b, anchor, m) == InsertAt(b, anchor + 1, m)
Without(b, m) == Picked(b, {i \in DOMAIN b : b[i] # m})

(* anchor_for_insert_policy, for the block as it is when it is called. *)
anchor_for(b, policy) ==
  CASE policy = "Tail" -> Len(b)
    [] policy = "Beginning" -> 0
    [] policy = "BeforeTail" -> IF b = << >> THEN 0 ELSE Len(b) - 1

(* codegen->emit appends; reposition_emitted_instruction then takes the    *)
(* instruction out again and inserts it where the policy wants it.         *)
reposition_AnchorsFirst(b, m, policy) ==
  IF policy = "Tail" THEN b
  ELSE InsertAfter(Without(b, m), anchor_for(b, policy), m)

reposition(b, m, policy) ==
  IF policy = "Tail" THEN b
  ELSE InsertAfter(Without(b, m), anchor_for(Without(b, m), policy), m)

(* The block after each of the instructions new is emitted in its turn. *)
EmittedUpTo(b, new, policy) ==
  LET after[i \in 0 .. Len(new)] ==
        IF i = 0 THEN b
        ELSE reposition(Append(after[i - 1], new[i]), new[i], policy)
  IN  after

Emitted(b, new, policy) == EmittedUpTo(b, new, policy)[Len(new)]

RoomFor(n) == created + n <= MaxInstructions

-----------------------------------------------------------------------------
(* The decompiler lifts another instruction itself, with no filter. *)
Lift ==
  /\ ~applying
  /\ RoomFor(1)
  /\ created' = created + 1
  /\ block' = Append(block, created')
  /\ UNCHANGED context

(* MicrocodeFilterBridge::apply makes a context and calls the filter. *)
CallApply ==
  /\ ~applying
  /\ applying' = TRUE
  /\ last_emitted' = 0
  /\ emitted_noop' = FALSE
  /\ kept' = block
  /\ UNCHANGED <<block, created, answer>>

EmitBatch_Backwards(policy, done) ==
  LET new == [i \in 1 .. done |-> created + done + 1 - i] IN
  /\ applying
  /\ RoomFor(done)
  /\ created' = created + done
  /\ block' = Emitted(block, new, policy)
  /\ last_emitted' = created + 1
  /\ \E noop \in BOOLEAN : emitted_noop' = (emitted_noop \/ noop)
  /\ UNCHANGED <<applying, kept, answer>>

(* emit_noop, emit_instruction and their _with_policy forms; only a no-op  *)
(* sets emitted_noop.  An emission the SDK refuses changes nothing.        *)
Emit(policy, noop) ==
  /\ applying
  /\ RoomFor(1)
  /\ created' = created + 1
  /\ block' = reposition(Append(block, created'), created', policy)
  /\ last_emitted' = created'
  /\ emitted_noop' = (emitted_noop \/ noop)
  /\ UNCHANGED <<applying, kept, answer>>

(* The forms for registers refuse widths that are not positive, before     *)
(* anything is emitted.                                                    *)
emit_move_register(policy, byte_width) ==
  byte_width > 0 /\ Emit(policy, FALSE)

emit_load_memory_register(policy, byte_width, offset_byte_width) ==
  byte_width > 0 /\ offset_byte_width > 0 /\ Emit(policy, FALSE)

emit_store_memory_register(policy, byte_width, offset_byte_width) ==
  byte_width > 0 /\ offset_byte_width > 0 /\ Emit(policy, FALSE)

(* emit_helper_call...: the call is inserted without being appended first. *)
EmitCall(policy) ==
  /\ applying
  /\ RoomFor(1)
  /\ created' = created + 1
  /\ block' = InsertAfter(block, anchor_for(block, policy), created')
  /\ last_emitted' = created'
  /\ UNCHANGED <<applying, emitted_noop, kept, answer>>

(* The SDK created the instruction but refused to insert it again.  It is  *)
(* in no block and the context does not track it.                          *)
EmitNotInserted(policy) ==
  /\ applying
  /\ policy # "Tail"
  /\ RoomFor(1)
  /\ created' = created + 1
  /\ UNCHANGED <<block, context>>

(* load_operand_register, load_effective_address_register and              *)
(* store_operand_register let the SDK emit what the context does not track.*)
EmitUntracked ==
  /\ applying
  /\ RoomFor(1)
  /\ created' = created + 1
  /\ block' = Append(block, created')
  /\ UNCHANGED context

(* emit_instructions_with_policy stops at the first failure: the first     *)
(* `done` of its instructions are in the block.                            *)
EmitBatch(policy, done) ==
  LET new == [i \in 1 .. done |-> created + i] IN
  /\ applying
  /\ RoomFor(done)
  /\ created' = created + done
  /\ block' = Emitted(block, new, policy)
  /\ last_emitted' = created'
  /\ \E noop \in BOOLEAN : emitted_noop' = (emitted_noop \/ noop)
  /\ UNCHANGED <<applying, kept, answer>>

remove_last_emitted_instruction ==
  /\ applying
  /\ last_emitted # 0
  /\ block' = Without(block, last_emitted)
  /\ last_emitted' = 0
  /\ UNCHANGED <<created, applying, emitted_noop, kept, answer>>

remove_instruction_at_index_KeepsTracking(i) ==
  /\ applying
  /\ i \in DOMAIN block
  /\ block' = RemoveAt(block, i)
  /\ UNCHANGED <<created, context>>

(* The index counts from 0 in the code. *)
remove_instruction_at_index(i) ==
  /\ applying
  /\ i \in DOMAIN block
  /\ block' = RemoveAt(block, i)
  /\ last_emitted' = IF last_emitted = block[i] THEN 0 ELSE last_emitted
  /\ UNCHANGED <<created, applying, emitted_noop, kept, answer>>

(* apply returns.  Handled: a no-op is added unless the context says that  *)
(* one was emitted.  NotHandled, Error and an exception are MERR_INSN.     *)
ReturnHandled ==
  /\ applying
  /\ IF emitted_noop
     THEN UNCHANGED <<block, created>>
     ELSE /\ RoomFor(1)
          /\ created' = created + 1
          /\ block' = Append(block, created')
  /\ applying' = FALSE
  /\ answer' = "MERR_OK"
  /\ UNCHANGED <<last_emitted, emitted_noop, kept>>

ReturnOtherwise ==
  /\ applying
  /\ applying' = FALSE
  /\ answer' = "MERR_INSN"
  /\ UNCHANGED <<block, created, last_emitted, emitted_noop, kept>>

BlockNext ==
  \/ Lift
  \/ CallApply
  \/ \E policy \in InsertPolicy :
       \/ \E noop \in BOOLEAN : Emit(policy, noop)
       \/ \E width \in {0, 4} :
            \/ emit_move_register(policy, width)
            \/ emit_load_memory_register(policy, width, 8)
            \/ emit_store_memory_register(policy, 4, width)
       \/ EmitCall(policy)
       \/ EmitNotInserted(policy)
       \/ \E done \in 1 .. MaxBatch : EmitBatch(policy, done)
  \/ EmitUntracked
  \/ remove_last_emitted_instruction
  \/ \E i \in DOMAIN block : remove_instruction_at_index(i)
  \/ ReturnHandled
  \/ ReturnOtherwise

BlockSpec == BlockInit /\ [][BlockNext]_bvars

-----------------------------------------------------------------------------
(* Properties. *)

(* last_emitted points into the block: no sequence of emissions, failed    *)
(* insertions and removals leaves the context with an instruction that is  *)
(* gone, which last_emitted_instruction and remove_last_... would follow.  *)
(* (It includes that the variables have their types.)                      *)
LastEmittedInBlock ==
  /\ BlockTypeOK
  /\ last_emitted # 0 /\ applying => Contains(block, last_emitted)
  /\ IsInjective(block)

(* The last emitted instruction is where a policy puts it. *)
StandsByPolicy(policy) ==
  CASE policy = "Tail" -> block' = Append(block, created')
    [] policy = "Beginning" -> block' = <<created'>> \o block
    [] policy = "BeforeTail" ->
         IF block = << >> THEN block' = <<created'>>
         ELSE block' = Front(block) \o <<created', Last(block)>>

(* "Append at block tail", "Insert at block beginning", "Insert immediately *)
(* before current block tail": the instruction a call makes the last        *)
(* emitted one stands where its policy says, relative to the block before.  *)
PlacedByPolicy ==
  [][\A policy \in InsertPolicy, noop \in BOOLEAN :
       Emit(policy, noop) \/ EmitCall(policy) => StandsByPolicy(policy)]_bvars

(* The new instructions stand in their order and next to each other. *)
StandInOrder(done) ==
  \E i \in 0 .. Len(block') - done : \A k \in 1 .. done : block'[i + k] = created + k

(* "Emit multiple typed microcode instructions in order": at the tail, and *)
(* before the tail of a block that has one, they stand in the order of the *)
(* vector and next to each other.  (Inserting each of them at the          *)
(* beginning, or before the tail of an empty block, reverses them.)        *)
BatchInOrder ==
  [][\A policy \in InsertPolicy \ {"Beginning"}, done \in 1 .. MaxBatch :
       EmitBatch(policy, done) /\ (policy = "BeforeTail" => block # << >>)
         => StandInOrder(done)]_bvars

(* "Handled = 1, ///< Filter generated microcode.": when the bridge        *)
(* answers MERR_OK for a filter that took away nothing it found, the block *)
(* has grown, if only by the no-op the bridge adds.                        *)
HandledGeneratesMicrocode ==
  ~applying /\ answer = "MERR_OK" /\ Range(kept) \subseteq Range(block)
    => Len(block) > Len(kept)
=============================================================================
