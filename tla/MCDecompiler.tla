---------------------------- MODULE MCDecompiler ----------------------------
(* The decompiler side: microcode filters and the block they emit into,    *)
(* the typed instructions and helper calls they emit, the settings of      *)
(* local variables, the tree and the text of decompiled functions, and     *)
(* what the Node binding makes of them.  The parts share no state: a       *)
(* behaviour exercises one, the others stay where they start.              *)
EXTENDS MicrocodeFilters, MicrocodeBlock, MicrocodeOperands, HelperCalls,
        LvarSettings, NodeHandles, Ctree, DecompiledFunctions

VARIABLE part

(* The objects, the SDK's functions and the snapshots are interchangeable. *)
Symmetric == Permutations(Objects) \cup Permutations(Cfuncs) \cup Permutations(Snapshots)

decompilervars ==
  <<part, vars, bvars, codecvars, callvars, lvarvars, nodevars, ctreevars, functionvars>>

DecompilerInit ==
  /\ part \in {"filters", "block", "operands", "calls", "lvars", "node", "ctree", "functions"}
  /\ Init /\ BlockInit /\ CodecInit /\ CallsInit /\ LvarInit /\ HandlesInit /\ CtreeInit
  /\ DecompiledInit

(* A behaviour makes one helper call. *)
CallMade ==
  part = "calls" /\ call # << >> /\ UNCHANGED callvars

DecompilerNext ==
  /\ UNCHANGED part
  /\ \/ part = "filters" /\ Next /\ UNCHANGED <<bvars, codecvars, callvars, lvarvars, nodevars, ctreevars, functionvars>>
     \/ part = "block" /\ BlockNext /\ UNCHANGED <<vars, codecvars, callvars, lvarvars, nodevars, ctreevars, functionvars>>
     \/ part = "operands" /\ CodecNext /\ UNCHANGED <<vars, bvars, callvars, lvarvars, nodevars, ctreevars, functionvars>>
     \/ part = "calls" /\ (CallsNext \/ CallMade) /\ UNCHANGED <<vars, bvars, codecvars, lvarvars, nodevars, ctreevars, functionvars>>
     \/ part = "lvars" /\ LvarNext /\ UNCHANGED <<vars, bvars, codecvars, callvars, nodevars, ctreevars, functionvars>>
     \/ part = "node" /\ HandlesNext /\ UNCHANGED <<vars, bvars, codecvars, callvars, lvarvars, ctreevars, functionvars>>
     \/ part = "ctree" /\ CtreeNext /\ UNCHANGED <<vars, bvars, codecvars, callvars, lvarvars, nodevars, functionvars>>
     \/ part = "functions" /\ DecompiledNext /\ UNCHANGED <<vars, bvars, codecvars, callvars, lvarvars, nodevars, ctreevars>>

DecompilerSpec == DecompilerInit /\ [][DecompilerNext]_decompilervars

-----------------------------------------------------------------------------
(* Typed instructions: every kind of operand in one place, every opcode,   *)
(* and instructions nested up to one level deeper than allowed.            *)

Leaf(kind, a, b, width, udt) ==
  [Empty EXCEPT !.kind = kind, !.a = a, !.b = b, !.width = width, !.udt = udt]

Leaves ==
  {Leaf(kind, a, b, width, udt) :
     kind \in {"Register", "RegisterPair", "LocalVariable", "GlobalAddress",
               "StackVariable", "HelperReference", "BlockReference",
               "SignedImmediate"},
     a \in {-1, 1}, b \in {0, 2}, width \in {0, 3}, udt \in BOOLEAN}
  \cup {Leaf("UnsignedImmediate", 1, 0, 4, FALSE), Empty,
        Leaf("NestedInstruction", 0, 0, 4, FALSE)}

Register == Leaf("Register", 1, 0, 4, FALSE)

Insn(opcode, left, right, destination) ==
  [opcode |-> opcode, left |-> left, right |-> right,
   destination |-> destination, fp |-> opcode = "FloatAdd"]

Holding(i, width) ==
  [Leaf("NestedInstruction", 0, 0, width, TRUE) EXCEPT !.nested = <<i>>]

Flat ==
  {Insn("LoadMemory", Register, x, Register) : x \in Leaves}
  \cup {Insn(opcode, Register, Empty, Register) : opcode \in Opcodes}

RECURSIVE Chain(_)
Chain(n) ==
  IF n = 0
  THEN Insn("NoOperation", Empty, Leaf("LocalVariable", 1, 2, 0, FALSE), Empty)
  ELSE Insn("Add", Holding(Chain(n - 1), 4), Register, Register)

SomeInstructions ==
  Flat \cup {Insn("Move", Holding(Chain(0), 0), Empty, Register)}
       \cup {Insn("Move", Holding(i, 4), Empty, Register) : i \in Flat}
       \cup {Chain(n) : n \in 0 .. 5}

-----------------------------------------------------------------------------
(* Helper calls: arguments of every kind in all lists of two, all lists of *)
(* three of those that can be placed automatically, every kind of location *)
(* and, for a single argument, every option of the call.                   *)

Location(kind, id, parts) ==
  [kind |-> kind, id |-> id, second |-> 0, parts |-> parts, offset |-> 0, size |-> 0]
Part(kind, id, offset, size) ==
  [Location(kind, id, << >>) EXCEPT !.offset = offset, !.size = size]
Nowhere == Location("Unspecified", 0, << >>)
Scattered(parts) == Location("Scattered", 0, parts)

SomeLocations ==
  {Location(kind, id, << >>) :
     kind \in {"Register", "RegisterWithOffset", "RegisterPair", "RegisterRelative",
               "StaticAddress", "StackOffset"}, id \in {-1, 16}}
  \cup {Scattered(parts) : parts \in
          {<< >>, <<Part("Register", 1, 0, 4), Part("StackOffset", 0, 4, 4)>>,
           <<Part("Register", 1, 0, 0)>>, <<Part("Scattered", 1, 0, 4)>>,
           <<Part("StackOffset", 0, 0, MaxPart + 1)>>, <<Part("Register", -1, 0, 4)>>}}

Argument(kind, width, declaration) ==
  [kind |-> kind, id |-> 1, second |-> 2, width |-> width, declaration |-> declaration,
   where |-> Nowhere, flags |-> {}, element |-> 0, count |-> 0]

(* The kinds and widths that go through different checks. *)
SomeValues ==
  {Argument("Register", 4, NoDeclaration), Argument("Register", 0, BadSize),
   Argument("Register", 4, 0), Argument("RegisterPair", 16, 16),
   Argument("RegisterPair", 3, NoDeclaration),
   Argument("UnsignedImmediate", 1, NoDeclaration), Argument("SignedImmediate", 3, NoDeclaration),
   Argument("Float32Immediate", 0, NoDeclaration), Argument("Float64Immediate", 4, NoDeclaration),
   Argument("LocalVariable", 0, BadSize), Argument("GlobalAddress", 0, 0),
   Argument("StackVariable", 2, 4), Argument("HelperReference", 0, NoDeclaration),
   Argument("BlockReference", 5, NoDeclaration), Argument("NestedInstruction", 0, 8),
   Argument("ByteArray", 24, NoDeclaration), Argument("TypeDeclarationView", 0, 100),
   [Argument("Vector", 32, NoDeclaration) EXCEPT !.element = 8],
   [Argument("FloatingVector", 0, BadSize) EXCEPT !.count = 2]}

Stacked ==
  {x \in SomeValues : x.kind \in {"Register", "UnsignedImmediate", "ByteArray",
                                  "Vector", "NestedInstruction", "TypeDeclarationView"}
                      /\ build_argument(x, TRUE) # Refused /\ x.declaration # BadSize}

SomeLists ==
  UNION {[1 .. n -> SomeValues] : n \in 0 .. 2} \cup [1 .. 3 -> Stacked]
  \cup {<<[Argument("Register", 4, NoDeclaration) EXCEPT !.where = l], x>> :
          l \in SomeLocations, x \in Stacked}
  \cup {<<[x EXCEPT !.id = i, !.flags = f]>> :
          x \in SomeValues, i \in {-1, 5}, f \in {{}, {"ReturnPointer"}, {"Unknown"}}}

Plain ==
  [auto |-> FALSE, start |-> Unset, alignment |-> Unset, solid |-> Unset,
   explicit |-> FALSE, memory_all |-> FALSE, memory |-> {}, dead |-> {},
   spoiled |-> {}, returned |-> {}, passed |-> {}, returns |-> NoDeclaration,
   located |-> Unlocated]

SomeOptions ==
  {Plain}
  \cup {[Plain EXCEPT !.auto = TRUE, !.start = s, !.alignment = a] :
          s \in {Unset, 4}, a \in {Unset, 4}}

(* The options that do not depend on the arguments. *)
OtherOptions ==
  {[Plain EXCEPT !.returned = r, !.spoiled = s, !.passed = p] :
     r \in {{}, {<<4, 2>>}, {<<-1, 2>>}}, s \in {{}, {<<8, 4>>}, {<<8, 0>>}},
     p \in {{}, {<<4, 1>>}, {<<9, 2>>}}}
  \cup {[Plain EXCEPT !.memory_all = a, !.memory = m, !.solid = n] :
          a \in BOOLEAN, m \in {{}, {<<1, 4>>}, {<<BadAddress, 4>>}, {<<1, 0>>}},
          n \in {Unset, -1, 1}}
  \cup {[Plain EXCEPT !.auto = TRUE, !.start = s, !.alignment = a] :
          s \in {-1, 0}, a \in {0, 3}}
  \cup {[Plain EXCEPT !.returns = t] : t \in {Unparsable, 0, 4, 8}}
  \cup {[Plain EXCEPT !.located = l] : l \in SomeLocations \cup {Nowhere}}

SomeDestinations ==
  {[kind |-> "none", width |-> 0], [kind |-> "register", width |-> 4],
   [kind |-> "stored", width |-> 4], [kind |-> "operand", width |-> 0],
   [kind |-> "unwritable", width |-> 4]}

SomeCalls ==
  {<<list, options, [kind |-> "none", width |-> 0]>> : list \in SomeLists, options \in SomeOptions}
  \cup {<< <<Argument("Register", 4, NoDeclaration)>>, options, destination>> :
          options \in OtherOptions, destination \in SomeDestinations}

-----------------------------------------------------------------------------
(* A function body with an item of every kind:                             *)
(* { p->m = helper(c ? s.m : n); if (n) goto }.                            *)

SomeType(kind, of, name, ordinal) ==
  [kind |-> kind, of |-> of, name |-> name, ordinal |-> ordinal, members |-> << >>]

SomeTypes ==
  "absent" :> SomeType("absent", << >>, "", 0)
  @@ "int" :> SomeType("scalar", << >>, "", 0)
  @@ "S" :> [SomeType("struct", << >>, "S", 3) EXCEPT !.members =
       <<[name |-> "first", offset |-> 0, size |-> 32],
         [name |-> "bits", offset |-> 32, size |-> 3],
         [name |-> "more", offset |-> 35, size |-> 5],
         [name |-> "rest", offset |-> 40, size |-> 0]>>]
  @@ "S*" :> SomeType("pointer", <<"S">>, "", 0)
  @@ "S**" :> SomeType("pointer", <<"S*">>, "", 0)
  @@ "S**[]" :> SomeType("array", <<"S**">>, "", 0)
  @@ "E" :> SomeType("enum", << >>, "E", 4)
  @@ "anonymous" :> SomeType("union", << >>, "", 0)
  @@ "f" :> SomeType("function", <<"T", "E*">>, "", 0)
  @@ "E*" :> SomeType("pointer", <<"E">>, "", 0)
  @@ "T" :> SomeType("typedef", << >>, "T", 0)

SomeSignature == <<"f", "S**[]", "absent", "anonymous">>

Item(op, below) ==
  [op |-> op, below |-> below, offset |-> 0, type |-> "int", object |-> "absent"]
OfType(op, type) == [Item(op, << >>) EXCEPT !.type = type]
Access(op, base, offset) == [Item(op, <<base>>) EXCEPT !.offset = offset]

SomeTree ==
  "body" :> Item("block", <<"set", "if">>)
  @@ "set" :> Item("expression", <<"asg">>)
  @@ "asg" :> Item("asg", <<"memptr", "call">>)
  @@ "memptr" :> Access("memptr", "p", 4) @@ "p" :> OfType("var", "S*")
  @@ "call" :> Item("call", <<"helper", "tern">>) @@ "helper" :> Item("helper", << >>)
  @@ "tern" :> Item("tern", <<"c", "memref", "n">>)
  @@ "c" :> [Item("obj", << >>) EXCEPT !.object = "E"] @@ "n" :> OfType("num", "absent")
  @@ "memref" :> Access("memref", "s", 0) @@ "s" :> OfType("var", "S")
  @@ "if" :> Item("if", <<"test", "goto">>) @@ "test" :> Item("lnot", <<"v">>)
  @@ "v" :> Item("var", << >>) @@ "goto" :> Item("goto", << >>)

SomeItems == DOMAIN SomeTree

-----------------------------------------------------------------------------
(* Texts with and without header lines, with gaps between the items that   *)
(* have an address and with more or fewer items than lines; the second      *)
(* line reads the same as some of the body.                                *)

TextOf(header, lines, items) ==
  [text |-> [k \in 1 .. lines |-> IF k % 4 = 2 THEN 2 ELSE k], header |-> header, items |-> items]

SomeItemLists ==
  [1 .. 3 -> {NowhereAddress, 16, 20}]
  \cup {[k \in 1 .. 14 |-> IF k \in s THEN 16 + k ELSE NowhereAddress] :
          s \in {{}, {14}, {8}, {2, 13}, {1, 4, 8}}}

SomeTexts == {TextOf(h, n, items) : h \in 0 .. 2, n \in {0, 1, 4, 15}, items \in SomeItemLists}
SomeFunctions == {64}
SomeCallers == 64 :> <<64, 4>>
TextOfEach == 64 :> TextOf(1, 1, <<NowhereAddress, 16, 20>>)
=============================================================================
