-------------------------------- MODULE Ctree --------------------------------
(***************************************************************************)
(* Walking the tree of a decompiled function (src/decompiler.cpp): the     *)
(* adapter between the SDK's visitor and a CtreeVisitor, the views its     *)
(* callbacks receive, and the views a callback reaches from one by         *)
(* navigating to an operand, an argument or a callee; and the types the    *)
(* tree mentions, collected by a walk of the library's own.                *)
(*                                                                         *)
(* An item of the tree has an op, the items below it in the order they are *)
(* written, the type of its value, the offset a member access has and the  *)
(* type of the object an address refers to.  A type has a kind, the types  *)
(* it is made of, a name ("" when it has none), an ordinal and members,    *)
(* with offsets and sizes in bits.                                         *)
(***************************************************************************)
EXTENDS Integers, Sequences, FiniteSets, SequencesExt, FiniteSetsExt

CONSTANTS
  Items, Tree, Root,   \* the body of a function: item -> what it is
  NoItem,              \* a null pointer
  DataInX, DataInY,    \* external: the leaves whose own data are where x, and y, are
  Misread,             \* what is there, taken for an expression
  Types,               \* external: type -> what it is
  SignatureTypes,      \* the types of the function and of its variables, in order
  MaxTypeDepth,        \* bound: 32 in the code
  MaxSkips             \* bound: SkipChildren answers in one walk

ASSUME CtreeAssumption ==
  /\ Root \in Items /\ NoItem # Misread /\ {NoItem, Misread} \cap Items = {}
  /\ \A i \in DataInX \cup DataInY : i \in Items /\ Tree[i].below = << >>
  /\ \A i \in Items \ {Root} : \E p \in Items : i \in ToSet(Tree[p].below)
  /\ MaxSkips \in Nat

VARIABLES
  visit_options,        \* VisitOptions of the walk
  path,           \* external: the items the walk is inside of, with what is left below each
  callback,       \* the CtreeVisitor method that is running
  view,           \* the view it holds: the one it was given, or one it navigated to
  items_visited,  \* SdkVisitorAdapter::items_visited_
  outcome,        \* "walking", "stopped" or "finished"
  visits, leaves, skipped   \* history: items shown, items left, items answered with SkipChildren

ctreevars == <<visit_options, path, callback, view, items_visited, outcome, visits, leaves, skipped>>

Statements == {"block", "expression", "if", "goto"}
MemberAccess == {"memref", "memptr"}

Op(i) == Tree[i].op
Below(i) == Tree[i].below
is_expr(i) == Op(i) \notin Statements
VisitOptions == [post_order : BOOLEAN, track_parents : BOOLEAN, expressions_only : BOOLEAN]

NoView == [raw |-> NoItem, parents |-> << >>, raw_parent |-> NoItem]

-----------------------------------------------------------------------------
(* The fields of an expression.  The SDK keeps the second operand, the     *)
(* arguments of a call and the offset of a member in the same place, and   *)
(* the data of a leaf where others have their operands.                    *)
X(i) ==
  IF Below(i) # << >> THEN Below(i)[1] ELSE IF i \in DataInX THEN Misread ELSE NoItem
HasY(i) ==
  \/ Op(i) = "call"
  \/ Op(i) \in MemberAccess /\ Tree[i].offset # 0
  \/ Len(Below(i)) >= 2 \/ i \in DataInY
Y(i) == IF Below(i) # << >> THEN Below(i)[2] ELSE Misread

(* What the accessors of an ExpressionView return: a value, or the         *)
(* category of the error.                                                  *)
Answers(accessor) ==
  CASE accessor = "number_value" -> {"num"}
    [] accessor = "object_address" -> {"obj"}
    [] accessor = "variable_index" -> {"var"}
    [] accessor = "helper_name" -> {"helper"}
    [] accessor = "string_value" -> {"str"}
    [] accessor \in {"call_argument_count", "call_callee", "call_argument"} -> {"call"}
    [] accessor = "member_offset" -> MemberAccess

Accepts(i, accessor) == Op(i) \in Answers(accessor)

Type(i) == Types[Tree[i].type]
type_byte_width(i) == IF Type(i).kind = "absent" THEN "NotFound" ELSE "ok"
pointed_type_byte_width(i) ==
  IF Type(i).kind # "pointer" THEN "Validation"
  ELSE IF Types[Type(i).of[1]].kind = "absent" THEN "NotFound" ELSE "ok"

(* The type whose member an access means. *)
BaseType(i) ==
  LET base == Tree[X(i)].type
  IN IF Op(i) = "memptr" /\ Types[base].kind = "pointer" THEN Types[base].of[1] ELSE base

(* The member at an offset: the first that starts there or covers it. *)
Covers(member, offset) ==
  LET first == member.offset \div 8
      bytes == IF member.size \div 8 = 0 THEN 1 ELSE member.size \div 8
  IN first = offset \/ (first < offset /\ offset < first + bytes)

member_name(i) ==
  IF Op(i) \notin MemberAccess THEN "Validation"
  ELSE LET found == SelectSeq(Types[BaseType(i)].members,
                              LAMBDA m : Covers(m, Tree[i].offset))
       IN IF Types[BaseType(i)].kind # "struct" \/ found = << >> THEN "NotFound"
          ELSE found[1].name

operand_count(i) ==
  IF X(i) = NoItem THEN 0
  ELSE IF Op(i) = "tern" THEN 3
  ELSE IF HasY(i) \/ Op(i) \in MemberAccess THEN 2 ELSE 1

(* The items navigation leads to, each with the accessor that does. *)
Left(i) == IF X(i) = NoItem THEN {} ELSE {X(i)}
Right(i) ==
  IF X(i) = NoItem \/ ~HasY(i) \/ Op(i) = "call" \/ Op(i) \in MemberAccess THEN {}
  ELSE {Y(i)}
Third(i) == IF Op(i) = "tern" THEN {Below(i)[3]} ELSE {}
Callee(i) == IF Accepts(i, "call_callee") THEN {X(i)} ELSE {}
Arguments(i) == IF Accepts(i, "call_argument") THEN ToSet(Tail(Below(i))) ELSE {}

Reached(i) == UNION {Left(i), Right(i), Third(i), Callee(i), Arguments(i)}

(* The view of a part keeps the parents of the whole, and the whole. *)
append_parent(v) == Append(v.parents, v.raw)
PartOf(v, part) == [raw |-> part, parents |-> append_parent(v), raw_parent |-> v.raw]

is_assignment_lhs(v) ==
  /\ v.raw_parent # NoItem /\ is_expr(v.raw_parent)
  /\ Op(v.raw_parent) = "asg" /\ X(v.raw_parent) = v.raw

(* parent() and parents() give what the view carries. *)
parent(v) == IF v.parents = << >> THEN NoItem ELSE Last(v.parents)

-----------------------------------------------------------------------------
(* collect_referenced_types: the ordinals and names of what types are made *)
(* of, and the offsets at which members are accessed.                      *)

IsNamed(t) == Types[t].kind \in {"struct", "union", "enum", "typedef"}

RECURSIVE collect(_, _, _)
collect(collector, t, depth) ==
  LET type == Types[t]
      seen == IF type.name = "" THEN {} ELSE {type.name}
  IN IF type.kind = "absent" \/ depth > MaxTypeDepth THEN collector
     ELSE IF type.kind \in {"pointer", "array", "function"}
     THEN FoldLeft(LAMBDA c, part : collect(c, part, depth + 1), collector, type.of)
     ELSE IF ~IsNamed(t) \/ seen \cap collector.seen_names # {} THEN collector
     ELSE [collector EXCEPT !.seen_names = @ \cup seen,
                            !.ordinals = @ \cup ({type.ordinal} \ {0})]

record_member_access(collector, i) ==
  IF Types[BaseType(i)].name = "" THEN collector
  ELSE [collector EXCEPT !.used_offsets = @ \cup {<<Types[BaseType(i)].name, Tree[i].offset>>}]

ReferencedTypeWalker(collector, i) ==
  LET value == collect(collector, Tree[i].type, 0)
      object == IF Op(i) = "obj" THEN collect(value, Tree[i].object, 0) ELSE value
  IN IF Op(i) \in MemberAccess THEN record_member_access(object, i) ELSE object

collect_referenced_types ==
  LET nothing == [ordinals |-> {}, seen_names |-> {}, used_offsets |-> {}]
      signature == FoldLeft(LAMBDA c, t : collect(c, t, 0), nothing, SignatureTypes)
  IN FoldSet(LAMBDA i, c : ReferencedTypeWalker(c, i), signature, {i \in Items : is_expr(i)})

-----------------------------------------------------------------------------
(* SdkVisitorAdapter. *)

(* The SDK keeps the items the walk is in when it is asked to. *)
Parents(frames) ==
  IF visit_options.track_parents THEN [k \in 1 .. Len(frames) - 1 |-> frames[k + 1].item] ELSE << >>

ViewOf(i, frames) ==
  LET chain == Parents(frames)
  IN [raw |-> i, parents |-> chain,
      raw_parent |-> IF chain = << >> \/ ~is_expr(i) THEN NoItem ELSE Last(chain)]

Shown(i) == is_expr(i) \/ ~visit_options.expressions_only

CtreeInit ==
  /\ visit_options \in VisitOptions
  /\ path = << >> /\ callback = "none" /\ view = NoView
  /\ items_visited = 0 /\ outcome = "finished"
  /\ visits = << >> /\ leaves = << >> /\ skipped = {}

(* DecompiledFunction::visit; visit_expressions, for_each_expression and   *)
(* for_each_item are walks with particular visit_options.                  *)
visit(o) ==
  /\ outcome # "walking"
  /\ visit_options' = o
  /\ path' = <<[item |-> NoItem, rest |-> <<Root>>]>>
  /\ callback' = "none" /\ view' = NoView
  /\ items_visited' = 0 /\ outcome' = "walking"
  /\ visits' = << >> /\ leaves' = << >> /\ skipped' = {}

Innermost == path[Len(path)]
Inside(i, rest) ==
  Append([path EXCEPT ![Len(path)].rest = Tail(@)], [item |-> i, rest |-> rest])

(* visit_insn and visit_expr. *)
ShowItem ==
  /\ outcome = "walking" /\ callback = "none" /\ Innermost.rest # << >>
  /\ LET i == Head(Innermost.rest)
     IN /\ Shown(i)
        /\ view' = ViewOf(i, path)
        /\ visits' = Append(visits, i)
  /\ callback' = "visit"
  /\ items_visited' = items_visited + 1
  /\ UNCHANGED <<visit_options, path, outcome, leaves, skipped>>

PassItem ==
  /\ outcome = "walking" /\ callback = "none" /\ Innermost.rest # << >>
  /\ ~Shown(Head(Innermost.rest))
  /\ path' = Inside(Head(Innermost.rest), Below(Head(Innermost.rest)))
  /\ UNCHANGED <<visit_options, callback, view, items_visited, outcome, visits, leaves, skipped>>

(* A callback looks at a part of what it was shown.  It may get a view of  *)
(* what is no expression; what such a view answers is undefined.           *)
Navigate ==
  /\ callback # "none" /\ view.raw # Misread /\ is_expr(view.raw)
  /\ \E part \in Reached(view.raw) : view' = PartOf(view, part)
  /\ UNCHANGED <<visit_options, path, callback, items_visited, outcome, visits, leaves, skipped>>

PrunedBelow(i, action) == IF action = "SkipChildren" THEN << >> ELSE Below(i)

VisitReturns(action) ==
  /\ callback = "visit"
  /\ action = "SkipChildren" => Cardinality(skipped) < MaxSkips
  /\ LET i == Last(visits)
     IN /\ path' = IF action = "Stop" THEN << >> ELSE Inside(i, PrunedBelow(i, action))
        /\ skipped' = IF action = "SkipChildren" THEN skipped \cup {i} ELSE skipped
  /\ outcome' = IF action = "Stop" THEN "stopped" ELSE "walking"
  /\ callback' = "none" /\ view' = NoView
  /\ UNCHANGED <<visit_options, items_visited, visits, leaves>>

(* leave_insn and leave_expr.  Whether the SDK leaves an item whose        *)
(* children were pruned is open.                                           *)
LeaveItem ==
  /\ outcome = "walking" /\ callback = "none" /\ Len(path) > 1 /\ Innermost.rest = << >>
  /\ path' = Front(path)
  /\ \/ /\ visit_options.post_order /\ Shown(Innermost.item)
        /\ callback' = "leave"
        /\ view' = ViewOf(Innermost.item, Front(path))
        /\ leaves' = Append(leaves, Innermost.item)
     \/ /\ ~visit_options.post_order \/ ~Shown(Innermost.item) \/ Innermost.item \in skipped
        /\ UNCHANGED <<callback, view, leaves>>
  /\ UNCHANGED <<visit_options, items_visited, outcome, visits, skipped>>

(* SkipChildren means nothing when an item is left. *)
LeaveReturns(action) ==
  /\ callback = "leave"
  /\ outcome' = IF action = "Stop" THEN "stopped" ELSE "walking"
  /\ path' = IF action = "Stop" THEN << >> ELSE path
  /\ callback' = "none" /\ view' = NoView
  /\ UNCHANGED <<visit_options, items_visited, visits, leaves, skipped>>

FinishWalk ==
  /\ outcome = "walking" /\ callback = "none" /\ Len(path) = 1 /\ Innermost.rest = << >>
  /\ outcome' = "finished" /\ path' = << >>
  /\ UNCHANGED <<visit_options, callback, view, items_visited, visits, leaves, skipped>>

CtreeNext ==
  \/ \E o \in VisitOptions : visit(o)
  \/ ShowItem \/ PassItem \/ Navigate \/ LeaveItem \/ FinishWalk
  \/ \E action \in {"Continue", "Stop", "SkipChildren"} :
       VisitReturns(action) \/ LeaveReturns(action)

-----------------------------------------------------------------------------
ParentOf(i) == CHOOSE p \in Items : i \in ToSet(Below(p))
ChainOf[i \in Items] == IF i = Root THEN << >> ELSE Append(ChainOf[ParentOf(i)], ParentOf(i))
Chains == [i \in Items |-> ChainOf[i]]
AncestorSets == [i \in Items |-> ToSet(ChainOf[i])]
Ancestors(i) == AncestorSets[i]

CtreeTypeOK ==
  /\ visit_options \in VisitOptions
  /\ callback \in {"none", "visit", "leave"}
  /\ outcome \in {"walking", "stopped", "finished"}
  /\ view.raw \in Items \cup {NoItem, Misread} /\ view.raw_parent \in Items \cup {NoItem}
  /\ ToSet(visits) \cup ToSet(leaves) \cup skipped \subseteq Items

AssignedTo(i) == i # Root /\ Op(ParentOf(i)) = "asg" /\ Below(ParentOf(i))[1] = i

(* The parents a view carries are a stretch of the real chain that ends at *)
(* the direct parent, all of it when parents are tracked.  The left        *)
(* operand of an assignment is called so if the view knows its parent: if  *)
(* the walk tracks parents, or the client came from there.  Shown by a     *)
(* walk that does not, it is denied, although decompiler.hpp:1084 makes no *)
(* such condition; but nothing else is ever called an operand so.  A view  *)
(* of what is no item of the tree comes from a leaf with data of its own.  *)
ViewsKnowTheirPlace ==
  /\ view.raw \in Items =>
       /\ IsSuffix(view.parents, Chains[view.raw])
       /\ visit_options.track_parents => view.parents = Chains[view.raw]
       /\ is_expr(view.raw) => view.raw_parent = parent(view)
       /\ is_assignment_lhs(view) => AssignedTo(view.raw)
       /\ AssignedTo(view.raw) =>
            (is_assignment_lhs(view) <=> visit_options.track_parents \/ view.parents # << >>)
  /\ view.raw = Misread => parent(view) \in DataInX

(* A walk that was not stopped has shown, once and after the items above   *)
(* it, every item the visit_options select and no SkipChildren hides; in   *)
(* post order it has left each of them after everything shown below it.    *)
WalkShowsTree ==
  LET shown == ToSet(visits)
      hidden == {i \in Items : Ancestors(i) \cap skipped # {}}
  IN items_visited > 0 =>
     /\ items_visited = Len(visits)
     /\ IsInjective(visits) /\ IsInjective(leaves)
     /\ shown \subseteq {i \in Items \ hidden : Shown(i)}
     /\ \A k \in DOMAIN visits :
          {i \in Ancestors(visits[k]) : Shown(i)} \subseteq {visits[j] : j \in 1 .. k - 1}
     /\ outcome = "finished" =>
          /\ shown = {i \in Items \ hidden : Shown(i)}
          /\ visit_options.post_order => shown \ skipped \subseteq ToSet(leaves)
     /\ ToSet(leaves) \subseteq (IF visit_options.post_order THEN shown ELSE {})
     /\ \A k \in DOMAIN leaves :
          {i \in shown : leaves[k] \in Ancestors(i)} \ skipped \subseteq {leaves[j] : j \in 1 .. k - 1}

(* Of an expression with operands, each is counted exactly when an         *)
(* accessor leads to it, except the arguments of a call, counted as one,   *)
(* and the offset of a member.  For a leaf the header promises an error    *)
(* and no operands (decompiler.hpp:1091, 1099).  That holds only of those  *)
(* that keep nothing where x is, for the code looks there and not at the   *)
(* op: the data of others count as one operand, or two, and are given out  *)
(* as a view.                                                              *)
OperandsCounted ==
  \A i \in {j \in Items : is_expr(j)} :
    IF Below(i) # << >>
    THEN /\ Reached(i) = ToSet(Below(i))
         /\ operand_count(i) =
              IF Op(i) = "call" THEN 2
              ELSE Cardinality(Reached(i))
                   + (IF Op(i) \in MemberAccess THEN 1 ELSE 0)
    ELSE /\ Reached(i) = IF i \in DataInX THEN {Misread} ELSE {}
         /\ operand_count(i) = Cardinality({i} \cap DataInX)
                               + Cardinality({i} \cap DataInX \cap DataInY)

(* A member that is named starts nearest before the offset. *)
MembersNamed ==
  \A i \in {j \in Items : Op(j) \in MemberAccess} :
    LET before == {m \in ToSet(Types[BaseType(i)].members) : m.offset \div 8 <= Tree[i].offset}
    IN member_name(i) # "NotFound" =>
         \E m \in before :
           /\ m.name = member_name(i)
           /\ \A other \in before : other.offset \div 8 <= m.offset \div 8

(* Every type with an ordinal that the signature or an expression is made  *)
(* of, through pointers, arrays and functions, is collected, and the       *)
(* offset of every access to a member of a type with a name.               *)
PartsOf(types) ==
  types \cup UNION {ToSet(Types[t].of) : t \in
                     {u \in types : Types[u].kind \in {"pointer", "array", "function"}}}
Mentioned[n \in 0 .. MaxTypeDepth] ==
  IF n = 0
  THEN ToSet(SignatureTypes) \cup {Tree[i].type : i \in {j \in Items : is_expr(j)}}
       \cup {Tree[i].object : i \in {j \in Items : Op(j) = "obj"}}
  ELSE PartsOf(Mentioned[n - 1])

ReferencedTypesFound ==
  LET found == collect_referenced_types
      types == {t \in Mentioned[MaxTypeDepth] : IsNamed(t)}
  IN /\ found.ordinals = {Types[t].ordinal : t \in types} \ {0}
     /\ \A i \in {j \in Items : Op(j) \in MemberAccess} :
          Types[BaseType(i)].name # "" =>
            <<Types[BaseType(i)].name, Tree[i].offset>> \in found.used_offsets

=============================================================================
