-------------------------- MODULE TypeDeclarations --------------------------
(***************************************************************************)
(* Local types written out as C declarations (src/type.cpp): which types   *)
(* are declared, in which order, and what a structure looks like that is   *)
(* trimmed to the members somebody accesses.                               *)
(*                                                                         *)
(* A type is a struct, a union or an enum with a name.  A member is a      *)
(* scalar, has a named type by value (or is an array of it), or points to  *)
(* one (functions count as what they return and take).  Offsets and sizes  *)
(* are in bits.                                                            *)
(***************************************************************************)
EXTENDS Naturals, Sequences, FiniteSets, SequencesExt

CONSTANTS
  TypeNames,
  TypeLibraries,    \* the libraries of local types to start from
  Roots,            \* the lists of types a client asks for
  Depths,           \* the depth limits it gives, NoLimit among them
  UsedOffsets,      \* the byte offsets it says are accessed, by type
  NoLimit

VARIABLES
  library,     \* external: the local types, by name
  rendering    \* history: the last call and what it returned

typevars == <<library, rendering>>

Members(name) == library[name].members
Named(member) == member.how \in {"value", "pointer"}

-----------------------------------------------------------------------------
(* declarations_for_ordinals: a type follows the types its members have or *)
(* point to, unless the walk is already inside it.                         *)

RECURSIVE Declare_UsersFirst(_, _)
Declare_UsersFirst(walk, name) ==
  IF name \in walk.seen THEN walk
  ELSE LET entered == [seen |-> walk.seen \cup {name}, out |-> Append(walk.out, name)]
       IN FoldLeft(LAMBDA w, m : IF Named(m) THEN Declare_UsersFirst(w, m.of) ELSE w,
                   entered, Members(name))

RECURSIVE Declare(_, _)
Declare(walk, name) ==
  IF name \in walk.seen THEN walk
  ELSE LET entered == [walk EXCEPT !.seen = @ \cup {name}]
           members == FoldLeft(LAMBDA w, m : IF Named(m) THEN Declare(w, m.of) ELSE w,
                               entered, Members(name))
       IN [members EXCEPT !.out = Append(@, name)]

declarations_for_ordinals(roots) ==
  FoldLeft(LAMBDA walk, root : Declare(walk, root), [seen |-> {}, out |-> << >>], roots).out

-----------------------------------------------------------------------------
(* TypeDeclarationFormatter.  With trimming, a struct is written with the  *)
(* members an accessed byte lies in, and not at all if none is recorded.   *)

Trims(used, name) == used # << >> /\ library[name].kind = "struct"
AccessedIn(used, name) == IF name \in DOMAIN used[1] THEN used[1][name] ELSE {}
Drops(used, name) == Trims(used, name) /\ AccessedIn(used, name) = {}

(* The bytes a member is taken to occupy: bits that do not fill a byte do  *)
(* not count, and there is at least one.                                   *)
FirstByte(m) == m.offset \div 8
ByteSize(m) == m.size \div 8
IsAccessed(m, offsets) ==
  LET size == IF ByteSize(m) = 0 THEN 1 ELSE ByteSize(m)
  IN \E byte \in offsets : byte \in FirstByte(m) .. FirstByte(m) + size - 1

Kept(used, name) ==
  IF Trims(used, name)
  THEN SelectSeq(Members(name), LAMBDA m : IsAccessed(m, AccessedIn(used, name)))
  ELSE Members(name)

RECURSIVE Walk(_, _, _, _, _)
Walk(walk, name, depth, max_depth, used) ==
  IF (max_depth # NoLimit /\ depth > max_depth) \/ name \in walk.on_stack \cup ToSet(walk.out)
  THEN walk
  ELSE LET entered == [walk EXCEPT !.on_stack = @ \cup {name}]
           members == IF Drops(used, name) THEN entered
                      ELSE FoldLeft(LAMBDA w, m :
                                      IF Named(m) THEN Walk(w, m.of, depth + 1, max_depth, used)
                                      ELSE w,
                                    entered, Kept(used, name))
       IN [out |-> IF Drops(used, name) THEN members.out ELSE Append(members.out, name),
           on_stack |-> members.on_stack \ {name}]

render_order(roots, max_depth, used) ==
  FoldLeft(LAMBDA walk, root : Walk(walk, root, 0, max_depth, used),
           [out |-> << >>, on_stack |-> {}], roots).out

(* A line of a struct, where it is meant to be, in bytes. *)
Padding(from, to) ==
  IF to > from THEN <<[pad |-> TRUE, offset |-> from, size |-> to - from, bits |-> FALSE]>>
  ELSE << >>
Line(m) == <<[pad |-> FALSE, offset |-> FirstByte(m), size |-> ByteSize(m), bits |-> m.bits]>>

EndOf_IgnoresSize(m) == FirstByte(m)

(* The first byte after a member. *)
EndOf(m) ==
  IF m.bits THEN (m.offset + m.size + 7) \div 8 ELSE FirstByte(m) + ByteSize(m)

emit_udt(used, name) ==
  LET total == library[name].total
      kept == Kept(used, name)
      filled == FoldLeft(LAMBDA acc, m :
                           [lines |-> acc.lines \o Padding(acc.cursor, FirstByte(m)) \o Line(m),
                            cursor |-> IF EndOf(m) > acc.cursor THEN EndOf(m) ELSE acc.cursor],
                         [lines |-> << >>, cursor |-> 0], kept)
  IN IF Trims(used, name) THEN filled.lines \o Padding(filled.cursor, total)
     ELSE FlattenSeq([i \in DOMAIN kept |-> Line(kept[i])])

-----------------------------------------------------------------------------
NotRendered == [roots |-> << >>, max_depth |-> NoLimit, used |-> << >>, out |-> << >>]

TypesInit == library \in TypeLibraries /\ rendering = NotRendered

Rendering(roots, max_depth, used, out) ==
  /\ rendering = NotRendered
  /\ rendering' = [roots |-> roots, max_depth |-> max_depth, used |-> used, out |-> out]
  /\ UNCHANGED library

(* used is empty without trimming, else it holds what is accessed.  An     *)
(* untrimmed rendering of ordinals is the SDK's, when it has one.          *)
TypesNext ==
  \E roots \in Roots :
    \/ Rendering(roots, NoLimit, << >>, declarations_for_ordinals(roots))
    \/ \E max_depth \in Depths, used \in {<< >>} \cup {<<u>> : u \in UsedOffsets} :
         Rendering(roots, max_depth, used, render_order(roots, max_depth, used))

TypesSpec == TypesInit /\ [][TypesNext]_typevars

-----------------------------------------------------------------------------
(* Properties. *)

Held(name) == {m.of : m \in {x \in ToSet(Members(name)) : x.how = "value"}}
Mentioned(name) == {m.of : m \in {x \in ToSet(Members(name)) : Named(x)}}

(* What can be reached from some types through types of a set. *)
RECURSIVE Reached(_, _)
Reached(names, through) ==
  LET more == names \cup (through \cap UNION {Mentioned(n) : n \in names})
  IN IF more = names THEN names ELSE Reached(more, through)

Unlimited == rendering # NotRendered /\ rendering.max_depth = NoLimit /\ rendering.used = << >>

(* Without limits every type that can be reached is declared, once, and a  *)
(* type comes after each one it mentions, be it by value or through a      *)
(* pointer.  The only exception is a type that leads back to it through    *)
(* types declared in between: the search was inside that one already.  So  *)
(* in a cycle the order is that of the search, which need not be one that  *)
(* a compiler accepts (HeldTypesFirst); outside cycles it is.  With limits *)
(* only: what is declared can be reached, and is declared once.            *)
EveryTypeDeclaredInOrder ==
  rendering # NotRendered =>
    LET out == rendering.out
        reached == Reached(ToSet(rendering.roots), TypeNames)
    IN /\ IsInjective(out)
       /\ ToSet(out) \subseteq reached
       /\ Unlimited =>
            /\ ToSet(out) = reached
            /\ \A i, j \in DOMAIN out :
                 out[j] \in Mentioned(out[i]) /\ i < j =>
                   out[i] \in Reached({out[j]}, {out[k] : k \in i .. j})

(* "Dependency-ordered declarations" (type.hpp, line 271): a type is       *)
(* declared before those that hold it by value, as C demands.  The code    *)
(* follows a pointer like a member, so that of a type that another only    *)
(* points to, and that holds the other, the holder may come first.         *)
HeldTypesFirst ==
  Unlimited =>
    \A i, j \in DOMAIN rendering.out :
      rendering.out[j] \in Held(rendering.out[i]) => j < i

(* Laid out one after the other, the lines of a trimmed struct without     *)
(* bit fields put every kept member where it was and end where it ended.   *)
TrimmedKeepsLayout ==
  \A i \in DOMAIN rendering.out :
    LET name == rendering.out[i]
        lines == emit_udt(rendering.used, name)
        at(k) == FoldLeft(LAMBDA sum, line : sum + line.size, 0, SubSeq(lines, 1, k - 1))
    IN Trims(rendering.used, name) /\ (\A m \in ToSet(Members(name)) : ~m.bits) =>
         /\ \A k \in DOMAIN lines : lines[k].offset = at(k)
         /\ at(Len(lines) + 1) = library[name].total
         /\ \A m \in ToSet(Members(name)) : IsAccessed(m, AccessedIn(rendering.used, name)) =>
              \E k \in DOMAIN lines :
                ~lines[k].pad /\ lines[k].offset = FirstByte(m) /\ lines[k].size = ByteSize(m)

(* The declarations of type.cpp: all of them, each once, behind what they  *)
(* mention as far as no cycle is in the way, and trimmed without moving a  *)
(* member that was kept.                                                   *)
DeclarationsSound == EveryTypeDeclaredInOrder /\ TrimmedKeepsLayout
=============================================================================
