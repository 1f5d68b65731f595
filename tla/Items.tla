------------------------------- MODULE Items -------------------------------
(* The listing of a database as src/src/address.cpp walks it: which bytes  *)
(* begin an item, navigation from item to item, searches for a byte that   *)
(* meets a predicate, and the iterators over a range.  An iterator keeps   *)
(* nothing but an address and an end, so its client may change the items   *)
(* under it between two steps.                                             *)
EXTENDS Naturals, FiniteSets, FiniteSetsExt

CONSTANTS
  MaxAddress,     \* the addresses are 0 .. MaxAddress - 1
  LoadedBytes,    \* those with a value from the input file
  MappedBytes,    \* those inside some segment
  Ranges          \* the ranges <<start, end>> that clients walk

ASSUME ItemsAssumption ==
  /\ MaxAddress \in Nat \ {0}
  /\ LoadedBytes \subseteq MappedBytes
  /\ MappedBytes \subseteq 0 .. MaxAddress - 1
  /\ \A r \in Ranges : r[1] \in 0 .. MaxAddress /\ r[2] \in 0 .. MaxAddress

VARIABLES
  class,      \* the class the SDK's flags give each byte
  itemWalk    \* the iterator of the client's loop over a range, if any

itemvars == <<class, itemWalk>>

Bytes == 0 .. MaxAddress - 1
(* BadAddress is the largest address and stands after all of them; an end  *)
(* of BadAddress is normalised to the largest address, which is the same.  *)
AddressEnd == MaxAddress
Classes == {"unknown", "code", "data", "tail"}
Predicates == {"Mapped", "Loaded", "Code", "Data", "Unknown", "Head", "Tail"}

NoItemWalk == [pred |-> "none"]

-----------------------------------------------------------------------------
(* What the SDK's flags say of a byte: none at all for an unmapped byte,   *)
(* nor for an unexplored one without a value.                              *)
HasFlags(a) == a \in MappedBytes /\ (class[a] # "unknown" \/ a \in LoadedBytes)

is_mapped(a)  == HasFlags(a)
byte_loaded(a)  == a \in LoadedBytes
is_code(a)    == HasFlags(a) /\ class[a] = "code"
is_data(a)    == HasFlags(a) /\ class[a] = "data"
is_unknown(a) == HasFlags(a) /\ class[a] = "unknown"
is_head(a)    == HasFlags(a) /\ class[a] \in {"code", "data"}
is_tail(a)    == HasFlags(a) /\ class[a] = "tail"

matches_predicate(a, p) ==
  \/ p = "Mapped" /\ is_mapped(a)
  \/ p = "Loaded" /\ byte_loaded(a)
  \/ p = "Code" /\ is_code(a)
  \/ p = "Data" /\ is_data(a)
  \/ p = "Unknown" /\ is_unknown(a)
  \/ p = "Head" /\ is_head(a)
  \/ p = "Tail" /\ is_tail(a)

(* A result is the set of the address that was found, empty for an error.  *)
Lowest(S) == IF S = {} THEN {} ELSE {Min(S)}
Highest(S) == IF S = {} THEN {} ELSE {Max(S)}

Heads == {a \in Bytes : is_head(a)}

next_head(a, limit) == Lowest({h \in Heads : a < h /\ h < limit})
prev_head(a, limit) == Highest({h \in Heads : h < a /\ limit <= h})
next_defined(a, limit) == next_head(a, limit)
prev_defined(a, limit) == prev_head(a, limit)
next_not_tail(a) == Lowest({b \in MappedBytes : a < b /\ class[b] # "tail"})
prev_not_tail(a) == Highest({b \in MappedBytes : b < a /\ class[b] # "tail"})
next_mapped(a) == Lowest({b \in MappedBytes : a < b})
prev_mapped(a) == Highest({b \in MappedBytes : b < a})

(* The item of a byte: up to the next byte that is not a tail. *)
item_start(a) == Max({b \in Bytes : b <= a /\ class[b] # "tail"})
item_end(a) == Min({b \in Bytes : b > a /\ class[b] # "tail"} \cup {MaxAddress})
item_size(a) == item_end(a) - item_start(a)

-----------------------------------------------------------------------------
(* The first of the addresses start, start + 1, ... before end that meets  *)
(* the predicate.                                                          *)
first_match(start, end, p) ==
  Lowest({a \in Bytes : start <= a /\ a < end /\ matches_predicate(a, p)})

find_first(start, end, p) ==
  IF start >= end THEN {} ELSE first_match(start, end, p)

find_next(a, p, end) ==
  IF a >= end THEN {} ELSE first_match(a + 1, end, p)

(* The address an iterator goes to: the one found, or the end. *)
OrEnd(found, end) == IF found = {} THEN end ELSE CHOOSE a \in found : TRUE

ItemIterator_NoAdjust(current, end) == IF current < end THEN current ELSE end

ItemIterator(current, end) ==
  IF current >= end THEN end
  ELSE IF current < MaxAddress /\ is_head(current) THEN current
  ELSE OrEnd(next_head(current, end), end)

PredicateIterator(current, end, p) ==
  IF current < end THEN OrEnd(first_match(current, end, p), end) ELSE end

next_match(current, end, p) ==
  IF current >= end THEN end ELSE OrEnd(first_match(current + 1, end, p), end)

-----------------------------------------------------------------------------
ItemsInit ==
  /\ class \in [Bytes -> Classes]
  /\ \A a \in Bytes : class[a] = "tail" =>
       a > 0 /\ class[a - 1] # "unknown" /\ a \in MappedBytes
  /\ \A a \in Bytes \ MappedBytes : class[a] = "unknown"
  /\ itemWalk = NoItemWalk

Walking == itemWalk # NoItemWalk

(* What a loop over the heads, or over the bytes of a property, is for. *)
Visits(a, p) == IF p = "Items" THEN a \in Heads ELSE matches_predicate(a, p)

(* A client creates an item over unexplored bytes, or deletes one. *)
Reclassified(f) ==
  /\ class' = f
  /\ IF Walking
     THEN \E p \in {itemWalk.pred} :
            itemWalk' = [itemWalk EXCEPT !.changed = TRUE,
                                         !.stood = {a \in @ : Visits(a, p)'}]
     ELSE UNCHANGED itemWalk

MakeItem(a, n, c) ==
  /\ \A b \in a .. a + n - 1 : b \in MappedBytes /\ class[b] = "unknown"
  /\ Reclassified([b \in Bytes |-> IF b = a THEN c
                                   ELSE IF b \in a .. a + n - 1 THEN "tail" ELSE class[b]])

Undefine(a) ==
  /\ is_head(a)
  /\ Reclassified([b \in Bytes |-> IF b \in a .. item_end(a) - 1 THEN "unknown" ELSE class[b]])

WalkFrom(r, p, current) ==
  /\ ~Walking
  /\ itemWalk' = [pred |-> p, from |-> r[1], to |-> r[2], current |-> current,
                  seen |-> {}, changed |-> FALSE,
                  stood |-> {a \in Bytes : r[1] <= a /\ a < r[2] /\ Visits(a, p)}]
  /\ UNCHANGED class

(* The begin of a range of items, and of a range of matching bytes: code,  *)
(* data and unknown bytes have functions of their own.                     *)
items(r) == WalkFrom(r, "Items", ItemIterator(r[1], r[2]))

PredicateRange(r, p) == WalkFrom(r, p, PredicateIterator(r[1], r[2], p))

(* The loop visits the current address and advances. *)
Advance ==
  /\ Walking
  /\ itemWalk.current # itemWalk.to
  /\ itemWalk' = [itemWalk EXCEPT
       !.seen = @ \cup {itemWalk.current},
       !.current = IF itemWalk.pred = "Items" THEN OrEnd(next_head(@, itemWalk.to), itemWalk.to)
                   ELSE next_match(@, itemWalk.to, itemWalk.pred)]
  /\ UNCHANGED class

LeaveLoop == Walking /\ itemWalk' = NoItemWalk /\ UNCHANGED class

ItemsNext ==
  \/ \E a \in Bytes, n \in 1 .. 2, c \in {"code", "data"} :
       a + n <= MaxAddress /\ MakeItem(a, n, c)
  \/ \E a \in Bytes : Undefine(a)
  \/ \E r \in Ranges : items(r)
  \/ \E r \in Ranges, p \in Predicates : PredicateRange(r, p)
  \/ Advance
  \/ LeaveLoop

ItemsSpec == ItemsInit /\ [][ItemsNext]_itemvars

-----------------------------------------------------------------------------
Visited == {a \in Bytes : itemWalk.from <= a /\ a < itemWalk.current /\ Visits(a, itemWalk.pred)}

(* Whatever the client does to the items, a loop stays inside its range,   *)
(* goes forward and misses no item (no matching byte) that was there all   *)
(* along; over a listing nobody changes it visits nothing else, each item  *)
(* starts behind the end of the one before, and the search functions find  *)
(* the same addresses as the loop.                                         *)
WalkStaysInRange ==
  Walking =>
    /\ \A a \in itemWalk.seen : itemWalk.from <= a /\ a < itemWalk.current
    /\ itemWalk.current <= itemWalk.to
    /\ {a \in itemWalk.stood : a < itemWalk.current} \subseteq itemWalk.seen

WalkIsComplete ==
  Walking /\ ~itemWalk.changed =>
    /\ itemWalk.seen = Visited
    /\ itemWalk.current # itemWalk.to => Visits(itemWalk.current, itemWalk.pred)

ItemsAreApart ==
  Walking /\ ~itemWalk.changed /\ itemWalk.pred = "Items" =>
    \A a \in itemWalk.seen :
      /\ item_start(a) = a /\ a + item_size(a) = item_end(a)
      /\ \A b \in itemWalk.seen : a < b => item_end(a) <= b
      /\ \A b \in next_defined(a, AddressEnd) : prev_defined(b, 0) = {a}

SearchAgrees ==
  Walking /\ ~itemWalk.changed /\ itemWalk.pred \in Predicates =>
    LET rest == IF itemWalk.current = itemWalk.to THEN {} ELSE {itemWalk.current}
    IN IF itemWalk.seen = {} THEN find_first(itemWalk.from, itemWalk.to, itemWalk.pred) = rest
       ELSE find_next(Max(itemWalk.seen), itemWalk.pred, itemWalk.to) = rest

(* A loop over the items or the bytes of a property stays in its range and *)
(* meets everything that stood there all along; while nobody changes the   *)
(* listing it meets nothing else, and the searches agree with it.          *)
ItemWalksSound == WalkStaysInRange /\ WalkIsComplete /\ ItemsAreApart /\ SearchAgrees
=============================================================================
