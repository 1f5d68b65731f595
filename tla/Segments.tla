------------------------------ MODULE Segments ------------------------------
(* The segments of a database as src/src/segment.cpp creates, changes and  *)
(* traverses them.  A Segment object is a copy that its owner refreshes by *)
(* its old start address; an iterator is an index and the number of        *)
(* segments there were when the range was made.                            *)
EXTENDS Naturals, Sequences, FiniteSets, SequencesExt

CONSTANTS
  SegmentLimit,     \* segments lie within 0 .. SegmentLimit
  SegmentNames,
  MaxEdits          \* changes of the segments, a bound

ASSUME SegmentsAssumption == SegmentLimit \in Nat \ {0} /\ MaxEdits \in Nat

VARIABLES
  segments,     \* the SDK's segments, in the order of their addresses
  segmentWalk,  \* the iterator of the client's loop, if any
  resized,      \* what the last resize was asked, and its result
  edits

segmentvars == <<segments, segmentWalk, resized, edits>>

SegAddresses == 0 .. SegmentLimit - 1
SegTypes == {"Normal", "External", "Code", "Data", "Bss", "AbsoluteSymbols", "Common",
             "Null", "Undefined", "Import", "InternalMemory", "Group"}
SdkTypes == {"NORM", "XTRN", "CODE", "DATA", "BSS", "ABSSYM", "COMM", "NULL", "UNDF",
             "IMP", "IMEM", "GRP", "other"}

Permission == {"read", "write", "execute"}
Segment == [start : 0 .. SegmentLimit, end : 0 .. SegmentLimit, type : SdkTypes,
            bitness : 0 .. 2, perm : SUBSET Permission, name : SegmentNames,
            text : {"new", "set"}]

NoObject == [start |-> SegmentLimit]
NoSegmentWalk == [total |-> 0, next |-> 0, seen |-> << >>, changed |-> FALSE, on |-> FALSE]
NotResized == [on |-> FALSE]

-----------------------------------------------------------------------------
sdk_type_to_type(t) ==
  CASE t = "NORM" -> "Normal" [] t = "XTRN" -> "External" [] t = "CODE" -> "Code"
    [] t = "DATA" -> "Data" [] t = "BSS" -> "Bss" [] t = "ABSSYM" -> "AbsoluteSymbols"
    [] t = "COMM" -> "Common" [] t = "NULL" -> "Null" [] t = "IMP" -> "Import"
    [] t = "IMEM" -> "InternalMemory" [] t = "GRP" -> "Group" [] OTHER -> "Undefined"

type_to_sdk_type(t) == CHOOSE s \in SdkTypes \ {"other"} : sdk_type_to_type(s) = t

(* The SDK counts 16, 32 and 64 bits as 0, 1 and 2. *)
bitness_to_bits(b) == CASE b = 0 -> 16 [] b = 1 -> 32 [] b = 2 -> 64
bits_to_bitness(bits) == {b \in 0 .. 2 : bitness_to_bits(b) = bits}

(* The object copied from a segment; text is whatever else is stored with  *)
(* one: its class, its comments, the defaults of its registers.            *)
PopulateSegment(s) ==
  [start |-> s.start, end |-> s.end, type |-> sdk_type_to_type(s.type),
   bits |-> bitness_to_bits(s.bitness), perm |-> s.perm, name |-> s.name, text |-> s.text]

-----------------------------------------------------------------------------
(* What the SDK does: segments are ranges that do not overlap. *)
InSegment(s, a) == s.start <= a /\ a < s.end
getseg(a) == {i \in DOMAIN segments : InSegment(segments[i], a)}

Fits(s, others) == \A o \in others : s.end <= o.start \/ o.end <= s.start

(* The SDK keeps them in the order of their addresses. *)
Placed(list, s) ==
  {InsertAt(list, k + 1, s) :
     k \in {n \in 0 .. Len(list) : \A i \in DOMAIN list : i <= n <=> list[i].start < s.start}}

Others(i) == {segments[j] : j \in DOMAIN segments \ {i}}

(* The database changed; a loop over it goes on with its old total. *)
ChangedBy(list, resize) ==
  /\ edits < MaxEdits
  /\ edits' = edits + 1
  /\ segments' = list
  /\ resized' = resize
  /\ segmentWalk' = IF segmentWalk.on THEN [segmentWalk EXCEPT !.changed = TRUE] ELSE segmentWalk

Changed(list) == ChangedBy(list, NotResized)

-----------------------------------------------------------------------------
find_segment_index_by_start(start) ==
  LET found == {i \in DOMAIN segments : segments[i].start = start}
  IN IF found = {} THEN 0 ELSE CHOOSE i \in found : \A j \in found : i <= j

(* Results: the set of the object returned, empty for an error.  Indices   *)
(* are counted from 1 here.                                                *)
SegmentByIndex(i) == IF i > Len(segments) THEN {} ELSE {PopulateSegment(segments[i])}
SegmentAt(a) == {PopulateSegment(segments[i]) : i \in getseg(a)}
SegmentByName(n) ==
  LET named == {i \in DOMAIN segments : segments[i].name = n}
  IN IF named = {} THEN {} ELSE SegmentByIndex(CHOOSE i \in named : \A j \in named : i <= j)

(* refresh reads the segment that now contains the old start. *)
Refreshed(object) == SegmentAt(object.start)

FirstSegment == IF Len(segments) = 0 THEN {} ELSE SegmentByIndex(1)
LastSegment == IF Len(segments) = 0 THEN {} ELSE SegmentByIndex(Len(segments))

NextSegment(a) ==
  UNION {SegmentByIndex(find_segment_index_by_start(segments[i].start) + 1) : i \in getseg(a)}

PrevSegment_KeepsIndex(a) ==
  UNION {LET index == find_segment_index_by_start(segments[i].start)
         IN IF index <= 1 THEN {} ELSE SegmentByIndex(index) : i \in getseg(a)}

PrevSegment(a) ==
  UNION {LET index == find_segment_index_by_start(segments[i].start)
         IN IF index <= 1 THEN {} ELSE SegmentByIndex(index - 1) : i \in getseg(a)}

-----------------------------------------------------------------------------
SegmentsInit ==
  /\ segments = << >>
  /\ segmentWalk = NoSegmentWalk
  /\ resized = NotResized
  /\ edits = 0

(* create adds the segment with 32 bits and all permissions, or dies with  *)
(* the SDK's refusal, and returns the segment it reads back.               *)
CreateSegment(start, end, name, type) ==
  LET s == [start |-> start, end |-> end, type |-> type_to_sdk_type(type), bitness |-> 1,
            perm |-> Permission, name |-> name, text |-> "new"]
  IN /\ Fits(s, ToSet(segments))
     /\ \E list \in Placed(segments, s) : Changed(list)

RemoveSegment(a) ==
  /\ \E i \in getseg(a) : Changed(RemoveAt(segments, i))

(* The setters find the segment of an address and store one field; the SDK *)
(* may refuse a name, and only three bitnesses exist.                      *)
SegmentSet(a, field, value) ==
  \E i \in getseg(a) :
    Changed([segments EXCEPT ![i][field] = value])

SetText(a, text) == SegmentSet(a, "text", text)
SetName(a, name) == SegmentSet(a, "name", name)
SetType(a, type) == SegmentSet(a, "type", type_to_sdk_type(type))
SetPermissions(a, perm) == SegmentSet(a, "perm", perm)
SetBitness(a, bits) == \E b \in bits_to_bitness(bits) : SegmentSet(a, "bitness", b)

(* resize moves the start, then the end of the segment that now begins     *)
(* there.  The SDK refuses a start behind the end, and bounds that run     *)
(* into a neighbour; when it refuses the end, the start has moved.         *)
Resize(a, new_start, new_end) ==
  \E i \in getseg(a) :
    LET old == segments[i]
        started == [old EXCEPT !.start = new_start]
        ended == [started EXCEPT !.end = new_end]
        asked(result) == [on |-> TRUE, before |-> old, start |-> new_start,
                          end |-> new_end, result |-> result]
        startable == new_start < new_end /\ new_start < old.end /\ Fits(started, Others(i))
    IN /\ \/ /\ ~startable
             /\ resized' = NotResized
             /\ UNCHANGED <<segments, segmentWalk, edits>>
          \/ /\ startable /\ Fits(ended, Others(i))
             /\ ChangedBy([segments EXCEPT ![i] = ended], asked("ok"))
          \/ /\ startable /\ ~Fits(ended, Others(i))
             /\ ChangedBy([segments EXCEPT ![i] = started], asked("half"))

(* Every segment's default of a register is set at once. *)
SetTextOfAll(text) ==
  /\ Changed([i \in DOMAIN segments |-> [segments[i] EXCEPT !.text = text]])

(* move: the SDK takes the whole segment elsewhere, or refuses. *)
MoveSegment(a, new_start) ==
  /\ \E i \in getseg(a) :
       LET s == segments[i]
           moved == [s EXCEPT !.start = new_start, !.end = new_start + (s.end - s.start)]
       IN /\ moved.end <= SegmentLimit /\ Fits(moved, Others(i))
          /\ \E list \in Placed(RemoveAt(segments, i), moved) : Changed(list)

-----------------------------------------------------------------------------
(* for (auto segment : all()): the number of segments is taken once; a     *)
(* dereference past the segments that are left gives an empty object.      *)
AllSegments ==
  /\ ~segmentWalk.on
  /\ segmentWalk' = [NoSegmentWalk EXCEPT !.on = TRUE, !.total = Len(segments)]
  /\ UNCHANGED <<segments, resized, edits>>

VisitSegment ==
  /\ segmentWalk.on /\ segmentWalk.next < segmentWalk.total
  /\ LET object == IF segmentWalk.next < Len(segments)
                     THEN PopulateSegment(segments[segmentWalk.next + 1]) ELSE NoObject
     IN segmentWalk' = [segmentWalk EXCEPT !.next = @ + 1, !.seen = Append(@, object)]
  /\ UNCHANGED <<segments, resized, edits>>

EndSegmentLoop ==
  /\ segmentWalk.on
  /\ segmentWalk' = NoSegmentWalk
  /\ UNCHANGED <<segments, resized, edits>>

SegmentsNext ==
  \/ \E s, e \in 0 .. SegmentLimit, n \in SegmentNames :
       s < e /\ CreateSegment(s, e, n, "Import")
  \/ \E a \in SegAddresses : RemoveSegment(a)
  \/ \E a \in SegAddresses, n \in SegmentNames : SetName(a, n)
  \/ \E a \in SegAddresses : SetType(a, "Group")
  \/ \E a \in SegAddresses : SetText(a, "set")
  \/ SetTextOfAll("set")
  \/ \E a \in SegAddresses : SetPermissions(a, {"read"})
  \/ \E a \in SegAddresses, bits \in {16, 64, 24} : SetBitness(a, bits)
  \/ \E a \in SegAddresses, s, e \in 0 .. SegmentLimit : Resize(a, s, e)
  \/ \E a, s \in SegAddresses : MoveSegment(a, s)
  \/ AllSegments
  \/ VisitSegment
  \/ EndSegmentLoop

SegmentsSpec == SegmentsInit /\ [][SegmentsNext]_segmentvars

-----------------------------------------------------------------------------
(* Properties. *)

SegmentsTypeOK ==
  /\ segments \in Seq(Segment)
  /\ edits \in 0 .. MaxEdits
  /\ segmentWalk.on => segmentWalk.next \in 0 .. segmentWalk.total

(* A loop over segments nobody changes visits each of them once, in order, *)
(* and the objects it gives are up to date.                                *)
SegmentLoopIsComplete ==
  segmentWalk.on /\ ~segmentWalk.changed =>
    /\ segmentWalk.total = Len(segments)
    /\ \A i \in DOMAIN segmentWalk.seen :
         Refreshed(segmentWalk.seen[i]) = {segmentWalk.seen[i]}
    /\ segmentWalk.seen = [i \in 1 .. segmentWalk.next |-> PopulateSegment(segments[i])]

(* first, next and prev lead through all segments, from any address inside *)
(* one, and end at both ends; a segment is found by its name and place.    *)
NavigationIsOrdered ==
  /\ FirstSegment = (IF segments = << >> THEN {} ELSE {PopulateSegment(segments[1])})
  /\ LastSegment = (IF segments = << >> THEN {} ELSE {PopulateSegment(segments[Len(segments)])})
  /\ \A i \in DOMAIN segments :
       \A a \in segments[i].start .. segments[i].end - 1 :
         /\ NextSegment(a) =
              (IF i = Len(segments) THEN {} ELSE {PopulateSegment(segments[i + 1])})
         /\ \A s \in NextSegment(a) : PrevSegment(s.start) = SegmentAt(a)
         /\ i = 1 => PrevSegment(a) = {}
  /\ \A n \in SegmentNames : \A s \in SegmentByName(n) : s.name = n

(* A resize that succeeds gives the bounds asked for, one that fails in    *)
(* the middle leaves the new start with the old end; nothing else changes. *)
ResizeIsWholeOrHalf ==
  resized.on =>
    \/ /\ resized.result = "ok"
       /\ [resized.before EXCEPT !.start = resized.start, !.end = resized.end] \in ToSet(segments)
    \/ /\ resized.result = "half"
       /\ [resized.before EXCEPT !.start = resized.start] \in ToSet(segments)
       /\ resized.end # resized.before.end

(* Loops, navigation and resizes together: what a client relies on when it *)
(* goes from segment to segment and moves their bounds.  (It includes that  *)
(* the variables have their types.)                                        *)
SegmentsSound ==
  SegmentsTypeOK /\ SegmentLoopIsComplete /\ NavigationIsOrdered /\ ResizeIsWholeOrHalf
=============================================================================
