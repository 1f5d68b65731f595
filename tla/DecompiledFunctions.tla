------------------------- MODULE DecompiledFunctions -------------------------
(***************************************************************************)
(* Decompiled functions (src/decompiler.cpp): objects that share what the  *)
(* SDK decompiled, the text it prints to and the edits made to it, the     *)
(* comments of the user, the lines and addresses of the text, views that   *)
(* decompile again for every call, and the record of a failure.            *)
(*                                                                         *)
(* A function is its start address.  Its text has so many header lines,    *)
(* then the body, and the SDK's treeitems: an address, or BadAddress, for  *)
(* each.  A comment is a number, 0 when there is none.                     *)
(***************************************************************************)
EXTENDS Integers, Sequences, FiniteSets, SequencesExt

CONSTANTS
  Functions,       \* addresses a function starts at
  PrintedTexts,    \* external: what functions may print to: [text, header, items]
  PrintedText,     \* external: what each function prints to
  CallersOf,       \* external: what function::callers returns for each
  OutsideAddress,  \* an address no function contains
  NowhereAddress,  \* BadAddress
  Objects,         \* DecompiledFunction objects
  Cfuncs, NoCfunc, \* external: cfunc_t objects, and the null pointer
  CommentPlaces, CommentTexts

ASSUME DecompiledAssumption ==
  /\ \A f \in Functions : PrintedText[f] \in PrintedTexts
  /\ \A t \in PrintedTexts :
       /\ t.header \in Nat
       /\ Len(t.text) \in Nat /\ DOMAIN t.text = 1 .. Len(t.text)
       /\ Len(t.items) \in Nat /\ DOMAIN t.items = 1 .. Len(t.items)
  /\ NowhereAddress \notin Functions \cup {OutsideAddress} /\ OutsideAddress \notin Functions
  /\ NoCfunc \notin Cfuncs /\ 0 \notin CommentTexts

VARIABLES
  impl_,      \* the cfunc_t of each object, or null: empty or moved from
  cfuncs,     \* external: what each cfunc_t holds
  cache,      \* external: the decompilation the SDK keeps of each function
  user_cmts,  \* external: the comments saved with the database
  failure,    \* the DecompileFailure the client passes to decompile
  decompiled  \* history: the last call of decompile, and its outcome

functionvars == <<impl_, cfuncs, cache, user_cmts, failure, decompiled>>

NoFailure == [request_address |-> NowhereAddress, description |-> "none"]
NoComments == [place \in CommentPlaces |-> 0]
NewCfunc(f) == [function |-> f, sv |-> "none", edits |-> {}, comments |-> user_cmts[f]]

DecompiledInit ==
  /\ impl_ = [o \in Objects |-> NoCfunc]
  /\ user_cmts = [f \in Functions |-> NoComments]
  /\ cfuncs \in [Cfuncs -> {NewCfunc(f) : f \in Functions}]
  /\ cache = [f \in Functions |-> NoCfunc]
  /\ failure = NoFailure
  /\ decompiled = [address |-> NowhereAddress, outcome |-> "none"]

-----------------------------------------------------------------------------
(* Lines and addresses. *)

HasAddress(t, item) == item + 1 \in DOMAIN t.items /\ t.items[item + 1] # NowhereAddress

(* The item of the line, then one before and one after, up to five away. *)
Probe(n) == IF n % 2 = 0 THEN n \div 2 ELSE -((n + 1) \div 2)

item_line_IgnoresHeader(t, line) == line
item_line(t, line) == line - t.header

LineError(category) == [answer |-> category]
LineAt(address) == [answer |-> "ok", address |-> address]

(* The lines of the text are 0 .. Len(text) - 1, and one that nothing with *)
(* an address is near is an error of its own, not BadAddress.              *)
line_to_address(t, line) ==
  LET probes == {k \in 0 .. 10 : HasAddress(t, item_line(t, line) + Probe(k))}
      nearest == CHOOSE k \in probes : \A j \in probes : k <= j
  IN IF line \notin 0 .. Len(t.text) - 1 THEN LineError("Validation")
     ELSE IF probes = {} THEN LineError("NotFound")
     ELSE LineAt(t.items[item_line(t, line) + Probe(nearest) + 1])

address_map(t) ==
  {[address |-> t.items[k], line_number |-> (k - 1) + t.header] :
     k \in {j \in DOMAIN t.items : t.items[j] # NowhereAddress}}

(* A line is looked up among the declarations when it reads like one of    *)
(* the header lines.                                                       *)
is_ctree_line(t, line) ==
  ~ \E k \in 1 .. t.header : k <= Len(t.text) /\ t.text[k] = line

-----------------------------------------------------------------------------
(* What keeps a cfunc_t: the objects and the SDK. *)
Kept == {impl_[o] : o \in Objects} \cup {cache[f] : f \in Functions}

(* external: decompile_func gives back what it keeps, or decompiles again. *)
decompile_func(f, c) ==
  \/ /\ c = cache[f] /\ c # NoCfunc
     /\ UNCHANGED <<cfuncs, cache>>
  \/ /\ c \in Cfuncs \ Kept
     /\ cfuncs' = [cfuncs EXCEPT ![c] = NewCfunc(f)]
     /\ cache' \in {cache, [cache EXCEPT ![f] = c]}

Failed(address, description) == [request_address |-> address, description |-> description]

(* decompile.  When Hex-Rays is missing the record stays empty. *)
decompile(o, address) ==
  \/ /\ failure' = NoFailure
     /\ decompiled' = [address |-> address, outcome |-> "Unsupported"]
     /\ UNCHANGED <<impl_, cfuncs, cache>>
  \/ /\ address \notin Functions
     /\ failure' = Failed(address, "NoFunctionAtAddress")
     /\ decompiled' = [address |-> address, outcome |-> "NotFound"]
     /\ UNCHANGED <<impl_, cfuncs, cache>>
  \/ /\ address \in Functions
     /\ failure' = Failed(address, "DecompilationFailed")
     /\ decompiled' = [address |-> address, outcome |-> "SdkFailure"]
     /\ UNCHANGED <<impl_, cfuncs, cache>>
  \/ /\ address \in Functions
     /\ \E c \in Cfuncs : decompile_func(address, c) /\ impl_' = [impl_ EXCEPT ![o] = c]
     /\ failure' = NoFailure
     /\ decompiled' = [address |-> address, outcome |-> "ok"]

(* DecompiledFunction(DecompiledFunction&&) and operator=. *)
MoveObject(from, to) ==
  /\ from # to
  /\ impl_' = [impl_ EXCEPT ![to] = impl_[from], ![from] = NoCfunc]
  /\ UNCHANGED <<cfuncs, cache, user_cmts, failure, decompiled>>

DestroyObject(o) ==
  /\ impl_' = [impl_ EXCEPT ![o] = NoCfunc]
  /\ UNCHANGED <<cfuncs, cache, user_cmts, failure, decompiled>>

(* The SDK forgets decompilations: of itself, by mark_dirty, and by        *)
(* mark_dirty_with_callers one after the other up to the first that fails, *)
(* an address that is in no function any more among them.                  *)
Forget(addresses) ==
  /\ cache' = [f \in Functions |-> IF f \in addresses THEN NoCfunc ELSE cache[f]]
  /\ UNCHANGED <<impl_, cfuncs, user_cmts, failure, decompiled>>

mark_dirty(f) == Forget({f})

mark_dirty_with_callers(f) ==
  \E n \in 0 .. Len(CallersOf[f]) :
    LET marked == {CallersOf[f][k] : k \in 1 .. n}
    IN marked \subseteq Functions /\ Forget({f} \cup marked)

-----------------------------------------------------------------------------
(* Everything below works on a cfunc_t: that of an object that is not      *)
(* empty, or the handle of an event that is not null.                      *)

Changed(c, new) ==
  cfuncs' = [cfuncs EXCEPT ![c] = new] /\ UNCHANGED <<impl_, cache, failure, decompiled>>

(* pseudocode, lines, raw_lines, line_to_address, address_map and          *)
(* item_at_position print the text unless it is current.                   *)
get_pseudocode(c) ==
  /\ cfuncs[c].sv # "current"
  /\ Changed(c, [cfuncs[c] EXCEPT !.sv = "current", !.edits = {}])
  /\ UNCHANGED user_cmts

Lines(c) == IF cfuncs[c].sv = "none" THEN 0 ELSE Len(PrintedText[cfuncs[c].function].text)

(* set_raw_line and set_pseudocode_line write to the lines there are: none *)
(* before the text was printed, old ones after refresh.                    *)
set_raw_line(c, line) ==
  /\ line < Lines(c)
  /\ Changed(c, [cfuncs[c] EXCEPT !.edits = @ \cup {line}])
  /\ UNCHANGED user_cmts

(* Whether the SDK drops the lines at once is open. *)
refresh(c) ==
  /\ \E sv \in {"none", "stale"} :
       Changed(c, [cfuncs[c] EXCEPT !.sv = IF @ = "none" THEN "none" ELSE sv,
                                    !.edits = IF sv = "none" THEN {} ELSE @])
  /\ UNCHANGED user_cmts

(* An empty text removes the comment. *)
set_comment(c, place, text) ==
  /\ Changed(c, [cfuncs[c] EXCEPT !.comments[place] = text])
  /\ UNCHANGED user_cmts

save_comments(c) ==
  /\ user_cmts' = [user_cmts EXCEPT ![cfuncs[c].function] = cfuncs[c].comments]
  /\ UNCHANGED <<impl_, cfuncs, cache, failure, decompiled>>

(* A comment is an orphan when nothing in the text has its place. *)
Orphans(c) ==
  {place \in CommentPlaces : cfuncs[c].comments[place] # 0
                             /\ place \notin ToSet(PrintedText[cfuncs[c].function].items)}
has_orphan_comments(c) == Orphans(c) # {}

remove_orphan_comments(c) ==
  /\ has_orphan_comments(c)
  /\ Changed(c, [cfuncs[c] EXCEPT !.comments =
                   [place \in CommentPlaces |-> IF place \in Orphans(c) THEN 0 ELSE @[place]]])
  /\ UNCHANGED user_cmts

(* A DecompilerView keeps the address only: every call decompiles, and     *)
(* what the SDK does not keep is lost when the call returns.               *)
ViewCall(f) ==
  \E c \in Cfuncs :
    /\ decompile_func(f, c) /\ cfuncs' # cfuncs
    /\ UNCHANGED <<impl_, user_cmts, failure, decompiled>>

ViewSetComment(f, place, text) ==
  \/ cache[f] # NoCfunc /\ set_comment(cache[f], place, text)
  \/ ViewCall(f)

ViewSaveComments(f) ==
  \/ cache[f] # NoCfunc /\ save_comments(cache[f])
  \/ ViewCall(f)

CfuncNext(c) ==
  \/ get_pseudocode(c) \/ refresh(c) \/ save_comments(c) \/ remove_orphan_comments(c)
  \/ \E line \in 0 .. 1 : set_raw_line(c, line)
  \/ \E place \in CommentPlaces, text \in CommentTexts \cup {0} : set_comment(c, place, text)

DecompiledNext ==
  \/ \E o \in Objects, address \in Functions \cup {OutsideAddress} :
       decompile(o, address) /\ UNCHANGED user_cmts
  \/ \E o, p \in Objects : MoveObject(o, p)
  \/ \E o \in Objects : DestroyObject(o)
  \/ \E c \in Kept \ {NoCfunc} : CfuncNext(c)
  \/ \E f \in Functions :
       \/ mark_dirty(f) \/ mark_dirty_with_callers(f) \/ ViewSaveComments(f)
       \/ \E place \in CommentPlaces, text \in CommentTexts \cup {0} : ViewSetComment(f, place, text)

DecompiledSpec == DecompiledInit /\ [][DecompiledNext]_functionvars

-----------------------------------------------------------------------------
DecompiledTypeOK ==
  /\ impl_ \in [Objects -> Cfuncs \cup {NoCfunc}]
  /\ cache \in [Functions -> Cfuncs \cup {NoCfunc}]
  /\ cfuncs \in [Cfuncs -> [function : Functions, sv : {"none", "current", "stale"},
                            edits : SUBSET Nat, comments : [CommentPlaces -> CommentTexts \cup {0}]]]

(* The record of a failure never speaks of an earlier call of decompile:   *)
(* it is cleared by a call that succeeds, holds the address asked for and  *)
(* a reason when there is no function or the SDK fails, and otherwise, if  *)
(* it holds anything, then the address asked for.  (Without Hex-Rays the   *)
(* code leaves it empty, where decompiler.hpp:1434 has it populated.)      *)
FailureRecordTrue ==
  /\ decompiled.outcome = "ok" => failure = NoFailure
  /\ decompiled.outcome \in {"NotFound", "SdkFailure"} =>
       failure.request_address = decompiled.address /\ failure.description # "none"
  /\ decompiled.outcome = "Unsupported" =>
       failure = NoFailure \/ failure.request_address = decompiled.address

(* A line the address map names leads back to the address it names, any    *)
(* other line to an address at most five items away with none nearer, and  *)
(* a header line is never taken for one of the body.  No answer is an      *)
(* invalid address: a line outside the text and a line that nothing is     *)
(* near are refused, each with an error of its own (decompiler.hpp:1339    *)
(* still promises BadAddress for the latter; .agents/findings.md:43 lists  *)
(* that as a defect that was fixed).                                       *)
LinesAndAddressesAgree ==
  \A t \in PrintedTexts :
    LET mapped == address_map(t)
        Distance(m, line) == IF m.line_number < line THEN line - m.line_number
                             ELSE m.line_number - line
    IN /\ \A m \in mapped :
            m.line_number < Len(t.text) =>
              line_to_address(t, m.line_number) = LineAt(m.address)
       /\ \A line \in 0 .. Len(t.text) - 1 :
            LET near == {m \in mapped : Distance(m, line) <= 5}
                found == line_to_address(t, line)
            IN IF near = {} THEN found = LineError("NotFound")
               ELSE \E m \in near :
                      /\ found = LineAt(m.address) /\ m.address # NowhereAddress
                      /\ \A other \in near : Distance(m, line) <= Distance(other, line)
       /\ \A line \in {-1, Len(t.text)} :
            line_to_address(t, line) = LineError("Validation")
       /\ \A k \in 1 .. Len(t.text) : k <= t.header => ~is_ctree_line(t, t.text[k])

(* An edit is of a line of a text that was printed, and what the SDK keeps *)
(* of a function is a decompilation of it.                                 *)
EditsOfPrintedText ==
  \A c \in Kept \ {NoCfunc} :
    /\ cfuncs[c].edits # {} => cfuncs[c].sv # "none"
    /\ \A f \in Functions : cache[f] = c => cfuncs[c].function = f

(* What a client holds of a decompiled function: the maps between its      *)
(* lines and addresses, its edited text, its comments and the record of a  *)
(* failure all speak of the function that was asked for.                   *)
DecompiledFunctionsSound ==
  DecompiledTypeOK /\ FailureRecordTrue /\ LinesAndAddressesAgree /\ EditsOfPrintedText
=============================================================================
