-------------------------- MODULE DebuggerControl --------------------------
(***************************************************************************)
(* What clients ask of the debugger (src/debugger.cpp) beside its events:  *)
(* the backend that is loaded, chosen by name among those IDA lists, and   *)
(* appcalls, which convert typed values to the numbers of IDC and back.    *)
(*                                                                         *)
(* IDA is external: it lists backends, may refuse to load one, lets the    *)
(* user load another in between, and runs the function that is called.     *)
(* Numbers are 64 bits, of which IDC reads the highest as a sign; its      *)
(* floating-point numbers are not those of the client.                     *)
(***************************************************************************)
EXTENDS Integers, Sequences, FiniteSets, SequencesExt

CONSTANTS
  Backends,       \* the names of debugger plugins
  Titles,         \* the names of debuggers shown to the user, "" for none
  MaxBackends,    \* bound: the length of IDA's list
  NoBackend,      \* no debugger is loaded
  SignBit,        \* bound: what the highest bit counts, in the place of 2^63
  MaxArguments,   \* bound: the arguments of a call
  Doubles,        \* the floating-point numbers of clients
  IdcReals,       \* those of IDC
  ToDouble,       \* to_double: the double that a number of IDC becomes
  NoDouble,       \* .. and what the ones become that are out of range
  Texts           \* the strings in use, as character codes

(* No title, and no name. *)
Unnamed == ""

ASSUME DebuggerAssumption ==
  /\ MaxBackends \in Nat /\ MaxArguments \in Nat
  /\ SignBit \in Nat \ {0, 1}
  /\ Unnamed \in Titles /\ Unnamed \notin Backends

(* A number that both sides have is converted to itself. *)
ASSUME ConversionAssumption ==
  /\ NoDouble \notin Doubles
  /\ ToDouble \in [IdcReals -> Doubles \cup {NoDouble}]
  /\ \A real \in IdcReals \cap Doubles : ToDouble[real] = real
  /\ Texts \subseteq Seq(Nat)

VARIABLES
  infos,     \* external: what get_debugger_plugins lists
  dbg,       \* external: the debugger that is loaded
  loading,   \* the last load_backend and what it answered
  appcalled  \* the last appcall: the request, whether the function was
             \* called, with what, what it returned, and the answer

debuggervars == <<infos, dbg, loading, appcalled>>

-----------------------------------------------------------------------------
(* Backends. *)

(* Two entries of one plugin are its local and its remote debugger. *)
DebuggerInfo == [name : Backends, title : Titles, remote : BOOLEAN]
Lists ==
  {list \in BoundedSeq(DebuggerInfo, MaxBackends) :
     \A i, j \in DOMAIN list :
       list[i].name = list[j].name /\ list[i].remote = list[j].remote => i = j}

make_backend_info(info) ==
  [name |-> info.name,
   display_name |-> IF info.title = Unnamed THEN info.name ELSE info.title,
   remote |-> info.remote,
   loaded |-> /\ dbg # NoBackend
              /\ dbg.name = info.name
              /\ dbg.remote = info.remote]

available_backends == [i \in DOMAIN infos |-> make_backend_info(infos[i])]

(* The entry that is loaded; a debugger that IDA does not list answers for *)
(* itself.                                                                 *)
current_backend ==
  LET found == {i \in DOMAIN infos : available_backends[i].loaded}
  IN  IF found # {}
      THEN available_backends[Min(found)]
      ELSE [name |-> dbg.name, display_name |-> dbg.name, remote |-> dbg.remote,
            loaded |-> TRUE]

backend_name_matches(backend, name) == name \in {backend.name, backend.display_name}

Matching(name) == {i \in DOMAIN infos : backend_name_matches(available_backends[i], name)}

ChosenName_FirstMatch(name, use_remote) ==
  IF Matching(name) # {} THEN infos[Min(Matching(name))].name ELSE name

(* The name that IDA is asked for: of the first entry that matches and is  *)
(* remote or local as asked, else of the first that matches, else as given.*)
ChosenName(name, use_remote) ==
  LET matching == Matching(name)
      exact == {i \in matching : infos[i].remote = use_remote}
  IN  CASE exact # {} -> infos[Min(exact)].name
        [] exact = {} /\ matching # {} -> infos[Min(matching)].name
        [] OTHER -> name

(* IDA loads the plugin of that name, when it has it, or refuses. *)
load_debugger(name, remote) ==
  /\ \E i \in DOMAIN infos : infos[i].name = name /\ infos[i].remote = remote
  /\ dbg' = [name |-> name, remote |-> remote]

load_backend(name, use_remote) ==
  /\ name # Unnamed
  /\ \/ /\ load_debugger(ChosenName(name, use_remote), use_remote)
        /\ loading' = [name |-> name, remote |-> use_remote, answer |-> "ok"]
     \/ /\ loading' = [name |-> name, remote |-> use_remote, answer |-> "sdk"]
        /\ UNCHANGED dbg
  /\ UNCHANGED <<infos, appcalled>>

(* The user takes another debugger, perhaps one that is not listed, or     *)
(* none: what load_backend achieved is over.                               *)
UserSelects ==
  /\ dbg' \in {NoBackend} \cup [name : Backends \cup {"private"}, remote : BOOLEAN]
  /\ dbg' # dbg
  /\ loading' = [loading EXCEPT !.answer = "over"]
  /\ UNCHANGED <<infos, appcalled>>

-----------------------------------------------------------------------------
(* Appcalls.  A word is what the bits of a number say without a sign.      *)

Word == 0 .. 2 * SignBit - 1
MaxSigned == SignBit - 1
AsSigned(word) == IF word > MaxSigned THEN word - 2 * SignBit ELSE word
AsWord(number) == number % (2 * SignBit)

Representable == -SignBit .. MaxSigned

AppcallValue ==
  [kind : {"SignedInteger", "UnsignedInteger", "Address"}, word : Word]
  \cup [kind : {"Boolean"}, word : {0, 1}]
  \cup [kind : {"FloatingPoint"}, real : Doubles]
  \cup [kind : {"String"}, text : Texts]

(* What IDC has: integers of two widths (VT_LONG, VT_INT64), floats,       *)
(* strings, pointers, and other kinds, of which some can be made into a    *)
(* number (idcv_num) and others cannot.                                    *)
IdcValue ==
  [kind : {"number", "convertible"}, number : Representable]
  \cup [kind : {"float"}, real : IdcReals]
  \cup [kind : {"string"}, text : Texts]
  \cup [kind : {"pvoid"}, word : Word]
  \cup [kind : {"object"}]

Number(number) == [kind |-> "number", number |-> number]
Unsupported == [kind |-> "unsupported"]

(* Types as normalize_appcall_type meets them. *)
Callable == {"function", "function_alias", "function_pointer", "pointer_alias"}
Shapes == Callable \cup {"nameless_alias", "dangling_alias", "dangling_pointer",
                         "data_pointer", "data"}

(* Aliases are resolved and pointers followed, both of which may fail.     *)
normalize_appcall_type(type) ==
  CASE type \in Callable -> "ok"
    [] type = "dangling_alias" -> "not_found"
    [] type \in {"nameless_alias", "dangling_pointer"} -> "sdk"
    [] OTHER -> "validation"

(* Thread options: not positive, or none or a thread. *)
ThreadOptions == {"invalid", "usable"}
(* Timeouts: longer than the 16 bits of the flags, or none or a short one. *)
Timeouts == {"long", "usable"}

Convertible_TooLate(value) ==
  /\ value.kind \in {"UnsignedInteger", "Address"} => value.word <= MaxSigned + 1
  /\ value.kind = "FloatingPoint" => value.real \in IdcReals

(* to_idc_value fails: IDC has no number for the upper half of the         *)
(* unsigned ones, not for addresses either, and not for every float.       *)
Convertible(value) ==
  /\ value.kind \in {"UnsignedInteger", "Address"} => value.word <= MaxSigned
  /\ value.kind = "FloatingPoint" => value.real \in IdcReals

(* set_string(c_str()): a string ends at its first zero. *)
UpToZero(text) ==
  LET zeros == {i \in DOMAIN text : text[i] = 0}
  IN  IF zeros = {} THEN text ELSE SubSeq(text, 1, Min(zeros) - 1)

to_idc_value(value) ==
  CASE value.kind = "SignedInteger" -> Number(AsSigned(value.word))
    [] value.kind \in {"UnsignedInteger", "Address", "Boolean"} -> Number(value.word)
    [] value.kind = "FloatingPoint" -> [kind |-> "float", real |-> value.real]
    [] value.kind = "String" -> [kind |-> "string", text |-> UpToZero(value.text)]

(* from_idc_value: numbers come back signed, or as an address when the     *)
(* function returns a pointer; IDC's own pointers always as an address.    *)
from_idc_value(value, pointer_return) ==
  CASE value.kind \in {"number", "convertible"} ->
         [kind |-> IF pointer_return THEN "Address" ELSE "SignedInteger",
          word |-> AsWord(value.number)]
    [] value.kind = "pvoid" -> [kind |-> "Address", word |-> value.word]
    [] value.kind = "string" -> [kind |-> "String", text |-> value.text]
    [] value.kind = "float" ->
         IF ToDouble[value.real] = NoDouble THEN Unsupported
         ELSE [kind |-> "FloatingPoint", real |-> ToDouble[value.real]]
    [] value.kind = "object" -> Unsupported

(* `pointer` says whether the function is declared to return a pointer.    *)
Requests ==
  [addressed : BOOLEAN, type : Shapes, thread : ThreadOptions, timeout : Timeouts,
   arguments : BoundedSeq(AppcallValue, MaxArguments), pointer : BOOLEAN]

NoAppcall == << >>
Called(request, called, answer, arguments, returned, value) ==
  [request |-> request, called |-> called, answer |-> answer, arguments |-> arguments,
   returned |-> returned, value |-> value]

(* The checks of appcall, before anything is called: the error of the      *)
(* first that fails, or "ok".  The one for a type without implementation   *)
(* cannot fail: normalize_appcall_type made the type it looks at.          *)
Objection(request) ==
  CASE ~request.addressed -> "validation"
    [] request.addressed /\ request.type \notin Callable -> normalize_appcall_type(request.type)
    [] OTHER -> IF \/ request.thread = "invalid"
                   \/ request.timeout = "long"
                   \/ \E i \in DOMAIN request.arguments : ~Convertible(request.arguments[i])
                THEN "validation" ELSE "ok"

AppcallRefused(request) ==
  /\ Objection(request) # "ok"
  /\ appcalled' = Called(request, FALSE, Objection(request), << >>, << >>, << >>)
  /\ UNCHANGED <<infos, dbg, loading>>

Arguments(request) ==
  [i \in DOMAIN request.arguments |-> to_idc_value(request.arguments[i])]

(* The function returns, and what it returned is converted, or cannot be.  *)
(* The flags made of the other options go nowhere: dbg_appcall takes none. *)
appcall(request, returned) ==
  /\ Objection(request) = "ok"
  /\ LET value == from_idc_value(returned, request.pointer)
     IN appcalled' = IF value = Unsupported
          THEN Called(request, TRUE, "unsupported", Arguments(request), <<returned>>, << >>)
          ELSE Called(request, TRUE, "ok", Arguments(request), <<returned>>, <<value>>)
  /\ UNCHANGED <<infos, dbg, loading>>

(* The function crashes, or the debugger cannot call it: an SDK error. *)
AppcallFails(request) ==
  /\ Objection(request) = "ok"
  /\ appcalled' = Called(request, TRUE, "sdk", Arguments(request), << >>, << >>)
  /\ UNCHANGED <<infos, dbg, loading>>

(* The client goes on with the answer: with an argument it may be again.   *)
NextAppcall ==
  /\ appcalled # NoAppcall
  /\ appcalled' = NoAppcall
  /\ UNCHANGED <<infos, dbg, loading>>

-----------------------------------------------------------------------------
DebuggerInit ==
  /\ infos \in Lists
  /\ dbg = NoBackend
  /\ loading = [name |-> Unnamed, remote |-> FALSE, answer |-> "over"]
  /\ appcalled = NoAppcall

BackendsNext ==
  \/ \E name \in Backends \cup Titles, remote \in BOOLEAN : load_backend(name, remote)
  \/ UserSelects

AppcallsNext ==
  \/ /\ appcalled = NoAppcall
     /\ \E request \in Requests :
          \/ AppcallRefused(request)
          \/ AppcallFails(request)
          \/ \E returned \in IdcValue : appcall(request, returned)
  \/ NextAppcall

DebuggerSpec == DebuggerInit /\ [][BackendsNext \/ AppcallsNext]_debuggervars

-----------------------------------------------------------------------------
(* Properties. *)

(* A load_backend that succeeded loaded a debugger that has the name or    *)
(* the title asked for, local or remote as asked, whenever there is one,   *)
(* and until the user takes another, current_backend answers with that     *)
(* entry of the list.  Of two entries of one plugin that differ in being   *)
(* remote only one is ever called loaded.                                  *)
BackendAsAsked ==
  LET meant == {i \in DOMAIN infos :
                  /\ loading.name \in {infos[i].name, infos[i].title}
                  /\ infos[i].remote = loading.remote}
  IN  /\ Cardinality({i \in DOMAIN infos : available_backends[i].loaded}) <= 1
      /\ dbg # NoBackend => /\ current_backend.loaded
                            /\ current_backend.name = dbg.name
                            /\ current_backend.remote = dbg.remote
      /\ loading.answer = "ok" =>
           /\ dbg.remote = loading.remote
           /\ meant # {} => \E i \in meant : infos[i].name = dbg.name

(* What is meant by an argument: numbers with or without a sign.           *)
Meaning(value) ==
  IF value.kind = "SignedInteger" THEN AsSigned(value.word) ELSE value.word

Sayable(value) ==
  CASE value.kind = "String" -> TRUE
    [] value.kind = "FloatingPoint" -> value.real \in IdcReals
    [] OTHER -> Meaning(value) \in -SignBit .. SignBit - 1

PassedAs(value, idc) ==
  CASE value.kind = "String" -> /\ idc.kind = "string" /\ IsPrefix(idc.text, value.text)
                                /\ 0 \notin Range(idc.text)
                                /\ idc.text = value.text \/ value.text[Len(idc.text) + 1] = 0
    [] value.kind = "FloatingPoint" -> idc.kind = "float" /\ idc.real = value.real
    [] OTHER -> idc.kind = "number" /\ idc.number = Meaning(value)

(* The function is called exactly if the request is in order: an address,  *)
(* a callable type, options in range, and arguments that IDC can say.  It  *)
(* then gets the arguments' own numbers, each in its own reading, their    *)
(* floats, and their strings up to the first zero.  The error says whether *)
(* the request is at fault or its type could not be looked up.             *)
CalledWithOwnArguments ==
  LET request == appcalled.request
      InOrder == /\ request.addressed /\ request.type \in Callable
                 /\ request.thread # "invalid" /\ request.timeout # "long"
                 /\ \A i \in DOMAIN request.arguments : Sayable(request.arguments[i])
      LookedUp == request.type \notin {"nameless_alias", "dangling_alias", "dangling_pointer"}
  IN  appcalled # NoAppcall =>
        /\ appcalled.called <=> InOrder
        /\ ~appcalled.called =>
             (appcalled.answer = "validation" <=> LookedUp \/ ~request.addressed)
        /\ appcalled.called =>
             /\ Len(appcalled.arguments) = Len(request.arguments)
             /\ \A i \in DOMAIN request.arguments :
                  PassedAs(request.arguments[i], appcalled.arguments[i])

(* A call that succeeded is answered with what the function returned: the  *)
(* same bits, as an address if IDC says it is a pointer or the function is *)
(* declared to return one, the same text, or the float as far as a double  *)
(* can say it.  An error after the function has run means just that it     *)
(* failed, or that no value of the client can say what it returned: "ok"   *)
(* is not all that may have had an effect.                                 *)
AnsweredWithTheReturned ==
  LET idc == appcalled.returned[1]
      value == appcalled.value[1]
      Pointing == idc.kind = "pvoid" \/ appcalled.request.pointer
  IN  /\ appcalled # NoAppcall /\ appcalled.called =>
           (appcalled.answer = "sdk" <=> appcalled.returned = << >>)
      /\ appcalled # NoAppcall /\ appcalled.answer = "unsupported" =>
           idc.kind = "object" \/ (idc.kind = "float" /\ ToDouble[idc.real] \notin Doubles)
      /\ appcalled # NoAppcall /\ appcalled.answer = "ok" =>
           CASE idc.kind = "string" -> value = [kind |-> "String", text |-> idc.text]
             [] idc.kind = "float" -> /\ value.kind = "FloatingPoint" /\ value.real \in Doubles
                                      /\ idc.real \in Doubles => value.real = idc.real
             [] OTHER -> /\ idc.kind # "object"
                         /\ value.kind = IF Pointing THEN "Address" ELSE "SignedInteger"
                         /\ value.word = IF idc.kind = "pvoid" THEN idc.word ELSE AsWord(idc.number)

ComesBackAs(value, back) ==
  CASE value.kind = "String" -> 0 \in Range(value.text) \/ back = value
    [] value.kind = "FloatingPoint" -> back = value
    [] OTHER -> back.word = value.word

(* The two conversions are inverse: a function that returns an argument    *)
(* gives the client its bits, its float or its text back, a string with a  *)
(* zero in it excepted.                                                    *)
ArgumentsComeBack ==
  appcalled # NoAppcall /\ appcalled.called =>
    \A i \in DOMAIN appcalled.arguments :
      ComesBackAs(appcalled.request.arguments[i],
                  from_idc_value(appcalled.arguments[i], appcalled.request.pointer))

(* What clients ask of the debugger is what happens, or is refused. *)
DebuggerSound ==
  /\ BackendAsAsked
  /\ CalledWithOwnArguments /\ AnsweredWithTheReturned /\ ArgumentsComeBack
=============================================================================
