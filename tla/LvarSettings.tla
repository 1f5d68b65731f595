---------------------------- MODULE LvarSettings ----------------------------
(***************************************************************************)
(* What a user changed about the local variables of a decompiled function  *)
(* (src/decompiler.cpp): names, types and comments the SDK keeps with the  *)
(* database, edited variable by variable, captured and restored whole by   *)
(* LvarSnapshot, and written out as LocalVariableUserSetting records which *)
(* are applied again one by one.                                           *)
(*                                                                         *)
(* A name, type or comment is a number, 0 when there is none.  A variable  *)
(* is the locator the SDK finds it by: a register, a stack offset, or a    *)
(* location of another kind.                                               *)
(***************************************************************************)
EXTENDS Naturals, Sequences, FiniteSets, SequencesExt

CONSTANTS
  RegisterVariables, StackVariables, OtherVariables,   \* locators, by kind
  Texts,            \* names and comments: numbers above 0
  TypeTexts,        \* types: numbers above 0
  UnparsableTypes,  \* types whose printed text does not parse again
  Snapshots,        \* LvarSnapshot objects
  MaxEdits,         \* bound: edits of single variables
  MaxTakes          \* bound: how often settings are captured or written out

(* The locator of LocalVariableLocationKind::None: no location. *)
NoLocation == "none"

ASSUME LvarAssumption ==
  /\ NoLocation \notin RegisterVariables \cup StackVariables
  /\ Texts \cup TypeTexts \subseteq Nat \ {0}
  /\ UnparsableTypes \subseteq TypeTexts
  /\ MaxEdits \in Nat /\ MaxTakes \in Nat

VARIABLES
  saved,      \* external: the user's settings, locator -> setting
  snapshots,  \* impl_ of each LvarSnapshot: one set of settings, or << >>
  written,    \* the records saved_user_lvar_settings returned
  origin,     \* history: the settings when they were written
  edits,      \* how often a single variable was edited
  takes       \* how often settings were captured or written out

lvarvars == <<saved, snapshots, written, origin, edits, takes>>

Variables == RegisterVariables \cup StackVariables \cup OtherVariables
Locators == Variables \cup {NoLocation}
Fields == {"name", "type", "comment"}
Setting == [Fields -> Texts \cup TypeTexts \cup {0}]
Nothing == [field \in Fields |-> 0]

LvarInit ==
  /\ saved = << >>
  /\ snapshots = [s \in Snapshots |-> << << >> >>]
  /\ written = << >>
  /\ origin = << >>
  /\ edits = 0
  /\ takes = 0

-----------------------------------------------------------------------------
(* external: modify_user_lvar_info changes the fields it is told to, and   *)
(* makes an entry when the variable has none.                              *)
Modified(settings, locator, fields, value) ==
  LET old == IF locator \in DOMAIN settings THEN settings[locator] ELSE Nothing
      new == [field \in Fields |-> IF field \in fields THEN value[field] ELSE old[field]]
  IN [l \in DOMAIN settings \cup {locator} |-> IF l = locator THEN new ELSE settings[l]]

(* Only a comment can be emptied. *)
Editable == [name |-> Texts, type |-> TypeTexts, comment |-> Texts \cup {0}]

(* rename_variable, retype_variable and set_variable_comment, by name or   *)
(* by index, and their forms on a view.                                    *)
Edit(v, field, text) ==
  /\ edits < MaxEdits
  /\ edits' = edits + 1
  /\ saved' = Modified(saved, v, {field}, [Nothing EXCEPT ![field] = text])
  /\ UNCHANGED <<snapshots, written, origin, takes>>

-----------------------------------------------------------------------------
(* LvarSnapshot. *)

Take == takes < MaxTakes /\ takes' = takes + 1

capture_user_lvar_settings(s) ==
  /\ Take
  /\ snapshots' = [snapshots EXCEPT ![s] = <<saved>>]
  /\ UNCHANGED <<saved, written, origin, edits>>

(* The moved-from snapshot has no impl_ and is refused; one that never     *)
(* captured anything is not, and takes every setting away.                 *)
restore_user_lvar_settings(s) ==
  /\ snapshots[s] # << >>
  /\ saved' = snapshots[s][1]
  /\ UNCHANGED <<snapshots, written, origin, edits, takes>>

(* Copies share what was captured, which is never changed afterwards. *)
CopySnapshot(s, other) ==
  /\ s # other
  /\ snapshots' = [snapshots EXCEPT ![s] = snapshots[other]]
  /\ UNCHANGED <<saved, written, origin, edits, takes>>

MoveSnapshot(s, other) ==
  /\ s # other
  /\ snapshots' = [snapshots EXCEPT ![s] = snapshots[other], ![other] = << >>]
  /\ UNCHANGED <<saved, written, origin, edits, takes>>

-----------------------------------------------------------------------------
(* Written settings. *)

make_lvar_user_setting_NoStack(v, setting) ==
  [locator |-> IF v \in RegisterVariables THEN v ELSE NoLocation,
   fields |-> setting]

(* A record knows registers and stack offsets; other locations are lost. *)
make_lvar_user_setting(v, setting) ==
  [locator |-> IF v \in RegisterVariables \cup StackVariables THEN v ELSE NoLocation,
   fields |-> setting]

saved_user_lvar_settings ==
  /\ Take
  /\ written' = LET order == SetToSeq(DOMAIN saved) IN
                [i \in DOMAIN order |-> make_lvar_user_setting(order[i], saved[order[i]])]
  /\ origin' = saved
  /\ UNCHANGED <<saved, snapshots, edits>>

(* The fields a record changes: those that say something.  A type that     *)
(* does not parse is left out if there is anything else to say.            *)
Flags(record) ==
  {field \in Fields :
     /\ record.fields[field] # 0
     /\ field = "type" => record.fields["type"] \notin UnparsableTypes}

ParseFails(record) ==
  record.fields["type"] \in UnparsableTypes /\ Flags(record) = {}

apply_user_lvar_setting(settings, record) ==
  IF Flags(record) = {} THEN settings
  ELSE Modified(settings, record.locator, Flags(record), record.fields)

(* The settings after each number of records. *)
AppliedUpTo(settings, records) ==
  LET done[i \in 0 .. Len(records)] ==
        IF i = 0 THEN settings ELSE apply_user_lvar_setting(done[i - 1], records[i])
  IN  done

Applied(settings, k) == AppliedUpTo(settings, written)[k]

(* apply_user_lvar_settings stops at the first record that fails, for its  *)
(* type or because the SDK refuses it; the records before stay applied.    *)
apply_user_lvar_settings(k) ==
  /\ written # << >>
  /\ \A i \in 1 .. k : ~ParseFails(written[i])
  /\ saved' = Applied(saved, k)
  /\ UNCHANGED <<snapshots, written, origin, edits, takes>>

LvarNext ==
  \/ \E v \in Variables, field \in Fields : \E text \in Editable[field] : Edit(v, field, text)
  \/ \E s \in Snapshots :
       \/ capture_user_lvar_settings(s)
       \/ restore_user_lvar_settings(s)
       \/ \E other \in Snapshots : CopySnapshot(s, other) \/ MoveSnapshot(s, other)
  \/ saved_user_lvar_settings
  \/ \E k \in 0 .. Len(written) : apply_user_lvar_settings(k)

LvarSpec == LvarInit /\ [][LvarNext]_lvarvars

-----------------------------------------------------------------------------
(* Properties. *)

(* Of a setting, what a record can carry: all of it but a type whose text  *)
(* does not parse.                                                         *)
Carried(setting) ==
  [setting EXCEPT !["type"] = IF @ \in UnparsableTypes THEN 0 ELSE @]

(* Settings that were written out come back: applying all the records to a *)
(* function without settings gives every register and stack variable what  *)
(* it had when they were written, whatever happened between, and a prefix  *)
(* of them, when one fails, gives no variable anything else.               *)
WrittenSettingsComeBack ==
  [][\A k \in 0 .. Len(written) :
       apply_user_lvar_settings(k) /\ saved = << >> =>
         \A v \in RegisterVariables \cup StackVariables :
           LET had == IF v \in DOMAIN origin THEN Carried(origin[v]) ELSE Nothing
               has == IF v \in DOMAIN saved' THEN saved'[v] ELSE Nothing
           IN has = had \/ (k < Len(written) /\ has = Nothing)]_lvarvars
=============================================================================
