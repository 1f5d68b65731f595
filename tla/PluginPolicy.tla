---------------------------- MODULE PluginPolicy ----------------------------
(***************************************************************************)
(* ida::database::init (src/database_lifecycle.cpp): when a policy for     *)
(* user plugins is requested, a sandbox directory that mirrors the user's  *)
(* one is built entry by entry, IDAUSR is pointed at it, and the library   *)
(* is initialised.  Every step may fail; the client may call init again.   *)
(*                                                                         *)
(* A file name and a pattern are sequences of characters.  A directory is  *)
(* what it holds: plugins by name, the entries besides "plugins" by kind.  *)
(***************************************************************************)
EXTENDS Integers, Sequences, FiniteSets, SequencesExt

CONSTANTS
  PluginNames,  \* names plugin files may have
  Patterns,     \* patterns of allowlists
  OtherEntries, \* names of what else is in the user's directory
  MaxInits      \* bound: calls of init

IsText(w) == Len(w) \in Nat /\ DOMAIN w = 1 .. Len(w)

ASSUME PolicyAssumption ==
  /\ MaxInits \in Nat
  /\ \A name \in PluginNames : IsText(name) /\ name # << >>
  /\ \A pattern \in Patterns : IsText(pattern)

VARIABLES
  dirs,    \* the user's directory and the sandboxes made so far
  idausr,  \* which of them IDAUSR, or HOME when it is not set, leads to
  doing,   \* the step init is at
  policy,  \* the policy it was called with
  source_user_dir, \* where IDAUSR led to when it was called
  left,    \* the entries still to be mirrored
  inits    \* calls so far

pvars == <<dirs, idausr, doing, policy, source_user_dir, left, inits>>

UserDir == 1
Directory == [others : SUBSET OtherEntries, plugins : SUBSET PluginNames,
              readable : BOOLEAN]  \* can it be enumerated?
Policy == [disable_user_plugins : BOOLEAN, allowlist_patterns : SUBSET Patterns]

PolicyTypeOK ==
  /\ dirs \in Seq(Directory) /\ idausr \in DOMAIN dirs
  /\ doing \in {"nothing", "mirror", "set", "library", "ready"}
  /\ policy \in Policy
  /\ source_user_dir \in DOMAIN dirs
  /\ left \subseteq OtherEntries \cup PluginNames
  /\ inits \in 0 .. MaxInits

PolicyInit ==
  /\ \E plugins \in SUBSET PluginNames, readable \in BOOLEAN :
       dirs = <<[others |-> OtherEntries, plugins |-> plugins, readable |-> readable]>>
  /\ idausr = UserDir
  /\ doing = "nothing"
  /\ policy = [disable_user_plugins |-> FALSE, allowlist_patterns |-> {}]
  /\ source_user_dir = UserDir
  /\ left = {}
  /\ inits = 0

-----------------------------------------------------------------------------
(* The loop over text_index and pattern_index, with the place of the last  *)
(* star (-1: none yet) and the text from which to try again after it.      *)
MatchStart == [text_index |-> 0, pattern_index |-> 0, star_index |-> -1,
               match_after_star |-> 0, failed |-> FALSE]

TryAgain_Fails(m) == [m EXCEPT !.failed = TRUE]

TryAgain(m) ==
  IF m.star_index < 0 THEN [m EXCEPT !.failed = TRUE]
  ELSE [m EXCEPT !.pattern_index = m.star_index + 1, !.text_index = m.match_after_star + 1,
                 !.match_after_star = @ + 1]

MatchTurn(text, pattern, m) ==
  LET more == m.pattern_index < Len(pattern)
      next == pattern[m.pattern_index + 1]
  IN IF m.failed \/ m.text_index = Len(text) THEN m
     ELSE IF more /\ next \in {"?", text[m.text_index + 1]}
     THEN [m EXCEPT !.text_index = @ + 1, !.pattern_index = @ + 1]
     ELSE IF more /\ next = "*"
     THEN [m EXCEPT !.pattern_index = @ + 1, !.star_index = m.pattern_index,
                    !.match_after_star = m.text_index]
     ELSE TryAgain(m)

(* The loop ends before it has taken this many turns. *)
MatchTurns(text, pattern) == (Len(text) + Len(pattern) + 1) * (Len(text) + 2)

MatchAfter(text, pattern) ==
  LET turn[i \in 0 .. MatchTurns(text, pattern)] ==
        IF i = 0 THEN MatchStart ELSE MatchTurn(text, pattern, turn[i - 1])
  IN  turn

wildcard_match(text, pattern) ==
  LET m == MatchAfter(text, pattern)[MatchTurns(text, pattern)]
  IN /\ ~m.failed /\ m.text_index = Len(text)
     /\ \A k \in m.pattern_index + 1 .. Len(pattern) : pattern[k] = "*"

matches_any_allowlist_pattern(name) ==
  \E pattern \in policy.allowlist_patterns : pattern # << >> /\ wildcard_match(name, pattern)

requested(p) == p.disable_user_plugins \/ p.allowlist_patterns # {}

(* An entry of the directory itself, or of its "plugins". *)
Mirrored(entry) ==
  dirs' = IF doing = "mirror" THEN [dirs EXCEPT ![Len(dirs)].others = @ \cup {entry}]
          ELSE [dirs EXCEPT ![Len(dirs)].plugins = @ \cup {entry}]
ReturnError == doing' = "nothing" /\ left' = {}

-----------------------------------------------------------------------------
CallInit(p) ==
  /\ doing = "nothing" /\ inits < MaxInits
  /\ inits' = inits + 1
  /\ policy' = p
  /\ source_user_dir' = idausr
  /\ doing' = IF requested(p) THEN "mirror" ELSE "library"
  /\ dirs' = IF requested(p)
             THEN Append(dirs, [others |-> {}, plugins |-> {}, readable |-> TRUE])
             ELSE dirs
  (* Enumerating a directory that cannot be read yields nothing; no error. *)
  /\ left' = IF requested(p) /\ dirs[idausr].readable THEN dirs[idausr].others ELSE {}
  /\ UNCHANGED idausr

(* create_directories fails. *)
NoSandbox(p) ==
  /\ doing = "nothing" /\ inits < MaxInits /\ requested(p)
  /\ inits' = inits + 1
  /\ policy' = p
  /\ source_user_dir' = idausr
  /\ UNCHANGED <<dirs, idausr, doing, left>>

(* One entry, by a link or by a copy; in what order is the file system's.  *)
mirror_entry(entry) ==
  /\ doing \in {"mirror", "set"} /\ entry \in left
  /\ left' = left \ {entry}
  /\ Mirrored(entry)
  /\ UNCHANGED <<idausr, doing, policy, source_user_dir, inits>>

MirrorFails_Skips ==
  /\ doing \in {"mirror", "set"}
  /\ \E entry \in left : left' = left \ {entry}
  /\ UNCHANGED <<dirs, idausr, doing, policy, source_user_dir, inits>>

MirrorFails ==
  /\ doing \in {"mirror", "set"} /\ left # {}
  /\ ReturnError
  /\ UNCHANGED <<dirs, idausr, policy, source_user_dir, inits>>

(* The plugins come after the other entries: none without an allowlist,    *)
(* and of those the allowlist names.                                       *)
SelectPlugins ==
  /\ doing = "mirror" /\ left = {}
  /\ doing' = "set"
  /\ left' = {name \in dirs[source_user_dir].plugins :
                dirs[source_user_dir].readable /\ matches_any_allowlist_pattern(name)}
  /\ UNCHANGED <<dirs, idausr, policy, source_user_dir, inits>>

SetIdausr ==
  /\ doing = "set" /\ left = {}
  /\ \/ doing' = "library" /\ idausr' = Len(dirs)
     \/ doing' = "nothing" /\ UNCHANGED idausr   \* qsetenv fails
  /\ UNCHANGED <<dirs, policy, source_user_dir, left, inits>>

(* A failure of init_library leaves IDAUSR where it is. *)
init_library ==
  /\ doing = "library"
  /\ doing' \in {"nothing", "ready"}
  /\ UNCHANGED <<dirs, idausr, policy, source_user_dir, left, inits>>

PolicyNext ==
  \/ \E p \in Policy : CallInit(p) \/ NoSandbox(p)
  \/ \E entry \in left : mirror_entry(entry)
  \/ MirrorFails
  \/ SelectPlugins
  \/ SetIdausr
  \/ init_library

PolicySpec == PolicyInit /\ [][PolicyNext]_pvars

-----------------------------------------------------------------------------
(* Properties. *)

(* Wildcards, as they are meant: a star is any text, a question mark any   *)
(* character.  The text is cut into one piece per character of the pattern.*)
Matches(text, pattern) ==
  \E cut \in [0 .. Len(pattern) -> 0 .. Len(text)] :
    /\ cut[0] = 0 /\ cut[Len(pattern)] = Len(text)
    /\ \A k \in DOMAIN pattern :
         IF pattern[k] = "*" THEN cut[k] >= cut[k - 1]
         ELSE /\ cut[k] = cut[k - 1] + 1
              /\ pattern[k] \in {"?", text[cut[k]]}

Allowed(name) ==
  IF policy.allowlist_patterns = {} THEN ~policy.disable_user_plugins
  ELSE \E pattern \in policy.allowlist_patterns : Matches(name, pattern)

(* "Load all user plugins", "no user plugins", "only matching user         *)
(* plugins", and the policy "only affects discovery of user plugins": once *)
(* the first policy a process asks for is in force the library finds just  *)
(* the plugins it allows and every other entry of the user's directory.    *)
(* (One asked for after that is applied to the sandbox of the first.)      *)
PolicyDecidesPlugins ==
  doing = "ready" /\ source_user_dir = UserDir /\ dirs[UserDir].readable
  => /\ dirs[idausr].others = OtherEntries
     /\ dirs[idausr].plugins = {name \in dirs[UserDir].plugins : Allowed(name)}

(* A step that fails half way leaves IDAUSR alone: it never leads to a     *)
(* sandbox that lacks entries of the user's directory.  (It includes that  *)
(* the variables have their types.)                                        *)
SandboxIsComplete ==
  /\ PolicyTypeOK
  /\ dirs[UserDir].readable => dirs[idausr].others = OtherEntries

(* What a policy promises: its plugins and all other entries, or nothing   *)
(* changed.                                                                *)
PluginPolicyApplied == PolicyDecidesPlugins /\ SandboxIsComplete
=============================================================================
