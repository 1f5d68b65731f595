------------------------ MODULE SubscriptionRegistry ------------------------
(***************************************************************************)
(* What every event domain of idax promises its clients about tokens,      *)
(* whatever data structure keeps the subscriptions:                        *)
(*   - a subscription gets a token that was never handed out before, so a  *)
(*     token a client still holds after unsubscribing names nothing;       *)
(*   - unsubscribing removes the named subscription and no other;          *)
(*   - the hook into the IDA kernel is installed exactly while somebody is *)
(*     subscribed.                                                         *)
(* IdbEvents, DbgEvents, UiEvents and Hexrays implement it, and so do the  *)
(* tokens of MicrocodeFilters.                                             *)
(***************************************************************************)
CONSTANT Tokens

VARIABLES
  live,    \* the tokens of the current subscriptions
  issued,  \* every token handed out so far
  hooked   \* is the listener installed in the kernel?

vars == <<live, issued, hooked>>

TypeOK ==
  /\ live \subseteq Tokens
  /\ issued \subseteq Tokens
  /\ hooked \in BOOLEAN

Init ==
  /\ live = {}
  /\ issued = {}
  /\ hooked = FALSE

Subscribe ==
  \E t \in Tokens \ issued :
    /\ live' = live \cup {t}
    /\ issued' = issued \cup {t}
    /\ hooked' = TRUE

Unsubscribe ==
  \E t \in live :
    /\ live' = live \ {t}
    /\ hooked' = (live' # {})
    /\ UNCHANGED issued

Next == Subscribe \/ Unsubscribe

Spec == Init /\ [][Next]_vars
=============================================================================
