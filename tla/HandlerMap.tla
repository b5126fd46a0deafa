----------------------------- MODULE HandlerMap -----------------------------
(***************************************************************************)
(* What ProtoBuff's handler table promises: a map from message types to    *)
(* callbacks, with room for MAX_HANDLERS of them, that unmarshal looks     *)
(* types up in.  Adding and looking up are single steps here; clearing may *)
(* take entries away one after the other.                                  *)
(***************************************************************************)
EXTENDS Naturals, FiniteSets

CONSTANTS Type, Callback, MAX_HANDLERS, NULL

VARIABLES
  map,      \* type -> its callback, or NULL
  answer,   \* what add_handler last returned, and for which type
  outcome   \* what unmarshal last did: the type, and the callback if it found one

vars == <<map, answer, outcome>>

Registered == {t \in Type : map[t] # NULL}
Full == Cardinality(Registered) = MAX_HANDLERS

Init ==
  /\ map = [t \in Type |-> NULL]
  /\ answer = [type |-> NULL, ok |-> FALSE]
  /\ outcome = [type |-> NULL, found |-> FALSE, callback |-> NULL]

Add(t, c) ==
  /\ t \notin Registered /\ ~Full
  /\ map' = [map EXCEPT ![t] = c]
  /\ answer' = [type |-> t, ok |-> TRUE]
  /\ UNCHANGED outcome

Refuse(t) ==
  /\ t \in Registered \/ Full
  /\ answer' = [type |-> t, ok |-> FALSE]
  /\ UNCHANGED <<map, outcome>>

Drop(S) ==
  /\ map' = [t \in Type |-> IF t \in S THEN NULL ELSE map[t]]
  /\ UNCHANGED <<answer, outcome>>

Lookup(t) ==
  /\ outcome' = [type |-> t, found |-> t \in Registered, callback |-> map[t]]
  /\ UNCHANGED <<map, answer>>

Next ==
  \/ \E t \in Type : \/ Refuse(t) \/ Lookup(t)
                     \/ \E c \in Callback : Add(t, c)
  \/ \E S \in SUBSET Type : Drop(S)

Spec == Init /\ [][Next]_vars
=============================================================================
