---------------------------- MODULE HandlerTable ----------------------------
(***************************************************************************)
(* The handler table of src/src/ProtoBuff.c: add_handler() and             *)
(* clear_handlers() run in the main program and may be interrupted by the  *)
(* UART interrupt, whose process() ends in unmarshal() and its lookup.     *)
(*                                                                         *)
(* The main program's calls take one step per write that the interrupt can *)
(* observe, in program order; the interrupt runs to completion, so its     *)
(* lookup is one step.  A write of a pointer or of the mask is atomic.     *)
(***************************************************************************)
EXTENDS Integers, FiniteSets

CONSTANTS
  MAX_HANDLERS,   \* PROTOBUFF_MAX_HANDLERS
  Type,           \* the pb_field_t arrays of the submessages of UnionMessage
  Callback,       \* functions the application registers
  NULL

ASSUME TableAssumption == MAX_HANDLERS \in Nat \ {0}
ASSUME NullAssumption == NULL \notin Type /\ NULL \notin Callback

Idx == 0..MAX_HANDLERS-1
NoHandler == [type |-> NULL, callback |-> NULL]

VARIABLES
  handlers, handlers_usage_mask,   \* the mask as the set of its one bits
  pc,                              \* where the main program is
  type, callback, idx,             \* add_handler()'s parameters and local
  cleared,                         \* words memset() has written, two per slot
  answer, outcome                  \* see HandlerMap

tableVars == <<handlers, handlers_usage_mask>>
mainVars == <<pc, type, callback, idx, cleared, answer>>
vars == <<tableVars, mainVars, outcome>>

-----------------------------------------------------------------------------
Init ==
  /\ handlers = [k \in Idx |-> NoHandler]
  /\ handlers_usage_mask = {}
  /\ pc = "idle"
  /\ type = NULL /\ callback = NULL /\ idx = 0
  /\ cleared = 0
  /\ answer = [type |-> NULL, ok |-> FALSE]
  /\ outcome = [type |-> NULL, found |-> FALSE, callback |-> NULL]

\* Slots in use for type t, NULL included; find_handler() returns the first.
Slots(t) == {k \in handlers_usage_mask : handlers[k].type = t}
First(S) == CHOOSE k \in S : \A j \in S : k <= j
find_handler(t) == IF Slots(t) = {} THEN -1 ELSE First(Slots(t))

UnusedOneTooMany == (0..MAX_HANDLERS) \ handlers_usage_mask   \* a mutant
Unused == Idx \ handlers_usage_mask

-----------------------------------------------------------------------------
(***************************************************************************)
(* add_handler(t, c)                                                       *)
(***************************************************************************)

KnownType(t) == find_handler(t) # -1

Refuse(t) ==
  /\ KnownType(t) \/ Unused = {}
  /\ answer' = [type |-> t, ok |-> FALSE]
  /\ UNCHANGED <<tableVars, pc, type, callback, idx, cleared, outcome>>

ClaimUnchecked(t, c) ==              \* a mutant: no find_handler() before
  /\ Unused # {}
  /\ type' = t /\ callback' = c /\ idx' = First(Unused)
  /\ handlers_usage_mask' = handlers_usage_mask \union {First(Unused)}
  /\ pc' = "set_callback"
  /\ UNCHANGED <<handlers, cleared, answer, outcome>>

\* get_unused_idx() sets the bit before the slot is filled in.
Claim(t, c) ==
  /\ ~KnownType(t) /\ Unused # {}
  /\ type' = t /\ callback' = c /\ idx' = First(Unused)
  /\ handlers_usage_mask' = handlers_usage_mask \union {First(Unused)}
  /\ pc' = "set_callback"
  /\ UNCHANGED <<handlers, cleared, answer, outcome>>

add_handler(t, c) == pc = "idle" /\ (Refuse(t) \/ Claim(t, c))

SetTypeFirst ==                      \* a mutant: the two assignments swapped
  /\ pc = "set_callback"
  /\ handlers' = [handlers EXCEPT ![idx].type = type]
  /\ pc' = "set_type"
  /\ UNCHANGED <<handlers_usage_mask, type, callback, idx, cleared, answer, outcome>>

SetCallback ==
  /\ pc = "set_callback"
  /\ handlers' = [handlers EXCEPT ![idx].callback = callback]
  /\ pc' = "set_type"
  /\ UNCHANGED <<handlers_usage_mask, type, callback, idx, cleared, answer, outcome>>

SetType ==
  /\ pc = "set_type"
  /\ handlers' = [handlers EXCEPT ![idx].type = type]
  /\ answer' = [type |-> type, ok |-> TRUE]
  /\ pc' = "idle"
  /\ UNCHANGED <<handlers_usage_mask, type, callback, idx, cleared, outcome>>

-----------------------------------------------------------------------------
(***************************************************************************)
(* clear_handlers(): memset() from the first byte to the last, then the    *)
(* mask.  type is the first member of a Handler.                           *)
(***************************************************************************)
clear_handlers ==
  /\ pc = "idle"
  /\ pc' = "memset"
  /\ cleared' = 0
  /\ UNCHANGED <<tableVars, type, callback, idx, answer, outcome>>

ClearWord ==
  /\ pc = "memset"
  /\ cleared < 2 * MAX_HANDLERS
  /\ LET k == cleared \div 2 IN
       handlers' = IF cleared % 2 = 0 THEN [handlers EXCEPT ![k].type = NULL]
                   ELSE [handlers EXCEPT ![k].callback = NULL]
  /\ cleared' = cleared + 1
  /\ UNCHANGED <<handlers_usage_mask, pc, type, callback, idx, answer, outcome>>

ClearMask ==
  /\ pc = "memset"
  /\ cleared = 2 * MAX_HANDLERS
  /\ handlers_usage_mask' = {}
  /\ pc' = "idle"
  /\ UNCHANGED <<handlers, type, callback, idx, cleared, answer, outcome>>

-----------------------------------------------------------------------------
(***************************************************************************)
(* _unmarshal_lookup_callback() in the interrupt, for a message that       *)
(* decode_unionmessage_type() found to be of type t (NULL: none it knows). *)
(***************************************************************************)
CallHandler(t) ==
  /\ KnownType(t)
  /\ outcome' = [type |-> t, found |-> TRUE, callback |-> handlers[find_handler(t)].callback]

UnknownType(t) ==
  /\ ~KnownType(t)
  /\ outcome' = [type |-> t, found |-> FALSE, callback |-> NULL]

_unmarshal_lookup_callback(t) ==
  /\ CallHandler(t) \/ UnknownType(t)
  /\ UNCHANGED <<tableVars, mainVars>>

-----------------------------------------------------------------------------
Main ==
  \/ \E t \in Type, c \in Callback : add_handler(t, c)
  \/ SetCallback
  \/ SetType
  \/ clear_handlers
  \/ ClearWord
  \/ ClearMask

\* Every message that arrives is of a type UnionMessage knows.
Next == Main \/ \E t \in Type : _unmarshal_lookup_callback(t)

\* Messages of types this build of UnionMessage does not know arrive too.
NextAnyType == Main \/ \E t \in Type \union {NULL} : _unmarshal_lookup_callback(t)

Spec == Init /\ [][Next]_vars
SpecAnyType == Init /\ [][NextAnyType]_vars

-----------------------------------------------------------------------------
TypeOK ==
  /\ handlers \in [Idx -> [type : Type \union {NULL}, callback : Callback \union {NULL}]]
  /\ handlers_usage_mask \subseteq Idx
  /\ pc \in {"idle", "set_callback", "set_type", "memset"}
  /\ type \in Type \union {NULL}
  /\ callback \in Callback \union {NULL}
  /\ idx \in Idx
  /\ cleared \in 0..2*MAX_HANDLERS
  /\ answer \in [type : Type \union {NULL}, ok : BOOLEAN]
  /\ outcome \in [type : Type \union {NULL}, found : BOOLEAN,
                  callback : Callback \union {NULL}]

\* No type is registered twice, also while a slot is half written: what test
\* test_adding_handler_twice_fails shows for two calls in a row.
OneSlotPerType ==
  \A j, k \in handlers_usage_mask :
    handlers[j].type # NULL /\ handlers[j].type = handlers[k].type => j = k

\* A slot with a type also has its callback and its bit, at every moment the interrupt may
\* look; the slot add_handler() is filling is claimed and cannot be found by its type until
\* its callback is in place; the slots memset() has passed are empty.
SlotsConsistent ==
  /\ \A k \in Idx : handlers[k].type # NULL =>
       handlers[k].callback # NULL /\ k \in handlers_usage_mask
  /\ pc \in {"set_callback", "set_type"} =>
       /\ idx \in handlers_usage_mask /\ handlers[idx].type = NULL
       /\ type # NULL /\ callback # NULL
       /\ \A k \in Idx : handlers[k].type # type
       /\ pc = "set_type" => handlers[idx].callback = callback
  /\ pc = "memset" => \A k \in Idx :
       /\ 2 * k < cleared => handlers[k].type = NULL
       /\ 2 * k + 1 < cleared => handlers[k] = NoHandler

\* The table as a map: t's callback as a lookup would find it.
Map == [t \in Type |-> IF KnownType(t) THEN handlers[find_handler(t)].callback ELSE NULL]

\* The table, with its half-written and half-cleared slots, implements the map: a lookup
\* from the interrupt at any point sees an entry whole or not at all, add_handler() answers
\* true exactly when it added, and refuses only a known type or a full table.
Abstract == INSTANCE HandlerMap WITH map <- Map
MapImplemented == Abstract!Spec

\* A message whose type has no handler is an "unknown type": nothing is called for it.
CallsRegistered == outcome.found => outcome.callback # NULL
=============================================================================
