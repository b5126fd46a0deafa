------------------------- MODULE HandlerTable_proofs -------------------------
(***************************************************************************)
(* Proofs about the handler table of ProtoBuff.c, for every table size and *)
(* every set of message types and callbacks; the last part that, written   *)
(* word by word and looked up from an interrupt in between, it implements  *)
(* the atomic map of HandlerMap.                                           *)
(***************************************************************************)
EXTENDS HandlerTable, FiniteSetTheorems, WellFoundedInduction, TLAPS

-----------------------------------------------------------------------------
\* A nonempty set of slots has a first one: the loops of find_handler() and
\* get_unused_idx() return an element of the set they search.
LEMMA FirstFacts ==
  ASSUME NEW S, S \subseteq Nat, S # {}
  PROVE  First(S) \in S
<1> DEFINE R == OpToRel(<, Nat)
<1>1. IsWellFoundedOn(R, Nat)
  BY NatLessThanWellFounded
<1>2. PICK m \in S : \A y \in S : ~(<<y, m>> \in R)
  BY <1>1, WFMin
<1>3. ASSUME NEW j \in S PROVE m <= j
  <2>1. m \in Nat /\ j \in Nat
    OBVIOUS
  <2>2. ~(j < m)
    <3> SUFFICES ASSUME j < m PROVE FALSE
      OBVIOUS
    <3>1. <<j, m>> \in R
      BY <2>1 DEF OpToRel
    <3> QED
      BY <3>1, <1>2
  <2> QED
    BY <2>1, <2>2
<1> QED
  BY <1>3 DEF First

\* find_handler() finds a slot in use that holds the type, or none.
LEMMA FindFacts ==
  ASSUME TypeOK, NEW t
  PROVE  /\ KnownType(t) <=> Slots(t) # {}
         /\ KnownType(t) => /\ find_handler(t) \in handlers_usage_mask
                            /\ find_handler(t) \in Idx
                            /\ handlers[find_handler(t)].type = t
<1>1. Slots(t) \subseteq Idx /\ Idx \subseteq Nat /\ handlers_usage_mask \subseteq Idx
  <2>1. handlers_usage_mask \subseteq Idx
    BY DEF TypeOK
  <2>2. Slots(t) \subseteq handlers_usage_mask
    BY DEF Slots
  <2>3. Idx \subseteq Nat
    BY TableAssumption DEF Idx
  <2> QED
    BY <2>1, <2>2, <2>3
<1>2. Slots(t) # {} => First(Slots(t)) \in Slots(t)
  BY <1>1, FirstFacts
<1>3. -1 \notin Nat
  OBVIOUS
<1> QED
  BY <1>1, <1>2, <1>3 DEF KnownType, find_handler, Slots

-----------------------------------------------------------------------------
Inv == TypeOK /\ OneSlotPerType /\ SlotsConsistent /\ CallsRegistered

\* The static initialisers satisfy the invariant.
LEMMA InitInv == Init => Inv
<1> SUFFICES ASSUME Init PROVE Inv
  OBVIOUS
<1>1. 0 \in Idx /\ 0 \in 0..2*MAX_HANDLERS
  BY TableAssumption DEF Idx
<1>2. TypeOK
  BY <1>1 DEF Init, TypeOK, NoHandler
<1> QED
  BY <1>2 DEF Init, Inv, OneSlotPerType, SlotsConsistent, CallsRegistered, NoHandler

\* Claiming a slot: its bit is set while type and callback are still NULL.
LEMMA ClaimInv ==
  ASSUME Inv, NEW t \in Type, NEW c \in Callback, pc = "idle", Claim(t, c)
  PROVE  Inv'
<1> DEFINE f == First(Unused)
<1>1. f \in Idx /\ f \notin handlers_usage_mask
  <2>1. Unused \subseteq Nat /\ Unused # {}
    BY TableAssumption DEF Claim, Unused, Idx
  <2> QED
    BY <2>1, FirstFacts DEF Unused
<1>2. /\ type' = t /\ callback' = c /\ idx' = f /\ pc' = "set_callback"
      /\ handlers_usage_mask' = handlers_usage_mask \union {f}
      /\ UNCHANGED <<handlers, cleared, answer, outcome>>
  BY DEF Claim
<1>3. t # NULL /\ c # NULL
  BY NullAssumption
<1>4. Slots(t) = {}
  BY FindFacts DEF Inv, Claim
<1>5. TypeOK'
  BY <1>1, <1>2 DEF Inv, TypeOK
<1>6. handlers[f].type = NULL
  BY <1>1 DEF Inv, SlotsConsistent
<1>7. OneSlotPerType'
  BY <1>1, <1>2, <1>6 DEF Inv, OneSlotPerType
<1>8. \A k \in Idx : handlers[k].type # t
  BY <1>3, <1>4 DEF Slots, Inv, SlotsConsistent
<1>9. SlotsConsistent'
  BY <1>1, <1>2, <1>3, <1>6, <1>8 DEF Inv, SlotsConsistent
<1>10. CallsRegistered'
  BY <1>2 DEF Inv, CallsRegistered
<1> QED
  BY <1>5, <1>7, <1>9, <1>10 DEF Inv

\* The callback goes in while the slot's type is still NULL.
LEMMA SetCallbackInv == ASSUME Inv, SetCallback PROVE Inv'
<1>1. /\ pc = "set_callback" /\ pc' = "set_type"
      /\ handlers' = [handlers EXCEPT ![idx].callback = callback]
      /\ UNCHANGED <<handlers_usage_mask, type, callback, idx, cleared, answer, outcome>>
  BY DEF SetCallback
<1>2. /\ handlers \in [Idx -> [type : Type \union {NULL}, callback : Callback \union {NULL}]]
      /\ idx \in Idx /\ callback \in Callback \union {NULL}
  BY DEF Inv, TypeOK
<1>3. /\ \A k \in Idx : handlers'[k].type = handlers[k].type
      /\ \A k \in Idx : k # idx => handlers'[k] = handlers[k]
      /\ handlers'[idx].callback = callback
      /\ handlers' \in [Idx -> [type : Type \union {NULL}, callback : Callback \union {NULL}]]
  BY <1>1, <1>2
<1>4. TypeOK'
  BY <1>1, <1>3 DEF Inv, TypeOK
<1>5. OneSlotPerType'
  BY <1>1, <1>3 DEF Inv, OneSlotPerType, TypeOK
<1>6. SlotsConsistent'
  BY <1>1, <1>2, <1>3 DEF Inv, SlotsConsistent
<1>7. CallsRegistered'
  BY <1>1 DEF Inv, CallsRegistered
<1> QED
  BY <1>4, <1>5, <1>6, <1>7 DEF Inv

\* The type goes in last and makes the slot visible.
LEMMA SetTypeInv == ASSUME Inv, SetType PROVE Inv'
<1>1. /\ pc = "set_type" /\ pc' = "idle"
      /\ handlers' = [handlers EXCEPT ![idx].type = type]
      /\ answer' = [type |-> type, ok |-> TRUE]
      /\ UNCHANGED <<handlers_usage_mask, type, callback, idx, cleared, outcome>>
  BY DEF SetType
<1>2. /\ handlers \in [Idx -> [type : Type \union {NULL}, callback : Callback \union {NULL}]]
      /\ idx \in Idx /\ type \in Type \union {NULL}
  BY DEF Inv, TypeOK
<1>3. /\ \A k \in Idx : handlers'[k].callback = handlers[k].callback
      /\ \A k \in Idx : k # idx => handlers'[k] = handlers[k]
      /\ handlers'[idx].type = type
      /\ handlers' \in [Idx -> [type : Type \union {NULL}, callback : Callback \union {NULL}]]
  BY <1>1, <1>2
<1>4. TypeOK'
  BY <1>1, <1>3 DEF Inv, TypeOK
<1>5. /\ \A k \in Idx : handlers[k].type # type
      /\ idx \in handlers_usage_mask /\ handlers[idx].callback # NULL
  BY <1>1 DEF Inv, SlotsConsistent
<1>6. OneSlotPerType'
  BY <1>1, <1>2, <1>3, <1>5 DEF Inv, OneSlotPerType, TypeOK
<1>7. SlotsConsistent'
  BY <1>1, <1>2, <1>3, <1>5 DEF Inv, SlotsConsistent
<1>8. CallsRegistered'
  BY <1>1 DEF Inv, CallsRegistered
<1> QED
  BY <1>4, <1>6, <1>7, <1>8 DEF Inv

\* memset takes a slot's type away before its callback.
LEMMA ClearWordInv == ASSUME Inv, ClearWord PROVE Inv'
<1> DEFINE k == cleared \div 2
           even == cleared % 2 = 0
<1>1. /\ pc = "memset" /\ cleared < 2 * MAX_HANDLERS
      /\ handlers' = IF even THEN [handlers EXCEPT ![k].type = NULL]
                     ELSE [handlers EXCEPT ![k].callback = NULL]
      /\ cleared' = cleared + 1
      /\ UNCHANGED <<handlers_usage_mask, pc, type, callback, idx, answer, outcome>>
  BY DEF ClearWord
<1>2. /\ handlers \in [Idx -> [type : Type \union {NULL}, callback : Callback \union {NULL}]]
      /\ cleared \in Nat /\ MAX_HANDLERS \in Nat
  BY TableAssumption DEF Inv, TypeOK
<1>3. /\ k \in Idx /\ k \in Nat
      /\ even => cleared = 2 * k
      /\ ~even => cleared = 2 * k + 1
  BY <1>1, <1>2 DEF Idx
<1> HIDE DEF k, even
<1>4. /\ handlers' \in [Idx -> [type : Type \union {NULL}, callback : Callback \union {NULL}]]
      /\ \A j \in Idx : j # k => handlers'[j] = handlers[j]
      /\ even => handlers'[k].type = NULL /\ handlers'[k].callback = handlers[k].callback
      /\ ~even => handlers'[k].type = handlers[k].type /\ handlers'[k].callback = NULL
  BY <1>1, <1>2, <1>3
<1>5. ~even => handlers[k].type = NULL
  BY <1>1, <1>2, <1>3 DEF Inv, SlotsConsistent
<1>6. TypeOK'
  <2>1. cleared' \in 0..2*MAX_HANDLERS
    BY <1>1, <1>2
  <2> QED
    BY <1>1, <1>4, <2>1 DEF Inv, TypeOK
<1>7. handlers'[k].type = NULL
  BY <1>4, <1>5
<1>8. OneSlotPerType'
  BY <1>1, <1>4, <1>7 DEF Inv, OneSlotPerType, TypeOK
<1>9. SlotsConsistent'
  <2>1. \A j \in Idx : handlers'[j].type # NULL =>
          handlers'[j].callback # NULL /\ j \in handlers_usage_mask'
    BY <1>1, <1>4, <1>7 DEF Inv, SlotsConsistent
  <2>2. ASSUME NEW j \in Idx, 2 * j < cleared' PROVE handlers'[j].type = NULL
    <3>1. CASE j = k
      BY <1>7, <3>1
    <3>2. CASE j # k
      <4>1. 2 * j < cleared
        BY <1>1, <1>2, <1>3, <2>2, <3>2 DEF Idx
      <4> QED
        BY <1>1, <1>4, <3>2, <4>1 DEF Inv, SlotsConsistent
    <3> QED
      BY <3>1, <3>2
  <2>3. ASSUME NEW j \in Idx, 2 * j + 1 < cleared' PROVE handlers'[j] = NoHandler
    <3>1. CASE j = k
      <4>1. ~even
        BY <1>1, <1>2, <1>3, <2>3, <3>1
      <4> QED
        BY <1>4, <1>7, <3>1, <4>1 DEF NoHandler
    <3>2. CASE j # k
      <4>1. 2 * j + 1 < cleared
        BY <1>1, <1>2, <1>3, <2>3, <3>2 DEF Idx
      <4> QED
        BY <1>1, <1>4, <3>2, <4>1 DEF Inv, SlotsConsistent
    <3> QED
      BY <3>1, <3>2
  <2> QED
    BY <1>1, <2>1, <2>2, <2>3 DEF SlotsConsistent
<1>10. CallsRegistered'
  BY <1>1 DEF Inv, CallsRegistered
<1> QED
  BY <1>6, <1>8, <1>9, <1>10 DEF Inv

\* The mask goes when every slot is empty.
LEMMA ClearMaskInv == ASSUME Inv, ClearMask PROVE Inv'
<1>1. /\ pc = "memset" /\ cleared = 2 * MAX_HANDLERS
      /\ handlers_usage_mask' = {} /\ pc' = "idle"
      /\ UNCHANGED <<handlers, type, callback, idx, cleared, answer, outcome>>
  BY DEF ClearMask
<1>2. \A k \in Idx : handlers[k].type = NULL
  <2>1. \A k \in Idx : 2 * k < cleared
    BY <1>1, TableAssumption DEF Idx
  <2> QED
    BY <1>1, <2>1 DEF Inv, SlotsConsistent
<1> QED
  BY <1>1, <1>2 DEF Inv, TypeOK, OneSlotPerType, SlotsConsistent, CallsRegistered

\* Every step of the main program and every lookup of a known type preserves the invariant.
LEMMA NextInv == Inv /\ [Next]_vars => Inv'
<1> SUFFICES ASSUME Inv, [Next]_vars PROVE Inv'
  OBVIOUS
<1>1. ASSUME NEW t \in Type, NEW c \in Callback, add_handler(t, c) PROVE Inv'
  <2>1. CASE Refuse(t)
    <3>1. /\ answer' = [type |-> t, ok |-> FALSE]
          /\ UNCHANGED <<handlers, handlers_usage_mask, pc, type, callback, idx, cleared, outcome>>
      BY <2>1 DEF Refuse, tableVars
    <3> QED
      BY <3>1 DEF Inv, TypeOK, OneSlotPerType, SlotsConsistent, CallsRegistered
  <2>2. CASE Claim(t, c)
    BY <1>1, <2>2, ClaimInv DEF add_handler
  <2> QED
    BY <1>1, <2>1, <2>2 DEF add_handler
<1>2. CASE clear_handlers
  <2>1. /\ pc' = "memset" /\ cleared' = 0
        /\ UNCHANGED <<handlers, handlers_usage_mask, type, callback, idx, answer, outcome>>
    BY <1>2 DEF clear_handlers, tableVars
  <2>2. 0 \in 0..2*MAX_HANDLERS /\ \A k \in Idx : ~(2 * k < 0) /\ ~(2 * k + 1 < 0)
    BY TableAssumption DEF Idx
  <2> QED
    BY <2>1, <2>2 DEF Inv, TypeOK, OneSlotPerType, SlotsConsistent, CallsRegistered
<1>3. ASSUME NEW t \in Type, _unmarshal_lookup_callback(t) PROVE Inv'
  <2>1. UNCHANGED <<handlers, handlers_usage_mask, pc, type, callback, idx, cleared, answer>>
    BY <1>3 DEF _unmarshal_lookup_callback, tableVars, mainVars
  <2>2. CASE CallHandler(t)
    <3> DEFINE f == find_handler(t)
    <3>1. f \in Idx /\ handlers[f].type = t
      BY <2>2, FindFacts DEF Inv, CallHandler
    <3>2. handlers[f].callback # NULL
      BY <3>1, NullAssumption DEF Inv, SlotsConsistent
    <3>3. handlers[f].callback \in Callback \union {NULL}
      BY <3>1 DEF Inv, TypeOK
    <3>4. outcome' = [type |-> t, found |-> TRUE, callback |-> handlers[f].callback]
      BY <2>2 DEF CallHandler
    <3> HIDE DEF f
    <3> QED
      BY <2>1, <3>2, <3>3, <3>4
         DEF Inv, TypeOK, OneSlotPerType, SlotsConsistent, CallsRegistered
  <2>3. CASE UnknownType(t)
    BY <2>1, <2>3 DEF UnknownType, Inv, TypeOK, OneSlotPerType, SlotsConsistent, CallsRegistered
  <2> QED
    BY <1>3, <2>2, <2>3 DEF _unmarshal_lookup_callback
<1>4. CASE UNCHANGED vars
  BY <1>4 DEF vars, tableVars, mainVars, Inv, TypeOK, OneSlotPerType, SlotsConsistent,
              CallsRegistered
<1> QED
  BY <1>1, <1>2, <1>3, <1>4, SetCallbackInv, SetTypeInv, ClearWordInv, ClearMaskInv
     DEF Next, Main

-----------------------------------------------------------------------------
\* The invariant holds in every reachable state.
LEMMA InvHolds == Spec => []Inv
<1>1. Init => Inv
  BY InitInv
<1>2. Inv /\ [Next]_vars => Inv'
  BY NextInv
<1> QED
  BY <1>1, <1>2, PTL DEF Spec

\* The table's variables stay in their types.
THEOREM TableTypeCorrect == Spec => []TypeOK
<1>1. Inv => TypeOK
  BY DEF Inv
<1> QED
  BY <1>1, InvHolds, PTL

\* No type ever has two slots.
THEOREM TableOneSlotPerType == Spec => []OneSlotPerType
<1>1. Inv => OneSlotPerType
  BY DEF Inv
<1> QED
  BY <1>1, InvHolds, PTL

\* A lookup from the interrupt never sees a slot with a type and no callback.
THEOREM TableSlotsConsistent == Spec => []SlotsConsistent
<1>1. Inv => SlotsConsistent
  BY DEF Inv
<1> QED
  BY <1>1, InvHolds, PTL

\* A message of a type UnionMessage knows never makes unmarshal() call through NULL,
\* wherever the interrupt meets add_handler() or clear_handlers().
THEOREM TableCallsRegistered == Spec => []CallsRegistered
<1>1. Inv => CallsRegistered
  BY DEF Inv
<1> QED
  BY <1>1, InvHolds, PTL

-----------------------------------------------------------------------------
(***************************************************************************)
(* The table read as a map.  MapIsTable says it without find_handler():    *)
(* the one slot with a type holds its callback.  Outside memset() and but  *)
(* for the slot being filled, a used slot has a type, which is why a full  *)
(* table means a full map.                                                 *)
(***************************************************************************)
MapIsTable ==
  \A t \in Type :
    /\ \A k \in Idx : handlers[k].type = t => Map[t] = handlers[k].callback /\ Map[t] # NULL
    /\ (\A k \in Idx : handlers[k].type # t) => Map[t] = NULL

MapIsFunction == Map = [t \in Type |-> Map[t]]

UsedSlotsTyped ==
  \A k \in handlers_usage_mask :
    \/ handlers[k].type # NULL
    \/ pc = "memset"
    \/ pc \in {"set_callback", "set_type"} /\ k = idx

RefInv == Inv /\ UsedSlotsTyped

\* A type is found exactly in the slot that holds it.
LEMMA MapFacts == Inv => MapIsTable /\ MapIsFunction
<1> SUFFICES ASSUME Inv PROVE MapIsTable /\ MapIsFunction
  OBVIOUS
<1>1. MapIsFunction
  BY DEF Map, MapIsFunction
<1>2. ASSUME NEW t \in Type, NEW k \in Idx, handlers[k].type = t
      PROVE  Map[t] = handlers[k].callback /\ Map[t] # NULL
  <2>1. t # NULL /\ k \in handlers_usage_mask /\ handlers[k].callback # NULL
    BY <1>2, NullAssumption DEF Inv, SlotsConsistent
  <2>2. KnownType(t) /\ find_handler(t) \in handlers_usage_mask
        /\ handlers[find_handler(t)].type = t
    BY <1>2, <2>1, FindFacts DEF Inv, Slots
  <2>3. find_handler(t) = k
    BY <1>2, <2>1, <2>2 DEF Inv, OneSlotPerType
  <2> QED
    BY <2>1, <2>2, <2>3 DEF Map
<1>3. ASSUME NEW t \in Type, \A k \in Idx : handlers[k].type # t
      PROVE  Map[t] = NULL
  <2>1. Slots(t) = {}
    BY <1>3 DEF Slots, Inv, TypeOK
  <2>2. ~KnownType(t)
    BY <2>1, FindFacts DEF Inv
  <2> QED
    BY <2>2 DEF Map
<1> QED
  BY <1>1, <1>2, <1>3 DEF MapIsTable

\* The instance counts as this module does.
LEMMA SameCardinality == \A S : Abstract!Cardinality(S) = Cardinality(S)
BY DEF Cardinality, Abstract!Cardinality

TypedSlots == {k \in Idx : handlers[k].type # NULL}

\* The map has as many entries as the table has slots with a type.
LEMMA RegisteredFacts ==
  ASSUME Inv
  PROVE  /\ \A t \in Type : t \in Abstract!Registered <=> KnownType(t)
         /\ IsFiniteSet(Idx) /\ Cardinality(Idx) = MAX_HANDLERS
         /\ Cardinality(Abstract!Registered) = Cardinality(TypedSlots)
<1>1. MapIsTable
  BY MapFacts
<1>2. ASSUME NEW t \in Type PROVE t \in Abstract!Registered <=> KnownType(t)
  <2>1. CASE KnownType(t)
    BY <1>1, <2>1, FindFacts DEF Inv, MapIsTable, Abstract!Registered
  <2>2. CASE ~KnownType(t)
    BY <2>2 DEF Map, Abstract!Registered
  <2> QED
    BY <2>1, <2>2
<1>3. IsFiniteSet(Idx) /\ Cardinality(Idx) = MAX_HANDLERS
  <2>1. 0 \in Int /\ MAX_HANDLERS-1 \in Int /\ ~(0 > MAX_HANDLERS-1)
        /\ (MAX_HANDLERS-1) - 0 + 1 = MAX_HANDLERS
    BY TableAssumption
  <2> QED
    BY <2>1, FS_Interval DEF Idx
<1>4. IsFiniteSet(TypedSlots)
  BY <1>3, FS_Subset DEF TypedSlots
<1> DEFINE f == [k \in TypedSlots |-> handlers[k].type]
<1>5. f \in Bijection(TypedSlots, Abstract!Registered)
  <2>1. ASSUME NEW k \in TypedSlots PROVE f[k] \in Abstract!Registered
    BY <1>1, NullAssumption DEF Inv, TypeOK, TypedSlots, MapIsTable, Abstract!Registered
  <2>2. f \in [TypedSlots -> Abstract!Registered]
    BY <2>1
  <2>3. ASSUME NEW j \in TypedSlots, NEW k \in TypedSlots, f[j] = f[k] PROVE j = k
    BY <2>3 DEF Inv, SlotsConsistent, OneSlotPerType, TypedSlots
  <2>4. ASSUME NEW t \in Abstract!Registered PROVE \E k \in TypedSlots : f[k] = t
    BY <1>1, NullAssumption DEF MapIsTable, TypedSlots, Abstract!Registered
  <2>5. f \in Injection(TypedSlots, Abstract!Registered)
    BY <2>2, <2>3 DEF Injection, IsInjective
  <2>6. f \in Surjection(TypedSlots, Abstract!Registered)
    BY <2>2, <2>4 DEF Surjection
  <2> QED
    BY <2>5, <2>6 DEF Bijection
<1>6. Cardinality(Abstract!Registered) = Cardinality(TypedSlots)
  BY <1>4, <1>5, FS_Bijection DEF ExistsBijection
<1> QED
  BY <1>2, <1>3, <1>6

-----------------------------------------------------------------------------
\* add_handler() leaves at most the slot it is filling without a type.
LEMMA UsedSlotsTypedNext == RefInv /\ [Next]_vars => UsedSlotsTyped'
<1> SUFFICES ASSUME RefInv, [Next]_vars PROVE UsedSlotsTyped'
  OBVIOUS
<1> USE DEF RefInv, UsedSlotsTyped
<1>1. ASSUME NEW t \in Type, NEW c \in Callback, add_handler(t, c) PROVE UsedSlotsTyped'
  BY <1>1 DEF add_handler, Refuse, Claim, tableVars
<1>2. CASE SetCallback
  <2>1. \A k \in Idx : handlers'[k].type = handlers[k].type
    BY <1>2 DEF SetCallback, Inv, TypeOK
  <2> QED
    BY <1>2, <2>1 DEF SetCallback, Inv, TypeOK
<1>3. CASE SetType
  <2>1. \A k \in Idx : handlers'[k].type = IF k = idx THEN type ELSE handlers[k].type
    BY <1>3 DEF SetType, Inv, TypeOK
  <2>2. type # NULL
    BY <1>3 DEF SetType, Inv, SlotsConsistent
  <2> QED
    BY <1>3, <2>1, <2>2 DEF SetType, Inv, TypeOK
<1>4. CASE clear_handlers \/ ClearWord \/ ClearMask
  BY <1>4 DEF clear_handlers, ClearWord, ClearMask
<1>5. ASSUME NEW t \in Type, _unmarshal_lookup_callback(t) PROVE UsedSlotsTyped'
  BY <1>5 DEF _unmarshal_lookup_callback, tableVars, mainVars
<1>6. CASE UNCHANGED vars
  BY <1>6 DEF vars, tableVars, mainVars
<1> QED
  BY <1>1, <1>2, <1>3, <1>4, <1>5, <1>6 DEF Next, Main

\* A step that changes no slot's type, and the callback of no slot with a type, leaves the map.
LEMMA SameMap ==
  ASSUME MapIsTable, MapIsTable', MapIsFunction, MapIsFunction',
         \A k \in Idx : /\ handlers'[k].type = handlers[k].type
                        /\ handlers[k].type # NULL => handlers'[k].callback = handlers[k].callback
  PROVE  Map' = Map
<1>1. ASSUME NEW t \in Type PROVE Map'[t] = Map[t]
  <2>1. CASE \E k \in Idx : handlers[k].type = t
    BY <2>1, NullAssumption DEF MapIsTable
  <2>2. CASE \A k \in Idx : handlers[k].type # t
    BY <2>2 DEF MapIsTable
  <2> QED
    BY <2>1, <2>2
<1> QED
  BY <1>1 DEF MapIsFunction

\* Writing the type makes the entry appear, whole, in a map that had room for it.
LEMMA SetTypeAdds ==
  ASSUME RefInv, MapIsTable, MapIsTable', MapIsFunction, MapIsFunction', SetType
  PROVE  Abstract!Add(type, callback)
<1>1. /\ pc = "set_type"
      /\ handlers' = [handlers EXCEPT ![idx].type = type]
      /\ answer' = [type |-> type, ok |-> TRUE] /\ UNCHANGED outcome
      /\ handlers \in [Idx -> [type : Type \union {NULL}, callback : Callback \union {NULL}]]
      /\ idx \in Idx /\ type \in Type \union {NULL}
  BY DEF SetType, RefInv, Inv, TypeOK
<1>2. /\ type \in Type /\ handlers[idx].callback = callback /\ handlers[idx].type = NULL
      /\ \A k \in Idx : handlers[k].type # type
  BY <1>1 DEF RefInv, Inv, SlotsConsistent
<1>3. type \notin Abstract!Registered
  BY <1>2 DEF MapIsTable, Abstract!Registered
<1>4. ~Abstract!Full
  <2>1. IsFiniteSet(Idx) /\ Cardinality(Idx) = MAX_HANDLERS
        /\ Cardinality(Abstract!Registered) = Cardinality(TypedSlots)
    BY RegisteredFacts DEF RefInv
  <2>2. TypedSlots \subseteq Idx /\ TypedSlots # Idx
    BY <1>1, <1>2 DEF TypedSlots
  <2>3. Cardinality(TypedSlots) # Cardinality(Idx)
    BY <2>1, <2>2, FS_Subset
  <2> QED
    BY <2>1, <2>3, SameCardinality DEF Abstract!Full
<1>5. \A k \in Idx : /\ handlers'[k].type = IF k = idx THEN type ELSE handlers[k].type
                     /\ handlers'[k].callback = handlers[k].callback
  BY <1>1
<1>6. Map' = [Map EXCEPT ![type] = callback]
  <2>1. Map'[type] = callback
    BY <1>1, <1>2, <1>5 DEF MapIsTable
  <2>2. ASSUME NEW t \in Type, t # type PROVE Map'[t] = Map[t]
    <3>1. CASE \E k \in Idx : handlers[k].type = t
      <4>1. PICK k \in Idx : handlers[k].type = t
        BY <3>1
      <4>2. k # idx
        BY <1>2, <2>2, <4>1, NullAssumption
      <4>3. handlers'[k].type = t /\ handlers'[k].callback = handlers[k].callback
        BY <1>5, <4>1, <4>2
      <4> QED
        BY <4>1, <4>3 DEF MapIsTable
    <3>2. CASE \A k \in Idx : handlers[k].type # t
      <4>1. \A k \in Idx : handlers'[k].type # t
        BY <1>5, <2>2, <3>2
      <4> QED
        BY <3>2, <4>1 DEF MapIsTable
    <3> QED
      BY <3>1, <3>2
  <2> QED
    BY <2>1, <2>2, <1>2 DEF MapIsFunction
<1> QED
  BY <1>1, <1>3, <1>4, <1>6 DEF Abstract!Add

\* memset() takes one entry away, with the first word of its slot.
LEMMA ClearWordDrops ==
  ASSUME Inv, MapIsTable, MapIsTable', MapIsFunction, MapIsFunction', ClearWord
  PROVE  /\ UNCHANGED <<answer, outcome>>
         /\ Map' = Map \/ \E S \in SUBSET Type : Abstract!Drop(S)
<1> DEFINE k == cleared \div 2
           even == cleared % 2 = 0
<1>1. /\ pc = "memset" /\ cleared < 2 * MAX_HANDLERS
      /\ handlers' = IF even THEN [handlers EXCEPT ![k].type = NULL]
                     ELSE [handlers EXCEPT ![k].callback = NULL]
      /\ UNCHANGED <<answer, outcome>>
  BY DEF ClearWord
<1>2. /\ handlers \in [Idx -> [type : Type \union {NULL}, callback : Callback \union {NULL}]]
      /\ cleared \in Nat /\ MAX_HANDLERS \in Nat
  BY TableAssumption DEF Inv, TypeOK
<1>3. k \in Idx /\ (~even => 2 * k < cleared)
  BY <1>1, <1>2 DEF Idx
<1> HIDE DEF k, even
<1>4. CASE ~even \/ handlers[k].type = NULL
  <2>1. handlers[k].type = NULL
    BY <1>1, <1>3, <1>4 DEF Inv, SlotsConsistent
  <2>2. \A j \in Idx : /\ handlers'[j].type = handlers[j].type
                       /\ handlers[j].type # NULL => handlers'[j].callback = handlers[j].callback
    BY <1>1, <1>2, <1>3, <2>1
  <2> QED
    BY <1>1, <2>2, SameMap
<1>5. CASE even /\ handlers[k].type # NULL
  <2> DEFINE u == handlers[k].type
  <2>1. u \in Type /\ k \in handlers_usage_mask
    BY <1>2, <1>3, <1>5 DEF Inv, SlotsConsistent
  <2>2. /\ \A j \in Idx : j # k => handlers'[j] = handlers[j]
        /\ handlers'[k].type = NULL
    BY <1>1, <1>2, <1>3, <1>5
  <2>3. \A j \in Idx : j # k => handlers[j].type # u
    BY <1>3, <1>5, <2>1 DEF Inv, OneSlotPerType, SlotsConsistent
  <2>4. Map'[u] = NULL
    BY <2>1, <2>2, <2>3, NullAssumption DEF MapIsTable
  <2>5. ASSUME NEW t \in Type, t # u PROVE Map'[t] = Map[t]
    <3>1. CASE \E j \in Idx : handlers[j].type = t
      <4>1. PICK j \in Idx : handlers[j].type = t
        BY <3>1
      <4>2. handlers'[j] = handlers[j]
        BY <2>2, <2>5, <4>1
      <4> QED
        BY <4>1, <4>2 DEF MapIsTable
    <3>2. CASE \A j \in Idx : handlers[j].type # t
      <4>1. \A j \in Idx : handlers'[j].type # t
        BY <2>2, <3>2, NullAssumption
      <4> QED
        BY <3>2, <4>1 DEF MapIsTable
    <3> QED
      BY <3>1, <3>2
  <2> HIDE DEF u
  <2>6. Map' = [t \in Type |-> IF t \in {u} THEN NULL ELSE Map[t]]
    BY <2>1, <2>4, <2>5 DEF MapIsFunction
  <2>7. Abstract!Drop({u})
    BY <1>1, <2>6 DEF Abstract!Drop
  <2> QED
    BY <1>1, <2>1, <2>7
<1> QED
  BY <1>4, <1>5

\* A table without an unused slot outside add_handler() and memset() is a full map.
LEMMA NoUnusedIsFull ==
  ASSUME RefInv, pc = "idle", Unused = {}
  PROVE  Abstract!Full
<1>1. TypedSlots = Idx
  BY DEF Unused, RefInv, Inv, TypeOK, UsedSlotsTyped, TypedSlots
<1> QED
  BY <1>1, RegisteredFacts, SameCardinality DEF RefInv, Abstract!Full

\* Every step of the table is a step of the map or leaves it alone.
LEMMA NextRefines ==
  RefInv /\ Inv' /\ [Next]_vars /\ MapIsTable /\ MapIsTable' /\ MapIsFunction /\ MapIsFunction'
    => [Abstract!Next]_(Abstract!vars)
<1> SUFFICES ASSUME RefInv, Inv', [Next]_vars,
                    MapIsTable, MapIsTable', MapIsFunction, MapIsFunction'
             PROVE  [Abstract!Next]_(Abstract!vars)
  OBVIOUS
<1>1. ASSUME NEW t \in Type, NEW c \in Callback, add_handler(t, c)
      PROVE  [Abstract!Next]_(Abstract!vars)
  <2>1. CASE Refuse(t)
    <3>1. UNCHANGED <<handlers, outcome>> /\ answer' = [type |-> t, ok |-> FALSE]
      BY <2>1 DEF Refuse, tableVars
    <3>2. Map' = Map
      BY <3>1, SameMap
    <3>3. t \in Abstract!Registered \/ Abstract!Full
      BY <1>1, <2>1, RegisteredFacts, NoUnusedIsFull DEF Refuse, add_handler, RefInv
    <3>4. Abstract!Refuse(t)
      BY <3>1, <3>2, <3>3 DEF Abstract!Refuse
    <3> QED
      BY <3>4 DEF Abstract!Next
  <2>2. CASE Claim(t, c)
    <3>1. UNCHANGED <<handlers, answer, outcome>>
      BY <2>2 DEF Claim
    <3>2. Map' = Map
      BY <3>1, SameMap
    <3> QED
      BY <3>1, <3>2 DEF Abstract!vars
  <2> QED
    BY <1>1, <2>1, <2>2 DEF add_handler
<1>2. CASE SetCallback
  <2>1. /\ pc = "set_callback" /\ UNCHANGED <<answer, outcome>>
        /\ handlers' = [handlers EXCEPT ![idx].callback = callback]
        /\ handlers \in [Idx -> [type : Type \union {NULL}, callback : Callback \union {NULL}]]
    BY <1>2 DEF SetCallback, RefInv, Inv, TypeOK
  <2>2. handlers[idx].type = NULL
    BY <2>1 DEF RefInv, Inv, SlotsConsistent
  <2>3. \A k \in Idx : /\ handlers'[k].type = handlers[k].type
                       /\ handlers[k].type # NULL => handlers'[k].callback = handlers[k].callback
    BY <2>1, <2>2
  <2>4. Map' = Map
    BY <2>3, SameMap
  <2> QED
    BY <2>1, <2>4 DEF Abstract!vars
<1>3. CASE SetType
  <2>1. type \in Type /\ callback \in Callback
    BY <1>3 DEF SetType, RefInv, Inv, TypeOK, SlotsConsistent
  <2> QED
    BY <1>3, <2>1, SetTypeAdds DEF Abstract!Next
<1>4. CASE clear_handlers \/ ClearMask
  <2>1. UNCHANGED <<handlers, answer, outcome>>
    BY <1>4 DEF clear_handlers, ClearMask, tableVars
  <2>2. Map' = Map
    BY <2>1, SameMap
  <2> QED
    BY <2>1, <2>2 DEF Abstract!vars
<1>5. CASE ClearWord
  BY <1>5, ClearWordDrops DEF RefInv, Abstract!Next, Abstract!vars
<1>6. ASSUME NEW t \in Type, _unmarshal_lookup_callback(t)
      PROVE  [Abstract!Next]_(Abstract!vars)
  <2>1. UNCHANGED <<handlers, answer>>
    BY <1>6 DEF _unmarshal_lookup_callback, tableVars, mainVars
  <2>2. Map' = Map
    BY <2>1, SameMap
  <2>3. t \in Abstract!Registered <=> KnownType(t)
    BY RegisteredFacts DEF RefInv
  <2>4. outcome' = [type |-> t, found |-> t \in Abstract!Registered, callback |-> Map[t]]
    <3>1. CASE KnownType(t)
      <4>1. outcome' = [type |-> t, found |-> TRUE, callback |-> Map[t]]
        BY <1>6, <3>1 DEF _unmarshal_lookup_callback, CallHandler, UnknownType, Map
      <4>2. (t \in Abstract!Registered) = TRUE
        BY <2>3, <3>1
      <4> QED
        BY <4>1, <4>2
    <3>2. CASE ~KnownType(t)
      <4>1. outcome' = [type |-> t, found |-> FALSE, callback |-> Map[t]]
        BY <1>6, <3>2 DEF _unmarshal_lookup_callback, CallHandler, UnknownType, Map
      <4>2. (t \in Abstract!Registered) = FALSE
        BY <2>3, <3>2
      <4> QED
        BY <4>1, <4>2
    <3> QED
      BY <3>1, <3>2
  <2>5. Abstract!Lookup(t)
    BY <2>1, <2>2, <2>4 DEF Abstract!Lookup
  <2> QED
    BY <2>5 DEF Abstract!Next
<1>7. CASE UNCHANGED vars
  <2>1. UNCHANGED <<handlers, answer, outcome>>
    BY <1>7 DEF vars, tableVars, mainVars
  <2>2. Map' = Map
    BY <2>1, SameMap
  <2> QED
    BY <2>1, <2>2 DEF Abstract!vars
<1> QED
  BY <1>1, <1>2, <1>3, <1>4, <1>5, <1>6, <1>7 DEF Next, Main

\* The empty table is the empty map.
LEMMA InitRefines == Init => Abstract!Init /\ UsedSlotsTyped
<1> SUFFICES ASSUME Init PROVE Abstract!Init /\ UsedSlotsTyped
  OBVIOUS
<1>1. MapIsTable /\ MapIsFunction
  BY InitInv, MapFacts
<1>2. \A t \in Type : Map[t] = NULL
  BY <1>1, NullAssumption DEF Init, NoHandler, MapIsTable
<1>3. Map = [t \in Type |-> NULL]
  BY <1>1, <1>2 DEF MapIsFunction
<1> QED
  BY <1>3 DEF Init, Abstract!Init, UsedSlotsTyped

-----------------------------------------------------------------------------
\* ProtoBuff.c's handler table, seen by the interrupt at any point of add_handler() and
\* clear_handlers(), is an atomic map from message types to callbacks with MAX_HANDLERS
\* entries: add_handler() refuses exactly when the map knows the type or is full.
THEOREM TableImplementsMap == Spec => MapImplemented
<1>1. Init => RefInv /\ Abstract!Init
  BY InitInv, InitRefines DEF RefInv
<1>2. RefInv /\ [Next]_vars => RefInv'
  BY NextInv, UsedSlotsTypedNext DEF RefInv
<1>3. Inv => MapIsTable /\ MapIsFunction
  BY MapFacts
<1>4. RefInv => Inv
  BY DEF RefInv
<1>5. RefInv /\ Inv' /\ [Next]_vars /\ MapIsTable /\ MapIsTable' /\ MapIsFunction /\ MapIsFunction'
        => [Abstract!Next]_(Abstract!vars)
  BY NextRefines
<1> QED
  BY <1>1, <1>2, <1>3, <1>4, <1>5, PTL DEF Spec, MapImplemented, Abstract!Spec
=============================================================================
