-------------------------- MODULE EventStoreProofs --------------------------
(***************************************************************************)
(* Proof that the event store keeps the trade lifecycle (LifecycleOrder)  *)
(* for any number of trade ids and of concurrent callers.                 *)
(*                                                                         *)
(* LifecycleOrder is not inductive: a write is justified by what its      *)
(* caller read earlier, under other locks.  The strengthening SInv says   *)
(* that what a caller in the middle of a store has read is still true:    *)
(* the maps 1..seen[c] hold its id.  It stays true because no step ever   *)
(* removes an event (a write replaces an entry by a caller, never None).   *)
(***************************************************************************)
EXTENDS EventStore, TLAPS

(* The inductive strengthening of LifecycleOrder. *)
SInv ==
    /\ TypeOK
    /\ LifecycleOrder
    /\ \A c \in Callers :
          pc[c] \in {"read", "write"} =>
              \A j \in 1..seen[c] : store[j][uid[c]] # None

(* The initial states are well typed. *)
LEMMA StoreInitType == Init => TypeOK
  BY DEF Init, TypeOK, Kind, TradeState

(* Every step keeps the state well typed. *)
LEMMA StoreTypeStep == TypeOK /\ [Next]_vars => TypeOK'
<1> SUFFICES ASSUME TypeOK, [Next]_vars PROVE TypeOK'
  OBVIOUS
<1>1. ASSUME NEW c \in Callers, Call(c) PROVE TypeOK'
  <2>1. PICK k \in Kind, i \in Ids :
            op' = [op EXCEPT ![c] = k] /\ uid' = [uid EXCEPT ![c] = i]
    BY <1>1 DEF Call
  <2>2. QED
    BY <1>1, <2>1 DEF Call, TypeOK, TradeState
<1>2. ASSUME NEW c \in Callers, ReadMap(c) PROVE TypeOK'
  <2>1. CASE seen[c] < 4 /\ store[seen[c] + 1][uid[c]] # None
    BY <1>2, <2>1 DEF ReadMap, TypeOK, TradeState
  <2>2. CASE ~(seen[c] < 4 /\ store[seen[c] + 1][uid[c]] # None)
    BY <1>2, <2>2 DEF ReadMap, TypeOK
  <2>3. QED
    BY <2>1, <2>2
<1>3. ASSUME NEW c \in Callers, Write(c) PROVE TypeOK'
  BY <1>3 DEF Write, TypeOK, Kind
<1>4. CASE UNCHANGED vars
  BY <1>4 DEF vars, TypeOK
<1>5. QED
  BY <1>1, <1>2, <1>3, <1>4 DEF Next

(* No step removes an event from a map. *)
LEMMA StoreKeeps ==
    ASSUME TypeOK, [Next]_vars
    PROVE  \A k \in Kind, i \in Ids : store[k][i] # None => store'[k][i] # None
<1>1. ASSUME NEW c \in Callers, Write(c) PROVE \A k \in Kind, i \in Ids :
            store[k][i] # None => store'[k][i] # None
  BY <1>1, EventStoreAssumption DEF Write, TypeOK
<1>2. QED
  BY <1>1 DEF Next, vars, Call, ReadMap

(* SInv holds initially. *)
LEMMA SInvInit == Init => SInv
  BY StoreInitType DEF Init, SInv, LifecycleOrder, Kind

(* Every step keeps SInv: a caller's reads stay true, and a write of kind *)
(* k is made only after reading the k-1 earlier maps.                      *)
LEMMA SInvStep == SInv /\ [Next]_vars => SInv'
  <2> SUFFICES ASSUME SInv, [Next]_vars PROVE SInv'
    OBVIOUS
  <2>0. TypeOK' /\ \A k \in Kind, i \in Ids : store[k][i] # None => store'[k][i] # None
    BY StoreTypeStep, StoreKeeps DEF SInv
  <2>1. ASSUME NEW c \in Callers, Call(c) PROVE SInv'
    BY <2>0, <2>1 DEF Call, SInv, LifecycleOrder, TypeOK
  <2>2. ASSUME NEW c \in Callers, ReadMap(c) PROVE SInv'
    BY <2>0, <2>2 DEF ReadMap, SInv, LifecycleOrder, TypeOK, TradeState
  <2>3. ASSUME NEW c \in Callers, Write(c) PROVE SInv'
    <3>1. CASE seen[c] = RequiredState(op[c])
      <4>1. LifecycleOrder'
        BY <2>0, <2>3, <3>1, EventStoreAssumption
        DEF Write, SInv, LifecycleOrder, TypeOK, RequiredState, Kind
      <4>2. QED
        BY <2>0, <2>3, <4>1 DEF Write, SInv, TypeOK, Kind
    <3>2. CASE seen[c] # RequiredState(op[c])
      BY <2>0, <2>3, <3>2 DEF Write, SInv, LifecycleOrder, TypeOK
    <3>3. QED
      BY <3>1, <3>2
  <2>4. CASE UNCHANGED vars
    BY <2>0, <2>4 DEF vars, SInv, LifecycleOrder
  <2>5. QED
    BY <2>1, <2>2, <2>3, <2>4 DEF Next

(* However the store calls of concurrent handlers interleave, a trade    *)
(* has an event of a kind only when it has the events of all earlier     *)
(* kinds (event_store.rs:109-141).                                       *)
THEOREM LifecycleRespected == Spec => []LifecycleOrder
<1>1. SInv => LifecycleOrder
  BY DEF SInv
<1>2. QED
  BY <1>1, SInvInit, SInvStep, PTL DEF Spec

=============================================================================
