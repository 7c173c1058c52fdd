----------------------------- MODULE EventStore -----------------------------
(***************************************************************************)
(* The trade event store of src/trading_service/src/event_store.rs.  Four *)
(* maps, each behind its own RwLock, record per trade id the OfferCreated, *)
(* OrderCreated, OrderTaken and ContractDeployed events.  A store call     *)
(* (`_store`) computes the trade's current state by reading the maps one   *)
(* after the other, each under its read lock (`current_state`), and, if    *)
(* that state is the one required, inserts the event under the map's      *)
(* write lock.  Several request handlers call the store concurrently.      *)
(*                                                                         *)
(* An event's payload is abstracted to the caller that stored it.          *)
(***************************************************************************)
EXTENDS Naturals

CONSTANTS
    Ids,       \* trade uids
    Callers,   \* concurrent callers of the store
    None       \* no event stored

ASSUME EventStoreAssumption == None \notin Callers

VARIABLES
    store,     \* store[k][id]: the caller whose event of kind k is stored for id
    pc,        \* pc[c]: "idle", "read" (inside current_state) or "write"
    op,        \* op[c]: the kind of event c is storing (1..4)
    uid,       \* uid[c]: the trade id c is storing it for
    seen       \* seen[c]: how many maps current_state found id in so far

vars == <<store, pc, op, uid, seen>>

(* 1: offer_created, 2: order_created, 3: order_taken, 4: contract_deployed. *)
Kind == 1..4

(* TradeState as the number of maps holding the id: NonExistent = 0, *)
(* OfferCreated = 1, ..., ContractDeployed = 4.                      *)
TradeState == 0..4

(* A plausible slip: store_trade_accepted checking for OfferCreated. *)
RequiredStateSkip(k) == IF k = 3 THEN 1 ELSE k - 1

(* The state store_X requires: store_offer_created requires NonExistent, *)
(* store_trade_created OfferCreated, store_trade_accepted OrderCreated,   *)
(* store_contract_deployed OrderTaken.                                   *)
RequiredState(k) == k - 1

TypeOK ==
    /\ store \in [Kind -> [Ids -> Callers \cup {None}]]
    /\ pc \in [Callers -> {"idle", "read", "write"}]
    /\ op \in [Callers -> Kind]
    /\ uid \in [Callers -> Ids]
    /\ seen \in [Callers -> TradeState]

Init ==
    /\ store = [k \in Kind |-> [i \in Ids |-> None]]
    /\ pc = [c \in Callers |-> "idle"]
    /\ op \in [Callers -> Kind]
    /\ uid \in [Callers -> Ids]
    /\ seen = [c \in Callers |-> 0]

(* A handler calls store_offer_created, store_trade_created,             *)
(* store_trade_accepted or store_contract_deployed with an event for id. *)
Call(c) ==
    /\ pc[c] = "idle"
    /\ \E k \in Kind, i \in Ids :
          /\ op' = [op EXCEPT ![c] = k]
          /\ uid' = [uid EXCEPT ![c] = i]
    /\ pc' = [pc EXCEPT ![c] = "read"]
    /\ seen' = [seen EXCEPT ![c] = 0]
    /\ UNCHANGED store

(* current_state: one `_get` of the next map under its read lock; the    *)
(* first map without the id ends the scan.                              *)
ReadMap(c) ==
    /\ pc[c] = "read"
    /\ IF seen[c] < 4 /\ store[seen[c] + 1][uid[c]] # None
       THEN /\ seen' = [seen EXCEPT ![c] = @ + 1]
            /\ UNCHANGED pc
       ELSE /\ pc' = [pc EXCEPT ![c] = "write"]
            /\ UNCHANGED seen
    /\ UNCHANGED <<store, op, uid>>

(* _store: insert under the write lock if the state read is the one     *)
(* required, else return Err(IncorrectState).                           *)
Write(c) ==
    /\ pc[c] = "write"
    /\ store' = IF seen[c] = RequiredState(op[c])
                THEN [store EXCEPT ![op[c]][uid[c]] = c]
                ELSE store
    /\ pc' = [pc EXCEPT ![c] = "idle"]
    /\ UNCHANGED <<op, uid, seen>>

Next == \E c \in Callers : Call(c) \/ ReadMap(c) \/ Write(c)

Spec == Init /\ [][Next]_vars

-----------------------------------------------------------------------------
(* The trade lifecycle is respected: an id has an event of kind k only if *)
(* it has the events of every earlier kind, however the store calls of   *)
(* concurrent handlers interleave (event_store.rs:109-141).              *)
LifecycleOrder ==
    \A k \in 2..4, i \in Ids : store[k][i] # None => store[k - 1][i] # None

(* An event, once stored, is never replaced: a second store of the same  *)
(* kind for the same trade fails with IncorrectState, as the required-   *)
(* state check of _store (event_store.rs:116) is meant to ensure.           *)
NoOverwrite ==
    [][\A k \in Kind, i \in Ids :
          store[k][i] # None => store'[k][i] = store[k][i]]_vars

=============================================================================
