------------------------------ MODULE KeyLock ------------------------------
(***************************************************************************)
(* What a TokenSet (utils/on_demand_hashmap.rs) promises to the tasks that *)
(* call lock_key(): one lock for each key, owned by one task at a time.    *)
(* TokenSet.tla shows that the map of weak references behind it keeps it.  *)
(***************************************************************************)
CONSTANTS Clients, Keys

VARIABLES
  phase,   \* per client: "idle", "waiting" in lock_key(), or "owning" a KeyToken
  key      \* per client: the key of its last call of lock_key()

lockVars == <<phase, key>>

Init ==
  /\ phase = [c \in Clients |-> "idle"]
  /\ key \in [Clients -> Keys]

Request(c, k) ==
  /\ phase[c] = "idle"
  /\ phase' = [phase EXCEPT ![c] = "waiting"]
  /\ key' = [key EXCEPT ![c] = k]

\* "Ownership of this token proves that no other KeyToken for this key in this
\* TokenSet currently exists."
Grant(c) ==
  /\ phase[c] = "waiting"
  /\ \A d \in Clients : phase[d] = "owning" => key[d] # key[c]
  /\ phase' = [phase EXCEPT ![c] = "owning"]
  /\ UNCHANGED key

\* The token is dropped, or the call is cancelled.
Leave(c) ==
  /\ phase[c] # "idle"
  /\ phase' = [phase EXCEPT ![c] = "idle"]
  /\ UNCHANGED key

Next == \E c \in Clients : (\E k \in Keys : Request(c, k)) \/ Grant(c) \/ Leave(c)

Spec == Init /\ [][Next]_lockVars

=============================================================================
