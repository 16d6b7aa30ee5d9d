---------------------------- MODULE ObjectStore ----------------------------
(***************************************************************************)
(* What set and get promise a client, with no coordinator, proxy or        *)
(* datanode in it: one table of values.  A set first forgets the key's old *)
(* value, then stores the new one, then returns; a get of a key that has a *)
(* value returns that value.                                               *)
(***************************************************************************)
CONSTANTS Clients, Keys, Vals,
          None    \* no value

VARIABLES db,     \* db[k]: the value stored for key k
          call,   \* call[c]: the operation client c is executing
          result  \* result[c]: what the last get of c returned

NoCall == [op |-> "none"]
Setting(k, v, phase) == [op |-> "set", key |-> k, val |-> v, phase |-> phase]
Getting(k) == [op |-> "get", key |-> k]

Init ==
  /\ db = [k \in Keys |-> None]
  /\ call = [c \in Clients |-> NoCall]
  /\ result = [c \in Clients |-> None]

(* The step of a set from one phase to the next.                           *)
Move(c, k, v, from, to) ==
  /\ call[c] = Setting(k, v, from)
  /\ call' = [call EXCEPT ![c] = Setting(k, v, to)]
  /\ UNCHANGED result

BeginSet(c, k, v) ==
  /\ call[c] = NoCall
  /\ call' = [call EXCEPT ![c] = Setting(k, v, "called")]
  /\ result' = [result EXCEPT ![c] = None]
  /\ UNCHANGED db

Forget(c, k, v) ==
  /\ Move(c, k, v, "called", "forgotten")
  /\ db' = [db EXCEPT ![k] = None]

Store(c, k, v) ==
  /\ Move(c, k, v, "forgotten", "stored")
  /\ db' = [db EXCEPT ![k] = v]

EndSet(c, k, v) ==
  /\ call[c] = Setting(k, v, "stored")
  /\ call' = [call EXCEPT ![c] = NoCall]
  /\ UNCHANGED <<db, result>>

BeginGet(c, k) ==
  /\ call[c] = NoCall
  /\ db[k] # None
  /\ call' = [call EXCEPT ![c] = Getting(k)]
  /\ result' = [result EXCEPT ![c] = None]
  /\ UNCHANGED db

EndGet(c, k) ==
  /\ call[c] = Getting(k)
  /\ call' = [call EXCEPT ![c] = NoCall]
  /\ result' = [result EXCEPT ![c] = db[k]]
  /\ UNCHANGED db

Next ==
  \E c \in Clients, k \in Keys :
    \/ BeginGet(c, k) \/ EndGet(c, k)
    \/ \E v \in Vals : BeginSet(c, k, v) \/ Forget(c, k, v) \/ Store(c, k, v)
                       \/ EndSet(c, k, v)

Spec == Init /\ [][Next]_<<db, call, result>>
=============================================================================
