------------------------ MODULE ConnectionManagerProps ------------------------
(***************************************************************************)
(* What is asked of the connection manager, as modelled in                 *)
(* ConnectionManager.                                                      *)
(***************************************************************************)
EXTENDS ConnectionManager

Label ==
  {"ready", "register", "open", "dispose", "collected", "visit", "erased", "lost"}

(* Fields and locals keep their types; lock_ is held between two actions   *)
(* by the client inside GC's second loop alone, and that client's iterator *)
(* points to an element of the map: nobody erases it meanwhile.            *)
TypeOK ==
  /\ connections \in [String -> Pool \cup {NoPool}]
  /\ made_for \in [Pool -> String \cup {0}]
  /\ lock \in Client \cup {NoClient}
  /\ db_connection \in [Client -> Pool \cup {NoPool}]
  /\ pc \in [Client -> Label]
  /\ str \in [Client -> String \cup {0}]
  /\ pool \in [Client -> Pool \cup {NoPool}]
  /\ pools \in [Client -> SUBSET Pool]
  /\ it \in [Client -> String \cup {End}]
  /\ \A c \in Client :
       /\ pc[c] = "register" => str[c] \in String
       /\ pc[c] \in {"visit", "lost"} <=> lock = c
       /\ pc[c] = "visit" => it[c] \in Registered

InUse(p) == \E c \in Client : db_connection[c] = p \/ pool[c] = p

(* A pool that a session's connection, or a call under way, refers to is   *)
(* the one the map has for its string.  So the connections to one string   *)
(* all belong to one pool, whose limit counts for them together, although  *)
(* GC looks at a reference count while others open and close.              *)
UsedPoolsAreRegistered ==
  \A p \in Pool : InUse(p) => made_for[p] \in String /\ connections[made_for[p]] = p

(* A pool that has left the map is in one GC's list alone, which will      *)
(* delete it: it is not erased twice, and no other GC still works on it.   *)
ErasedPoolsEnd ==
  \A p \in Pool :
    (\A s \in String : connections[s] # p) => \A c, d \in Holders(p) : c = d

(* ref_counted.h:211, the assertion in operator->, at pool->Open(): the    *)
(* pointer is not null.                                                    *)
PoolNotNull == \A c \in Client : pc[c] = "open" => pool[c] # NoPool
==============================================================================
