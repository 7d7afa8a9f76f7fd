---------------------------- MODULE KeyValueMap ----------------------------
(***************************************************************************)
(* What CHash (component/hash.h) promises: a number of maps, made by        *)
(* BuildIndex, in which the first value inserted under a key stays.        *)
(***************************************************************************)
EXTENDS Integers

CONSTANTS Indexes, Keys, Vals,
          NULL       \* no index, no value

VARIABLES dict,      \* by index: NULL, or a function from some keys to values
          res        \* what the last call of BuildIndex, Insert or Find returned

vars == <<dict, res>>

NoValue(code) == [code |-> code, val |-> NULL]

Init == dict = [i \in Indexes |-> NULL] /\ res = NoValue("HASH_SUCCESS")

Build(i) ==
    \/ res' = NoValue("HASH_INDEX_HAS_EXISTED") /\ dict[i] # NULL /\ UNCHANGED dict
    \/ res' = NoValue("HASH_SUCCESS") /\ dict[i] = NULL /\ dict' = [dict EXCEPT ![i] = [k \in {} |-> NULL]]

\* CIndex::Insert ends without a return: its result means nothing.
Insert(i, k, v) ==
    \/ res' = NoValue("HASH_INDEX_NOT_EXIST") /\ dict[i] = NULL /\ UNCHANGED dict
    \/ /\ res' = NoValue("any") /\ dict[i] # NULL
       /\ dict' = [dict EXCEPT ![i] = [j \in DOMAIN @ \cup {k} |-> IF j \in DOMAIN @ THEN @[j] ELSE v]]

Find(i, k) == /\ res' = IF dict[i] = NULL THEN NoValue("HASH_INDEX_NOT_EXIST")
                        ELSE IF k \in DOMAIN dict[i] THEN [code |-> "HASH_SUCCESS", val |-> dict[i][k]]
                        ELSE NoValue("-1")
              /\ UNCHANGED dict

Next == \E i \in Indexes : \/ Build(i)
                           \/ \E k \in Keys : Find(i, k) \/ \E v \in Vals : Insert(i, k, v)

Spec == Init /\ [][Next]_vars
==============================================================================
