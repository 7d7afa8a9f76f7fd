-------------------------------- MODULE CHash --------------------------------
(***************************************************************************)
(* component/hash.h: CHash keeps an array of CIndex that BuildIndex makes    *)
(* longer as needed; a CIndex is a vector of ordered maps (buckets), and a   *)
(* cursor with which Scan and Next walk through them.                       *)
(*                                                                         *)
(* Keys are numbered in the order of memcmp.  The caller is like test_hash  *)
(* (hash.cpp): it builds an index before it scans, and takes a Next that    *)
(* leaves its pointer NULL for the end.  Memory is not exhausted: new       *)
(* throws rather than return NULL.                                         *)
(***************************************************************************)
EXTENDS Integers, Sequences, FiniteSets, FiniteSetsExt, Functions

CONSTANTS MaxIndex,      \* indexes are 0 .. MaxIndex
          Keys, Vals,
          m_Size,        \* buckets of an index
          HashFunc(_),   \* m_HashFunc: the hash code of a key
          NULL, END      \* END: an iterator at end()

Indexes == 0 .. MaxIndex
Buckets == 0 .. m_Size - 1
Bucket == UNION {[S -> Vals] : S \in SUBSET Keys}

\* The code of the example's HashFunc1 can be negative, see the README.
CHashAssumption == /\ MaxIndex \in Nat /\ m_Size \in Nat \ {0}
                   /\ IsFiniteSet(Keys) /\ Keys \subseteq Nat
                   /\ \A k \in Keys : HashFunc(k) \in Nat
                   /\ NULL \notin Vals \cup Bucket \cup [Buckets -> Bucket] /\ END \notin Keys

VARIABLES m_HashIndex,   \* the array, m_IndexCount entries: NULL or the buckets of a CIndex
          cursor,        \* of index 0: m_SearchHashVal, m_begin_iter; NULL before a scan
          res,           \* what the last call of BuildIndex, Insert or Find returned
          want, seen     \* the keys there when Scan was called; those Next has given since (history)

vars == <<m_HashIndex, cursor, res, want, seen>>

m_IndexCount == Cardinality(DOMAIN m_HashIndex)
Exists(i) == i < m_IndexCount /\ m_HashIndex[i] # NULL
Returns(code, v) == res' = [code |-> code, val |-> v]

Empty == [k \in {} |-> NULL]
NewIndex == [b \in Buckets |-> Empty]

Init == /\ m_HashIndex = Empty
        /\ cursor = NULL
        /\ res = [code |-> "HASH_SUCCESS", val |-> NULL]
        /\ want = {} /\ seen = <<>>

----------------------------------------------------------------------------
\* A bug for Grown: the old entries are not copied.
GrownEmpty(i) == [j \in 0 .. i |-> NULL]

\* A longer array: the old entries are copied and the others are NULL.
Grown(i) == [j \in 0 .. i |-> IF j < m_IndexCount THEN m_HashIndex[j] ELSE NULL]

BuildIndex(i) ==
    /\ IF Exists(i) THEN Returns("HASH_INDEX_HAS_EXISTED", NULL) /\ UNCHANGED m_HashIndex
       ELSE /\ Returns("HASH_SUCCESS", NULL)
            /\ m_HashIndex' = [(IF m_IndexCount <= i THEN Grown(i) ELSE m_HashIndex) EXCEPT ![i] = NewIndex]
    /\ UNCHANGED <<cursor, want, seen>>

hashVal(k) == HashFunc(k) % m_Size

\* map::insert does nothing if the key is there.
Put(bucket, k, v) == [j \in DOMAIN bucket \cup {k} |-> IF j \in DOMAIN bucket THEN bucket[j] ELSE v]

\* CIndex::Insert has no return statement.
Insert(i, k, v) ==
    /\ IF ~Exists(i) THEN Returns("HASH_INDEX_NOT_EXIST", NULL) /\ UNCHANGED m_HashIndex
       ELSE /\ Returns("any", NULL)
            /\ m_HashIndex' = [m_HashIndex EXCEPT ![i][hashVal(k)] = Put(@, k, v)]
    /\ UNCHANGED <<cursor, want, seen>>

Find(i, k) ==
    /\ IF ~Exists(i) THEN Returns("HASH_INDEX_NOT_EXIST", NULL)
       ELSE LET bucket == m_HashIndex[i][hashVal(k)]
            IN  IF k \in DOMAIN bucket THEN Returns("HASH_SUCCESS", bucket[k]) ELSE Returns("-1", NULL)
    /\ UNCHANGED <<m_HashIndex, cursor, want, seen>>

----------------------------------------------------------------------------
(* Scan and Next work on index 0. *)

KeysOf(index) == UNION {DOMAIN index[b] : b \in Buckets}

\* The iterator at the first key of the bucket that is in S.
FirstOf(S) == IF S = {} THEN END ELSE Min(S)

\* Before index 0 is built there is nothing to scan; if another index is, Scan says so.
Scan == /\ Exists(0)
        /\ cursor' = [m_SearchHashVal |-> 0, iter |-> FirstOf(DOMAIN m_HashIndex[0][0])]
        /\ want' = KeysOf(m_HashIndex[0]) /\ seen' = <<>>
        /\ UNCHANGED <<m_HashIndex, res>>

\* Where the while loop of lines 228-238 stops.
Settled == IF cursor.iter # END THEN cursor
           ELSE LET later == {b \in Buckets : b > cursor.m_SearchHashVal /\ m_HashIndex[0][b] # Empty}
                IN  IF later = {} THEN [m_SearchHashVal |-> m_Size, iter |-> END]
                    ELSE [m_SearchHashVal |-> Min(later), iter |-> Min(DOMAIN m_HashIndex[0][Min(later)])]

Finished == cursor # NULL /\ cursor.m_SearchHashVal = m_Size

\* The end is told by leaving *val alone; the result is HASH_SUCCESS either way.
NextItem ==
    /\ cursor # NULL /\ ~Finished
    /\ LET at == Settled
       IN  IF at.m_SearchHashVal = m_Size THEN cursor' = at /\ UNCHANGED seen
           ELSE /\ seen' = Append(seen, at.iter)
                /\ cursor' = [at EXCEPT !.iter =
                      FirstOf({k \in DOMAIN m_HashIndex[0][at.m_SearchHashVal] : k > at.iter})]
    /\ UNCHANGED <<m_HashIndex, res, want>>

Next == \/ \E i \in Indexes : \/ BuildIndex(i)
                              \/ \E k \in Keys : Find(i, k) \/ \E v \in Vals : Insert(i, k, v)
        \/ Scan \/ NextItem

Spec == Init /\ [][Next]_vars

----------------------------------------------------------------------------
(* Properties *)

\* The variables have their types; every key is in the bucket of its hash code.
TypeOK ==
    /\ \E n \in 0 .. MaxIndex + 1 : DOMAIN m_HashIndex = 0 .. n - 1
    /\ \A i \in DOMAIN m_HashIndex : m_HashIndex[i] # NULL =>
          /\ DOMAIN m_HashIndex[i] = Buckets
          /\ \A b \in Buckets : /\ DOMAIN m_HashIndex[i][b] \subseteq {k \in Keys : hashVal(k) = b}
                                /\ Range(m_HashIndex[i][b]) \subseteq Vals
    /\ cursor = NULL \/ cursor \in [m_SearchHashVal : 0 .. m_Size, iter : Keys \cup {END}]
    /\ want \subseteq Keys /\ Range(seen) \subseteq Keys

\* A scan gives every key that was there when it began, and no key twice, with
\* whatever inserts, finds and new indexes come between its calls of Next.
ScanIsComplete == /\ IsInjective(seen)
                  /\ Finished => want \subseteq Range(seen)

\* The arrays and buckets implement the maps of KeyValueMap: new indexes leave
\* the others as they are, and Find finds what was first inserted under the key.
Dict(i) == IF ~Exists(i) THEN NULL
           ELSE [k \in KeysOf(m_HashIndex[i]) |->
                   LET b == CHOOSE c \in Buckets : k \in DOMAIN m_HashIndex[i][c]
                   IN  m_HashIndex[i][b][k]]
Maps == INSTANCE KeyValueMap WITH dict <- [i \in Indexes |-> Dict(i)]
ImplementsMaps == Maps!Spec
==============================================================================
