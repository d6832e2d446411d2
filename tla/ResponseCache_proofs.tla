------------------------ MODULE ResponseCache_proofs ------------------------
(***************************************************************************)
(* Machine-checked proofs about ResponseCache, for any number of requests, *)
(* digests and stored responses, of any size and under any budget.         *)
(***************************************************************************)
EXTENDS ResponseCache, FiniteSetTheorems, TLAPS

-----------------------------------------------------------------------------
(* Type correctness.                                                       *)

(* Every token but none, the tables they stand in, what a lookup captures  *)
(* and what a store carries once n responses are stored.                   *)
TokenOrNone == 0..MaxToken
Tables      == [Keys -> TokenOrNone]
Looks    == [key : Keys, version : Versions, generation : Nat, current : BOOLEAN,
             asof : SUBSET TokenOrNone, candidates : Tables, token : TokenOrNone,
             body : TokenOrNone]
Fills(n) == [token : 0..n, backup : 0..n, replaced : 0..n]

(* The database, the disk and the generations. *)
StoreTypeOK ==
    /\ lastStored \in TokenOrNone
    /\ rows \in [Keys -> 0..lastStored]
    /\ files \in [Keys -> 0..lastStored]
    /\ fill \in [Clients -> Fills(lastStored)]
    /\ expired \in SUBSET TokenOrNone
    /\ strays \in SUBSET TokenOrNone
    /\ boundary \in [Keys -> Nat]
    /\ begun \in [Tokens -> Nat]
    /\ generation \in Nat
    /\ admin.generation \in Nat

(* The requests, the index and the memory. *)
LookTypeOK ==
    /\ stage \in [Clients -> Stages]
    /\ look \in [Clients -> Looks]
    /\ index \in Tables
    /\ memory \in Tables
    /\ gate \in SUBSET Keys

(* The configuration and its changes. *)
AdminOps == {"idle", "invalidate", "purge", "delete", "refresh"}
ConfigTypeOK ==
    /\ version \in Versions
    /\ snapshot \in Versions
    /\ fingerprint \in 0..MaxVersion
    /\ config \in [Versions -> [on : BOOLEAN, rule : BOOLEAN]]
    /\ admin \in [op : AdminOps, then : {"idle", "purge", "keep", "delete"}, generation : Nat]
    /\ refresh \in [by : {"nobody", "admin", "other"}, version : 0..MaxVersion, applied : BOOLEAN]
    /\ refresh.by # "nobody" => refresh.version \in Versions
    /\ refresh.applied => refresh.by # "nobody"
    /\ admin.then = "delete" /\ admin.op \in {"invalidate", "purge", "delete"} =>
          version < MaxVersion
    /\ admin.op = "delete" => admin.then = "delete"
    /\ negative \in BOOLEAN
    /\ cascaded \in BOOLEAN
    /\ operations \in 0..MaxOperations

(* The types of the storage counters are with UsageInv, below. *)
CacheTypeOK == StoreTypeOK /\ LookTypeOK /\ ConfigTypeOK

(* A request that has looked up nothing is well formed. *)
LEMMA NoLookType == NoLook \in Looks
<1>1. (CHOOSE k \in Keys : TRUE) \in Keys
  BY KeyAssumption
<1>2. 1 \in Versions /\ 0 \in TokenOrNone /\ NoKeys \in Tables
  BY CacheBoundAssumption, SizeAssumption DEF Versions, TokenOrNone, Tables, NoKeys
<1> QED
  BY <1>1, <1>2 DEF NoLook, Looks

(* Deleting the rows of S: they go together with their bodies, index       *)
(* entries and memory copies, and nothing else changes.                    *)
LEMMA DeleteRowsEffect ==
    ASSUME StoreTypeOK, LookTypeOK, NEW S, NEW u, DeleteRows(S, u)
    PROVE  /\ rows' \in [Keys -> 0..lastStored]
           /\ files' \in [Keys -> 0..lastStored]
           /\ index' \in Tables
           /\ memory' \in Tables
           /\ \A k \in Keys : rows'[k] = IF k \in S THEN 0 ELSE rows[k]
           /\ \A k \in Keys : rows'[k] = 0 \/ files'[k] = files[k]
<1> DEFINE gone == S \cap Stored
           Without(f) == [k \in Keys |-> IF k \in gone THEN 0 ELSE f[k]]
<1>1. /\ rows' = Without(rows) /\ files' = Without(files)
      /\ index' = Without(index) /\ memory' = Without(memory)
  BY DEF DeleteRows
<1>2. 0 \in 0..lastStored /\ 0 \in TokenOrNone
  BY SizeAssumption DEF StoreTypeOK, TokenOrNone
<1>3. /\ rows \in [Keys -> 0..lastStored] /\ files \in [Keys -> 0..lastStored]
      /\ index \in [Keys -> TokenOrNone] /\ memory \in [Keys -> TokenOrNone]
  BY DEF StoreTypeOK, LookTypeOK, Tables
<1>4. rows' \in [Keys -> 0..lastStored] /\ files' \in [Keys -> 0..lastStored]
  BY <1>1, <1>2, <1>3
<1>5. index' \in Tables /\ memory' \in Tables
  BY <1>1, <1>2, <1>3 DEF Tables
<1>6. \A k \in Keys : rows'[k] = IF k \in S THEN 0 ELSE rows[k]
  BY <1>1, <1>3 DEF Stored
<1>7. \A k \in Keys : rows'[k] = 0 \/ files'[k] = files[k]
  BY <1>1
<1> QED
  BY <1>4, <1>5, <1>6, <1>7

(* Every step keeps the types of the store. *)
LEMMA StoreNext ==
    StoreTypeOK /\ LookTypeOK /\ [CacheNext]_cacheVars => StoreTypeOK'
<1> SUFFICES ASSUME StoreTypeOK, LookTypeOK, [CacheNext]_cacheVars PROVE StoreTypeOK'
  OBVIOUS
<1> USE SizeAssumption, CacheBoundAssumption
    DEF storeVars, memoryVars, configVars, adminVars, history, Tokens, TokenOrNone, NoKeys
<1>1. ASSUME NEW r \in Clients, NEW k \in Keys, Begin(r, k) PROVE StoreTypeOK'
  BY <1>1 DEF StoreTypeOK, Begin
<1>2. ASSUME NEW r \in Clients, Capture(r) PROVE StoreTypeOK'
  BY <1>2 DEF StoreTypeOK, Capture
<1>3. ASSUME NEW r \in Clients, MaybeCleanup(r) PROVE StoreTypeOK'
  <2>1. PICK S, u : DeleteRows(S, u)
    BY <1>3 DEF MaybeCleanup
  <2>2. rows' \in [Keys -> 0..lastStored] /\ files' \in [Keys -> 0..lastStored]
    BY <2>1, DeleteRowsEffect
  <2> QED
    BY <1>3, <2>2 DEF StoreTypeOK, MaybeCleanup
<1>4. ASSUME NEW r \in Clients, Lookup(r) PROVE StoreTypeOK'
  BY <1>4 DEF StoreTypeOK, Lookup, Resolve
<1>5. ASSUME NEW r \in Clients, NEW ok \in BOOLEAN, ReadRows(r, ok) PROVE StoreTypeOK'
  BY <1>5 DEF StoreTypeOK, ReadRows
<1>6. ASSUME NEW r \in Clients, StoreIndexed(r) PROVE StoreTypeOK'
  BY <1>6 DEF StoreTypeOK, StoreIndexed, Resolve
<1>7. ASSUME NEW r \in Clients, Open(r) PROVE StoreTypeOK'
  BY <1>7 DEF StoreTypeOK, Open, CurrentRow
<1>8. ASSUME NEW r \in Clients, OpenFails(r) PROVE StoreTypeOK'
  BY <1>8 DEF StoreTypeOK, OpenFails, Miss
<1>9. ASSUME NEW r \in Clients, Served(r) PROVE StoreTypeOK'
  BY <1>9 DEF StoreTypeOK, Served
<1>10. ASSUME NEW r \in Clients, Invalidate(r) PROVE StoreTypeOK'
  <2>1. rows' \in [Keys -> 0..lastStored] /\ files' \in [Keys -> 0..lastStored]
    <3>1. look[r].key \in Keys
      BY DEF LookTypeOK, Looks
    <3>2. {rows[look[r].key], files[look[r].key], 0} \subseteq 0..lastStored
      BY <3>1 DEF StoreTypeOK
    <3> HIDE DEF TokenOrNone
    <3> QED
      BY <1>10, <3>2 DEF StoreTypeOK, Invalidate
  <2> QED
    BY <1>10, <2>1 DEF StoreTypeOK, Invalidate
<1>11. ASSUME NEW r \in Clients, InvalidateFails(r) PROVE StoreTypeOK'
  BY <1>11 DEF StoreTypeOK, InvalidateFails, Miss
<1>12. ASSUME NEW r \in Clients, Fetch(r) PROVE StoreTypeOK'
  BY <1>12 DEF StoreTypeOK, Fetch
<1>13. ASSUME NEW r \in Clients, Discard(r) PROVE StoreTypeOK'
  <2>1. NoFill \in Fills(lastStored)
    BY DEF StoreTypeOK, NoFill, Fills, TokenOrNone
  <2> QED
    BY <1>13, <2>1 DEF StoreTypeOK, Discard, Drop
<1>14. ASSUME NEW r \in Clients, Rename(r) PROVE StoreTypeOK'
  <2>1. look[r].key \in Keys /\ look[r].generation \in Nat
    BY DEF LookTypeOK, Looks
  <2>2. lastStored' = lastStored + 1 /\ lastStored' \in TokenOrNone /\ lastStored' \in Tokens
    BY <1>14 DEF StoreTypeOK, Rename
  <2>3. 0..lastStored \subseteq 0..lastStored' /\ lastStored' \in 0..lastStored'
    BY <2>2 DEF StoreTypeOK
  <2>4. rows' \in [Keys -> 0..lastStored'] /\ files' \in [Keys -> 0..lastStored']
    BY <1>14, <2>1, <2>3 DEF StoreTypeOK, Rename
  <2>5. fill' \in [Clients -> Fills(lastStored')]
    <3>1. [token |-> lastStored', backup |-> files[look[r].key], replaced |-> rows[look[r].key]]
             \in Fills(lastStored')
      BY <2>1, <2>3 DEF StoreTypeOK, Fills
    <3>2. Fills(lastStored) \subseteq Fills(lastStored')
      BY <2>3 DEF Fills
    <3> QED
      BY <1>14, <3>1, <3>2 DEF StoreTypeOK, Rename
  <2>6. begun' \in [Tokens -> Nat]
    BY <1>14, <2>1, <2>2 DEF StoreTypeOK, Rename
  <2> QED
    BY <1>14, <2>2, <2>4, <2>5, <2>6 DEF StoreTypeOK, Rename
<1>15. ASSUME NEW r \in Clients, Upsert(r) PROVE StoreTypeOK'
  <2>1. fill[r].token \in 0..lastStored
    BY DEF StoreTypeOK, Fills
  <2> QED
    BY <1>15, <2>1 DEF StoreTypeOK, Upsert
<1>16. ASSUME NEW r \in Clients, NEW left \in 0..MaxToken, UpsertFails(r, left)
      PROVE  StoreTypeOK'
  <2>1. NoFill \in Fills(lastStored)
    BY DEF StoreTypeOK, NoFill, Fills
  <2>2. left \in 0..lastStored
    BY <1>16 DEF StoreTypeOK, Fills, UpsertFails
  <2>3. files' \in [Keys -> 0..lastStored]
    <3> HIDE DEF TokenOrNone
    <3> QED
      BY <1>16, <2>2 DEF StoreTypeOK, UpsertFails
  <2> QED
    BY <1>16, <2>1, <2>3 DEF StoreTypeOK, UpsertFails, Drop
<1>17. ASSUME NEW r \in Clients, Publish(r) PROVE StoreTypeOK'
  <2>1. NoFill \in Fills(lastStored)
    BY DEF StoreTypeOK, NoFill, Fills, TokenOrNone
  <2> QED
    BY <1>17, <2>1 DEF StoreTypeOK, Publish, Drop
<1>18. ASSUME NEW S \in SUBSET Keys \ {{}}, Purge(S) PROVE StoreTypeOK'
  BY <1>18 DEF StoreTypeOK, Purge, Operation
<1>19. CASE PurgeRows
  <2>1. PICK S, u : DeleteRows(S, u)
    BY <1>19 DEF PurgeRows
  <2>2. rows' \in [Keys -> 0..lastStored] /\ files' \in [Keys -> 0..lastStored]
    BY <2>1, DeleteRowsEffect
  <2> QED
    BY <1>19, <2>2 DEF StoreTypeOK, PurgeRows
<1>20. CASE PurgeFails
  BY <1>20 DEF StoreTypeOK, PurgeFails
<1>21. CASE StorageUsage
  BY <1>21 DEF StoreTypeOK, StorageUsage
<1>22. ASSUME NEW then \in {"purge", "keep", "delete"}, NEW on \in BOOLEAN, Change(then, on)
      PROVE  StoreTypeOK'
  BY <1>22 DEF StoreTypeOK, Change, Operation
<1>23. CASE InvalidateConfiguration
  BY <1>23 DEF StoreTypeOK, InvalidateConfiguration
<1>24. CASE PurgeRule
  <2>1. PICK S, u : DeleteRows(S, u)
    BY <1>24 DEF PurgeRule
  <2>2. rows' \in [Keys -> 0..lastStored] /\ files' \in [Keys -> 0..lastStored]
    BY <2>1, DeleteRowsEffect
  <2> QED
    BY <1>24, <2>2 DEF StoreTypeOK, PurgeRule
<1>25. CASE DeleteRule
  BY <1>25 DEF StoreTypeOK, DeleteRule
<1>26. ASSUME NEW by \in {"admin", "other"}, Load(by) PROVE StoreTypeOK'
  BY <1>26 DEF StoreTypeOK, Load
<1>27. CASE Apply
  BY <1>27 DEF StoreTypeOK, Apply
<1>28. CASE Reconcile
  BY <1>28 DEF StoreTypeOK, Reconcile
<1>29. CASE NegativeExpires
  BY <1>29 DEF StoreTypeOK, NegativeExpires
<1>30. ASSUME NEW t \in Tokens, Expire(t) PROVE StoreTypeOK'
  <2>1. expired' \in SUBSET TokenOrNone
    BY <1>30 DEF StoreTypeOK, Expire
  <2> QED
    BY <1>30, <2>1 DEF StoreTypeOK, Expire
<1>31. CASE Crash
  <2>1. NoFill \in Fills(lastStored)
    BY DEF StoreTypeOK, NoFill, Fills
  <2>2. admin'.generation = admin.generation
    BY <1>31 DEF Crash
  <2> QED
    BY <1>31, <2>1, <2>2 DEF StoreTypeOK, Crash
<1>32. CASE UNCHANGED cacheVars
  BY <1>32 DEF StoreTypeOK, cacheVars
<1> QED
  BY <1>1, <1>2, <1>3, <1>4, <1>5, <1>6, <1>7, <1>8, <1>9, <1>10, <1>11, <1>12, <1>13,
     <1>14, <1>15, <1>16, <1>17, <1>18, <1>19, <1>20, <1>21, <1>22, <1>23, <1>24,
     <1>25, <1>26, <1>27, <1>28, <1>29, <1>30, <1>31, <1>32
     DEF CacheNext, Handle, Operate

(* Every step keeps the types of the requests, the index and the memory.   *)
LEMMA LookNext ==
    StoreTypeOK /\ LookTypeOK /\ ConfigTypeOK /\ [CacheNext]_cacheVars => LookTypeOK'
<1> SUFFICES ASSUME StoreTypeOK, LookTypeOK, ConfigTypeOK, [CacheNext]_cacheVars
             PROVE  LookTypeOK'
  OBVIOUS
<1> USE DEF storeVars, memoryVars, configVars, adminVars, history, Goto, Stages
<1>0. 0 \in TokenOrNone /\ NoKeys \in Tables
  BY SizeAssumption DEF TokenOrNone, Tables, NoKeys
<1>1. ASSUME NEW r \in Clients, NEW k \in Keys, Begin(r, k) PROVE LookTypeOK'
  <2>1. [NoLook EXCEPT !.key = k, !.version = snapshot] \in Looks
    BY NoLookType DEF Looks, ConfigTypeOK
  <2> QED
    BY <1>1, <2>1 DEF LookTypeOK, Begin
<1>2. ASSUME NEW r \in Clients, Capture(r) PROVE LookTypeOK'
  <2>1. (Enabled(fingerprint) /\ fingerprint = look[r].version) \in BOOLEAN
    OBVIOUS
  <2>2. \A c \in BOOLEAN : [look[r] EXCEPT !.generation = generation, !.current = c] \in Looks
    BY DEF LookTypeOK, StoreTypeOK, Looks
  <2> QED
    BY <1>2, <2>1, <2>2 DEF LookTypeOK, Capture
<1>3. ASSUME NEW r \in Clients, MaybeCleanup(r) PROVE LookTypeOK'
  <2>1. PICK S, u : DeleteRows(S, u)
    BY <1>3 DEF MaybeCleanup
  <2>2. index' \in Tables /\ memory' \in Tables
    BY <2>1, DeleteRowsEffect
  <2> QED
    BY <1>3, <2>2 DEF LookTypeOK, MaybeCleanup
<1>4. ASSUME NEW r \in Clients, Lookup(r) PROVE LookTypeOK'
  <2>1. look[r] \in Looks /\ index[look[r].key] \in TokenOrNone /\ {} \in SUBSET TokenOrNone
    BY DEF LookTypeOK, Looks, Tables
  <2>2. [look[r] EXCEPT !.token = index[look[r].key], !.candidates = NoKeys, !.asof = {}] \in Looks
    BY <1>0, <2>1 DEF Looks
  <2>3. [look[r] EXCEPT !.asof = expired] \in Looks
    BY <2>1 DEF StoreTypeOK, Looks
  <2>4. CASE Loaded(r)
    BY <1>4, <2>2, <2>4 DEF LookTypeOK, Lookup, Resolve
  <2>5. CASE ~Loaded(r)
    BY <1>4, <2>3, <2>5 DEF LookTypeOK, Lookup
  <2> QED
    BY <2>4, <2>5
<1>5. ASSUME NEW r \in Clients, NEW ok \in BOOLEAN, ReadRows(r, ok) PROVE LookTypeOK'
  <2> DEFINE c == [k \in Keys |-> IF ok /\ rows[k] \notin look[r].asof THEN rows[k] ELSE 0]
  <2>1. c \in Tables
    BY SizeAssumption DEF StoreTypeOK, TokenOrNone, Tables
  <2> HIDE DEF c
  <2>2. [look[r] EXCEPT !.candidates = c] \in Looks
    BY <2>1 DEF LookTypeOK, Looks
  <2>3. look' = [look EXCEPT ![r] = [look[r] EXCEPT !.candidates = c]]
    BY <1>5 DEF ReadRows, c
  <2> QED
    BY <1>5, <2>2, <2>3 DEF LookTypeOK, ReadRows
<1>6. ASSUME NEW r \in Clients, StoreIndexed(r) PROVE LookTypeOK'
  <2> DEFINE c == look[r].candidates
  <2>1. look[r] \in Looks /\ c \in [Keys -> TokenOrNone] /\ c[look[r].key] \in TokenOrNone
        /\ {} \in SUBSET TokenOrNone
    BY DEF LookTypeOK, Looks, Tables
  <2>2. [look[r] EXCEPT !.token = c[look[r].key], !.candidates = NoKeys, !.asof = {}] \in Looks
    BY <1>0, <2>1 DEF Looks
  <2>3. index' \in Tables
    BY <1>6, <2>1 DEF LookTypeOK, StoreIndexed, Tables
  <2>4. /\ look' = [look EXCEPT ![r] = [look[r] EXCEPT !.token = c[look[r].key], !.candidates = NoKeys,
                                                       !.asof = {}]]
        /\ \E s \in Stages : stage' = [stage EXCEPT ![r] = s]
    BY <1>6 DEF StoreIndexed, Resolve
  <2> QED
    BY <1>6, <2>2, <2>3, <2>4 DEF LookTypeOK, StoreIndexed
<1>7. ASSUME NEW r \in Clients, Open(r) PROVE LookTypeOK'
  <2> DEFINE k == look[r].key
             body == IF memory[k] = look[r].token THEN memory[k] ELSE files[k]
  <2>1. look[r] \in Looks /\ k \in Keys /\ look[r].token \in TokenOrNone
    BY DEF LookTypeOK, Looks
  <2>2. body \in TokenOrNone
    <3>1. files[k] \in TokenOrNone
      BY <2>1, SizeAssumption DEF StoreTypeOK, TokenOrNone
    <3> QED
      BY <2>1, <3>1
  <2> HIDE DEF body
  <2>3. [NoLook EXCEPT !.key = k, !.token = look[r].token, !.body = body] \in Looks
    BY <2>1, <2>2, NoLookType DEF Looks
  <2>4. /\ \/ look' = look
           \/ look' = [look EXCEPT ![r] = [NoLook EXCEPT !.key = k, !.token = look[r].token,
                                                         !.body = body]]
        /\ \E s \in Stages : stage' = [stage EXCEPT ![r] = s]
    BY <1>7 DEF Open, body
  <2> QED
    BY <1>7, <2>3, <2>4 DEF LookTypeOK, Open
<1>8. ASSUME NEW r \in Clients, OpenFails(r) PROVE LookTypeOK'
  <2>1. [look[r] EXCEPT !.token = 0] \in Looks
    BY <1>0 DEF LookTypeOK, Looks
  <2> QED
    BY <1>8, <2>1 DEF LookTypeOK, OpenFails, Miss
<1>9. ASSUME NEW r \in Clients, Served(r) PROVE LookTypeOK'
  BY <1>9, NoLookType DEF LookTypeOK, Served
<1>10. ASSUME NEW r \in Clients, Invalidate(r) PROVE LookTypeOK'
  <2>1. [look[r] EXCEPT !.token = 0] \in Looks
    BY <1>0 DEF LookTypeOK, Looks
  <2>2. index' \in Tables /\ memory' \in Tables
    <3>1. look[r].key \in Keys
      BY DEF LookTypeOK, Looks
    <3> QED
      BY <1>10, <1>0, <3>1 DEF LookTypeOK, Tables, Invalidate
  <2> QED
    BY <1>10, <2>1, <2>2 DEF LookTypeOK, Invalidate, Miss
<1>11. ASSUME NEW r \in Clients, InvalidateFails(r) PROVE LookTypeOK'
  <2>1. [look[r] EXCEPT !.token = 0] \in Looks
    BY <1>0 DEF LookTypeOK, Looks
  <2> QED
    BY <1>11, <2>1 DEF LookTypeOK, InvalidateFails, Miss
<1>12. ASSUME NEW r \in Clients, Fetch(r) PROVE LookTypeOK'
  BY <1>12 DEF LookTypeOK, Fetch
<1>13. ASSUME NEW r \in Clients, Discard(r) PROVE LookTypeOK'
  BY <1>13, NoLookType DEF LookTypeOK, Discard, Drop
<1>14. ASSUME NEW r \in Clients, Rename(r) PROVE LookTypeOK'
  BY <1>14 DEF LookTypeOK, Rename
<1>15. ASSUME NEW r \in Clients, Upsert(r) PROVE LookTypeOK'
  BY <1>15 DEF LookTypeOK, Upsert
<1>16. ASSUME NEW r \in Clients, NEW left \in 0..MaxToken, UpsertFails(r, left)
      PROVE  LookTypeOK'
  BY <1>16, NoLookType DEF LookTypeOK, UpsertFails, Drop
<1>17. ASSUME NEW r \in Clients, Publish(r) PROVE LookTypeOK'
  <2>1. fill[r].token \in TokenOrNone /\ look[r].key \in Keys
    BY SizeAssumption DEF StoreTypeOK, TokenOrNone, Fills, LookTypeOK, Looks
  <2>2. index' \in Tables
    BY <1>17, <2>1 DEF LookTypeOK, Publish, Tables
  <2>3. memory' \in Tables
    <3>1. PutMemory(look[r].key, fill[r].token)
      BY <1>17 DEF Publish
    <3> QED
      BY <1>0, <2>1, <3>1 DEF PutMemory, LookTypeOK, Tables
  <2> QED
    BY <1>17, <2>2, <2>3, NoLookType DEF LookTypeOK, Publish, Drop
<1>18. ASSUME NEW S \in SUBSET Keys \ {{}}, Purge(S) PROVE LookTypeOK'
  BY <1>18, <1>0 DEF LookTypeOK, Purge, ClearIndex
<1>19. CASE PurgeRows
  <2>1. PICK S, u : DeleteRows(S, u)
    BY <1>19 DEF PurgeRows
  <2>2. index' \in Tables /\ memory' \in Tables
    BY <2>1, DeleteRowsEffect
  <2> QED
    BY <1>19, <2>2 DEF LookTypeOK, PurgeRows
<1>20. CASE PurgeFails
  BY <1>20 DEF LookTypeOK, PurgeFails
<1>21. CASE StorageUsage
  BY <1>21 DEF LookTypeOK, StorageUsage
<1>22. ASSUME NEW then \in {"purge", "keep", "delete"}, NEW on \in BOOLEAN, Change(then, on)
      PROVE  LookTypeOK'
  BY <1>22 DEF LookTypeOK, Change, Operation
<1>23. CASE InvalidateConfiguration
  BY <1>23, <1>0 DEF LookTypeOK, InvalidateConfiguration, ClearIndex
<1>24. CASE PurgeRule
  <2>1. PICK S, u : DeleteRows(S, u)
    BY <1>24 DEF PurgeRule
  <2>2. index' \in Tables /\ memory' \in Tables
    BY <2>1, DeleteRowsEffect
  <2> QED
    BY <1>24, <2>2 DEF LookTypeOK, PurgeRule
<1>25. CASE DeleteRule
  BY <1>25 DEF LookTypeOK, DeleteRule
<1>26. ASSUME NEW by \in {"admin", "other"}, Load(by) PROVE LookTypeOK'
  BY <1>26 DEF LookTypeOK, Load
<1>27. CASE Apply
  BY <1>27 DEF LookTypeOK, Apply
<1>28. CASE Reconcile
  BY <1>28, <1>0 DEF LookTypeOK, Reconcile, ClearIndex
<1>29. CASE NegativeExpires
  BY <1>29 DEF LookTypeOK, NegativeExpires
<1>30. ASSUME NEW t \in Tokens, Expire(t) PROVE LookTypeOK'
  BY <1>30 DEF LookTypeOK, Expire
<1>31. CASE Crash
  BY <1>31, <1>0, NoLookType DEF LookTypeOK, Crash, ClearIndex
<1>32. CASE UNCHANGED cacheVars
  BY <1>32 DEF LookTypeOK, cacheVars
<1> QED
  BY <1>1, <1>2, <1>3, <1>4, <1>5, <1>6, <1>7, <1>8, <1>9, <1>10, <1>11, <1>12, <1>13,
     <1>14, <1>15, <1>16, <1>17, <1>18, <1>19, <1>20, <1>21, <1>22, <1>23, <1>24,
     <1>25, <1>26, <1>27, <1>28, <1>29, <1>30, <1>31, <1>32
     DEF CacheNext, Handle, Operate

(* Every step keeps the types of the configuration and its changes. *)
LEMMA ConfigNext ==
    ConfigTypeOK /\ StoreTypeOK /\ [CacheNext]_cacheVars => ConfigTypeOK'
<1> SUFFICES ASSUME ConfigTypeOK, StoreTypeOK, [CacheNext]_cacheVars PROVE ConfigTypeOK'
  OBVIOUS
<1> USE SizeAssumption, CacheBoundAssumption
    DEF storeVars, memoryVars, configVars, adminVars, history, Versions, AdminOps
<1>1. ASSUME NEW r \in Clients, NEW k \in Keys, Begin(r, k) PROVE ConfigTypeOK'
  BY <1>1 DEF ConfigTypeOK, Begin
<1>2. ASSUME NEW r \in Clients, Capture(r) PROVE ConfigTypeOK'
  BY <1>2 DEF ConfigTypeOK, Capture
<1>3. ASSUME NEW r \in Clients, MaybeCleanup(r) PROVE ConfigTypeOK'
  BY <1>3 DEF ConfigTypeOK, MaybeCleanup, DeleteRows
<1>4. ASSUME NEW r \in Clients, Lookup(r) PROVE ConfigTypeOK'
  BY <1>4 DEF ConfigTypeOK, Lookup, Resolve
<1>5. ASSUME NEW r \in Clients, NEW ok \in BOOLEAN, ReadRows(r, ok) PROVE ConfigTypeOK'
  BY <1>5 DEF ConfigTypeOK, ReadRows
<1>6. ASSUME NEW r \in Clients, StoreIndexed(r) PROVE ConfigTypeOK'
  <2>1. negative' \in BOOLEAN
    <3>1. (Cardinality(Indexed) < MaxEntries) \in BOOLEAN /\ negative \in BOOLEAN
      BY DEF ConfigTypeOK
    <3>2. \/ negative' = FALSE
          \/ negative' = negative
          \/ negative' = (Cardinality(Indexed) < MaxEntries)
      BY <1>6 DEF StoreIndexed
    <3> QED
      BY <3>1, <3>2
  <2> QED
    BY <1>6, <2>1 DEF ConfigTypeOK, StoreIndexed
<1>7. ASSUME NEW r \in Clients, Open(r) PROVE ConfigTypeOK'
  BY <1>7 DEF ConfigTypeOK, Open, CurrentRow
<1>8. ASSUME NEW r \in Clients, OpenFails(r) PROVE ConfigTypeOK'
  BY <1>8 DEF ConfigTypeOK, OpenFails, Miss
<1>9. ASSUME NEW r \in Clients, Served(r) PROVE ConfigTypeOK'
  BY <1>9 DEF ConfigTypeOK, Served
<1>10. ASSUME NEW r \in Clients, Invalidate(r) PROVE ConfigTypeOK'
  BY <1>10 DEF ConfigTypeOK, Invalidate, Miss
<1>11. ASSUME NEW r \in Clients, InvalidateFails(r) PROVE ConfigTypeOK'
  BY <1>11 DEF ConfigTypeOK, InvalidateFails, Miss
<1>12. ASSUME NEW r \in Clients, Fetch(r) PROVE ConfigTypeOK'
  BY <1>12 DEF ConfigTypeOK, Fetch
<1>13. ASSUME NEW r \in Clients, Discard(r) PROVE ConfigTypeOK'
  BY <1>13 DEF ConfigTypeOK, Discard, Drop
<1>14. ASSUME NEW r \in Clients, Rename(r) PROVE ConfigTypeOK'
  BY <1>14 DEF ConfigTypeOK, Rename
<1>15. ASSUME NEW r \in Clients, Upsert(r) PROVE ConfigTypeOK'
  BY <1>15 DEF ConfigTypeOK, Upsert
<1>16. ASSUME NEW r \in Clients, NEW left \in 0..MaxToken, UpsertFails(r, left)
      PROVE  ConfigTypeOK'
  BY <1>16 DEF ConfigTypeOK, UpsertFails, Drop
<1>17. ASSUME NEW r \in Clients, Publish(r) PROVE ConfigTypeOK'
  BY <1>17 DEF ConfigTypeOK, Publish, Drop
<1>18. ASSUME NEW S \in SUBSET Keys \ {{}}, Purge(S) PROVE ConfigTypeOK'
  <2>1. negative' \in BOOLEAN
    BY <1>18 DEF Purge, ClearIndex
  <2>2. operations' \in 0..MaxOperations
    BY <1>18 DEF ConfigTypeOK, Purge, Operation
  <2> QED
    BY <1>18, <2>1, <2>2 DEF ConfigTypeOK, Purge
<1>19. CASE PurgeRows
  BY <1>19 DEF ConfigTypeOK, PurgeRows, DeleteRows
<1>20. CASE PurgeFails
  BY <1>20 DEF ConfigTypeOK, PurgeFails
<1>21. CASE StorageUsage
  BY <1>21 DEF ConfigTypeOK, StorageUsage
<1>22. ASSUME NEW then \in {"purge", "keep", "delete"}, NEW on \in BOOLEAN, Change(then, on)
      PROVE  ConfigTypeOK'
  <2>1. admin' = [op |-> "invalidate", then |-> then, generation |-> 0]
    BY <1>22 DEF Change
  <2>2. operations' \in 0..MaxOperations
    BY <1>22 DEF ConfigTypeOK, Change, Operation
  <2>3. CASE then = "delete"
    BY <1>22, <2>1, <2>2, <2>3 DEF ConfigTypeOK, Change
  <2>4. CASE then # "delete"
    <3>1. config[version] \in [on : BOOLEAN, rule : BOOLEAN]
      BY DEF ConfigTypeOK
    <3>2. [config[version] EXCEPT !.on = on] \in [on : BOOLEAN, rule : BOOLEAN]
      BY <3>1
    <3>3. version' = version + 1 /\ version' \in Versions
      BY <1>22, <2>4 DEF ConfigTypeOK, Change
    <3>4. config' = [config EXCEPT ![version + 1] = [config[version] EXCEPT !.on = on]]
      BY <1>22, <2>4 DEF Change
    <3>5. config' \in [Versions -> [on : BOOLEAN, rule : BOOLEAN]]
      BY <3>2, <3>4 DEF ConfigTypeOK
    <3> QED
      BY <1>22, <2>1, <2>2, <2>4, <3>3, <3>5 DEF ConfigTypeOK, Change
  <2> QED
    BY <2>3, <2>4
<1>23. CASE InvalidateConfiguration
  <2>1. generation' \in Nat
    BY <1>23 DEF StoreTypeOK, InvalidateConfiguration
  <2>2. admin' = [admin EXCEPT !.op = IF admin.then = "keep" THEN "refresh" ELSE "purge",
                               !.generation = generation']
    BY <1>23 DEF InvalidateConfiguration
  <2>3. /\ admin' \in [op : AdminOps, then : {"idle", "purge", "keep", "delete"}, generation : Nat]
        /\ admin'.then = admin.then /\ admin'.op \in {"refresh", "purge"}
    BY <2>1, <2>2 DEF ConfigTypeOK
  <2>4. negative' \in BOOLEAN
    BY <1>23 DEF InvalidateConfiguration, ClearIndex
  <2> QED
    BY <1>23, <2>3, <2>4 DEF ConfigTypeOK, InvalidateConfiguration
<1>24. CASE PurgeRule
  BY <1>24 DEF ConfigTypeOK, PurgeRule, DeleteRows
<1>25. CASE DeleteRule
  <2>1. version' = version + 1 /\ version' \in Versions
    BY <1>25 DEF ConfigTypeOK, DeleteRule
  <2>2. [config[version] EXCEPT !.rule = FALSE] \in [on : BOOLEAN, rule : BOOLEAN]
    BY DEF ConfigTypeOK
  <2>3. config' = [config EXCEPT ![version + 1] = [config[version] EXCEPT !.rule = FALSE]]
    BY <1>25 DEF DeleteRule
  <2>4. config' \in [Versions -> [on : BOOLEAN, rule : BOOLEAN]]
    BY <2>2, <2>3 DEF ConfigTypeOK
  <2>5. admin' = [admin EXCEPT !.op = "refresh"]
    BY <1>25 DEF DeleteRule
  <2>6. /\ admin' \in [op : AdminOps, then : {"idle", "purge", "keep", "delete"}, generation : Nat]
        /\ admin'.op = "refresh"
    BY <2>5 DEF ConfigTypeOK
  <2> QED
    BY <1>25, <2>1, <2>4, <2>6 DEF ConfigTypeOK, DeleteRule
<1>26. ASSUME NEW by \in {"admin", "other"}, Load(by) PROVE ConfigTypeOK'
  <2>1. refresh' = [by |-> by, version |-> version, applied |-> FALSE] /\ version \in 0..MaxVersion
    BY <1>26 DEF ConfigTypeOK, Load
  <2>2. operations' \in 0..MaxOperations
    BY <1>26 DEF ConfigTypeOK, Load, Operation
  <2> QED
    BY <1>26, <2>1, <2>2 DEF ConfigTypeOK, Load
<1>27. CASE Apply
  BY <1>27 DEF ConfigTypeOK, Apply
<1>28. CASE Reconcile
  <2>1. refresh' = [by |-> "nobody", version |-> 0, applied |-> FALSE]
    BY <1>28 DEF Reconcile
  <2>2. admin' \in {admin, [admin EXCEPT !.op = "idle"]}
    BY <1>28 DEF Reconcile
  <2>3. /\ admin' \in [op : AdminOps, then : {"idle", "purge", "keep", "delete"}, generation : Nat]
        /\ admin'.then = admin.then /\ admin'.op \in {admin.op, "idle"}
    BY <2>2 DEF ConfigTypeOK
  <2>4. fingerprint' \in 0..MaxVersion
    BY <1>28 DEF ConfigTypeOK, Reconcile
  <2>5. negative' \in BOOLEAN
    BY <1>28 DEF ConfigTypeOK, Reconcile, ClearIndex
  <2> QED
    BY <1>28, <2>1, <2>3, <2>4, <2>5 DEF ConfigTypeOK, Reconcile
<1>29. CASE NegativeExpires
  BY <1>29 DEF ConfigTypeOK, NegativeExpires
<1>30. ASSUME NEW t \in Tokens, Expire(t) PROVE ConfigTypeOK'
  BY <1>30 DEF ConfigTypeOK, Expire
<1>31. CASE Crash
  <2>1. refresh' = [by |-> "nobody", version |-> 0, applied |-> FALSE]
        /\ admin' = [admin EXCEPT !.op = "idle"]
    BY <1>31 DEF Crash
  <2>2. /\ admin' \in [op : AdminOps, then : {"idle", "purge", "keep", "delete"}, generation : Nat]
        /\ admin'.op = "idle"
    BY <2>1 DEF ConfigTypeOK
  <2>3. operations' \in 0..MaxOperations
    BY <1>31 DEF ConfigTypeOK, Crash, Operation
  <2>4. version' = version /\ snapshot' = version /\ fingerprint' = version /\ config' = config
    BY <1>31 DEF Crash
  <2>5. negative' \in BOOLEAN /\ cascaded' \in BOOLEAN
    BY <1>31 DEF Crash, ClearIndex
  <2> QED
    BY <2>1, <2>2, <2>3, <2>4, <2>5 DEF ConfigTypeOK
<1>32. CASE UNCHANGED cacheVars
  BY <1>32 DEF ConfigTypeOK, cacheVars
<1> QED
  BY <1>1, <1>2, <1>3, <1>4, <1>5, <1>6, <1>7, <1>8, <1>9, <1>10, <1>11, <1>12, <1>13,
     <1>14, <1>15, <1>16, <1>17, <1>18, <1>19, <1>20, <1>21, <1>22, <1>23, <1>24,
     <1>25, <1>26, <1>27, <1>28, <1>29, <1>30, <1>31, <1>32
     DEF CacheNext, Handle, Operate

-----------------------------------------------------------------------------
(* The inductive invariant.                                                *)

(* The stages in which a request keeps its digest's fence. *)
Holding == {"renamed", "upserted"}

(* The row of digest k is expired, and no lookup has found it: nobody      *)
(* will ever be served with it, whatever its file holds.                   *)
Doomed(k) ==
    /\ rows[k] \in expired
    /\ \A r \in Clients : look[r].key = k =>
          /\ stage[r] = "hit" => look[r].token # rows[k]
          /\ stage[r] = "read" => look[r].candidates[k] # rows[k]
          /\ stage[r] = "cold" => rows[k] \in look[r].asof

(* A body t under the path of digest k is the one the row describes, is a  *)
(* stray, or cannot be served.                                                       *)
Body(k, t) == rows[k] = 0 \/ t \in {0, rows[k]} \cup strays \/ Doomed(k)

(* A store excludes purges, and other stores of its digest. *)
FenceInv ==
    /\ \A r \in Clients : stage[r] \in Holding => gate = {}
    /\ \A r, s \in Clients : stage[r] \in Holding /\ stage[s] \in Holding
                                /\ look[r].key = look[s].key => r = s

(* Outside a store every body is in order.  Within one the row on disk is  *)
(* gone or expired until it is replaced, and the previous body, which a    *)
(* failed store puts back, is in order.                                    *)
BodyInv ==
    /\ \A k \in Keys : ~Fenced(k) => Body(k, files[k])
    /\ \A r \in Clients : stage[r] = "renamed" =>
          /\ rows[look[r].key] = 0 \/ rows[look[r].key] \in expired
          /\ Body(look[r].key, fill[r].backup)
    /\ \A r \in Clients : stage[r] = "upserted" => rows[look[r].key] \in {0, fill[r].token}
    /\ \A r \in Clients : stage[r] \in Holding => files[look[r].key] = fill[r].token

(* A hit names a response, and so does the invalidation of one. *)
HitInv == \A r \in Clients : stage[r] \in {"hit", "invalidate"} => look[r].token # 0

(* No purge is ahead of the generation, and the response of a store in     *)
(* flight was not begun before the last purge of its digest.               *)
PurgeInv ==
    /\ \A k \in Keys : boundary[k] <= generation
    /\ admin.op = "purge" => admin.generation <= generation
    /\ \A r \in Clients : stage[r] \in Holding =>
          fill[r].token \in Tokens /\ begun[fill[r].token] >= boundary[look[r].key]

(* A step that neither begins nor ends a store keeps the bodies in order   *)
(* when it changes a digest's row only to delete it, and lets no lookup    *)
(* find a doomed response.                                                 *)
LEMMA BodyKept ==
    ASSUME LookTypeOK, BodyInv,
           \A k \in Keys : rows'[k] = 0 \/ (rows'[k] = rows[k] /\ files'[k] = files[k]),
           expired \subseteq expired', strays \subseteq strays',
           \A s \in Clients : stage[s] \in Holding \/ stage'[s] \in Holding =>
               /\ stage'[s] = stage[s] /\ look'[s].key = look[s].key /\ fill'[s] = fill[s]
               /\ files'[look[s].key] = files[look[s].key],
           \A k \in Keys : rows'[k] # 0 /\ Doomed(k) => Doomed(k)'
    PROVE  BodyInv'
<1>1. \A s \in Clients : look[s].key \in Keys
  BY DEF LookTypeOK, Looks
<1>2. \A k \in Keys : Fenced(k)' <=> Fenced(k)
  BY DEF Fenced, Holding
<1>3. \A k \in Keys : \A t : Body(k, t) => Body(k, t)'
  BY DEF Body
<1>4. \A k \in Keys : ~Fenced(k)' => Body(k, files[k])
  BY <1>2 DEF BodyInv
<1>5. \A k \in Keys : ~Fenced(k)' => Body(k, files[k])'
  <2> SUFFICES ASSUME NEW k \in Keys, ~Fenced(k)' PROVE Body(k, files[k])'
    OBVIOUS
  <2>1. CASE rows'[k] = 0
    BY <2>1 DEF Body
  <2>2. CASE rows'[k] # 0
    <3>1. PICK t : t = files[k]
      OBVIOUS
    <3>2. Body(k, t)' /\ files'[k] = t
      BY <1>3, <1>4, <2>2, <3>1
    <3> QED
      BY <3>2 DEF Body
  <2> QED
    BY <2>1, <2>2
<1>6. ASSUME NEW r \in Clients, stage'[r] = "renamed"
      PROVE  /\ rows'[look'[r].key] = 0 \/ rows'[look'[r].key] \in expired'
             /\ Body(look[r].key, fill[r].backup)'
  <2>1. stage[r] = "renamed" /\ look'[r].key = look[r].key /\ fill'[r] = fill[r]
    BY <1>6 DEF Holding
  <2>2. Body(look[r].key, fill[r].backup) /\ (rows[look[r].key] = 0 \/ rows[look[r].key] \in expired)
    BY <2>1 DEF BodyInv
  <2>3. PICK k \in Keys : k = look[r].key
    BY <1>1
  <2>4. PICK b : b = fill[r].backup
    OBVIOUS
  <2>5. Body(k, b)'
    BY <1>3, <2>2, <2>3, <2>4
  <2>6. rows'[k] = 0 \/ rows'[k] \in expired'
    BY <2>2, <2>3
  <2> QED
    BY <2>1, <2>3, <2>4, <2>5, <2>6 DEF Body
<1>7. ASSUME NEW r \in Clients, stage'[r] \in Holding
      PROVE  /\ files'[look'[r].key] = fill'[r].token
             /\ stage'[r] = "upserted" => rows'[look'[r].key] \in {0, fill'[r].token}
  BY <1>1, <1>7 DEF BodyInv, Holding
<1>8. "upserted" \in Holding
  BY DEF Holding
<1> QED
  BY <1>5, <1>6, <1>7, <1>8 DEF BodyInv

(* Every step keeps the stores of one digest, and stores and purges, apart. *)
LEMMA FenceNext ==
    LookTypeOK /\ FenceInv /\ [CacheNext]_cacheVars => FenceInv'
<1> SUFFICES ASSUME LookTypeOK, FenceInv, [CacheNext]_cacheVars PROVE FenceInv'
  OBVIOUS
<1> USE DEF storeVars, memoryVars, configVars, adminVars, history, Goto, Looks, Holding,
            GateFree, FenceFree, Fenced
<1>1. ASSUME NEW r \in Clients, NEW k \in Keys, Begin(r, k) PROVE FenceInv'
  BY <1>1 DEF LookTypeOK, FenceInv, Begin
<1>2. ASSUME NEW r \in Clients, Capture(r) PROVE FenceInv'
  BY <1>2 DEF LookTypeOK, FenceInv, Capture
<1>3. ASSUME NEW r \in Clients, MaybeCleanup(r) PROVE FenceInv'
  BY <1>3 DEF LookTypeOK, FenceInv, MaybeCleanup, DeleteRows
<1>4. ASSUME NEW r \in Clients, Lookup(r) PROVE FenceInv'
  BY <1>4 DEF LookTypeOK, FenceInv, Lookup, Resolve
<1>5. ASSUME NEW r \in Clients, NEW ok \in BOOLEAN, ReadRows(r, ok) PROVE FenceInv'
  BY <1>5 DEF LookTypeOK, FenceInv, ReadRows
<1>6. ASSUME NEW r \in Clients, StoreIndexed(r) PROVE FenceInv'
  BY <1>6 DEF LookTypeOK, FenceInv, StoreIndexed, Resolve
<1>7. ASSUME NEW r \in Clients, Open(r) PROVE FenceInv'
  BY <1>7 DEF LookTypeOK, FenceInv, Open, CurrentRow
<1>8. ASSUME NEW r \in Clients, OpenFails(r) PROVE FenceInv'
  BY <1>8 DEF LookTypeOK, FenceInv, OpenFails, Miss
<1>9. ASSUME NEW r \in Clients, Served(r) PROVE FenceInv'
  BY <1>9 DEF LookTypeOK, FenceInv, Served
<1>10. ASSUME NEW r \in Clients, Invalidate(r) PROVE FenceInv'
  BY <1>10 DEF LookTypeOK, FenceInv, Invalidate, Miss
<1>11. ASSUME NEW r \in Clients, InvalidateFails(r) PROVE FenceInv'
  BY <1>11 DEF LookTypeOK, FenceInv, InvalidateFails, Miss
<1>12. ASSUME NEW r \in Clients, Fetch(r) PROVE FenceInv'
  BY <1>12 DEF LookTypeOK, FenceInv, Fetch
<1>13. ASSUME NEW r \in Clients, Discard(r) PROVE FenceInv'
  BY <1>13 DEF LookTypeOK, FenceInv, Discard, Drop
<1>14. ASSUME NEW r \in Clients, Rename(r) PROVE FenceInv'
  BY <1>14 DEF LookTypeOK, FenceInv, Rename
<1>15. ASSUME NEW r \in Clients, Upsert(r) PROVE FenceInv'
  BY <1>15 DEF LookTypeOK, FenceInv, Upsert
<1>16. ASSUME NEW r \in Clients, NEW left \in 0..MaxToken, UpsertFails(r, left)
      PROVE  FenceInv'
  BY <1>16 DEF LookTypeOK, FenceInv, UpsertFails, Drop
<1>17. ASSUME NEW r \in Clients, Publish(r) PROVE FenceInv'
  BY <1>17 DEF LookTypeOK, FenceInv, Publish, Drop
<1>18. ASSUME NEW S \in SUBSET Keys \ {{}}, Purge(S) PROVE FenceInv'
  BY <1>18 DEF LookTypeOK, FenceInv, Purge, Operation
<1>19. CASE PurgeRows
  BY <1>19 DEF LookTypeOK, FenceInv, PurgeRows, DeleteRows
<1>20. CASE PurgeFails
  BY <1>20 DEF LookTypeOK, FenceInv, PurgeFails
<1>21. CASE StorageUsage
  BY <1>21 DEF LookTypeOK, FenceInv, StorageUsage
<1>22. ASSUME NEW then \in {"purge", "keep", "delete"}, NEW on \in BOOLEAN, Change(then, on)
      PROVE  FenceInv'
  BY <1>22 DEF LookTypeOK, FenceInv, Change, Operation
<1>23. CASE InvalidateConfiguration
  BY <1>23 DEF LookTypeOK, FenceInv, InvalidateConfiguration
<1>24. CASE PurgeRule
  BY <1>24 DEF LookTypeOK, FenceInv, PurgeRule, DeleteRows
<1>25. CASE DeleteRule
  BY <1>25 DEF LookTypeOK, FenceInv, DeleteRule
<1>26. ASSUME NEW by \in {"admin", "other"}, Load(by) PROVE FenceInv'
  BY <1>26 DEF LookTypeOK, FenceInv, Load
<1>27. CASE Apply
  BY <1>27 DEF LookTypeOK, FenceInv, Apply
<1>28. CASE Reconcile
  BY <1>28 DEF LookTypeOK, FenceInv, Reconcile
<1>29. CASE NegativeExpires
  BY <1>29 DEF LookTypeOK, FenceInv, NegativeExpires
<1>30. ASSUME NEW t \in Tokens, Expire(t) PROVE FenceInv'
  BY <1>30 DEF LookTypeOK, FenceInv, Expire
<1>31. CASE Crash
  BY <1>31 DEF LookTypeOK, FenceInv, Crash, Operation
<1>32. CASE UNCHANGED cacheVars
  BY <1>32 DEF LookTypeOK, FenceInv, cacheVars
<1> QED
  BY <1>1, <1>2, <1>3, <1>4, <1>5, <1>6, <1>7, <1>8, <1>9, <1>10, <1>11, <1>12, <1>13,
     <1>14, <1>15, <1>16, <1>17, <1>18, <1>19, <1>20, <1>21, <1>22, <1>23, <1>24,
     <1>25, <1>26, <1>27, <1>28, <1>29, <1>30, <1>31, <1>32
     DEF CacheNext, Handle, Operate

(* Every step keeps the body files in order. *)
LEMMA BodyNext ==
    StoreTypeOK /\ LookTypeOK /\ FenceInv /\ BodyInv /\ [CacheNext]_cacheVars => BodyInv'
<1> SUFFICES ASSUME StoreTypeOK, LookTypeOK, FenceInv, BodyInv, [CacheNext]_cacheVars
             PROVE  BodyInv'
  OBVIOUS
<1> USE DEF storeVars, memoryVars, configVars, adminVars, history, Goto
<1>0. ASSUME UNCHANGED <<rows, files, expired, stage, look, fill, strays>> PROVE BodyInv'
  BY <1>0 DEF BodyInv, Body, Doomed, Fenced
<1>1. ASSUME NEW r \in Clients, NEW k \in Keys, Begin(r, k) PROVE BodyInv'
  <2>1. rows' = rows /\ files' = files /\ expired' = expired /\ strays' = strays
    BY <1>1 DEF Begin
  <2>2. \A s \in Clients : stage[s] \in Holding \/ stage'[s] \in Holding =>
           /\ stage'[s] = stage[s] /\ look'[s].key = look[s].key /\ fill'[s] = fill[s]
           /\ files'[look[s].key] = files[look[s].key]
    BY <1>1 DEF Begin, Holding, LookTypeOK, Looks, NoLook
  <2>3. \A j \in Keys : rows'[j] # 0 /\ Doomed(j) => Doomed(j)'
    BY <1>1, <2>1 DEF Begin, Doomed, LookTypeOK, Looks, NoLook
  <2> QED
    BY <2>1, <2>2, <2>3, BodyKept
<1>2. ASSUME NEW r \in Clients, Capture(r) PROVE BodyInv'
  <2>1. rows' = rows /\ files' = files /\ expired' = expired /\ strays' = strays
    BY <1>2 DEF Capture
  <2>2. \A s \in Clients : stage[s] \in Holding \/ stage'[s] \in Holding =>
           /\ stage'[s] = stage[s] /\ look'[s].key = look[s].key /\ fill'[s] = fill[s]
           /\ files'[look[s].key] = files[look[s].key]
    BY <1>2 DEF Capture, Holding, LookTypeOK, Looks
  <2>3. \A k \in Keys : rows'[k] # 0 /\ Doomed(k) => Doomed(k)'
    BY <1>2, <2>1 DEF Capture, Doomed, LookTypeOK, Looks
  <2> QED
    BY <2>1, <2>2, <2>3, BodyKept
<1>3. ASSUME NEW r \in Clients, MaybeCleanup(r) PROVE BodyInv'
  <2>1. PICK S, u : DeleteRows(S, u)
    BY <1>3 DEF MaybeCleanup
  <2>2. \A k \in Keys : rows'[k] = 0 \/ (rows'[k] = rows[k] /\ files'[k] = files[k])
    BY <2>1, DeleteRowsEffect
  <2>3. \A s \in Clients : stage[s] \notin Holding /\ stage'[s] \notin Holding
    BY <1>3 DEF MaybeCleanup, Holding, GateFree, Fenced, LookTypeOK, Looks, FenceInv
  <2>4. \A k \in Keys : rows'[k] # 0 /\ Doomed(k) => Doomed(k)'
    BY <1>3, <2>2 DEF MaybeCleanup, Doomed, LookTypeOK, Looks
  <2>5. expired' = expired /\ strays' = strays
    BY <1>3 DEF MaybeCleanup
  <2> QED
    BY <2>2, <2>3, <2>4, <2>5, BodyKept
<1>4. ASSUME NEW r \in Clients, Lookup(r) PROVE BodyInv'
  <2>1. rows' = rows /\ files' = files /\ expired' = expired /\ strays' = strays
    BY <1>4 DEF Lookup
  <2>2. \A s \in Clients : stage[s] \in Holding \/ stage'[s] \in Holding =>
           /\ stage'[s] = stage[s] /\ look'[s].key = look[s].key /\ fill'[s] = fill[s]
           /\ files'[look[s].key] = files[look[s].key]
    BY <1>4 DEF Lookup, Holding, LookTypeOK, Looks, Resolve
  <2>3. \A k \in Keys : rows'[k] # 0 /\ Doomed(k) => Doomed(k)'
    BY <1>4, <2>1 DEF Lookup, Doomed, LookTypeOK, Looks, Resolve
  <2> QED
    BY <2>1, <2>2, <2>3, BodyKept
<1>5. ASSUME NEW r \in Clients, NEW ok \in BOOLEAN, ReadRows(r, ok) PROVE BodyInv'
  <2>1. rows' = rows /\ files' = files /\ expired' = expired /\ strays' = strays
    BY <1>5 DEF ReadRows
  <2>2. \A s \in Clients : stage[s] \in Holding \/ stage'[s] \in Holding =>
           /\ stage'[s] = stage[s] /\ look'[s].key = look[s].key /\ fill'[s] = fill[s]
           /\ files'[look[s].key] = files[look[s].key]
    BY <1>5 DEF ReadRows, Holding, LookTypeOK, Looks
  <2>3. \A k \in Keys : rows'[k] # 0 /\ Doomed(k) => Doomed(k)'
    BY <1>5, <2>1 DEF ReadRows, Doomed, LookTypeOK, Looks
  <2> QED
    BY <2>1, <2>2, <2>3, BodyKept
<1>6. ASSUME NEW r \in Clients, StoreIndexed(r) PROVE BodyInv'
  <2>1. rows' = rows /\ files' = files /\ expired' = expired /\ strays' = strays
    BY <1>6 DEF StoreIndexed
  <2>2. \A s \in Clients : stage[s] \in Holding \/ stage'[s] \in Holding =>
           /\ stage'[s] = stage[s] /\ look'[s].key = look[s].key /\ fill'[s] = fill[s]
           /\ files'[look[s].key] = files[look[s].key]
    BY <1>6 DEF StoreIndexed, Holding, LookTypeOK, Looks, Resolve
  <2>3. \A k \in Keys : rows'[k] # 0 /\ Doomed(k) => Doomed(k)'
    BY <1>6, <2>1 DEF StoreIndexed, Doomed, LookTypeOK, Looks, Resolve
  <2> QED
    BY <2>1, <2>2, <2>3, BodyKept
<1>7. ASSUME NEW r \in Clients, Open(r) PROVE BodyInv'
  <2>1. rows' = rows /\ files' = files /\ expired' = expired /\ strays' = strays
    BY <1>7 DEF Open
  <2>2. \A s \in Clients : stage[s] \in Holding \/ stage'[s] \in Holding =>
           /\ stage'[s] = stage[s] /\ look'[s].key = look[s].key /\ fill'[s] = fill[s]
           /\ files'[look[s].key] = files[look[s].key]
    BY <1>7 DEF Open, Holding, LookTypeOK, Looks
  <2>3. \A k \in Keys : rows'[k] # 0 /\ Doomed(k) => Doomed(k)'
    BY <1>7, <2>1 DEF Open, Doomed, LookTypeOK, Looks
  <2> QED
    BY <2>1, <2>2, <2>3, BodyKept
<1>8. ASSUME NEW r \in Clients, OpenFails(r) PROVE BodyInv'
  <2>1. rows' = rows /\ files' = files /\ expired' = expired /\ strays' = strays
    BY <1>8 DEF OpenFails
  <2>2. \A s \in Clients : stage[s] \in Holding \/ stage'[s] \in Holding =>
           /\ stage'[s] = stage[s] /\ look'[s].key = look[s].key /\ fill'[s] = fill[s]
           /\ files'[look[s].key] = files[look[s].key]
    BY <1>8 DEF OpenFails, Holding, LookTypeOK, Looks, Miss
  <2>3. \A k \in Keys : rows'[k] # 0 /\ Doomed(k) => Doomed(k)'
    BY <1>8, <2>1 DEF OpenFails, Doomed, LookTypeOK, Looks, Miss
  <2> QED
    BY <2>1, <2>2, <2>3, BodyKept
<1>9. ASSUME NEW r \in Clients, Served(r) PROVE BodyInv'
  <2>1. rows' = rows /\ files' = files /\ expired' = expired /\ strays' = strays
    BY <1>9 DEF Served
  <2>2. \A s \in Clients : stage[s] \in Holding \/ stage'[s] \in Holding =>
           /\ stage'[s] = stage[s] /\ look'[s].key = look[s].key /\ fill'[s] = fill[s]
           /\ files'[look[s].key] = files[look[s].key]
    BY <1>9 DEF Served, Holding, LookTypeOK, Looks
  <2>3. \A k \in Keys : rows'[k] # 0 /\ Doomed(k) => Doomed(k)'
    BY <1>9, <2>1 DEF Served, Doomed, LookTypeOK, Looks
  <2> QED
    BY <2>1, <2>2, <2>3, BodyKept
<1>10. ASSUME NEW r \in Clients, Invalidate(r) PROVE BodyInv'
  <2>1. \A k \in Keys : rows'[k] = 0 \/ (rows'[k] = rows[k] /\ files'[k] = files[k])
    BY <1>10 DEF Invalidate, StoreTypeOK
  <2>2. \A s \in Clients : stage[s] \notin Holding /\ stage'[s] \notin Holding
    BY <1>10 DEF Invalidate, Miss, Holding, GateFree, Fenced, LookTypeOK, Looks
  <2>3. \A k \in Keys : rows'[k] # 0 /\ Doomed(k) => Doomed(k)'
    BY <1>10, <2>1 DEF Invalidate, Miss, Doomed, LookTypeOK, Looks
  <2>4. expired' = expired /\ strays' = strays
    BY <1>10 DEF Invalidate
  <2> QED
    BY <2>1, <2>2, <2>3, <2>4, BodyKept
<1>11. ASSUME NEW r \in Clients, InvalidateFails(r) PROVE BodyInv'
  <2>1. rows' = rows /\ files' = files /\ expired' = expired /\ strays' = strays
    BY <1>11 DEF InvalidateFails
  <2>2. \A s \in Clients : stage[s] \in Holding \/ stage'[s] \in Holding =>
           /\ stage'[s] = stage[s] /\ look'[s].key = look[s].key /\ fill'[s] = fill[s]
           /\ files'[look[s].key] = files[look[s].key]
    BY <1>11 DEF InvalidateFails, Holding, LookTypeOK, Looks, Miss
  <2>3. \A k \in Keys : rows'[k] # 0 /\ Doomed(k) => Doomed(k)'
    BY <1>11, <2>1 DEF InvalidateFails, Doomed, LookTypeOK, Looks, Miss
  <2> QED
    BY <2>1, <2>2, <2>3, BodyKept
<1>12. ASSUME NEW r \in Clients, Fetch(r) PROVE BodyInv'
  <2>1. rows' = rows /\ files' = files /\ expired' = expired /\ strays' = strays
    BY <1>12 DEF Fetch
  <2>2. \A s \in Clients : stage[s] \in Holding \/ stage'[s] \in Holding =>
           /\ stage'[s] = stage[s] /\ look'[s].key = look[s].key /\ fill'[s] = fill[s]
           /\ files'[look[s].key] = files[look[s].key]
    BY <1>12 DEF Fetch, Holding, LookTypeOK, Looks
  <2>3. \A k \in Keys : rows'[k] # 0 /\ Doomed(k) => Doomed(k)'
    BY <1>12, <2>1 DEF Fetch, Doomed, LookTypeOK, Looks
  <2> QED
    BY <2>1, <2>2, <2>3, BodyKept
<1>13. ASSUME NEW r \in Clients, Discard(r) PROVE BodyInv'
  <2>1. rows' = rows /\ files' = files /\ expired' = expired /\ strays' = strays
    BY <1>13 DEF Discard
  <2>2. \A s \in Clients : stage[s] \in Holding \/ stage'[s] \in Holding =>
           /\ stage'[s] = stage[s] /\ look'[s].key = look[s].key /\ fill'[s] = fill[s]
           /\ files'[look[s].key] = files[look[s].key]
    BY <1>13 DEF Discard, Holding, LookTypeOK, Looks, Drop
  <2>3. \A k \in Keys : rows'[k] # 0 /\ Doomed(k) => Doomed(k)'
    BY <1>13, <2>1 DEF Discard, Doomed, LookTypeOK, Looks, Drop
  <2> QED
    BY <2>1, <2>2, <2>3, BodyKept
<1>14. ASSUME NEW r \in Clients, Rename(r) PROVE BodyInv'
  <2>1. PICK k \in Keys : k = look[r].key
    BY DEF LookTypeOK, Looks
  <2>2. /\ stage[r] = "filling" /\ ~Fenced(k) /\ ~Fresh(k)
        /\ stage' = [stage EXCEPT ![r] = "renamed"]
        /\ UNCHANGED <<rows, expired, look, strays>>
    BY <1>14, <2>1 DEF Rename, FenceFree
  <2>3. /\ \A s \in Clients \ {r} : stage'[s] = stage[s] /\ fill'[s] = fill[s]
        /\ stage'[r] = "renamed"
        /\ fill'[r].backup = files[k] /\ fill'[r].token = lastStored'
        /\ files'[k] = lastStored' /\ \A j \in Keys \ {k} : files'[j] = files[j]
    BY <1>14, <2>1 DEF Rename, LookTypeOK, StoreTypeOK
  <2>4. \A j \in Keys : (Fenced(j)' <=> Fenced(j) \/ j = k) /\ (Doomed(j)' <=> Doomed(j))
    BY <2>1, <2>2, <2>3 DEF Fenced, Doomed
  <2>5. \A s \in Clients \ {r} : stage[s] \in Holding => look[s].key # k
    BY <2>2 DEF Fenced, Holding
  <2>6. /\ rows[k] = 0 \/ rows[k] \in expired
        /\ rows[k] = 0 \/ files[k] \in {0, rows[k]} \cup strays \/ Doomed(k)
    BY <2>2 DEF BodyInv, Body, Fresh
  <2>7. \A s \in Clients : look[s].key \in Keys
    BY DEF LookTypeOK, Looks
  <2>8. \A j \in Keys : ~Fenced(j)' => Body(j, files[j])'
    BY <2>2, <2>3, <2>4 DEF BodyInv, Body
  <2>9. ASSUME NEW s \in Clients, stage'[s] = "renamed"
        PROVE  /\ rows'[look'[s].key] = 0 \/ rows'[look'[s].key] \in expired'
               /\ Body(look[s].key, fill[s].backup)'
    <3>1. CASE s = r
      BY <2>1, <2>2, <2>3, <2>4, <2>6, <3>1 DEF Body
    <3>2. CASE s # r
      BY <2>2, <2>3, <2>4, <2>7, <2>9, <3>2 DEF Body, BodyInv
    <3> QED
      BY <3>1, <3>2
  <2>10. ASSUME NEW s \in Clients, stage'[s] \in Holding
         PROVE  /\ files'[look'[s].key] = fill'[s].token
                /\ stage'[s] = "upserted" => rows'[look'[s].key] \in {0, fill'[s].token}
    BY <2>1, <2>2, <2>3, <2>5, <2>7, <2>10 DEF BodyInv, Holding
  <2> QED
    BY <2>8, <2>9, <2>10 DEF BodyInv, Holding
<1>15. ASSUME NEW r \in Clients, Upsert(r) PROVE BodyInv'
  <2>1. PICK k \in Keys : k = look[r].key
    BY DEF LookTypeOK, Looks
  <2>2. /\ stage[r] = "renamed" /\ stage'[r] = "upserted"
        /\ \A s \in Clients \ {r} : stage'[s] = stage[s]
        /\ UNCHANGED <<files, expired, look, fill, strays>>
        /\ rows'[k] = fill[r].token /\ \A j \in Keys \ {k} : rows'[j] = rows[j]
    BY <1>15, <2>1 DEF Upsert, LookTypeOK, StoreTypeOK
  <2>3. \A s \in Clients \ {r} : stage[s] \in Holding => look[s].key \in Keys \ {k}
    BY <2>1, <2>2 DEF FenceInv, Holding, LookTypeOK, Looks
  <2>4. \A j \in Keys : (Fenced(j)' <=> Fenced(j)) /\ (j # k /\ Doomed(j) => Doomed(j)')
    BY <2>2 DEF Fenced, Doomed
  <2>5. Fenced(k)
    BY <2>1, <2>2 DEF Fenced
  <2>6. \A j \in Keys : ~Fenced(j)' => Body(j, files[j])'
    BY <2>2, <2>4, <2>5 DEF BodyInv, Body
  <2>7. \A s \in Clients : stage'[s] = "renamed" =>
           /\ rows'[look'[s].key] = 0 \/ rows'[look'[s].key] \in expired'
           /\ Body(look[s].key, fill[s].backup)'
    BY <2>2, <2>3, <2>4 DEF BodyInv, Body, Holding
  <2>8. \A s \in Clients : stage'[s] = "upserted" => rows'[look'[s].key] \in {0, fill'[s].token}
    BY <2>1, <2>2, <2>3 DEF BodyInv, Holding
  <2>9. \A s \in Clients : stage'[s] \in Holding => files'[look'[s].key] = fill'[s].token
    BY <2>1, <2>2 DEF BodyInv, Holding
  <2> QED
    BY <2>6, <2>7, <2>8, <2>9 DEF BodyInv
<1>16. ASSUME NEW r \in Clients, NEW left \in 0..MaxToken, UpsertFails(r, left)
      PROVE  BodyInv'
  <2>1. PICK k \in Keys : k = look[r].key
    BY DEF LookTypeOK, Looks
  <2>2. /\ stage[r] = "renamed" /\ stage'[r] = "idle"
        /\ \A s \in Clients \ {r} : stage'[s] = stage[s] /\ look'[s] = look[s] /\ fill'[s] = fill[s]
        /\ UNCHANGED <<rows, expired>> /\ strays \subseteq strays'
        /\ \A j \in Keys \ {k} : files'[j] = files[j]
    BY <1>16, <2>1 DEF UpsertFails, Drop, LookTypeOK, StoreTypeOK
  <2>3. \A s \in Clients \ {r} : stage[s] \in Holding => look[s].key \in Keys \ {k}
    BY <2>1, <2>2 DEF FenceInv, Holding, LookTypeOK, Looks
  <2>4. \A j \in Keys : (Fenced(j)' <=> Fenced(j) /\ j # k) /\ (Doomed(j) => Doomed(j)')
    BY <2>1, <2>2, <2>3 DEF Fenced, Doomed, Holding
  <2>5. Body(k, files[k])'
    <3>1. files'[k] \in {0, fill[r].backup} \cup strays'
      BY <1>16, <2>1 DEF UpsertFails, StoreTypeOK
    <3>2. Body(k, fill[r].backup)
      BY <2>1, <2>2 DEF BodyInv
    <3> QED
      BY <2>2, <2>4, <3>1, <3>2 DEF Body
  <2>6. \A j \in Keys : ~Fenced(j)' => Body(j, files[j])'
    BY <2>2, <2>4, <2>5 DEF BodyInv, Body
  <2>7. \A s \in Clients : stage'[s] = "renamed" =>
           /\ rows'[look'[s].key] = 0 \/ rows'[look'[s].key] \in expired'
           /\ Body(look[s].key, fill[s].backup)'
    BY <2>2, <2>3, <2>4 DEF BodyInv, Body, Holding
  <2>8. \A s \in Clients : stage'[s] = "upserted" => rows'[look'[s].key] \in {0, fill'[s].token}
    BY <2>2, <2>3 DEF BodyInv, Holding
  <2>9. \A s \in Clients : stage'[s] \in Holding => files'[look'[s].key] = fill'[s].token
    BY <2>2, <2>3 DEF BodyInv, Holding
  <2> QED
    BY <2>6, <2>7, <2>8, <2>9 DEF BodyInv
<1>17. ASSUME NEW r \in Clients, Publish(r) PROVE BodyInv'
  <2>1. PICK k \in Keys : k = look[r].key
    BY DEF LookTypeOK, Looks
  <2>2. /\ stage[r] = "upserted" /\ stage'[r] = "idle"
        /\ \A s \in Clients \ {r} : stage'[s] = stage[s] /\ look'[s] = look[s] /\ fill'[s] = fill[s]
        /\ UNCHANGED <<rows, expired, strays>>
        /\ \A j \in Keys \ {k} : files'[j] = files[j]
    BY <1>17, <2>1 DEF Publish, Drop, LookTypeOK, StoreTypeOK
  <2>3. \A s \in Clients \ {r} : stage[s] \in Holding => look[s].key \in Keys \ {k}
    BY <2>1, <2>2 DEF FenceInv, Holding, LookTypeOK, Looks
  <2>4. \A j \in Keys : (Fenced(j)' <=> Fenced(j) /\ j # k) /\ (Doomed(j) => Doomed(j)')
    BY <2>1, <2>2, <2>3 DEF Fenced, Doomed, Holding
  <2>5. Body(k, files[k])'
    <3>1. files'[k] = fill[r].token /\ rows'[k] \in {0, fill[r].token}
      BY <1>17, <2>1, <2>2 DEF Publish, BodyInv, Holding
    <3> QED
      BY <3>1 DEF Body
  <2>6. \A j \in Keys : ~Fenced(j)' => Body(j, files[j])'
    BY <2>2, <2>4, <2>5 DEF BodyInv, Body
  <2>7. \A s \in Clients : stage'[s] = "renamed" =>
           /\ rows'[look'[s].key] = 0 \/ rows'[look'[s].key] \in expired'
           /\ Body(look[s].key, fill[s].backup)'
    BY <2>2, <2>3, <2>4 DEF BodyInv, Body, Holding
  <2>8. \A s \in Clients : stage'[s] = "upserted" => rows'[look'[s].key] \in {0, fill'[s].token}
    BY <2>2, <2>3 DEF BodyInv, Holding
  <2>9. \A s \in Clients : stage'[s] \in Holding => files'[look'[s].key] = fill'[s].token
    BY <2>2, <2>3 DEF BodyInv, Holding
  <2> QED
    BY <2>6, <2>7, <2>8, <2>9 DEF BodyInv
<1>18. ASSUME NEW S \in SUBSET Keys \ {{}}, Purge(S) PROVE BodyInv'
  BY <1>18, <1>0 DEF Purge
<1>19. CASE PurgeRows
  <2>1. PICK S, u : DeleteRows(S, u)
    BY <1>19 DEF PurgeRows
  <2>2. \A k \in Keys : rows'[k] = 0 \/ (rows'[k] = rows[k] /\ files'[k] = files[k])
    BY <2>1, DeleteRowsEffect
  <2>3. \A s \in Clients : stage[s] \notin Holding /\ stage'[s] \notin Holding
    BY <1>19 DEF PurgeRows, Holding, GateFree, Fenced, LookTypeOK, Looks, FenceInv
  <2>4. \A k \in Keys : rows'[k] # 0 /\ Doomed(k) => Doomed(k)'
    BY <1>19, <2>2 DEF PurgeRows, Doomed, LookTypeOK, Looks
  <2>5. expired' = expired /\ strays' = strays
    BY <1>19 DEF PurgeRows
  <2> QED
    BY <2>2, <2>3, <2>4, <2>5, BodyKept
<1>20. CASE PurgeFails
  BY <1>20, <1>0 DEF PurgeFails
<1>21. CASE StorageUsage
  BY <1>21, <1>0 DEF StorageUsage
<1>22. ASSUME NEW then \in {"purge", "keep", "delete"}, NEW on \in BOOLEAN, Change(then, on)
      PROVE  BodyInv'
  BY <1>22, <1>0 DEF Change
<1>23. CASE InvalidateConfiguration
  BY <1>23, <1>0 DEF InvalidateConfiguration
<1>24. CASE PurgeRule
  <2>1. PICK S, u : DeleteRows(S, u)
    BY <1>24 DEF PurgeRule
  <2>2. \A k \in Keys : rows'[k] = 0 \/ (rows'[k] = rows[k] /\ files'[k] = files[k])
    BY <2>1, DeleteRowsEffect
  <2>3. \A s \in Clients : stage[s] \notin Holding /\ stage'[s] \notin Holding
    BY <1>24 DEF PurgeRule, Holding, GateFree, Fenced, LookTypeOK, Looks, FenceInv
  <2>4. \A k \in Keys : rows'[k] # 0 /\ Doomed(k) => Doomed(k)'
    BY <1>24, <2>2 DEF PurgeRule, Doomed, LookTypeOK, Looks
  <2>5. expired' = expired /\ strays' = strays
    BY <1>24 DEF PurgeRule
  <2> QED
    BY <2>2, <2>3, <2>4, <2>5, BodyKept
<1>25. CASE DeleteRule
  <2>1. UNCHANGED <<files, expired, stage, look, fill, strays>> /\ \A k \in Keys : rows'[k] = 0
    BY <1>25 DEF DeleteRule, NoKeys
  <2> QED
    BY <2>1, BodyKept
<1>26. ASSUME NEW by \in {"admin", "other"}, Load(by) PROVE BodyInv'
  BY <1>26, <1>0 DEF Load
<1>27. CASE Apply
  BY <1>27, <1>0 DEF Apply
<1>28. CASE Reconcile
  BY <1>28, <1>0 DEF Reconcile
<1>29. CASE NegativeExpires
  BY <1>29, <1>0 DEF NegativeExpires
<1>30. ASSUME NEW t \in Tokens, Expire(t) PROVE BodyInv'
  <2>1. UNCHANGED <<rows, files, stage, look, fill, strays>> /\ expired \subseteq expired'
    BY <1>30 DEF Expire
  <2>2. \A k \in Keys : Doomed(k) => Doomed(k)'
    BY <2>1 DEF Doomed
  <2> QED
    BY <2>1, <2>2, BodyKept
<1>31. CASE Crash
  <2>1. UNCHANGED <<rows, files, expired, strays>> /\ \A s \in Clients : stage'[s] = "idle"
    BY <1>31 DEF Crash
  <2>2. ASSUME NEW k \in Keys PROVE Body(k, files[k])'
    <3>1. rows[k] = 0 \/ files[k] \in {0, rows[k]} \cup strays \/ rows[k] \in expired
      <4>1. CASE Fenced(k)
        BY <4>1 DEF Fenced, BodyInv, Holding
      <4>2. CASE ~Fenced(k)
        BY <4>2 DEF BodyInv, Body, Doomed
      <4> QED
        BY <4>1, <4>2
    <3> QED
      BY <2>1, <3>1 DEF Body, Doomed
  <2> QED
    BY <2>1, <2>2 DEF BodyInv, Holding
<1>32. CASE UNCHANGED cacheVars
  BY <1>32, <1>0 DEF cacheVars
<1> QED
  BY <1>1, <1>2, <1>3, <1>4, <1>5, <1>6, <1>7, <1>8, <1>9, <1>10, <1>11, <1>12, <1>13,
     <1>14, <1>15, <1>16, <1>17, <1>18, <1>19, <1>20, <1>21, <1>22, <1>23, <1>24,
     <1>25, <1>26, <1>27, <1>28, <1>29, <1>30, <1>31, <1>32
     DEF CacheNext, Handle, Operate

(* Every step keeps the hits named. *)
LEMMA HitNext ==
    LookTypeOK /\ HitInv /\ [CacheNext]_cacheVars => HitInv'
<1> SUFFICES ASSUME LookTypeOK, HitInv, [CacheNext]_cacheVars PROVE HitInv'
  OBVIOUS
<1> USE DEF storeVars, memoryVars, configVars, adminVars, history, Goto, Looks
<1>1. ASSUME NEW r \in Clients, NEW k \in Keys, Begin(r, k) PROVE HitInv'
  BY <1>1 DEF LookTypeOK, HitInv, Begin
<1>2. ASSUME NEW r \in Clients, Capture(r) PROVE HitInv'
  BY <1>2 DEF LookTypeOK, HitInv, Capture
<1>3. ASSUME NEW r \in Clients, MaybeCleanup(r) PROVE HitInv'
  BY <1>3 DEF LookTypeOK, HitInv, MaybeCleanup, DeleteRows
<1>4. ASSUME NEW r \in Clients, Lookup(r) PROVE HitInv'
  BY <1>4 DEF LookTypeOK, HitInv, Lookup, Resolve
<1>5. ASSUME NEW r \in Clients, NEW ok \in BOOLEAN, ReadRows(r, ok) PROVE HitInv'
  BY <1>5 DEF LookTypeOK, HitInv, ReadRows
<1>6. ASSUME NEW r \in Clients, StoreIndexed(r) PROVE HitInv'
  BY <1>6 DEF LookTypeOK, HitInv, StoreIndexed, Resolve
<1>7. ASSUME NEW r \in Clients, Open(r) PROVE HitInv'
  BY <1>7 DEF LookTypeOK, HitInv, Open, CurrentRow
<1>8. ASSUME NEW r \in Clients, OpenFails(r) PROVE HitInv'
  BY <1>8 DEF LookTypeOK, HitInv, OpenFails, Miss
<1>9. ASSUME NEW r \in Clients, Served(r) PROVE HitInv'
  BY <1>9 DEF LookTypeOK, HitInv, Served
<1>10. ASSUME NEW r \in Clients, Invalidate(r) PROVE HitInv'
  BY <1>10 DEF LookTypeOK, HitInv, Invalidate, Miss
<1>11. ASSUME NEW r \in Clients, InvalidateFails(r) PROVE HitInv'
  BY <1>11 DEF LookTypeOK, HitInv, InvalidateFails, Miss
<1>12. ASSUME NEW r \in Clients, Fetch(r) PROVE HitInv'
  BY <1>12 DEF LookTypeOK, HitInv, Fetch
<1>13. ASSUME NEW r \in Clients, Discard(r) PROVE HitInv'
  BY <1>13 DEF LookTypeOK, HitInv, Discard, Drop
<1>14. ASSUME NEW r \in Clients, Rename(r) PROVE HitInv'
  BY <1>14 DEF LookTypeOK, HitInv, Rename
<1>15. ASSUME NEW r \in Clients, Upsert(r) PROVE HitInv'
  BY <1>15 DEF LookTypeOK, HitInv, Upsert
<1>16. ASSUME NEW r \in Clients, NEW left \in 0..MaxToken, UpsertFails(r, left)
      PROVE  HitInv'
  BY <1>16 DEF LookTypeOK, HitInv, UpsertFails, Drop
<1>17. ASSUME NEW r \in Clients, Publish(r) PROVE HitInv'
  BY <1>17 DEF LookTypeOK, HitInv, Publish, Drop
<1>18. ASSUME NEW S \in SUBSET Keys \ {{}}, Purge(S) PROVE HitInv'
  BY <1>18 DEF LookTypeOK, HitInv, Purge, Operation
<1>19. CASE PurgeRows
  BY <1>19 DEF LookTypeOK, HitInv, PurgeRows, DeleteRows
<1>20. CASE PurgeFails
  BY <1>20 DEF LookTypeOK, HitInv, PurgeFails
<1>21. CASE StorageUsage
  BY <1>21 DEF LookTypeOK, HitInv, StorageUsage
<1>22. ASSUME NEW then \in {"purge", "keep", "delete"}, NEW on \in BOOLEAN, Change(then, on)
      PROVE  HitInv'
  BY <1>22 DEF LookTypeOK, HitInv, Change, Operation
<1>23. CASE InvalidateConfiguration
  BY <1>23 DEF LookTypeOK, HitInv, InvalidateConfiguration
<1>24. CASE PurgeRule
  BY <1>24 DEF LookTypeOK, HitInv, PurgeRule, DeleteRows
<1>25. CASE DeleteRule
  BY <1>25 DEF LookTypeOK, HitInv, DeleteRule
<1>26. ASSUME NEW by \in {"admin", "other"}, Load(by) PROVE HitInv'
  BY <1>26 DEF LookTypeOK, HitInv, Load
<1>27. CASE Apply
  BY <1>27 DEF LookTypeOK, HitInv, Apply
<1>28. CASE Reconcile
  BY <1>28 DEF LookTypeOK, HitInv, Reconcile
<1>29. CASE NegativeExpires
  BY <1>29 DEF LookTypeOK, HitInv, NegativeExpires
<1>30. ASSUME NEW t \in Tokens, Expire(t) PROVE HitInv'
  BY <1>30 DEF LookTypeOK, HitInv, Expire
<1>31. CASE Crash
  BY <1>31 DEF LookTypeOK, HitInv, Crash, Operation
<1>32. CASE UNCHANGED cacheVars
  BY <1>32 DEF LookTypeOK, HitInv, cacheVars
<1> QED
  BY <1>1, <1>2, <1>3, <1>4, <1>5, <1>6, <1>7, <1>8, <1>9, <1>10, <1>11, <1>12, <1>13,
     <1>14, <1>15, <1>16, <1>17, <1>18, <1>19, <1>20, <1>21, <1>22, <1>23, <1>24,
     <1>25, <1>26, <1>27, <1>28, <1>29, <1>30, <1>31, <1>32
     DEF CacheNext, Handle, Operate

(* Every step keeps the stores in flight newer than the purges. *)
LEMMA PurgeNext ==
    StoreTypeOK /\ LookTypeOK /\ FenceInv /\ PurgeInv /\ [CacheNext]_cacheVars => PurgeInv'
<1> SUFFICES ASSUME StoreTypeOK, LookTypeOK, FenceInv, PurgeInv, [CacheNext]_cacheVars
             PROVE  PurgeInv'
  OBVIOUS
<1> USE DEF storeVars, memoryVars, configVars, adminVars, history, Goto, Looks, Holding,
            GateFree, FenceFree, Fenced, GenerationMatches
<1>1. ASSUME NEW r \in Clients, NEW k \in Keys, Begin(r, k) PROVE PurgeInv'
  BY <1>1 DEF StoreTypeOK, LookTypeOK, FenceInv, PurgeInv, Begin
<1>2. ASSUME NEW r \in Clients, Capture(r) PROVE PurgeInv'
  BY <1>2 DEF StoreTypeOK, LookTypeOK, FenceInv, PurgeInv, Capture
<1>3. ASSUME NEW r \in Clients, MaybeCleanup(r) PROVE PurgeInv'
  BY <1>3 DEF StoreTypeOK, LookTypeOK, FenceInv, PurgeInv, MaybeCleanup, DeleteRows
<1>4. ASSUME NEW r \in Clients, Lookup(r) PROVE PurgeInv'
  BY <1>4 DEF StoreTypeOK, LookTypeOK, FenceInv, PurgeInv, Lookup, Resolve
<1>5. ASSUME NEW r \in Clients, NEW ok \in BOOLEAN, ReadRows(r, ok) PROVE PurgeInv'
  BY <1>5 DEF StoreTypeOK, LookTypeOK, FenceInv, PurgeInv, ReadRows
<1>6. ASSUME NEW r \in Clients, StoreIndexed(r) PROVE PurgeInv'
  BY <1>6 DEF StoreTypeOK, LookTypeOK, FenceInv, PurgeInv, StoreIndexed, Resolve
<1>7. ASSUME NEW r \in Clients, Open(r) PROVE PurgeInv'
  BY <1>7 DEF StoreTypeOK, LookTypeOK, FenceInv, PurgeInv, Open, CurrentRow
<1>8. ASSUME NEW r \in Clients, OpenFails(r) PROVE PurgeInv'
  BY <1>8 DEF StoreTypeOK, LookTypeOK, FenceInv, PurgeInv, OpenFails, Miss
<1>9. ASSUME NEW r \in Clients, Served(r) PROVE PurgeInv'
  BY <1>9 DEF StoreTypeOK, LookTypeOK, FenceInv, PurgeInv, Served
<1>10. ASSUME NEW r \in Clients, Invalidate(r) PROVE PurgeInv'
  BY <1>10 DEF StoreTypeOK, LookTypeOK, FenceInv, PurgeInv, Invalidate, Miss
<1>11. ASSUME NEW r \in Clients, InvalidateFails(r) PROVE PurgeInv'
  BY <1>11 DEF StoreTypeOK, LookTypeOK, FenceInv, PurgeInv, InvalidateFails, Miss
<1>12. ASSUME NEW r \in Clients, Fetch(r) PROVE PurgeInv'
  BY <1>12 DEF StoreTypeOK, LookTypeOK, FenceInv, PurgeInv, Fetch
<1>13. ASSUME NEW r \in Clients, Discard(r) PROVE PurgeInv'
  BY <1>13 DEF StoreTypeOK, LookTypeOK, FenceInv, PurgeInv, Discard, Drop
<1>14. ASSUME NEW r \in Clients, Rename(r) PROVE PurgeInv'
  <2>1. lastStored' = lastStored + 1 /\ lastStored' \in Tokens
    BY <1>14, SizeAssumption DEF Rename, StoreTypeOK, Tokens, TokenOrNone
  <2>2. /\ look' = look /\ boundary' = boundary /\ generation' = generation /\ admin' = admin
        /\ look[r].generation = generation /\ look[r].key \in Keys
    BY <1>14 DEF Rename, LookTypeOK
  <2>3. /\ fill'[r].token = lastStored' /\ begun'[lastStored'] = generation
        /\ \A t \in Tokens \ {lastStored'} : begun'[t] = begun[t]
        /\ \A s \in Clients \ {r} : fill'[s] = fill[s] /\ stage'[s] = stage[s]
    BY <1>14, <2>1, <2>2 DEF Rename, StoreTypeOK, LookTypeOK
  <2>4. \A s \in Clients : fill[s].token # lastStored'
    BY <2>1 DEF StoreTypeOK, Fills, TokenOrNone
  <2>5. ASSUME NEW s \in Clients, stage'[s] \in Holding
        PROVE  fill'[s].token \in Tokens /\ begun'[fill'[s].token] >= boundary'[look'[s].key]
    <3>1. CASE s = r
      BY <2>1, <2>2, <2>3, <3>1 DEF PurgeInv, StoreTypeOK
    <3>2. CASE s # r
      BY <2>2, <2>3, <2>4, <2>5, <3>2 DEF PurgeInv
    <3> QED
      BY <3>1, <3>2
  <2> QED
    BY <2>2, <2>5 DEF PurgeInv
<1>15. ASSUME NEW r \in Clients, Upsert(r) PROVE PurgeInv'
  BY <1>15 DEF StoreTypeOK, LookTypeOK, FenceInv, PurgeInv, Upsert
<1>16. ASSUME NEW r \in Clients, NEW left \in 0..MaxToken, UpsertFails(r, left)
      PROVE  PurgeInv'
  BY <1>16 DEF StoreTypeOK, LookTypeOK, FenceInv, PurgeInv, UpsertFails, Drop
<1>17. ASSUME NEW r \in Clients, Publish(r) PROVE PurgeInv'
  BY <1>17 DEF StoreTypeOK, LookTypeOK, FenceInv, PurgeInv, Publish, Drop
<1>18. ASSUME NEW S \in SUBSET Keys \ {{}}, Purge(S) PROVE PurgeInv'
  BY <1>18 DEF StoreTypeOK, LookTypeOK, FenceInv, PurgeInv, Purge, Operation
<1>19. CASE PurgeRows
  BY <1>19 DEF StoreTypeOK, LookTypeOK, FenceInv, PurgeInv, PurgeRows, DeleteRows
<1>20. CASE PurgeFails
  BY <1>20 DEF StoreTypeOK, LookTypeOK, FenceInv, PurgeInv, PurgeFails
<1>21. CASE StorageUsage
  BY <1>21 DEF StoreTypeOK, LookTypeOK, FenceInv, PurgeInv, StorageUsage
<1>22. ASSUME NEW then \in {"purge", "keep", "delete"}, NEW on \in BOOLEAN, Change(then, on)
      PROVE  PurgeInv'
  BY <1>22 DEF StoreTypeOK, LookTypeOK, FenceInv, PurgeInv, Change, Operation
<1>23. CASE InvalidateConfiguration
  BY <1>23 DEF StoreTypeOK, LookTypeOK, FenceInv, PurgeInv, InvalidateConfiguration
<1>24. CASE PurgeRule
  BY <1>24 DEF StoreTypeOK, LookTypeOK, FenceInv, PurgeInv, PurgeRule, DeleteRows
<1>25. CASE DeleteRule
  BY <1>25 DEF StoreTypeOK, LookTypeOK, FenceInv, PurgeInv, DeleteRule
<1>26. ASSUME NEW by \in {"admin", "other"}, Load(by) PROVE PurgeInv'
  BY <1>26 DEF StoreTypeOK, LookTypeOK, FenceInv, PurgeInv, Load
<1>27. CASE Apply
  BY <1>27 DEF StoreTypeOK, LookTypeOK, FenceInv, PurgeInv, Apply
<1>28. CASE Reconcile
  BY <1>28 DEF StoreTypeOK, LookTypeOK, FenceInv, PurgeInv, Reconcile
<1>29. CASE NegativeExpires
  BY <1>29 DEF StoreTypeOK, LookTypeOK, FenceInv, PurgeInv, NegativeExpires
<1>30. ASSUME NEW t \in Tokens, Expire(t) PROVE PurgeInv'
  BY <1>30 DEF StoreTypeOK, LookTypeOK, FenceInv, PurgeInv, Expire
<1>31. CASE Crash
  BY <1>31 DEF StoreTypeOK, LookTypeOK, FenceInv, PurgeInv, Crash, Operation
<1>32. CASE UNCHANGED cacheVars
  BY <1>32 DEF StoreTypeOK, LookTypeOK, FenceInv, PurgeInv, cacheVars
<1> QED
  BY <1>1, <1>2, <1>3, <1>4, <1>5, <1>6, <1>7, <1>8, <1>9, <1>10, <1>11, <1>12, <1>13,
     <1>14, <1>15, <1>16, <1>17, <1>18, <1>19, <1>20, <1>21, <1>22, <1>23, <1>24,
     <1>25, <1>26, <1>27, <1>28, <1>29, <1>30, <1>31, <1>32
     DEF CacheNext, Handle, Operate

(* Every step keeps PurgedStaysPurged. *)
LEMMA PurgedNext ==
    StoreTypeOK /\ LookTypeOK /\ FenceInv /\ PurgeInv /\ PurgedStaysPurged /\ [CacheNext]_cacheVars
        => PurgedStaysPurged'
<1> SUFFICES ASSUME StoreTypeOK, LookTypeOK, FenceInv, PurgeInv, PurgedStaysPurged,
                    [CacheNext]_cacheVars
             PROVE  PurgedStaysPurged'
  OBVIOUS
<1> USE DEF storeVars, memoryVars, configVars, adminVars, history, Holding, GateFree,
            FenceFree, Fenced, GenerationMatches, NoKeys
<1>1. ASSUME NEW r \in Clients, NEW k \in Keys, Begin(r, k) PROVE PurgedStaysPurged'
  BY <1>1 DEF StoreTypeOK, LookTypeOK, FenceInv, PurgeInv, PurgedStaysPurged, Begin
<1>2. ASSUME NEW r \in Clients, Capture(r) PROVE PurgedStaysPurged'
  BY <1>2 DEF StoreTypeOK, LookTypeOK, FenceInv, PurgeInv, PurgedStaysPurged, Capture
<1>3. ASSUME NEW r \in Clients, MaybeCleanup(r) PROVE PurgedStaysPurged'
  BY <1>3
     DEF StoreTypeOK, LookTypeOK, FenceInv, PurgeInv, PurgedStaysPurged, MaybeCleanup,
         DeleteRows
<1>4. ASSUME NEW r \in Clients, Lookup(r) PROVE PurgedStaysPurged'
  BY <1>4 DEF StoreTypeOK, LookTypeOK, FenceInv, PurgeInv, PurgedStaysPurged, Lookup, Resolve
<1>5. ASSUME NEW r \in Clients, NEW ok \in BOOLEAN, ReadRows(r, ok) PROVE PurgedStaysPurged'
  BY <1>5 DEF StoreTypeOK, LookTypeOK, FenceInv, PurgeInv, PurgedStaysPurged, ReadRows
<1>6. ASSUME NEW r \in Clients, StoreIndexed(r) PROVE PurgedStaysPurged'
  BY <1>6
     DEF StoreTypeOK, LookTypeOK, FenceInv, PurgeInv, PurgedStaysPurged, StoreIndexed, Resolve
<1>7. ASSUME NEW r \in Clients, Open(r) PROVE PurgedStaysPurged'
  BY <1>7 DEF StoreTypeOK, LookTypeOK, FenceInv, PurgeInv, PurgedStaysPurged, Open, CurrentRow
<1>8. ASSUME NEW r \in Clients, OpenFails(r) PROVE PurgedStaysPurged'
  BY <1>8 DEF StoreTypeOK, LookTypeOK, FenceInv, PurgeInv, PurgedStaysPurged, OpenFails, Miss
<1>9. ASSUME NEW r \in Clients, Served(r) PROVE PurgedStaysPurged'
  BY <1>9 DEF StoreTypeOK, LookTypeOK, FenceInv, PurgeInv, PurgedStaysPurged, Served
<1>10. ASSUME NEW r \in Clients, Invalidate(r) PROVE PurgedStaysPurged'
  BY <1>10 DEF StoreTypeOK, LookTypeOK, FenceInv, PurgeInv, PurgedStaysPurged, Invalidate, Miss
<1>11. ASSUME NEW r \in Clients, InvalidateFails(r) PROVE PurgedStaysPurged'
  BY <1>11
     DEF StoreTypeOK, LookTypeOK, FenceInv, PurgeInv, PurgedStaysPurged, InvalidateFails, Miss
<1>12. ASSUME NEW r \in Clients, Fetch(r) PROVE PurgedStaysPurged'
  BY <1>12 DEF StoreTypeOK, LookTypeOK, FenceInv, PurgeInv, PurgedStaysPurged, Fetch
<1>13. ASSUME NEW r \in Clients, Discard(r) PROVE PurgedStaysPurged'
  BY <1>13 DEF StoreTypeOK, LookTypeOK, FenceInv, PurgeInv, PurgedStaysPurged, Discard, Drop
<1>14. ASSUME NEW r \in Clients, Rename(r) PROVE PurgedStaysPurged'
  BY <1>14 DEF StoreTypeOK, LookTypeOK, FenceInv, PurgeInv, PurgedStaysPurged, Rename
<1>15. ASSUME NEW r \in Clients, Upsert(r) PROVE PurgedStaysPurged'
  BY <1>15 DEF StoreTypeOK, LookTypeOK, FenceInv, PurgeInv, PurgedStaysPurged, Upsert
<1>16. ASSUME NEW r \in Clients, NEW left \in 0..MaxToken, UpsertFails(r, left)
      PROVE  PurgedStaysPurged'
  BY <1>16
     DEF StoreTypeOK, LookTypeOK, FenceInv, PurgeInv, PurgedStaysPurged, UpsertFails, Drop
<1>17. ASSUME NEW r \in Clients, Publish(r) PROVE PurgedStaysPurged'
  BY <1>17 DEF StoreTypeOK, LookTypeOK, FenceInv, PurgeInv, PurgedStaysPurged, Publish, Drop
<1>18. ASSUME NEW S \in SUBSET Keys \ {{}}, Purge(S) PROVE PurgedStaysPurged'
  BY <1>18 DEF StoreTypeOK, LookTypeOK, FenceInv, PurgeInv, PurgedStaysPurged, Purge, Operation
<1>19. CASE PurgeRows
  <2>1. PICK S, u : DeleteRows(S, u) /\ gate \subseteq S
    BY <1>19 DEF PurgeRows, PurgeRule
  <2>2. \A k \in Keys : rows'[k] = IF k \in S THEN 0 ELSE rows[k]
    BY <2>1, DeleteRowsEffect
  <2>3. begun' = begun /\ \A k \in Keys \ S : boundary'[k] = boundary[k]
    BY <1>19, <2>1 DEF PurgeRows, PurgeRule
  <2> QED
    BY <2>2, <2>3 DEF PurgedStaysPurged
<1>20. CASE PurgeFails
  BY <1>20 DEF StoreTypeOK, LookTypeOK, FenceInv, PurgeInv, PurgedStaysPurged, PurgeFails
<1>21. CASE StorageUsage
  BY <1>21 DEF StoreTypeOK, LookTypeOK, FenceInv, PurgeInv, PurgedStaysPurged, StorageUsage
<1>22. ASSUME NEW then \in {"purge", "keep", "delete"}, NEW on \in BOOLEAN, Change(then, on)
      PROVE  PurgedStaysPurged'
  BY <1>22
     DEF StoreTypeOK, LookTypeOK, FenceInv, PurgeInv, PurgedStaysPurged, Change, Operation
<1>23. CASE InvalidateConfiguration
  BY <1>23
     DEF StoreTypeOK, LookTypeOK, FenceInv, PurgeInv, PurgedStaysPurged,
         InvalidateConfiguration
<1>24. CASE PurgeRule
  <2>1. PICK S, u : DeleteRows(S, u) /\ Keys \subseteq S
    BY <1>24 DEF PurgeRows, PurgeRule
  <2>2. \A k \in Keys : rows'[k] = IF k \in S THEN 0 ELSE rows[k]
    BY <2>1, DeleteRowsEffect
  <2>3. begun' = begun /\ \A k \in Keys \ S : boundary'[k] = boundary[k]
    BY <1>24, <2>1 DEF PurgeRows, PurgeRule
  <2> QED
    BY <2>2, <2>3 DEF PurgedStaysPurged
<1>25. CASE DeleteRule
  BY <1>25 DEF StoreTypeOK, LookTypeOK, FenceInv, PurgeInv, PurgedStaysPurged, DeleteRule
<1>26. ASSUME NEW by \in {"admin", "other"}, Load(by) PROVE PurgedStaysPurged'
  BY <1>26 DEF StoreTypeOK, LookTypeOK, FenceInv, PurgeInv, PurgedStaysPurged, Load
<1>27. CASE Apply
  BY <1>27 DEF StoreTypeOK, LookTypeOK, FenceInv, PurgeInv, PurgedStaysPurged, Apply
<1>28. CASE Reconcile
  BY <1>28 DEF StoreTypeOK, LookTypeOK, FenceInv, PurgeInv, PurgedStaysPurged, Reconcile
<1>29. CASE NegativeExpires
  BY <1>29 DEF StoreTypeOK, LookTypeOK, FenceInv, PurgeInv, PurgedStaysPurged, NegativeExpires
<1>30. ASSUME NEW t \in Tokens, Expire(t) PROVE PurgedStaysPurged'
  BY <1>30 DEF StoreTypeOK, LookTypeOK, FenceInv, PurgeInv, PurgedStaysPurged, Expire
<1>31. CASE Crash
  BY <1>31 DEF StoreTypeOK, LookTypeOK, FenceInv, PurgeInv, PurgedStaysPurged, Crash, Operation
<1>32. CASE UNCHANGED cacheVars
  BY <1>32 DEF StoreTypeOK, LookTypeOK, FenceInv, PurgeInv, PurgedStaysPurged, cacheVars
<1> QED
  BY <1>1, <1>2, <1>3, <1>4, <1>5, <1>6, <1>7, <1>8, <1>9, <1>10, <1>11, <1>12, <1>13,
     <1>14, <1>15, <1>16, <1>17, <1>18, <1>19, <1>20, <1>21, <1>22, <1>23, <1>24,
     <1>25, <1>26, <1>27, <1>28, <1>29, <1>30, <1>31, <1>32
     DEF CacheNext, Handle, Operate

(* Every step keeps BodyMatchesHeaders. *)
LEMMA ServedNext ==
    StoreTypeOK /\ LookTypeOK /\ BodyInv /\ HitInv /\ BodyMatchesHeaders /\ [CacheNext]_cacheVars
        => BodyMatchesHeaders'
<1> SUFFICES ASSUME StoreTypeOK, LookTypeOK, BodyInv, HitInv, BodyMatchesHeaders,
                    [CacheNext]_cacheVars
             PROVE  BodyMatchesHeaders'
  OBVIOUS
<1> USE DEF storeVars, memoryVars, configVars, adminVars, history, Goto, Looks
<1>1. ASSUME NEW r \in Clients, NEW k \in Keys, Begin(r, k) PROVE BodyMatchesHeaders'
  BY <1>1 DEF LookTypeOK, BodyMatchesHeaders, Begin
<1>2. ASSUME NEW r \in Clients, Capture(r) PROVE BodyMatchesHeaders'
  BY <1>2 DEF LookTypeOK, BodyMatchesHeaders, Capture
<1>3. ASSUME NEW r \in Clients, MaybeCleanup(r) PROVE BodyMatchesHeaders'
  BY <1>3 DEF LookTypeOK, BodyMatchesHeaders, MaybeCleanup, DeleteRows
<1>4. ASSUME NEW r \in Clients, Lookup(r) PROVE BodyMatchesHeaders'
  BY <1>4 DEF LookTypeOK, BodyMatchesHeaders, Lookup, Resolve
<1>5. ASSUME NEW r \in Clients, NEW ok \in BOOLEAN, ReadRows(r, ok) PROVE BodyMatchesHeaders'
  BY <1>5 DEF LookTypeOK, BodyMatchesHeaders, ReadRows
<1>6. ASSUME NEW r \in Clients, StoreIndexed(r) PROVE BodyMatchesHeaders'
  BY <1>6 DEF LookTypeOK, BodyMatchesHeaders, StoreIndexed, Resolve
<1>7. ASSUME NEW r \in Clients, Open(r) PROVE BodyMatchesHeaders'
  <2>1. PICK k \in Keys : k = look[r].key
    BY DEF LookTypeOK
  <2>2. CASE stage'[r] = "served"
    <3> DEFINE body == IF memory[k] = look[r].token THEN memory[k] ELSE files[k]
    <3>1. /\ stage[r] = "hit" /\ ~Fenced(k) /\ rows[k] = look[r].token /\ body # 0
          /\ look' = [look EXCEPT ![r] = [NoLook EXCEPT !.key = k, !.token = look[r].token, !.body = body]]
      BY <1>7, <2>1, <2>2 DEF Open, FenceFree, CurrentRow, LookTypeOK
    <3>2. look[r].token # 0 => body \in {look[r].token} \cup strays
      BY <2>1, <3>1 DEF BodyInv, Body, Doomed
    <3>3. look[r].token # 0
      BY <3>1 DEF HitInv
    <3>4. look'[r].token = look[r].token /\ look'[r].body = body
      BY <3>1, NoLookType DEF LookTypeOK, NoLook
    <3>6. strays' = strays
      BY <1>7 DEF Open
    <3>5. \A s \in Clients \ {r} : look'[s] = look[s] /\ stage'[s] = stage[s]
      BY <1>7, <3>1 DEF Open, LookTypeOK
    <3> QED
      BY <3>2, <3>3, <3>4, <3>5, <3>6 DEF BodyMatchesHeaders
  <2>3. CASE stage'[r] # "served"
    BY <1>7, <2>3 DEF Open, LookTypeOK, BodyMatchesHeaders
  <2> QED
    BY <2>2, <2>3
<1>8. ASSUME NEW r \in Clients, OpenFails(r) PROVE BodyMatchesHeaders'
  BY <1>8 DEF LookTypeOK, BodyMatchesHeaders, OpenFails, Miss
<1>9. ASSUME NEW r \in Clients, Served(r) PROVE BodyMatchesHeaders'
  BY <1>9 DEF LookTypeOK, BodyMatchesHeaders, Served
<1>10. ASSUME NEW r \in Clients, Invalidate(r) PROVE BodyMatchesHeaders'
  BY <1>10 DEF LookTypeOK, BodyMatchesHeaders, Invalidate, Miss
<1>11. ASSUME NEW r \in Clients, InvalidateFails(r) PROVE BodyMatchesHeaders'
  BY <1>11 DEF LookTypeOK, BodyMatchesHeaders, InvalidateFails, Miss
<1>12. ASSUME NEW r \in Clients, Fetch(r) PROVE BodyMatchesHeaders'
  BY <1>12 DEF LookTypeOK, BodyMatchesHeaders, Fetch
<1>13. ASSUME NEW r \in Clients, Discard(r) PROVE BodyMatchesHeaders'
  BY <1>13 DEF LookTypeOK, BodyMatchesHeaders, Discard, Drop
<1>14. ASSUME NEW r \in Clients, Rename(r) PROVE BodyMatchesHeaders'
  BY <1>14 DEF LookTypeOK, BodyMatchesHeaders, Rename
<1>15. ASSUME NEW r \in Clients, Upsert(r) PROVE BodyMatchesHeaders'
  BY <1>15 DEF LookTypeOK, BodyMatchesHeaders, Upsert
<1>16. ASSUME NEW r \in Clients, NEW left \in 0..MaxToken, UpsertFails(r, left)
      PROVE  BodyMatchesHeaders'
  BY <1>16 DEF LookTypeOK, BodyMatchesHeaders, UpsertFails, Drop
<1>17. ASSUME NEW r \in Clients, Publish(r) PROVE BodyMatchesHeaders'
  BY <1>17 DEF LookTypeOK, BodyMatchesHeaders, Publish, Drop
<1>18. ASSUME NEW S \in SUBSET Keys \ {{}}, Purge(S) PROVE BodyMatchesHeaders'
  BY <1>18 DEF LookTypeOK, BodyMatchesHeaders, Purge, Operation
<1>19. CASE PurgeRows
  BY <1>19 DEF LookTypeOK, BodyMatchesHeaders, PurgeRows, DeleteRows
<1>20. CASE PurgeFails
  BY <1>20 DEF LookTypeOK, BodyMatchesHeaders, PurgeFails
<1>21. CASE StorageUsage
  BY <1>21 DEF LookTypeOK, BodyMatchesHeaders, StorageUsage
<1>22. ASSUME NEW then \in {"purge", "keep", "delete"}, NEW on \in BOOLEAN, Change(then, on)
      PROVE  BodyMatchesHeaders'
  BY <1>22 DEF LookTypeOK, BodyMatchesHeaders, Change, Operation
<1>23. CASE InvalidateConfiguration
  BY <1>23 DEF LookTypeOK, BodyMatchesHeaders, InvalidateConfiguration
<1>24. CASE PurgeRule
  BY <1>24 DEF LookTypeOK, BodyMatchesHeaders, PurgeRule, DeleteRows
<1>25. CASE DeleteRule
  BY <1>25 DEF LookTypeOK, BodyMatchesHeaders, DeleteRule
<1>26. ASSUME NEW by \in {"admin", "other"}, Load(by) PROVE BodyMatchesHeaders'
  BY <1>26 DEF LookTypeOK, BodyMatchesHeaders, Load
<1>27. CASE Apply
  BY <1>27 DEF LookTypeOK, BodyMatchesHeaders, Apply
<1>28. CASE Reconcile
  BY <1>28 DEF LookTypeOK, BodyMatchesHeaders, Reconcile
<1>29. CASE NegativeExpires
  BY <1>29 DEF LookTypeOK, BodyMatchesHeaders, NegativeExpires
<1>30. ASSUME NEW t \in Tokens, Expire(t) PROVE BodyMatchesHeaders'
  BY <1>30 DEF LookTypeOK, BodyMatchesHeaders, Expire
<1>31. CASE Crash
  BY <1>31 DEF LookTypeOK, BodyMatchesHeaders, Crash, Operation
<1>32. CASE UNCHANGED cacheVars
  BY <1>32 DEF LookTypeOK, BodyMatchesHeaders, cacheVars
<1> QED
  BY <1>1, <1>2, <1>3, <1>4, <1>5, <1>6, <1>7, <1>8, <1>9, <1>10, <1>11, <1>12, <1>13,
     <1>14, <1>15, <1>16, <1>17, <1>18, <1>19, <1>20, <1>21, <1>22, <1>23, <1>24,
     <1>25, <1>26, <1>27, <1>28, <1>29, <1>30, <1>31, <1>32
     DEF CacheNext, Handle, Operate

CacheInv ==
    /\ CacheTypeOK
    /\ FenceInv
    /\ BodyInv
    /\ HitInv
    /\ PurgeInv
    /\ PurgedStaysPurged
    /\ BodyMatchesHeaders

(* The initial state satisfies the invariant. *)
LEMMA CacheInvInit == CacheInit => CacheInv
<1> SUFFICES ASSUME CacheInit PROVE CacheInv
  OBVIOUS
<1>1. NoFill \in Fills(0) /\ NoKeys \in Tables /\ 0 \in TokenOrNone
  BY SizeAssumption DEF NoFill, Fills, NoKeys, Tables, TokenOrNone
<1>2. StoreTypeOK
  BY <1>1 DEF CacheInit, StoreTypeOK, NoKeys
<1>3. LookTypeOK
  BY <1>1, NoLookType DEF CacheInit, LookTypeOK, Stages
<1>4. ConfigTypeOK
  <2>1. version \in Versions /\ version \in 0..MaxVersion /\ 0 \in 0..MaxVersion /\ operations \in 0..MaxOperations
    BY CacheBoundAssumption DEF CacheInit, Versions
  <2>2. config \in [Versions -> [on : BOOLEAN, rule : BOOLEAN]]
    BY DEF CacheInit
  <2>3. admin.op = "idle" /\ refresh.by = "nobody" /\ ~refresh.applied
    BY DEF CacheInit
  <2>4. /\ admin \in [op : AdminOps, then : {"idle", "purge", "keep", "delete"}, generation : Nat]
        /\ refresh \in [by : {"nobody", "admin", "other"}, version : 0..MaxVersion, applied : BOOLEAN]
    BY <2>1 DEF CacheInit, AdminOps
  <2> QED
    BY <2>1, <2>2, <2>3, <2>4 DEF CacheInit, ConfigTypeOK
<1>5. FenceInv /\ HitInv /\ BodyMatchesHeaders
  BY DEF CacheInit, FenceInv, HitInv, BodyMatchesHeaders, Holding
<1>6. BodyInv
  BY DEF CacheInit, BodyInv, Body, Holding, NoKeys
<1>7. PurgeInv /\ PurgedStaysPurged
  BY DEF CacheInit, PurgeInv, PurgedStaysPurged, Holding, NoKeys
<1> QED
  BY <1>2, <1>3, <1>4, <1>5, <1>6, <1>7 DEF CacheInv, CacheTypeOK

(* Every step keeps the invariant. *)
LEMMA CacheInvNext == CacheInv /\ [CacheNext]_cacheVars => CacheInv'
  BY StoreNext, LookNext, ConfigNext, FenceNext, BodyNext, HitNext, PurgeNext, PurgedNext,
     ServedNext
     DEF CacheInv, CacheTypeOK

-----------------------------------------------------------------------------
(* Theorems.                                                               *)

(* The inductive invariant holds throughout. *)
THEOREM CacheInvHolds == CacheSpec => []CacheInv
  BY CacheInvInit, CacheInvNext, PTL DEF CacheSpec

(* The tables, the requests and the configuration stay well formed. *)
THEOREM CacheTypeCorrect == CacheSpec => []CacheTypeOK
<1>1. CacheInv => CacheTypeOK
  BY DEF CacheInv
<1> QED
  BY <1>1, CacheInvHolds, PTL

(* No interleaving of lookups with stores, failed stores, purges, rule     *)
(* deletions and crashes serves the headers of one response with the body  *)
(* of another.                                                             *)
THEOREM CacheBodyMatchesHeaders == CacheSpec => []BodyMatchesHeaders
<1>1. CacheInv => BodyMatchesHeaders
  BY DEF CacheInv
<1> QED
  BY <1>1, CacheInvHolds, PTL

(* A fetch that a purge or a change of its rule overtakes never reaches    *)
(* the cache.                                                              *)
THEOREM CachePurgedStaysPurged == CacheSpec => []PurgedStaysPurged
<1>1. CacheInv => PurgedStaysPurged
  BY DEF CacheInv
<1> QED
  BY <1>1, CacheInvHolds, PTL

-----------------------------------------------------------------------------
(* The storage counters.                                                   *)

(* The bytes that one response adds. *)
SizeOrNone(t) == IF t = 0 THEN 0 ELSE Size[t]

(* A byte of the responses of f. *)
LEMMA OctetsAre ==
  ASSUME NEW f
  PROVE  \A u : u \in Octets(f) <=>
                  \E k \in Keys : f[k] # 0 /\ \E i \in 1..Size[f[k]] : u = <<k, i>>
BY DEF Octets

(* The bodies of one table have finitely many bytes. *)
LEMMA OctetsFinite ==
  ASSUME NEW f \in Tables
  PROVE  IsFiniteSet(Octets(f)) /\ Bytes(f) \in Nat
<1> DEFINE K == {j \in Keys : f[j] # 0}
           g == [k \in K |-> {k} \X (1..Size[f[k]])]
           T == {{k} \X (1..Size[f[k]]) : k \in K}
<1>1. IsFiniteSet(K)
  BY KeyAssumption, FS_Subset
<1>2. g \in Surjection(K, T)
  BY DEF Surjection
<1>3. IsFiniteSet(T)
  <2> HIDE DEF K, g, T
  <2> QED
    BY <1>1, <1>2, FS_Surjection
<1>4. ASSUME NEW X \in T PROVE IsFiniteSet(X)
  <2>1. PICK k \in K : X = {k} \X (1..Size[f[k]])
    OBVIOUS
  <2>2. 1 \in Int /\ Size[f[k]] \in Int
    BY SizeAssumption DEF Tables, TokenOrNone, Tokens
  <2>3. IsFiniteSet({k}) /\ IsFiniteSet(1..Size[f[k]])
    BY <2>2, FS_Singleton, FS_Interval
  <2> QED
    BY <2>1, <2>3, FS_Product
<1>5. IsFiniteSet(UNION T)
  <2> HIDE DEF T
  <2> QED
    BY <1>3, <1>4, FS_UNION
<1>6. IsFiniteSet(Octets(f))
  BY <1>5 DEF Octets
<1> QED
  BY <1>6, FS_CardinalityType DEF Bytes

(* What one digest adds to the bytes of a table. *)
LEMMA BytesOfDigest ==
  ASSUME NEW f \in Tables, NEW k \in Keys, NEW g \in Tables,
         g[k] = 0, \A j \in Keys \ {k} : g[j] = f[j]
  PROVE  Bytes(f) = Bytes(g) + SizeOrNone(f[k])
<1>0. /\ IsFiniteSet(Octets(f)) /\ Bytes(f) \in Nat
      /\ IsFiniteSet(Octets(g)) /\ Bytes(g) \in Nat
  BY OctetsFinite
<1>1. CASE f[k] = 0
  <2>1. \A u : u \in Octets(f) <=> u \in Octets(g)
    BY <1>1, OctetsAre
  <2>2. Octets(f) = Octets(g)
    BY <2>1
  <2> QED
    BY <1>0, <1>1, <2>2 DEF Bytes, SizeOrNone
<1>2. CASE f[k] # 0
  <2> DEFINE n == Size[f[k]]
             mine == {k} \X (1..n)
  <2>1. n \in Nat
    BY <1>2, SizeAssumption DEF Tables, TokenOrNone, Tokens
  <2>2. IsFiniteSet(1..n) /\ Cardinality(1..n) = n
    <3>1. 1 \in Int /\ n \in Int /\ n >= 0
      BY <2>1
    <3>2. IsFiniteSet(1..n) /\ Cardinality(1..n) = IF 1 > n THEN 0 ELSE n - 1 + 1
      <4> HIDE DEF n
      <4> QED
        BY <3>1, FS_Interval
    <3> QED
      BY <3>1, <3>2
  <2>3. IsFiniteSet(mine) /\ Cardinality(mine) = n
    <3>1. IsFiniteSet({k}) /\ Cardinality({k}) = 1
      BY FS_Singleton
    <3>2. IsFiniteSet(mine) /\ Cardinality(mine) = Cardinality({k}) * Cardinality(1..n)
      BY <2>2, <3>1, FS_Product
    <3> QED
      BY <2>1, <2>2, <3>1, <3>2
  <2>4. ASSUME NEW u \in Octets(g) PROVE u \in Octets(f) /\ u \notin mine
    <3>1. PICK j \in Keys : g[j] # 0 /\ \E i \in 1..Size[g[j]] : u = <<j, i>>
      BY <2>4, OctetsAre
    <3>2. j # k /\ f[j] = g[j]
      BY <3>1
    <3>3. u \in Octets(f)
      BY <3>1, <3>2, OctetsAre
    <3> QED
      BY <3>1, <3>2, <3>3
  <2>5. ASSUME NEW u \in Octets(f) PROVE u \in Octets(g) \/ u \in mine
    <3>1. PICK j \in Keys : f[j] # 0 /\ \E i \in 1..Size[f[j]] : u = <<j, i>>
      BY <2>5, OctetsAre
    <3>2. CASE j = k
      BY <3>1, <3>2
    <3>3. CASE j # k
      <4>1. g[j] = f[j]
        BY <3>3
      <4> QED
        BY <3>1, <4>1, OctetsAre
    <3> QED
      BY <3>2, <3>3
  <2>6. ASSUME NEW u \in mine PROVE u \in Octets(f)
    <3>1. \E i \in 1..Size[f[k]] : u = <<k, i>>
      BY <2>6
    <3> QED
      BY <1>2, <3>1, OctetsAre
  <2> HIDE DEF mine, n
  <2>7. Octets(f) = Octets(g) \cup mine /\ Octets(g) \cap mine = {}
    BY <2>4, <2>5, <2>6
  <2>8. Cardinality(Octets(f)) = Cardinality(Octets(g)) + Cardinality(mine) - Cardinality({})
    BY <1>0, <2>3, <2>7, FS_Union
  <2> QED
    BY <1>0, <1>2, <2>1, <2>3, <2>8, FS_EmptySet DEF Bytes, SizeOrNone, n
<1> QED
  BY <1>1, <1>2

(* The clamp of adjustStorageUsage leaves a total that is not negative.    *)
LEMMA Clamped ==
  ASSUME NEW n \in Int
  PROVE  Max({0, n}) \in Nat /\ (n >= 0 => Max({0, n}) = n)
<1> DEFINE P(x) == x \in {0, n} /\ \A y \in {0, n} : x >= y
<1>1. \E x : P(x)
  BY DEF P
<1>2. P(Max({0, n}))
  <2>1. Max({0, n}) = CHOOSE x : P(x)
    BY DEF Max
  <2> QED
    BY <1>1, <2>1
<1> QED
  BY <1>2

(* A digest whose store has written its row and not yet counted it. *)
Upserted(k) == \E r \in Clients : stage[r] = "upserted" /\ look[r].key = k

(* The counters are those of the table acc: the rows, and where a store    *)
(* has yet to count its row the row it replaced.                           *)
Accounts(acc) ==
    /\ \A k \in Keys : ~Upserted(k) => acc[k] = rows[k]
    /\ \A r \in Clients : stage[r] = "upserted" => acc[look[r].key] = fill[r].replaced
    /\ usage.entries = Cardinality({k \in Keys : acc[k] # 0})
    /\ usage.bytes = Bytes(acc)

(* A store knows the row it replaces, and that row is the one accounted    *)
(* for until the store has adjusted the counters.                          *)
UsageInv ==
    /\ usage \in [known : BOOLEAN, entries : Nat, bytes : Nat]
    /\ ~cascaded => \A r \in Clients :
          /\ stage[r] = "renamed" => rows[look[r].key] = fill[r].replaced
          /\ stage[r] = "upserted" => rows[look[r].key] = fill[r].token
    /\ usage.known /\ ~cascaded => \E acc \in Tables : Accounts(acc)

(* The counters u are exact for the rows.                                  *)
Exact(u) == u.entries = Cardinality(Stored) /\ u.bytes = Bytes(rows)

(* While nothing is between its row and its counters they are exact.       *)
LEMMA UsageSettled ==
  ASSUME StoreTypeOK, UsageInv, \A r \in Clients : stage[r] # "upserted",
         usage.known, ~cascaded
  PROVE  Exact(usage)
<1>1. PICK acc \in Tables : Accounts(acc)
  BY DEF UsageInv
<1>2. \A k \in Keys : acc[k] = rows[k]
  BY <1>1 DEF Accounts, Upserted
<1>3. acc = rows
  BY <1>2 DEF StoreTypeOK, Tables
<1> QED
  BY <1>1, <1>3 DEF Accounts, Exact, Stored

(* The rows are a table. *)
LEMMA RowsTable == ASSUME StoreTypeOK PROVE rows \in Tables
BY SizeAssumption DEF StoreTypeOK, Tables, TokenOrNone

(* A step after which no store is under way needs only exact counters.     *)
LEMMA UsageExactAgain ==
  ASSUME StoreTypeOK',
         usage' \in [known : BOOLEAN, entries : Nat, bytes : Nat],
         \A r \in Clients : stage'[r] \notin Holding,
         usage'.known /\ ~cascaded' => Exact(usage)'
  PROVE  UsageInv'
<1>1. rows' \in Tables
  BY SizeAssumption DEF StoreTypeOK, Tables, TokenOrNone
<1>2. usage'.known /\ ~cascaded' => Accounts(rows)'
  BY DEF Accounts, Exact, Stored, Holding
<1>3. usage'.known /\ ~cascaded' => \E acc \in Tables : Accounts(acc)'
  <2> SUFFICES ASSUME usage'.known, ~cascaded' PROVE \E acc \in Tables : Accounts(acc)'
    OBVIOUS
  <2>1. PICK a : a = rows'
    OBVIOUS
  <2>2. Accounts(a)'
    BY <1>2, <2>1 DEF Accounts
  <2> QED
    BY <1>1, <2>1, <2>2
<1> QED
  BY <1>3 DEF UsageInv, Holding

(* A step that leaves the rows, the counters and every store alone.        *)
LEMMA UsageKept ==
  ASSUME LookTypeOK, UsageInv, UNCHANGED <<rows, usage, cascaded>>,
         \A s \in Clients : stage[s] \in Holding \/ stage'[s] \in Holding =>
             stage'[s] = stage[s] /\ look'[s].key = look[s].key /\ fill'[s] = fill[s]
  PROVE  UsageInv'
<1>1. \A k \in Keys : Upserted(k)' <=> Upserted(k)
  BY DEF Upserted, Holding
<1>2. ASSUME NEW acc \in Tables, Accounts(acc) PROVE Accounts(acc)'
  BY <1>1, <1>2 DEF Accounts, Holding
<1> QED
  BY <1>2 DEF UsageInv, Holding

(* What a deletion of rows does to counters that were exact.               *)
LEMMA DeleteRowsCounts ==
  ASSUME StoreTypeOK, StoreTypeOK', LookTypeOK, NEW S, NEW u, DeleteRows(S, u),
         u \in [known : BOOLEAN, entries : Nat, bytes : Nat],
         u.known /\ ~cascaded => Exact(u)
  PROVE  /\ usage' \in [known : BOOLEAN, entries : Nat, bytes : Nat]
         /\ usage'.known /\ ~cascaded => Exact(usage)'
<1> DEFINE gone == S \cap Stored
           left == [k \in Keys |-> IF k \in gone THEN 0 ELSE rows[k]]
           db == Bytes(left) - Bytes(rows)
           de == -Cardinality(gone)
<1>1. rows' = left /\ usage' = Adjusted(u, db, de)
  BY DEF DeleteRows
<1>2. IsFiniteSet(Stored) /\ IsFiniteSet(gone)
  BY KeyAssumption, FS_Subset DEF Stored
<1>3. Cardinality(Stored) \in Nat /\ Cardinality(gone) \in Nat
  BY <1>2, FS_CardinalityType
<1>4. Stored' = Stored \ gone
  BY <1>1 DEF Stored
<1>5. Cardinality(Stored') = Cardinality(Stored) - Cardinality(gone)
  <2>1. Stored \cap gone = gone
    OBVIOUS
  <2> HIDE DEF gone
  <2> QED
    BY <1>2, <1>4, <2>1, FS_Difference
<1>6. Cardinality(Stored') \in Nat
  <2>1. IsFiniteSet(Stored')
    BY <1>2, <1>4, FS_Subset
  <2> QED
    BY <2>1, FS_CardinalityType
<1>7. Bytes(rows) \in Nat /\ Bytes(left) \in Nat
  <2>1. left \in Tables
    BY <1>1, SizeAssumption DEF StoreTypeOK, Tables, TokenOrNone
  <2> QED
    BY <2>1, RowsTable, OctetsFinite
<1>8. Bytes(rows)' = Bytes(left)
  BY <1>1 DEF Bytes, Octets
<1> HIDE DEF gone, left
<1>9. CASE ~u.known
  BY <1>1, <1>9 DEF Adjusted
<1>10. CASE u.known
  <2>1. u.bytes + db \in Int /\ u.entries + de \in Int
    BY <1>3, <1>7
  <2>2. usage' = [u EXCEPT !.bytes = Max({0, @ + db}), !.entries = Max({0, @ + de})]
    BY <1>1, <1>10 DEF Adjusted
  <2>3. usage'.known = u.known /\ usage'.bytes = Max({0, u.bytes + db})
        /\ usage'.entries = Max({0, u.entries + de})
    BY <2>2
  <2>4. Max({0, u.bytes + db}) \in Nat /\ Max({0, u.entries + de}) \in Nat
    BY <2>1, Clamped
  <2>5. usage' \in [known : BOOLEAN, entries : Nat, bytes : Nat]
    BY <2>2, <2>4
  <2>6. ASSUME ~cascaded PROVE Exact(usage)'
    <3>1. u.bytes + db = Bytes(left) /\ u.entries + de = Cardinality(Stored')
      BY <1>3, <1>5, <1>7, <1>10, <2>6 DEF Exact
    <3>2. usage'.bytes = Bytes(left) /\ usage'.entries = Cardinality(Stored')
      BY <1>6, <1>7, <2>1, <2>3, <3>1, Clamped
    <3> QED
      BY <1>8, <3>2 DEF Exact
  <2> QED
    BY <2>5, <2>6
<1> QED
  BY <1>9, <1>10

(* The counters a cleanup or a dashboard query starts from.                *)
LEMMA CountedExact ==
  ASSUME StoreTypeOK, UsageInv, \A r \in Clients : stage[r] # "upserted"
  PROVE  /\ Counted \in [known : BOOLEAN, entries : Nat, bytes : Nat]
         /\ Counted.known /\ ~cascaded => Exact(Counted)
<1>1. CASE usage.known
  BY <1>1, UsageSettled DEF Counted, UsageInv
<1>2. CASE ~usage.known
  <2>1. IsFiniteSet(Stored)
    BY KeyAssumption, FS_Subset DEF Stored
  <2>2. Cardinality(Stored) \in Nat /\ Bytes(rows) \in Nat
    BY <2>1, FS_CardinalityType, RowsTable, OctetsFinite
  <2> QED
    BY <1>2, <2>2 DEF Counted, Exact
<1> QED
  BY <1>1, <1>2

(* Invalidate takes the bytes and the entry of the row it deletes.         *)
LEMMA InvalidateCounts ==
  ASSUME StoreTypeOK, StoreTypeOK', LookTypeOK, HitInv, UsageInv,
         NEW r \in Clients, Invalidate(r)
  PROVE  UsageInv'
<1> DEFINE k == look[r].key
           t == look[r].token
<1>0. k \in Keys /\ t \in Tokens /\ t # 0
  BY SizeAssumption DEF Invalidate, LookTypeOK, Looks, HitInv, TokenOrNone, Tokens
<1>1. \A s \in Clients : stage[s] \notin Holding
  BY DEF Invalidate, GateFree, Fenced, Holding, LookTypeOK, Looks
<1>2. \A s \in Clients : stage'[s] \notin Holding
  BY <1>1 DEF Invalidate, Miss, Goto, LookTypeOK, Holding
<1>3. cascaded' = cascaded
  BY DEF Invalidate, history
<1>4. \A s \in Clients : stage[s] # "upserted"
  BY <1>1 DEF Holding
<1>5. CASE rows[k] # t
  <2>1. rows' = rows /\ usage' = usage
    BY <1>0, <1>5 DEF Invalidate, StoreTypeOK
  <2>2. usage'.known /\ ~cascaded' => Exact(usage)'
    BY <1>3, <1>4, <2>1, UsageSettled DEF Exact, Stored, Bytes, Octets
  <2> QED
    BY <1>2, <2>1, <2>2, UsageExactAgain DEF UsageInv
<1>6. CASE rows[k] = t
  <2>1. rows' = [rows EXCEPT ![k] = 0] /\ usage' = Adjusted(usage, -Size[t], -1)
    BY <1>6 DEF Invalidate
  <2>2. rows \in Tables /\ rows' \in Tables
    BY SizeAssumption DEF StoreTypeOK, Tables, TokenOrNone
  <2>3. rows'[k] = 0 /\ \A j \in Keys \ {k} : rows'[j] = rows[j]
    BY <1>0, <2>1 DEF StoreTypeOK
  <2>4. Bytes(rows) = Bytes(rows') + Size[t]
    <3> HIDE DEF k, t
    <3>1. Bytes(rows) = Bytes(rows') + SizeOrNone(rows[k])
      BY <1>0, <2>2, <2>3, BytesOfDigest
    <3> QED
      BY <1>0, <1>6, <3>1 DEF SizeOrNone
  <2>5. Bytes(rows') \in Nat /\ Size[t] \in Nat
    BY <1>0, <2>2, OctetsFinite, SizeAssumption
  <2>6. IsFiniteSet(Stored) /\ k \in Stored /\ Stored' = Stored \ {k}
    <3>1. IsFiniteSet(Stored)
      BY KeyAssumption, FS_Subset DEF Stored
    <3> QED
      BY <1>0, <1>6, <2>3, <3>1 DEF Stored
  <2>7. Cardinality(Stored') = Cardinality(Stored) - 1
    <3> HIDE DEF k
    <3> QED
      BY <2>6, FS_RemoveElement
  <2>8. Cardinality(Stored) \in Nat /\ Cardinality(Stored') \in Nat
    <3>1. IsFiniteSet(Stored')
      BY <2>6, FS_Subset
    <3> QED
      BY <2>6, <3>1, FS_CardinalityType
  <2>9. usage' \in [known : BOOLEAN, entries : Nat, bytes : Nat]
        /\ (usage'.known /\ ~cascaded' => Exact(usage)')
    <3>1. CASE ~usage.known
      BY <2>1, <3>1 DEF Adjusted, UsageInv
    <3>2. CASE usage.known
      <4>1. usage' = [usage EXCEPT !.bytes = Max({0, @ + (-Size[t])}), !.entries = Max({0, @ + (-1)})]
        BY <2>1, <3>2 DEF Adjusted
      <4>2. /\ Max({0, usage.bytes + (-Size[t])}) \in Nat
            /\ Max({0, usage.entries + (-1)}) \in Nat
        <5>1. usage.bytes + (-Size[t]) \in Int /\ usage.entries + (-1) \in Int
          BY <2>5 DEF UsageInv
        <5> QED
          BY <5>1, Clamped
      <4>3. usage' \in [known : BOOLEAN, entries : Nat, bytes : Nat]
        BY <4>1, <4>2 DEF UsageInv
      <4>4. ASSUME ~cascaded PROVE Exact(usage)'
        <5>1. Exact(usage)
          BY <1>4, <3>2, <4>4, UsageSettled
        <5>2. /\ usage.bytes + (-Size[t]) = Bytes(rows')
              /\ usage.entries + (-1) = Cardinality(Stored')
          BY <2>4, <2>5, <2>7, <2>8, <5>1 DEF Exact
        <5>3. /\ Max({0, usage.bytes + (-Size[t])}) = Bytes(rows')
              /\ Max({0, usage.entries + (-1)}) = Cardinality(Stored')
          BY <2>5, <2>8, <5>2, Clamped
        <5>4. usage'.bytes = Bytes(rows') /\ usage'.entries = Cardinality(Stored')
          BY <4>1, <5>3 DEF UsageInv
        <5> QED
          BY <5>4 DEF Exact, Bytes, Octets
      <4> QED
        BY <1>3, <4>3, <4>4
    <3> QED
      BY <3>1, <3>2
  <2> QED
    BY <1>2, <2>9, UsageExactAgain
<1> QED
  BY <1>5, <1>6

(* The end of a store counts what it replaced out and its own row in.      *)
LEMMA PublishCounts ==
  ASSUME StoreTypeOK, LookTypeOK, FenceInv, PurgeInv, UsageInv,
         NEW r \in Clients, Publish(r)
  PROVE  UsageInv'
<1>k. PICK k \in Keys : k = look[r].key
  BY DEF LookTypeOK, Looks
<1>t. PICK t \in Tokens : t = fill[r].token
  BY DEF Publish, PurgeInv, Holding
<1>o. PICK old \in TokenOrNone : old = fill[r].replaced
  BY SizeAssumption DEF StoreTypeOK, Fills, TokenOrNone
<1> DEFINE d == StoredDelta(t, old)
<1>0. stage[r] = "upserted" /\ t # 0
  BY DEF Publish, Tokens
<1>1. /\ rows' = rows /\ cascaded' = cascaded
      /\ usage' = Adjusted(usage, d.bytes, d.entries)
      /\ stage' = [stage EXCEPT ![r] = "idle"]
      /\ look' = [look EXCEPT ![r] = NoLook]
      /\ fill' = [fill EXCEPT ![r] = NoFill]
  BY <1>t, <1>o DEF Publish, Drop, Goto, storeVars, history
<1>2. /\ stage'[r] = "idle"
      /\ \A s \in Clients \ {r} : stage'[s] = stage[s] /\ look'[s] = look[s] /\ fill'[s] = fill[s]
  BY <1>1 DEF LookTypeOK, StoreTypeOK
<1>3. \A s \in Clients \ {r} : stage[s] \in Holding => look[s].key # k
  BY <1>0, <1>k DEF FenceInv, Holding
<1>4. ~Upserted(k)' /\ \A j \in Keys \ {k} : Upserted(j)' <=> Upserted(j)
  BY <1>0, <1>k, <1>2, <1>3 DEF Upserted, Holding
<1>5. Size[t] \in Nat /\ SizeOrNone(old) \in Nat /\ (old # 0 => SizeOrNone(old) = Size[old])
  BY <1>0, SizeAssumption DEF SizeOrNone, Tokens, TokenOrNone
<1>6. /\ d.bytes = Size[t] - SizeOrNone(old)
      /\ d.entries = IF old = 0 THEN 1 ELSE 0
  BY <1>5 DEF StoredDelta, SizeOrNone
<1>7. d.bytes \in Int /\ d.entries \in Int
  BY <1>5, <1>6
<1> HIDE DEF d
<1>8. /\ usage' \in [known : BOOLEAN, entries : Nat, bytes : Nat]
      /\ usage'.known = usage.known
      /\ usage.known => /\ usage'.bytes = Max({0, usage.bytes + d.bytes})
                        /\ usage'.entries = Max({0, usage.entries + d.entries})
  <2>1. usage.bytes + d.bytes \in Int /\ usage.entries + d.entries \in Int
    BY <1>7 DEF UsageInv
  <2>2. Max({0, usage.bytes + d.bytes}) \in Nat /\ Max({0, usage.entries + d.entries}) \in Nat
    BY <2>1, Clamped
  <2> QED
    BY <1>1, <2>2 DEF Adjusted, UsageInv
<1>9. ASSUME ~cascaded, NEW s \in Clients
      PROVE  /\ stage'[s] = "renamed" => rows'[look'[s].key] = fill'[s].replaced
             /\ stage'[s] = "upserted" => rows'[look'[s].key] = fill'[s].token
  BY <1>1, <1>2, <1>9 DEF UsageInv
<1>10. ASSUME usage.known, ~cascaded PROVE \E acc \in Tables : Accounts(acc)'
  <2>1. PICK acc \in Tables : Accounts(acc)
    BY <1>10 DEF UsageInv
  <2>2. acc[k] = old /\ rows[k] = t
    BY <1>0, <1>k, <1>t, <1>o, <1>10, <2>1 DEF Accounts, UsageInv
  <2> DEFINE none == [acc EXCEPT ![k] = 0]
             new == [acc EXCEPT ![k] = t]
  <2>3. none \in Tables /\ new \in Tables
    BY <1>0, SizeAssumption DEF Tables, TokenOrNone, Tokens
  <2>4. /\ none[k] = 0 /\ new[k] = t
        /\ \A j \in Keys \ {k} : none[j] = acc[j] /\ none[j] = new[j] /\ new[j] = acc[j]
    BY <1>0 DEF Tables
  <2> HIDE DEF none, new
  <2>5. Bytes(acc) = Bytes(none) + SizeOrNone(old) /\ Bytes(new) = Bytes(none) + SizeOrNone(t)
    BY <1>0, <2>2, <2>3, <2>4, BytesOfDigest
  <2>6. Bytes(acc) \in Nat /\ Bytes(none) \in Nat /\ Bytes(new) \in Nat
    BY <2>3, OctetsFinite
  <2>7. usage.bytes + d.bytes = Bytes(new)
    BY <1>0, <1>5, <1>6, <2>1, <2>5, <2>6 DEF Accounts, SizeOrNone
  <2> DEFINE was == {j \in Keys : acc[j] # 0}
             is == {j \in Keys : new[j] # 0}
  <2>8. is = was \cup {k} /\ (k \in was <=> old # 0)
    BY <1>0, <2>2, <2>4
  <2>9. IsFiniteSet(was)
    BY KeyAssumption, FS_Subset
  <2>10. usage.entries = Cardinality(was)
    BY <2>1 DEF Accounts
  <2> HIDE DEF was, is
  <2>11. Cardinality(was) \in Nat /\ Cardinality(is) = Cardinality(was) + d.entries
         /\ Cardinality(is) \in Nat
    <3>1. Cardinality(was) \in Nat
      BY <2>9, FS_CardinalityType
    <3>2. Cardinality(is) = IF k \in was THEN Cardinality(was) ELSE Cardinality(was) + 1
      BY <2>8, <2>9, FS_AddElement
    <3> QED
      BY <1>6, <2>8, <3>1, <3>2
  <2>12. usage'.bytes = Bytes(new) /\ usage'.entries = Cardinality(is)
    <3>1. usage.entries + d.entries = Cardinality(is)
      BY <2>10, <2>11
    <3>2. Max({0, Bytes(new)}) = Bytes(new) /\ Max({0, Cardinality(is)}) = Cardinality(is)
      BY <2>6, <2>11, Clamped
    <3>3. /\ usage'.bytes = Max({0, usage.bytes + d.bytes})
          /\ usage'.entries = Max({0, usage.entries + d.entries})
      BY <1>8, <1>10
    <3>4. usage'.bytes = Max({0, Bytes(new)}) /\ usage'.entries = Max({0, Cardinality(is)})
      BY <2>7, <3>1, <3>3
    <3> QED
      BY <3>2, <3>4
  <2>13. \A j \in Keys : ~Upserted(j)' => new[j] = rows'[j]
    BY <1>1, <1>4, <2>1, <2>2, <2>4 DEF Accounts
  <2>14. ASSUME NEW s \in Clients, stage'[s] = "upserted" PROVE new[look'[s].key] = fill'[s].replaced
    <3>1. s # r /\ stage[s] = "upserted" /\ look'[s] = look[s] /\ fill'[s] = fill[s]
      BY <1>2, <2>14
    <3>2. look[s].key # k /\ look[s].key \in Keys
      BY <1>3, <3>1 DEF Holding, LookTypeOK, Looks
    <3> QED
      BY <2>1, <2>4, <3>1, <3>2 DEF Accounts
  <2>15. PICK a \in Tables : a = new
    BY <2>3
  <2>16. usage'.bytes = Bytes(a)'
    BY <2>12, <2>15 DEF Bytes, Octets
  <2>17. usage'.entries = Cardinality({j \in Keys : a[j] # 0})
    BY <2>12, <2>15 DEF is
  <2>18. Accounts(a)'
    BY <2>13, <2>14, <2>15, <2>16, <2>17 DEF Accounts
  <2> QED
    BY <2>18
<1>11. usage'.known /\ ~cascaded' => usage.known /\ ~cascaded
  BY <1>1, <1>8
<1>12. ~cascaded' => ~cascaded
  BY <1>1
<1> QED
  BY <1>8, <1>9, <1>10, <1>11, <1>12 DEF UsageInv

(* Every step keeps the counters accounted for.                            *)
LEMMA UsageNext == CacheInv /\ CacheInv' /\ UsageInv /\ [CacheNext]_cacheVars => UsageInv'
<1> SUFFICES ASSUME CacheInv, CacheInv', UsageInv, [CacheNext]_cacheVars PROVE UsageInv'
  OBVIOUS
<1>0. /\ StoreTypeOK /\ StoreTypeOK' /\ LookTypeOK /\ LookTypeOK'
      /\ FenceInv /\ BodyInv /\ HitInv /\ PurgeInv
  BY DEF CacheInv, CacheTypeOK
<1> DEFINE Steady ==
             /\ UNCHANGED <<rows, usage, cascaded>>
             /\ \A s \in Clients : stage[s] \in Holding \/ stage'[s] \in Holding =>
                  stage'[s] = stage[s] /\ look'[s].key = look[s].key /\ fill'[s] = fill[s]
<1>a. Steady => UsageInv'
  BY <1>0, UsageKept
<1>b. GateFree \/ gate # {} => \A s \in Clients : stage[s] \notin Holding
  BY <1>0 DEF GateFree, Fenced, Holding, FenceInv, LookTypeOK, Looks
<1>c. ASSUME NEW S, NEW u, DeleteRows(S, u), GateFree \/ gate # {}, cascaded' = cascaded,
             \A s \in Clients : stage'[s] \notin Holding, u = usage \/ u = Counted
      PROVE  UsageInv'
  <2>1. \A s \in Clients : stage[s] # "upserted"
    BY <1>b, <1>c DEF Holding
  <2>2. /\ u \in [known : BOOLEAN, entries : Nat, bytes : Nat]
        /\ u.known /\ ~cascaded => Exact(u)
    BY <1>0, <1>c, <2>1, CountedExact, UsageSettled DEF UsageInv
  <2>3. /\ usage' \in [known : BOOLEAN, entries : Nat, bytes : Nat]
        /\ usage'.known /\ ~cascaded => Exact(usage)'
    BY <1>0, <1>c, <2>2, DeleteRowsCounts
  <2> QED
    BY <1>0, <1>c, <2>3, UsageExactAgain
<1>1. ASSUME NEW r \in Clients, NEW k \in Keys, Begin(r, k) PROVE Steady
  BY <1>0, <1>1 DEF Begin, Goto, Holding, LookTypeOK, storeVars, memoryVars, history
<1>2. ASSUME NEW r \in Clients, Capture(r) \/ Served(r) \/ Fetch(r) PROVE Steady
  BY <1>0, <1>2 DEF Capture, Served, Fetch, Goto, Holding, LookTypeOK, storeVars, memoryVars, history
<1>3. ASSUME NEW r \in Clients, MaybeCleanup(r) PROVE UsageInv'
  <2>1. PICK S : DeleteRows(S, Counted)
    BY <1>3 DEF MaybeCleanup
  <2>2. GateFree /\ cascaded' = cascaded /\ stage' = [stage EXCEPT ![r] = "cleaned"]
    BY <1>3 DEF MaybeCleanup, Goto, history
  <2>3. \A s \in Clients : stage'[s] \notin Holding
    BY <1>0, <1>b, <2>2 DEF Holding, LookTypeOK
  <2> QED
    BY <1>c, <2>1, <2>2, <2>3
<1>4. ASSUME NEW r \in Clients, Lookup(r) \/ StoreIndexed(r) PROVE Steady
  BY <1>0, <1>4 DEF Lookup, StoreIndexed, Resolve, Goto, Holding, LookTypeOK, storeVars,
                    memoryVars, history
<1>5. ASSUME NEW r \in Clients, NEW ok \in BOOLEAN, ReadRows(r, ok) PROVE Steady
  BY <1>0, <1>5 DEF ReadRows, Goto, Holding, LookTypeOK, storeVars, memoryVars, history
<1>6. ASSUME NEW r \in Clients, Open(r) \/ OpenFails(r) \/ InvalidateFails(r) PROVE Steady
  BY <1>0, <1>6 DEF Open, OpenFails, InvalidateFails, Miss, Goto, Holding, LookTypeOK, storeVars,
                    memoryVars, history
<1>7. ASSUME NEW r \in Clients, Invalidate(r) PROVE UsageInv'
  BY <1>0, <1>7, InvalidateCounts
<1>8. ASSUME NEW r \in Clients, Discard(r) PROVE Steady
  BY <1>0, <1>8 DEF Discard, Drop, Goto, Holding, LookTypeOK, StoreTypeOK, storeVars,
                    memoryVars, history
<1>9. ASSUME NEW r \in Clients, Rename(r) PROVE UsageInv'
  <2>1. /\ UNCHANGED <<rows, usage, cascaded, look>>
        /\ stage[r] = "filling" /\ stage'[r] = "renamed"
        /\ fill'[r].replaced = rows[look[r].key]
        /\ \A s \in Clients \ {r} : stage'[s] = stage[s] /\ fill'[s] = fill[s]
    BY <1>0, <1>9 DEF Rename, Goto, LookTypeOK, StoreTypeOK, memoryVars
  <2>2. \A k \in Keys : Upserted(k)' <=> Upserted(k)
    BY <2>1 DEF Upserted
  <2>3. ASSUME NEW acc \in Tables, Accounts(acc) PROVE Accounts(acc)'
    BY <2>1, <2>2, <2>3 DEF Accounts
  <2> QED
    BY <2>1, <2>3 DEF UsageInv
<1>10. ASSUME NEW r \in Clients, Upsert(r) PROVE UsageInv'
  <2>1. /\ UNCHANGED <<usage, cascaded, look, fill>>
        /\ stage[r] = "renamed" /\ stage'[r] = "upserted" /\ look[r].key \in Keys
        /\ rows' = [rows EXCEPT ![look[r].key] = fill[r].token]
        /\ \A s \in Clients \ {r} : stage'[s] = stage[s]
    BY <1>0, <1>10 DEF Upsert, Goto, LookTypeOK, Looks, memoryVars, history
  <2>2. \A s \in Clients \ {r} : stage[s] \in Holding => look[s].key # look[r].key
    BY <1>0, <2>1 DEF FenceInv, Holding
  <2>3. /\ rows'[look[r].key] = fill[r].token
        /\ \A j \in Keys \ {look[r].key} : rows'[j] = rows[j]
    BY <1>0, <2>1 DEF StoreTypeOK
  <2>4. ~Upserted(look[r].key) /\ Upserted(look[r].key)'
    BY <2>1, <2>2 DEF Upserted, Holding
  <2>5. \A k \in Keys \ {look[r].key} : Upserted(k)' <=> Upserted(k)
    BY <2>1 DEF Upserted
  <2>6. ASSUME ~cascaded, NEW acc \in Tables, Accounts(acc) PROVE Accounts(acc)'
    <3>1. \A k \in Keys : ~Upserted(k)' => acc[k] = rows'[k]
      <4> SUFFICES ASSUME NEW k \in Keys, ~Upserted(k)' PROVE acc[k] = rows'[k]
        OBVIOUS
      <4>1. k # look[r].key
        BY <2>1 DEF Upserted
      <4> QED
        BY <2>3, <2>5, <2>6, <4>1 DEF Accounts
    <3>2. acc[look[r].key] = fill[r].replaced
      BY <2>1, <2>4, <2>6 DEF Accounts, UsageInv
    <3>3. \A s \in Clients : stage'[s] = "upserted" => acc[look[s].key] = fill[s].replaced
      BY <2>1, <2>6, <3>2 DEF Accounts
    <3> QED
      BY <2>1, <2>6, <3>1, <3>3 DEF Accounts
  <2>7. ASSUME ~cascaded, NEW s \in Clients
        PROVE  /\ stage'[s] = "renamed" => rows'[look[s].key] = fill[s].replaced
               /\ stage'[s] = "upserted" => rows'[look[s].key] = fill[s].token
    BY <1>0, <2>1, <2>2, <2>3, <2>7 DEF UsageInv, Holding, LookTypeOK, Looks
  <2> QED
    BY <2>1, <2>6, <2>7 DEF UsageInv
<1>11. ASSUME NEW r \in Clients, NEW left \in 0..MaxToken, UpsertFails(r, left) PROVE UsageInv'
  <2>1. /\ UNCHANGED <<rows, usage, cascaded>>
        /\ stage[r] = "renamed" /\ stage'[r] = "idle"
        /\ \A s \in Clients \ {r} : stage'[s] = stage[s] /\ look'[s] = look[s] /\ fill'[s] = fill[s]
    BY <1>0, <1>11 DEF UpsertFails, Drop, Goto, LookTypeOK, StoreTypeOK, memoryVars, history
  <2>2. \A k \in Keys : Upserted(k)' <=> Upserted(k)
    BY <2>1 DEF Upserted
  <2>3. ASSUME NEW acc \in Tables, Accounts(acc) PROVE Accounts(acc)'
    BY <2>1, <2>2, <2>3 DEF Accounts
  <2> QED
    BY <2>1, <2>3 DEF UsageInv
<1>12. ASSUME NEW r \in Clients, Publish(r) PROVE UsageInv'
  BY <1>0, <1>12, PublishCounts
<1>13. ASSUME NEW S \in SUBSET Keys \ {{}}, Purge(S) PROVE Steady
  BY <1>13 DEF Purge, storeVars, history
<1>14. CASE PurgeRows
  <2>1. DeleteRows(gate, usage) /\ gate # {} /\ cascaded' = cascaded /\ stage' = stage
    BY <1>14 DEF PurgeRows
  <2> QED
    BY <1>b, <1>c, <2>1
<1>15. ASSUME PurgeFails \/ InvalidateConfiguration \/ Apply \/ Reconcile \/ NegativeExpires
                \/ UNCHANGED cacheVars
       PROVE  Steady
  BY <1>15 DEF PurgeFails, InvalidateConfiguration, Apply, Reconcile, NegativeExpires,
               cacheVars, storeVars, memoryVars, history
<1>16. CASE StorageUsage
  <2>1. /\ GateFree /\ usage' = Counted
        /\ UNCHANGED <<rows, stage, cascaded>>
    BY <1>16 DEF StorageUsage, storeVars, history
  <2>2. \A s \in Clients : stage[s] \notin Holding /\ stage'[s] \notin Holding
    BY <1>b, <2>1
  <2>3. /\ Counted \in [known : BOOLEAN, entries : Nat, bytes : Nat]
        /\ Counted.known /\ ~cascaded => Exact(Counted)
    BY <1>0, <2>2, CountedExact DEF Holding
  <2>4. usage'.known /\ ~cascaded' => Exact(usage)'
    BY <2>1, <2>3 DEF Exact, Stored, Bytes, Octets
  <2> QED
    BY <1>0, <2>1, <2>2, <2>3, <2>4, UsageExactAgain
<1>17. ASSUME NEW then \in {"purge", "keep", "delete"}, NEW on \in BOOLEAN, Change(then, on)
       PROVE  Steady
  BY <1>17 DEF Change, storeVars, memoryVars, history
<1>18. CASE PurgeRule
  <2>1. DeleteRows(Keys, usage) /\ GateFree /\ cascaded' = cascaded /\ stage' = stage
    BY <1>18 DEF PurgeRule
  <2> QED
    BY <1>b, <1>c, <2>1
<1>19. CASE DeleteRule
  <2>1. /\ rows' = NoKeys /\ cascaded' = (cascaded \/ Stored # {})
        /\ UNCHANGED <<usage, stage, look, fill>>
    BY <1>19 DEF DeleteRule, memoryVars
  <2>2. CASE cascaded'
    BY <2>1, <2>2 DEF UsageInv
  <2>3. CASE ~cascaded'
    <3>1. ~cascaded /\ \A k \in Keys : rows[k] = 0
      BY <2>1, <2>3 DEF Stored
    <3>2. rows' = rows
      BY <1>0, <2>1, <3>1 DEF StoreTypeOK, NoKeys
    <3>3. cascaded \in BOOLEAN
      BY DEF CacheInv, CacheTypeOK, ConfigTypeOK
    <3>4. cascaded' = cascaded
      BY <2>1, <2>3, <3>1, <3>3
    <3> QED
      BY <1>a, <2>1, <3>2, <3>4
  <2> QED
    BY <2>2, <2>3
<1>20. ASSUME NEW by \in {"admin", "other"}, Load(by) PROVE Steady
  BY <1>20 DEF Load, storeVars, memoryVars, history
<1>21. ASSUME NEW t \in Tokens, Expire(t) PROVE Steady
  BY <1>21 DEF Expire, memoryVars, history
<1>22. CASE Crash
  <2>1. /\ usage' = [known |-> FALSE, entries |-> 0, bytes |-> 0]
        /\ stage' = [s \in Clients |-> "idle"]
    BY <1>22 DEF Crash
  <2> QED
    BY <1>0, <2>1, UsageExactAgain DEF Holding
<1> HIDE DEF Steady
<1> QED
  BY <1>a, <1>1, <1>2, <1>3, <1>4, <1>5, <1>6, <1>7, <1>8, <1>9, <1>10, <1>11, <1>12, <1>13, <1>14,
     <1>15, <1>16, <1>17, <1>18, <1>19, <1>20, <1>21, <1>22 DEF CacheNext, Handle, Operate

(* The counters that the dashboard shows and cleanup works with are exact  *)
(* whenever no store is between its row and its counters, however stores,  *)
(* failed stores, cleanups, purges and restarts interleave.                *)
THEOREM CacheUsageExact == CacheSpec => []UsageExact
<1>1. CacheInit => UsageInv
  BY DEF CacheInit, UsageInv
<1>2. CacheInv /\ UsageInv => UsageExact
  BY UsageSettled DEF CacheInv, CacheTypeOK, UsageExact, Exact
<1> QED
  BY <1>1, <1>2, CacheInvHolds, UsageNext, PTL DEF CacheSpec
=============================================================================
