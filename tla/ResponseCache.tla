--------------------------- MODULE ResponseCache ---------------------------
(***************************************************************************)
(* The shared response cache of the public proxy                           *)
(* (internal/server/public_cache.go) for one cache rule: the database rows *)
(* and body files, the index and the body copies kept in memory, the       *)
(* storage usage counters, and the requests, purges, cleanups and          *)
(* configuration changes that share them.                                  *)
(*                                                                         *)
(* The keys are the digests of one lookup key, its Vary variants.  A       *)
(* stored response is named by its StoredAt token, which nextStoredAt      *)
(* makes unique: a row, an index entry, a memory copy and a body file all  *)
(* hold the token of the response they belong to, and 0 stands for none.   *)
(***************************************************************************)
EXTENDS Integers, FiniteSets, FiniteSetsExt

CONSTANTS
    Clients,       \* public requests, each handled over and over
    Keys,          \* key digests of the lookup key
    MaxToken,      \* bound on stored responses
    Size,          \* SizeBytes of each of them
    MaxDiskBytes,  \* cleanup budgets and the memory budget of the settings
    MaxEntries,
    MaxMemoryBytes,
    MaxVersion,    \* bound on configuration changes
    MaxOperations  \* bound on purges, changes, refreshes and restarts

Tokens   == 1..MaxToken
Versions == 1..MaxVersion

ASSUME SizeAssumption == /\ MaxToken \in Nat
                         /\ Size \in [Tokens -> Nat]
ASSUME KeyAssumption == Keys # {} /\ IsFiniteSet(Keys)
ASSUME BudgetAssumption == /\ MaxDiskBytes \in Nat
                           /\ MaxEntries \in Nat
                           /\ MaxMemoryBytes \in Nat
ASSUME CacheBoundAssumption == /\ MaxVersion \in Nat \ {0}
                               /\ MaxOperations \in Nat

VARIABLES
    rows,         \* public_cache_entries by digest
    files,        \* body file by digest
    expired,      \* tokens whose ExpiresAt has passed
    lastStored,   \* lastStoredAt
    index,        \* indexEntries by digest
    negative,     \* whether the lookup key is a negative lookup
    memory,       \* memoryEntries by digest
    usage,        \* storedEntryCount, storedBodyBytes, storageUsageInitialized
    generation,   \* generation
    fingerprint,  \* lastFingerprint: a configuration version, 0 when ""
    snapshot,     \* configuration version of publicSnapshotPtr
    version,      \* configuration version in the database
    config,       \* whether each version has the cache switched on and the rule
    gate,         \* digests of the purge that holds storeGate, {} when none
    stage,        \* progress of each request
    look,         \* what the request's lookup captured
    fill,         \* the response the request stores and the one it replaces
    admin,        \* progress of the operator's configuration change
    refresh,      \* progress of refreshPublicProxySnapshot
    operations,   \* bound counter of MaxOperations
    boundary,     \* history: generation of each digest's last purge
    begun,        \* history: generation captured by the fetch of a token
    cascaded,     \* history: the rule's deletion took rows along
    strays        \* history: bodies of failed stores that could not be taken back

storeVars  == <<rows, files, expired, lastStored>>
memoryVars == <<index, negative, memory, usage>>
configVars == <<generation, fingerprint, snapshot, version, config>>
adminVars  == <<admin, refresh, operations>>
history    == <<boundary, begun, cascaded, strays>>
cacheVars == <<storeVars, memoryVars, configVars, gate, stage, look, fill, adminVars, history>>

-----------------------------------------------------------------------------

Stages == {"idle", "begun", "captured", "cleaned", "cold", "read", "hit", "served",
           "invalidate", "miss", "filling", "renamed", "upserted"}
NoKeys == [k \in Keys |-> 0]
NoLook == [key |-> CHOOSE k \in Keys : TRUE, version |-> 1, generation |-> 0,
           current |-> FALSE, asof |-> {}, candidates |-> NoKeys, token |-> 0, body |-> 0]
NoFill == [token |-> 0, backup |-> 0, replaced |-> 0]

CacheInit ==
    /\ rows = NoKeys
    /\ files = NoKeys
    /\ expired = {}
    /\ lastStored = 0
    /\ index = NoKeys
    /\ negative = FALSE
    /\ memory = NoKeys
    /\ usage = [known |-> FALSE, entries |-> 0, bytes |-> 0]
    /\ generation = 1
    /\ fingerprint = 1
    /\ snapshot = 1
    /\ version = 1
    /\ config = [v \in Versions |-> [on |-> TRUE, rule |-> TRUE]]
    /\ gate = {}
    /\ stage = [r \in Clients |-> "idle"]
    /\ look = [r \in Clients |-> NoLook]
    /\ fill = [r \in Clients |-> NoFill]
    /\ admin = [op |-> "idle", then |-> "idle", generation |-> 0]
    /\ refresh = [by |-> "nobody", version |-> 0, applied |-> FALSE]
    /\ operations = 0
    /\ boundary = NoKeys
    /\ begun = [t \in Tokens |-> 0]
    /\ cascaded = FALSE
    /\ strays = {}

-----------------------------------------------------------------------------
(* The locks and the counters. *)

(* acquireKeyFence: the digest's stripe, then storeGate shared.  A request *)
(* keeps both over two steps only while it stores.                         *)
Fenced(k) == \E r \in Clients : stage[r] \in {"renamed", "upserted"} /\ look[r].key = k
FenceFree(k) == gate = {} /\ ~Fenced(k)

(* storeGate taken exclusively. *)
GateFree == gate = {} /\ \A k \in Keys : ~Fenced(k)

Enabled(v) == v # 0 => config[v].on

(* Variant: a fill is compared with the configuration only. *)
FingerprintMatches(r) ==
    /\ Enabled(fingerprint)
    /\ fingerprint = look[r].version

(* generationMatches *)
GenerationMatches(r) ==
    /\ Enabled(fingerprint)
    /\ generation = look[r].generation
    /\ fingerprint = look[r].version

Fresh(k) == rows[k] # 0 /\ rows[k] \notin expired
Stored  == {k \in Keys : rows[k] # 0}

(* The bytes of the bodies of the responses that f names, each by its      *)
(* digest and its place, and how many they are.                            *)
Octets(f) == UNION {{k} \X (1..Size[f[k]]) : k \in {j \in Keys : f[j] # 0}}
Bytes(f)  == Cardinality(Octets(f))

(* adjustStorageUsage, ignored until the counters are initialized. *)
Adjusted(u, bytes, entries) ==
    IF ~u.known THEN u
    ELSE [u EXCEPT !.bytes = Max({0, @ + bytes}), !.entries = Max({0, @ + entries})]

(* ensureStorageUsageLocked: SumPublicCacheBytes. *)
Counted ==
    IF usage.known THEN usage
    ELSE [known |-> TRUE, entries |-> Cardinality(Stored), bytes |-> Bytes(rows)]

(* The rows of the digests S go with their bodies, index entries and       *)
(* memory copies (deleteEntry, os.Remove, adjustStorageUsage); u is what   *)
(* the counters say before.                                                *)
DeleteRows(S, u) ==
    LET gone == S \cap Stored
        Without(f) == [k \in Keys |-> IF k \in gone THEN 0 ELSE f[k]]
    IN  /\ rows'   = Without(rows)
        /\ files'  = Without(files)
        /\ index'  = Without(index)
        /\ memory' = Without(memory)
        /\ usage'  = Adjusted(u, Bytes(Without(rows)) - Bytes(rows), -Cardinality(gone))

(* clearIndexLocked *)
ClearIndex == index' = NoKeys /\ negative' = FALSE

Goto(r, s) == stage' = [stage EXCEPT ![r] = s]

-----------------------------------------------------------------------------
(* Lookup: checkPublicCacheWithSnapshot and preparePublicCacheHitBody. *)

(* A request arrives with the current snapshot, which has the cache on and *)
(* the rule in it.                                                         *)
Begin(r, k) ==
    /\ stage[r] = "idle"
    /\ Enabled(snapshot)
    /\ config[snapshot].rule
    /\ look' = [look EXCEPT ![r] = [NoLook EXCEPT !.key = k, !.version = snapshot]]
    /\ Goto(r, "begun")
    /\ UNCHANGED <<storeVars, memoryVars, configVars, gate, fill, adminVars, history>>

(* captureGeneration *)
Capture(r) ==
    /\ stage[r] = "begun"
    /\ look' = [look EXCEPT ![r].generation = generation,
                            ![r].current = Enabled(fingerprint) /\ fingerprint = look[r].version]
    /\ Goto(r, "captured")
    /\ UNCHANGED <<storeVars, memoryVars, configVars, gate, fill, adminVars, history>>

(* The counters u are over budget once the rows of E are gone. *)
OverBudget(u, E) ==
    \/ u.bytes - Bytes([k \in Keys |-> IF k \in E THEN rows[k] ELSE 0]) > MaxDiskBytes
    \/ u.entries - Cardinality(E) > MaxEntries

(* maybeCleanup, when its interval has passed: the expired rows go, then   *)
(* one row after the other until the counters are within budget.  Which    *)
(* row was used least recently is left open; a database error ends the     *)
(* pass early.                                                             *)
MaybeCleanup(r) ==
    /\ stage[r] = "captured"
    /\ GateFree
    /\ \E old \in {{}, {k \in Stored : rows[k] \in expired}} :
         \E E \in SUBSET (Stored \ old) :
           /\ E = {} \/ \E e \in E : OverBudget(Counted, old \cup (E \ {e}))
           /\ DeleteRows(old \cup E, Counted)
    /\ Goto(r, "cleaned")
    /\ UNCHANGED <<expired, lastStored, negative, configVars, gate, look, fill,
                   adminVars, history>>

(* The candidate for the request's own digest decides. *)
Resolve(r, candidates, asof) ==
    LET t == candidates[look[r].key]
    IN  /\ look' = [look EXCEPT ![r].token = t, ![r].candidates = NoKeys, ![r].asof = {}]
        /\ Goto(r, IF t = 0 THEN "miss" ELSE IF t \in asof THEN "invalidate" ELSE "hit")

(* lookupIndexedCandidates: the index answers if it has any variant of the *)
(* lookup key, or knows that there is none.                                *)
Loaded(r) == GenerationMatches(r) /\ (index # NoKeys \/ negative)

Lookup(r) ==
    /\ stage[r] \in {"captured", "cleaned"}
    /\ IF Loaded(r) THEN Resolve(r, index, expired)
       ELSE /\ look' = [look EXCEPT ![r].asof = expired]
            /\ Goto(r, "cold")
    /\ UNCHANGED <<storeVars, memoryVars, configVars, gate, fill, adminVars, history>>

(* The negative lookup's lifetime ends. *)
NegativeExpires ==
    /\ negative
    /\ negative' = FALSE
    /\ UNCHANGED <<storeVars, index, memory, usage, configVars, gate, stage, look, fill,
                   adminVars, history>>

(* ListPublicCacheEntryCandidates; a database error is a miss. *)
ReadRows(r, ok) ==
    /\ stage[r] = "cold"
    /\ look' = [look EXCEPT ![r].candidates =
                    [k \in Keys |-> IF ok /\ rows[k] \notin look[r].asof THEN rows[k] ELSE 0]]
    /\ Goto(r, IF ok THEN "read" ELSE "miss")
    /\ UNCHANGED <<storeVars, memoryVars, configVars, gate, fill, adminVars, history>>

Indexed == {k \in Keys : index[k] # 0}

(* storeIndexedCandidates: what another lookup or a store has put in the   *)
(* index meanwhile stays; the newest of the others are put as far as there *)
(* is room.  A lookup key without a valid candidate becomes negative.      *)
StoreIndexed(r) ==
    LET c     == look[r].candidates
        fresh == {k \in Keys \ Indexed : c[k] # 0}
        put   == {k \in fresh : Cardinality({j \in fresh : c[j] > c[k]} \cup Indexed) < MaxEntries}
        valid == \E k \in Indexed : c[k] # 0 /\ index[k] \notin look[r].asof
    IN  /\ stage[r] = "read"
        /\ IF GenerationMatches(r)
           THEN /\ index' = [k \in Keys |-> IF k \in put THEN c[k] ELSE index[k]]
                /\ negative' = IF fresh # {} THEN FALSE
                               ELSE IF valid THEN negative
                               ELSE Cardinality(Indexed) < MaxEntries
           ELSE UNCHANGED <<index, negative>>
        /\ Resolve(r, c, {})
        /\ UNCHANGED <<storeVars, memory, usage, configVars, gate, fill, adminVars, history>>

(* The hit could not be prepared: the request goes on as a miss. *)
Miss(r) ==
    /\ look' = [look EXCEPT ![r].token = 0]
    /\ Goto(r, "miss")

(* Variant: any row of the digest is taken for the one the lookup found. *)
SomeRow(r) == rows[look[r].key] # 0

(* openCurrentPublicCacheHit: the row is still the one the lookup found.   *)
CurrentRow(r) == rows[look[r].key] = look[r].token

(* openCurrentPublicCacheHit under the digest's fence: serve the memory    *)
(* copy or the body file.  Without the row or the file the entry is        *)
(* invalidated.                                                            *)
Open(r) ==
    LET k == look[r].key
        body == IF memory[k] = look[r].token THEN memory[k] ELSE files[k]
    IN  /\ stage[r] = "hit"
        /\ FenceFree(k)
        /\ IF CurrentRow(r) /\ body # 0
           THEN /\ look' = [look EXCEPT ![r] = [NoLook EXCEPT !.key = k, !.token = look[r].token,
                                                              !.body = body]]
                /\ Goto(r, "served")
           ELSE /\ UNCHANGED look
                /\ Goto(r, "invalidate")
        /\ UNCHANGED <<storeVars, memoryVars, configVars, gate, fill, adminVars, history>>

(* The response is sent; or the row could not be read, which is a miss. *)
Served(r) ==
    /\ stage[r] = "served"
    /\ look' = [look EXCEPT ![r] = NoLook]
    /\ Goto(r, "idle")
    /\ UNCHANGED <<storeVars, memoryVars, configVars, gate, fill, adminVars, history>>

OpenFails(r) ==
    /\ stage[r] = "hit"
    /\ FenceFree(look[r].key)
    /\ Miss(r)
    /\ UNCHANGED <<storeVars, memoryVars, configVars, gate, fill, adminVars, history>>

(* invalidatePublicCacheEntry: only the generation the lookup found goes.  *)
Invalidate(r) ==
    LET k == look[r].key
        t == look[r].token
    IN  /\ stage[r] = "invalidate"
        /\ GateFree
        /\ rows'   = [rows EXCEPT ![k] = IF @ = t THEN 0 ELSE @]
        /\ files'  = [files EXCEPT ![k] = IF rows[k] = t THEN 0 ELSE @]
        /\ memory' = [memory EXCEPT ![k] = IF @ = t THEN 0 ELSE @]
        /\ index'  = [index EXCEPT ![k] = IF @ = t THEN 0 ELSE @]
        /\ usage'  = IF rows[k] = t THEN Adjusted(usage, -Size[t], -1) ELSE usage
        /\ Miss(r)
        /\ UNCHANGED <<expired, lastStored, negative, configVars, gate, fill,
                       adminVars, history>>

InvalidateFails(r) ==
    /\ stage[r] = "invalidate"
    /\ GateFree
    /\ Miss(r)
    /\ UNCHANGED <<storeVars, memoryVars, configVars, gate, fill, adminVars, history>>

-----------------------------------------------------------------------------
(* Store: capturePublicCacheResponseBody and publicCacheStoreReadCloser. *)

(* The request goes back to idle without a store. *)
Drop(r) ==
    /\ look' = [look EXCEPT ![r] = NoLook]
    /\ fill' = [fill EXCEPT ![r] = NoFill]
    /\ Goto(r, "idle")

(* The origin answered; its body is captured if the response may be stored *)
(* and the lookup's generation is still current.                           *)
Fetch(r) ==
    /\ stage[r] = "miss"
    /\ look[r].current
    /\ GenerationMatches(r)
    /\ Goto(r, "filling")
    /\ UNCHANGED <<storeVars, memoryVars, configVars, gate, look, fill, adminVars, history>>

(* The response is not eligible or not current, the body is too large, the *)
(* client left, or a file operation failed.                                *)
Discard(r) ==
    /\ stage[r] \in {"miss", "filling"}
    /\ Drop(r)
    /\ UNCHANGED <<storeVars, memoryVars, configVars, gate, adminVars, history>>

(* commit up to the rename: the first response of a digest wins until it   *)
(* expires; the file it replaces is kept under a second name.              *)
Rename(r) ==
    LET k == look[r].key
    IN  /\ stage[r] = "filling"
        /\ FenceFree(k)
        /\ GenerationMatches(r)
        /\ ~Fresh(k)
        /\ lastStored < MaxToken
        /\ lastStored' = lastStored + 1
        /\ fill' = [fill EXCEPT ![r] = [token |-> lastStored', backup |-> files[k],
                                        replaced |-> rows[k]]]
        /\ files' = [files EXCEPT ![k] = lastStored']
        /\ begun' = [begun EXCEPT ![lastStored'] = look[r].generation]
        /\ Goto(r, "renamed")
        /\ UNCHANGED <<rows, expired, memoryVars, configVars, gate, look, adminVars,
                       boundary, cascaded, strays>>

(* UpsertPublicCacheEntry.  The row refers to the rule's row. *)
Upsert(r) ==
    /\ stage[r] = "renamed"
    /\ config[version].rule
    /\ rows' = [rows EXCEPT ![look[r].key] = fill[r].token]
    /\ Goto(r, "upserted")
    /\ UNCHANGED <<files, expired, lastStored, memoryVars, configVars, gate, look, fill,
                   adminVars, history>>

(* The upsert failed: the previous body is put back; when that fails the   *)
(* path is emptied; when that fails too the new body stays, under the old  *)
(* row or under none.                                                      *)
UpsertFails(r, left) ==
    /\ stage[r] = "renamed"
    /\ left \in {fill[r].backup, 0, fill[r].token}
    /\ files' = [files EXCEPT ![look[r].key] = left]
    /\ strays' = strays \cup ({left} \cap {fill[r].token})
    /\ Drop(r)
    /\ UNCHANGED <<rows, expired, lastStored, memoryVars, configVars, gate, adminVars,
                   boundary, begun, cascaded>>

(* putMemory and pruneMemoryLocked: the bodies that make room are left     *)
(* open.                                                                   *)
PutMemory(k, t) ==
    IF Size[t] > MaxMemoryBytes THEN UNCHANGED memory
    ELSE \E E \in SUBSET (Keys \ {k}) :
           LET m == [j \in Keys |-> IF j = k THEN t ELSE IF j \in E THEN 0 ELSE memory[j]]
           IN  /\ Bytes(m) <= MaxMemoryBytes
               /\ E = {} \/ \E e \in E : Bytes([m EXCEPT ![e] = memory[e]]) > MaxMemoryBytes
               /\ memory' = m

(* Variant: a replaced row is counted again. *)
GrossDelta(t, old) == [bytes |-> Size[t], entries |-> 1]

(* storedBytesDelta and storedEntriesDelta *)
StoredDelta(t, old) ==
    IF old = 0 THEN [bytes |-> Size[t], entries |-> 1]
               ELSE [bytes |-> Size[t] - Size[old], entries |-> 0]

(* The rest of commit: the counters, putIndexEntry, putMemory and the      *)
(* release of the fence.                                                   *)
Publish(r) ==
    LET k == look[r].key
        t == fill[r].token
        d == StoredDelta(t, fill[r].replaced)
    IN  /\ stage[r] = "upserted"
        /\ usage' = Adjusted(usage, d.bytes, d.entries)
        /\ index' = [index EXCEPT ![k] =
                        IF @ # 0 \/ Cardinality(Indexed) < MaxEntries THEN t ELSE @]
        /\ negative' = FALSE
        /\ PutMemory(k, t)
        /\ Drop(r)
        /\ UNCHANGED <<storeVars, configVars, gate, adminVars, history>>

-----------------------------------------------------------------------------
(* The operator: purges and configuration changes. *)

Operation == operations < MaxOperations /\ operations' = operations + 1

(* PurgePublicCache of the digests S: all, a rule, a host or a path.  It   *)
(* keeps storeGate from the new generation to the end.                     *)
Purge(S) ==
    /\ GateFree
    /\ Operation
    /\ gate' = S
    /\ generation' = generation + 1
    /\ ClearIndex
    /\ UNCHANGED <<storeVars, memory, usage, fingerprint, snapshot, version, config, stage,
                   look, fill, admin, refresh, history>>

PurgeRows ==
    /\ gate # {}
    /\ DeleteRows(gate, usage)
    /\ boundary' = [k \in Keys |-> IF k \in gate THEN generation ELSE boundary[k]]
    /\ gate' = {}
    /\ UNCHANGED <<expired, lastStored, negative, configVars, stage, look, fill, adminVars,
                   begun, cascaded, strays>>

(* The purge's database statement fails: the rows stay. *)
PurgeFails ==
    /\ gate # {}
    /\ gate' = {}
    /\ UNCHANGED <<storeVars, memoryVars, configVars, stage, look, fill, adminVars, history>>

(* storageUsageSnapshot, for the dashboard. *)
StorageUsage ==
    /\ GateFree
    /\ ~usage.known
    /\ usage' = Counted
    /\ UNCHANGED <<storeVars, index, negative, memory, configVars, gate, stage, look, fill,
                   adminVars, history>>

(* The first step of a change.  UpdatePublicCacheRule writes the rule and  *)
(* will purge its rows; UpdatePublicCacheSettings and the creation of      *)
(* another rule write and keep the rows; DeletePublicCacheRule purges      *)
(* before it writes.                                                       *)
Change(then, on) ==
    /\ admin.op = "idle"
    /\ config[version].rule
    /\ version < MaxVersion
    /\ Operation
    /\ then # "keep" => on = config[version].on
    /\ IF then = "delete" THEN UNCHANGED <<version, config>>
       ELSE /\ version' = version + 1
            /\ config' = [config EXCEPT ![version + 1] = [config[version] EXCEPT !.on = on]]
    /\ admin' = [op |-> "invalidate", then |-> then, generation |-> 0]
    /\ UNCHANGED <<storeVars, memoryVars, generation, fingerprint, snapshot, gate, stage, look,
                   fill, refresh, history>>

(* invalidateConfiguration *)
InvalidateConfiguration ==
    /\ admin.op = "invalidate"
    /\ GateFree
    /\ generation' = generation + 1
    /\ fingerprint' = 0
    /\ ClearIndex
    /\ admin' = [admin EXCEPT !.op = IF admin.then = "keep" THEN "refresh" ELSE "purge",
                              !.generation = generation']
    /\ UNCHANGED <<storeVars, memory, usage, snapshot, version, config, gate, stage, look,
                   fill, refresh, operations, history>>

(* purgePublicCacheEntriesByRuleID *)
PurgeRule ==
    /\ admin.op = "purge"
    /\ GateFree
    /\ DeleteRows(Keys, usage)
    /\ boundary' = [k \in Keys |-> admin.generation]
    /\ admin' = [admin EXCEPT !.op = IF admin.then = "delete" THEN "delete" ELSE "refresh"]
    /\ UNCHANGED <<expired, lastStored, negative, configVars, gate, stage, look, fill, refresh,
                   operations, begun, cascaded, strays>>

(* DeletePublicCacheRule's statement; the rows that refer to the rule go   *)
(* with it (ON DELETE CASCADE), outside storeGate.                         *)
DeleteRule ==
    /\ admin.op = "delete"
    /\ version' = version + 1
    /\ config' = [config EXCEPT ![version + 1] = [config[version] EXCEPT !.rule = FALSE]]
    /\ rows' = NoKeys
    /\ cascaded' = (cascaded \/ Stored # {})
    /\ admin' = [admin EXCEPT !.op = "refresh"]
    /\ UNCHANGED <<files, expired, lastStored, memoryVars, generation, fingerprint, snapshot,
                   gate, stage, look, fill, refresh, operations, boundary, begun,
                   strays>>

(* refreshPublicProxySnapshot under publicConfigRefreshMu: load, publish   *)
(* the snapshot, reconcile the cache.  Any other change of the public      *)
(* configuration refreshes too.                                            *)
Load(by) ==
    /\ refresh.by = "nobody"
    /\ IF by = "admin" THEN admin.op = "refresh" /\ UNCHANGED operations ELSE Operation
    /\ refresh' = [by |-> by, version |-> version, applied |-> FALSE]
    /\ UNCHANGED <<storeVars, memoryVars, configVars, gate, stage, look, fill, admin, history>>

Apply ==
    /\ refresh.by # "nobody"
    /\ ~refresh.applied
    /\ snapshot' = refresh.version
    /\ refresh' = [refresh EXCEPT !.applied = TRUE]
    /\ UNCHANGED <<storeVars, memoryVars, generation, fingerprint, version, config, gate, stage,
                   look, fill, admin, operations, history>>

(* reconcile *)
Reconcile ==
    LET v == refresh.version
    IN  /\ refresh.applied
        /\ GateFree
        /\ fingerprint' = v
        /\ generation' = IF fingerprint = v THEN generation ELSE generation + 1
        /\ IF fingerprint = v /\ Enabled(v) THEN UNCHANGED <<index, negative>> ELSE ClearIndex
        /\ memory' = IF Enabled(v) THEN memory ELSE NoKeys
        /\ admin' = IF refresh.by = "admin" THEN [admin EXCEPT !.op = "idle"] ELSE admin
        /\ refresh' = [by |-> "nobody", version |-> 0, applied |-> FALSE]
        /\ UNCHANGED <<storeVars, usage, snapshot, version, config, gate, stage, look, fill,
                       operations, history>>

-----------------------------------------------------------------------------
(* Time and failures. *)

Expire(t) ==
    /\ t \notin expired
    /\ \E k \in Keys : rows[k] = t
    /\ expired' = expired \cup {t}
    /\ UNCHANGED <<rows, files, lastStored, memoryVars, configVars, gate, stage, look, fill,
                   adminVars, history>>

(* The server stops at any point and starts again with what the database   *)
(* and the disk hold.                                                      *)
Crash ==
    /\ Operation
    /\ ClearIndex
    /\ memory' = NoKeys
    /\ usage' = [known |-> FALSE, entries |-> 0, bytes |-> 0]
    /\ generation' = generation + 1
    /\ fingerprint' = version
    /\ snapshot' = version
    /\ gate' = {}
    /\ stage' = [r \in Clients |-> "idle"]
    /\ look' = [r \in Clients |-> NoLook]
    /\ fill' = [r \in Clients |-> NoFill]
    /\ admin' = [admin EXCEPT !.op = "idle"]
    /\ refresh' = [by |-> "nobody", version |-> 0, applied |-> FALSE]
    /\ cascaded' = FALSE
    /\ UNCHANGED <<storeVars, version, config, boundary, begun, strays>>

-----------------------------------------------------------------------------

Handle(r) ==
    \/ Capture(r)
    \/ MaybeCleanup(r)
    \/ Lookup(r)
    \/ \E ok \in BOOLEAN : ReadRows(r, ok)
    \/ StoreIndexed(r)
    \/ Open(r)
    \/ OpenFails(r)
    \/ Served(r)
    \/ Invalidate(r)
    \/ InvalidateFails(r)
    \/ Fetch(r)
    \/ Discard(r)
    \/ Rename(r)
    \/ Upsert(r)
    \/ \E left \in 0..MaxToken : UpsertFails(r, left)
    \/ Publish(r)

Operate ==
    \/ \E S \in SUBSET Keys \ {{}} : Purge(S)
    \/ PurgeRows
    \/ PurgeFails
    \/ StorageUsage
    \/ \E then \in {"purge", "keep", "delete"}, on \in BOOLEAN : Change(then, on)
    \/ InvalidateConfiguration
    \/ PurgeRule
    \/ DeleteRule
    \/ \E by \in {"admin", "other"} : Load(by)
    \/ Apply
    \/ Reconcile

CacheNext ==
    \/ \E r \in Clients, k \in Keys : Begin(r, k)
    \/ \E r \in Clients : Handle(r)
    \/ Operate
    \/ NegativeExpires
    \/ \E t \in Tokens : Expire(t)
    \/ Crash

CacheSpec == CacheInit /\ [][CacheNext]_cacheVars

-----------------------------------------------------------------------------
(* A hit is served with the body of the response whose headers it has: the *)
(* body path is shared by all responses of a digest, so a lookup that is   *)
(* overtaken by a replacement, a failed replacement or a crash between the *)
(* rename and the database write must not combine two of them              *)
(* (openCurrentPublicCacheHit, commit).  Only a body whose store failed    *)
(* and that could be neither replaced nor removed may turn up under the    *)
(* headers of the response it was to replace.                              *)
BodyMatchesHeaders ==
    \A r \in Clients : stage[r] = "served" => look[r].body \in {look[r].token} \cup strays

(* A response whose fetch began before a purge of its digest, or before    *)
(* the edit of its rule, is not in the cache afterwards                    *)
(* (acquireStoreGeneration, invalidateEntries).                            *)
PurgedStaysPurged == \A k \in Keys : rows[k] # 0 => begun[rows[k]] >= boundary[k]

(* The counters the dashboard shows and cleanup works with are the sums    *)
(* over the rows whenever no store is between its row and its counters     *)
(* (storageUsageSnapshot).  The exception is DeleteRule's cascade, which   *)
(* takes a row that was stored after the rule's purge without counting it. *)
UsageExact ==
    usage.known /\ ~cascaded /\ (\A r \in Clients : stage[r] # "upserted") =>
        usage.entries = Cardinality(Stored) /\ usage.bytes = Bytes(rows)
=============================================================================
