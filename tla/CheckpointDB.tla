---------------------------- MODULE CheckpointDB ----------------------------
(***************************************************************************)
(* The trie's database (mpt/src/db/checkpointDB.ts): a stack of layers,    *)
(* one per open checkpoint, over the backing database, with an LRU cache   *)
(* of what the backing database holds.  A read that misses waits for the   *)
(* backing database and then records the answer in the innermost layer;    *)
(* the calls made while it waits are the ones Overlap admits.  The trie's  *)
(* lock makes puts, deletions, batches, commits and reverts exclusive, not *)
(* reads.  The backing database is external: a batch is written whole or   *)
(* not at all.                                                             *)
(***************************************************************************)
EXTENDS Integers, Sequences, FiniteSets

CONSTANTS Keys,
          Values,
          Absent,      \* undefined: the key has no value
          Unset,       \* the layer has no entry for the key
          CacheSize,   \* cacheSize
          Overlap,     \* do callers write while one of their reads waits?
          MaxDepth     \* bound: checkpoints open at once

ASSUME DBAssumption ==
    /\ Absent \notin Values
    /\ Unset \notin Values \cup {Absent}
    /\ CacheSize \in Nat /\ MaxDepth \in Nat
    /\ Overlap \in BOOLEAN

VARIABLES disk,     \* db
          lru,      \* _cache
          layers,   \* the keyValueMap of each checkpoint, outermost first
          waiting   \* what the backing database answered to a read, Unset if none waits

databaseVars == <<disk, lru, layers, waiting>>

Contents == Values \cup {Absent}
Layer == [Keys -> Contents \cup {Unset}]
EmptyLayer == [k \in Keys |-> Unset]
Nowhere == [k \in Keys |-> Absent]

DatabaseInit == /\ disk = Nowhere
                /\ lru = Nowhere
                /\ layers = << >>
                /\ waiting = EmptyLayer

\* The entries of a layer over what is below it.
Over(below, m) == [k \in Keys |-> IF m[k] = Unset THEN below[k] ELSE m[k]]

\* Setting undefined deletes from the cache, and setting a value may evict others:
\* which one was used least recently, and when in a batch, is left open.
Cached(c) == {k \in Keys : c[k] # Absent}
Remember(c, m) ==
    IF CacheSize = 0 THEN {c}
    ELSE {d \in [Keys -> Contents] :
            /\ \A k \in Keys : d[k] \in {Over(c, m)[k], Absent}
            /\ Cardinality(Cached(d)) <= CacheSize}

\* Faulty variant: a batch leaves the cache as it is.
CacheKept(c, m) == {c}
CacheAfterBatch(c, m) == Remember(c, m)

One(k, v) == [EmptyLayer EXCEPT ![k] = v]
Top == layers[Len(layers)]
WithTop(m) == [layers EXCEPT ![Len(layers)] = m]

Held(k) == {i \in 1..Len(layers) : layers[i][k] # Unset}

\* A trie operation awaits its reads before it writes; another reader of the same
\* trie does not take the lock.
Quiet == Overlap \/ waiting = EmptyLayer

\* get: no layer and not the cache has the key, the backing database answers.
GetMiss(k) ==
    /\ waiting[k] = Unset
    /\ Held(k) = {}
    /\ lru[k] = Absent
    /\ waiting' = [waiting EXCEPT ![k] = disk[k]]
    /\ UNCHANGED <<disk, lru, layers>>

\* get resumes: the answer goes to the cache and to the innermost layer.
GetAnswer(k) ==
    /\ waiting[k] # Unset
    /\ lru' \in Remember(lru, One(k, waiting[k]))
    /\ layers' = IF layers = << >> THEN layers ELSE WithTop(Over(Top, One(k, waiting[k])))
    /\ waiting' = [waiting EXCEPT ![k] = Unset]
    /\ UNCHANGED disk

\* put, del (v = Absent) and batch.
Write(m) ==
    /\ Quiet
    /\ IF layers = << >>
       THEN /\ disk' = Over(disk, m)
            /\ lru' \in CacheAfterBatch(lru, m)
            /\ UNCHANGED layers
       ELSE /\ layers' = WithTop(Over(Top, m))
            /\ UNCHANGED <<disk, lru>>
    /\ UNCHANGED waiting

Put(k, v) == Write(One(k, v))
Del(k) == Write(One(k, Absent))
Batch(m) == Write(m)

Checkpoint ==
    /\ Len(layers) < MaxDepth
    /\ Quiet
    /\ layers' = Append(layers, EmptyLayer)
    /\ UNCHANGED <<disk, lru, waiting>>

Below == SubSeq(layers, 1, Len(layers) - 1)
\* Faulty variant: the parent's entries win.
MergeOldest(parent, m) == Over(m, parent)
Merge(parent, m) == Over(parent, m)

\* The outermost commit writes the layer to the backing database.
CommitToDisk ==
    /\ Len(layers) = 1
    /\ Quiet
    /\ disk' = Over(disk, Top)
    /\ lru' \in CacheAfterBatch(lru, Top)
    /\ layers' = << >>
    /\ UNCHANGED waiting

\* The batch fails: the layer stays readable and can be committed again.
CommitFails ==
    /\ Len(layers) = 1
    /\ Quiet
    /\ UNCHANGED databaseVars

\* An inner commit merges the layer into its parent.
CommitToParent ==
    /\ Len(layers) > 1
    /\ Quiet
    /\ layers' = [Below EXCEPT ![Len(layers) - 1] = Merge(@, Top)]
    /\ UNCHANGED <<disk, lru, waiting>>

Revert ==
    /\ layers # << >>
    /\ Quiet
    /\ layers' = Below
    /\ UNCHANGED <<disk, lru, waiting>>

DatabaseNext == \/ \E k \in Keys : GetMiss(k) \/ GetAnswer(k) \/ Del(k)
                \/ \E k \in Keys, v \in Values : Put(k, v)
                \/ \E m \in Layer : Batch(m)
                \/ Checkpoint
                \/ CommitToDisk
                \/ CommitFails
                \/ CommitToParent
                \/ Revert

DatabaseSpec == DatabaseInit /\ [][DatabaseNext]_databaseVars
-----------------------------------------------------------------------------
\* Every variable keeps its type and the cache its size.
DatabaseTypeOK == /\ disk \in [Keys -> Contents]
                  /\ lru \in [Keys -> Contents]
                  /\ Cardinality(Cached(lru)) <= CacheSize
                  /\ layers \in Seq(Layer)
                  /\ waiting \in Layer

\* Whatever the cache holds is what the backing database holds, through failed
\* batches, reverts and reads that answered late.
CacheCoherent == \A k \in Cached(lru) : lru[k] = disk[k]

\* What a get of every key answers when only the n outermost layers are there.
Answer(n) ==
    [k \in Keys |->
        LET H == {i \in 1..n : layers[i][k] # Unset}
        IN  IF H # {} THEN layers[CHOOSE i \in H : \A j \in H : j <= i][k]
            ELSE IF lru[k] # Absent THEN lru[k] ELSE disk[k]]
View == Answer(Len(layers))

\* A get answers the last value written, whatever was cached, recorded in a layer
\* or merged on the way: only a write changes an answer, only of the keys it
\* names, and a revert brings back the answers of its checkpoint, which no step
\* changes while it is open.
LastWriteRead ==
    [][/\ \/ View' = View
          \/ \E m \in Layer : Write(m) /\ View' = Over(View, m)
          \/ Revert /\ View' = Answer(Len(layers) - 1)
       /\ \A i \in 1..Len(layers) : i <= Len(layers') => Answer(i - 1)' = Answer(i - 1)]_databaseVars

\* The cache stays within its size and agrees with the backing database.
DatabaseSound == DatabaseTypeOK /\ CacheCoherent
=============================================================================
