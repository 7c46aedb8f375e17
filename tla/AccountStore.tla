---------------------------- MODULE AccountStore ----------------------------
(***************************************************************************)
(* The accounts of packages/statemanager/src/merkleStateManager.ts: an     *)
(* AccountCache in front of the account trie, both checkpointed.  A trie   *)
(* is the map it stores (its root identifies the map: keccak collisions    *)
(* are ignored) and its checkpoints are the roots CheckpointDB keeps.      *)
(*                                                                         *)
(* hist is a history variable: what cache and trie were when each open     *)
(* checkpoint was made.  No action reads it; the properties compare the    *)
(* code's own rollback data with it.                                       *)
(***************************************************************************)
EXTENDS StateCache

CONSTANTS Nothing,       \* getAccount returned undefined
          MaxDepth       \* bound: checkpoints open at once

ASSUME StoreAssumption == /\ Nothing \in Elements
                          /\ MaxDepth \in Nat

VARIABLES cache, trie, trieCp, held, hist

vars == <<cache, trie, trieCp, held, hist>>

EmptyTrie == [k \in Keys |-> Nothing]

Init == /\ cache = EmptyCache
        /\ trie = EmptyTrie
        /\ trieCp = <<>>
        /\ held = EmptyTrie
        /\ hist = <<>>

(* What getAccount returns. *)
ViewOf(elem, t) == [k \in Keys |-> IF elem[k] = Absent THEN t[k] ELSE elem[k]]
View == ViewOf(cache.elem, trie)

(* The trie after flush wrote the cache's items to it. *)
Flushed(c, t) == [k \in Keys |-> IF k \in FlushItems(c) THEN c.elem[k] ELSE t[k]]

(* A miss reads the trie and caches the answer, which put marks as pending. *)
GetAccount(k) ==
  /\ cache.elem[k] = Absent
  /\ cache' \in CachePut(cache, k, trie[k])
  /\ UNCHANGED <<trie, trieCp, held, hist>>

(* putAccount; v = Nothing is its deletion branch. *)
PutAccount(k, v) ==
  /\ cache' \in CachePut(cache, k, v)
  /\ UNCHANGED <<trie, trieCp, held, hist>>

Checkpoint ==
  /\ Len(trieCp) < MaxDepth
  /\ trieCp' = Append(trieCp, trie)
  /\ cache' = CacheCheckpoint(cache)
  /\ hist' = Append(hist, [elem |-> cache.elem, dirty |-> cache.dirty, trie |-> trie])
  /\ UNCHANGED <<trie, held>>

(* The outermost commit also flushes. *)
Commit ==
  /\ trieCp # <<>>
  /\ LET c == CacheCommit(cache)
     IN  IF Len(trieCp) = 1
         THEN cache' = CacheFlush(c) /\ trie' = Flushed(c, trie)
         ELSE cache' = c /\ trie' = trie
  /\ trieCp' = Pop(trieCp)
  /\ hist' = Pop(hist)
  /\ UNCHANGED held

(* So does the revert of the outermost checkpoint. *)
Revert ==
  /\ trieCp # <<>>
  /\ \E c \in CacheRevert(cache) :
       IF Len(trieCp) = 1
       THEN cache' = CacheFlush(c) /\ trie' = Flushed(c, Top(trieCp))
       ELSE cache' = c /\ trie' = Top(trieCp)
  /\ trieCp' = Pop(trieCp)
  /\ hist' = Pop(hist)
  /\ UNCHANGED held

(* getStateRoot flushes and answers the trie's root.  A root taken with no  *)
(* checkpoint open is in the database for good, and the caller may keep it. *)
GetStateRoot ==
  /\ cache' = CacheFlush(cache)
  /\ trie' = Flushed(cache, trie)
  /\ held' = IF trieCp = <<>> THEN trie' ELSE held
  /\ UNCHANGED <<trieCp, hist>>

(* setStateRoot flushes, moves the trie to the root and clears the cache,   *)
(* whether or not checkpoints are open.                                     *)
SetStateRoot ==
  /\ cache' = CacheClear(CacheFlush(cache))
  /\ trie' = held
  /\ UNCHANGED <<trieCp, held, hist>>

Next == \/ \E k \in Keys : GetAccount(k)
        \/ \E k \in Keys, v \in Elements : PutAccount(k, v)
        \/ Checkpoint
        \/ Commit
        \/ Revert
        \/ GetStateRoot
        \/ SetStateRoot

Spec == Init /\ [][Next]_vars

-----------------------------------------------------------------------------
Depth == Len(hist)

TrieMap == [Keys -> Elements]
Snapshot == [elem : ElemMap, dirty : SUBSET Keys, trie : TrieMap]

(* The state's types, and the four checkpoint stacks (cache elements, cache *)
(* marks, trie roots, history) keep one height.                             *)
TypeOK ==
  /\ cache \in CacheType
  /\ trie \in TrieMap
  /\ trieCp \in Seq(TrieMap)
  /\ held \in TrieMap
  /\ hist \in Seq(Snapshot)
  /\ Len(trieCp) = Depth
  /\ Len(cache.dirtyCp) = Depth
  /\ Len(cache.diff) = Depth + 1

(* What was current at height i; height Depth + 1 is now. *)
Level(i) == IF i = Depth + 1
            THEN [elem |-> cache.elem, dirty |-> cache.dirty, trie |-> trie]
            ELSE hist[i]

(* No stale read and no lost write: an element that is not waiting to be    *)
(* written is what the trie holds, and one that is waiting is still cached, *)
(* now and at every checkpoint a revert can lead back to.                   *)
CoherentAt(s) == /\ \A k \in Keys : s.elem[k] # Absent /\ k \notin s.dirty => s.elem[k] = s.trie[k]
                 /\ \A k \in s.dirty : s.elem[k] # Absent
Coherent == \A i \in 1..Depth + 1 : CoherentAt(Level(i))

(* The rollback data of each height leads from the state of the height      *)
(* above back to the state when the checkpoint was made, whatever was read, *)
(* written, flushed or cleared in between.                                  *)
RollbackExact ==
  \A i \in 1..Depth : /\ Undoes(cache.diff[i + 1], cache.dirtyCp[i], Level(i + 1), hist[i])
                      /\ hist[i].trie = trieCp[i]

(* Callers cannot tell the store from a plain map with a stack of copies:   *)
(* reads and flushes change nothing, revert restores the accounts exactly.  *)
W == INSTANCE WorldState
       WITH cur   <- View,
            saved <- [i \in 1..Depth |-> ViewOf(hist[i].elem, hist[i].trie)],
            mark  <- held
ActsAsMap == W!Spec

(* The account store keeps every promise of this kind at once, which is what *)
(* makes each of them inductive.                                             *)
StoreSound == TypeOK /\ Coherent /\ RollbackExact
=============================================================================
