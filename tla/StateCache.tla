----------------------------- MODULE StateCache -----------------------------
(***************************************************************************)
(* The write-back cache of packages/statemanager/src/cache: the base class *)
(* Cache (pending writes and their rollback) together with AccountCache    *)
(* and CodeCache, which keep their elements the same way.  A cache is the  *)
(* record                                                                  *)
(*                                                                         *)
(*   elem     what _orderedMapCache or _lruCache holds for a key           *)
(*   diff     _diffCache: per checkpoint height (0 included, so there is   *)
(*            one more entry than there are checkpoints) the element a key *)
(*            had before the first change at that height                   *)
(*   dirty    _dirtyKeys, the writes the trie has not seen                 *)
(*   dirtyCp  _dirtyCheckpoints: per checkpoint, whether a key was pending *)
(*            before its status first changed                              *)
(*                                                                         *)
(* JavaScript's partial maps are total functions here, with Absent for a   *)
(* key that is not cached and Unsaved for a key that a rollback map lacks. *)
(* A cached element may be a value or the knowledge that there is none     *)
(* (accountRLP: undefined); the modules that use the cache choose both.    *)
(***************************************************************************)
EXTENDS Integers, Sequences, FiniteSets

CONSTANTS Keys,        \* addresses, or address:slot pairs
          Elements,    \* what can be cached for a key
          Absent,      \* Map.get returned undefined: the key is not cached
          Unsaved,     \* the rollback map has no entry for the key
          CacheSize    \* LRU capacity; 0 stands for CacheType.ORDERED_MAP

ASSUME MarkersAssumption == /\ Absent \notin Elements
                            /\ Unsaved \notin Elements \cup {Absent}

ASSUME CacheSizeAssumption == CacheSize \in Nat

DirtyMark == {"unsaved", "clean", "dirty"}

ElemMap == [Keys -> Elements \cup {Absent}]
DiffMap == [Keys -> Elements \cup {Absent, Unsaved}]
MarkMap == [Keys -> DirtyMark]

CacheType == [elem    : ElemMap,
              diff    : Seq(DiffMap),
              dirty   : SUBSET Keys,
              dirtyCp : Seq(MarkMap)]

NoDiff == [k \in Keys |-> Unsaved]
NoDirtyMarks == [k \in Keys |-> "unsaved"]

EmptyCache == [elem    |-> [k \in Keys |-> Absent],
               diff    |-> <<NoDiff>>,
               dirty   |-> {},
               dirtyCp |-> <<>>]

Cached(c) == {k \in Keys : c.elem[k] # Absent}
Top(stack) == stack[Len(stack)]
Pop(stack) == SubSeq(stack, 1, Len(stack) - 1)
ReplaceTop(stack, x) == [stack EXCEPT ![Len(stack)] = x]

-----------------------------------------------------------------------------
(* The map itself.  An LRU map at its capacity drops other keys when one is *)
(* set; which of them depends on the order of use, which is left open.      *)

Dropping(elem, D) == [k \in Keys |-> IF k \in D THEN Absent ELSE elem[k]]

AfterSet(elem, kept) ==
  IF CacheSize = 0
  THEN {elem}
  ELSE LET held == {k \in Keys : elem[k] # Absent}
           excess == IF Cardinality(held) > CacheSize
                     THEN Cardinality(held) - CacheSize ELSE 0
       IN  {Dropping(elem, D) : D \in {E \in SUBSET (held \ kept) : Cardinality(E) = excess}}

-----------------------------------------------------------------------------
(* Faulty variant: each change overwrites the saved element. *)
SaveDiffLatest(map, elem, K) ==
  [k \in Keys |-> IF k \in K THEN elem[k] ELSE map[k]]

(* _saveCachePreState, for a set of keys. *)
SaveDiff(map, elem, K) ==
  [k \in Keys |-> IF k \in K /\ map[k] = Unsaved THEN elem[k] ELSE map[k]]

(* The entry _setDirty leaves in the innermost checkpoint: the first change *)
(* of a key's status at this height remembers what it was.                  *)
MarkDirty(map, dirty, changed) ==
  [k \in Keys |-> IF k \in changed /\ map[k] = "unsaved"
                  THEN IF k \in dirty THEN "dirty" ELSE "clean"
                  ELSE map[k]]

MarksAfter(c, changed) ==
  IF c.dirtyCp = <<>> THEN <<>>
  ELSE ReplaceTop(c.dirtyCp, MarkDirty(Top(c.dirtyCp), c.dirty, changed))

(* put and del: v is the account or code, or the record that there is none. *)
CachePut(c, k, v) ==
  {[elem    |-> e,
    diff    |-> ReplaceTop(c.diff, SaveDiff(Top(c.diff), c.elem, {k})),
    dirty   |-> c.dirty \cup {k},
    dirtyCp |-> MarksAfter(c, {k} \ c.dirty)] :
      e \in AfterSet([c.elem EXCEPT ![k] = v], {k})}

(* The items flush returns: pending keys whose element is still there. *)
FlushItems(c) == c.dirty \cap Cached(c)

CacheFlush(c) ==
  [elem    |-> c.elem,
   diff    |-> IF c.dirtyCp = <<>>
               THEN ReplaceTop(c.diff, NoDiff)
               ELSE ReplaceTop(c.diff, SaveDiff(Top(c.diff), c.elem, FlushItems(c))),
   dirty   |-> {},
   dirtyCp |-> MarksAfter(c, c.dirty)]

CacheCheckpoint(c) ==
  [c EXCEPT !.diff = Append(@, NoDiff), !.dirtyCp = Append(@, NoDirtyMarks)]

(* Faulty variant: the younger entry wins. *)
MergeYoungest(lower, higher) ==
  [k \in Keys |-> IF higher[k] = Unsaved THEN lower[k] ELSE higher[k]]

(* commit merges a height into the one below it, whose entries are older    *)
(* and take precedence.                                                     *)
MergeDiff(lower, higher) ==
  [k \in Keys |-> IF lower[k] = Unsaved THEN higher[k] ELSE lower[k]]

MergeMarks(lower, higher) ==
  [k \in Keys |-> IF lower[k] = "unsaved" THEN higher[k] ELSE lower[k]]

CacheCommit(c) ==
  [elem    |-> c.elem,
   diff    |-> ReplaceTop(Pop(c.diff), MergeDiff(Top(Pop(c.diff)), Top(c.diff))),
   dirty   |-> c.dirty,
   dirtyCp |-> IF Len(c.dirtyCp) = 1 THEN <<>>
               ELSE ReplaceTop(Pop(c.dirtyCp),
                               MergeMarks(Top(Pop(c.dirtyCp)), Top(c.dirtyCp)))]

(* revert puts the saved elements and pending marks back. *)
RestoreElem(map, elem) ==
  [k \in Keys |-> IF map[k] = Unsaved THEN elem[k] ELSE map[k]]

RestoreDirty(map, dirty) ==
  {k \in Keys : map[k] = "dirty" \/ (map[k] = "unsaved" /\ k \in dirty)}

CacheRevert(c) ==
  {[elem    |-> e,
    diff    |-> Pop(c.diff),
    dirty   |-> RestoreDirty(Top(c.dirtyCp), c.dirty),
    dirtyCp |-> Pop(c.dirtyCp)] :
      e \in AfterSet(RestoreElem(Top(c.diff), c.elem), {})}

(* clear drops every element and forgets the pending writes; the elements   *)
(* are not saved for a rollback.                                            *)
CacheClear(c) ==
  [c EXCEPT !.elem = [k \in Keys |-> Absent],
            !.dirty = {},
            !.dirtyCp = MarksAfter(c, c.dirty)]
-----------------------------------------------------------------------------
(* The rollback maps of one height lead from the elements and pending marks *)
(* now back to those then.  setStateRoot clears elements without saving     *)
(* them, so an element may be missing after the rollback, but never one     *)
(* that was waiting to be written.                                          *)
Undoes(map, marks, now, then) ==
  LET elem == RestoreElem(map, now.elem)
  IN  /\ \A k \in Keys : \/ elem[k] = then.elem[k]
                        \/ (elem[k] = Absent /\ k \notin then.dirty)
      /\ then.dirty = RestoreDirty(marks, now.dirty)
      /\ \A k \in Keys : map[k] = Unsaved => marks[k] = "unsaved"
=============================================================================
