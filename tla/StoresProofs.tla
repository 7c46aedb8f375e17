---------------------------- MODULE StoresProofs ----------------------------
(***************************************************************************)
(* What takes writes back, for any keys, contents, cells and nesting.      *)
(*                                                                         *)
(* AccountStore, with the unbounded cache (CacheSize = 0, the ordered map):*)
(* first the cache alone, what each operation of StateCache does to a      *)
(* cache of height n, then the invariant at every height and the           *)
(* refinement of WorldState.                                               *)
(*                                                                         *)
(* Transact: a single write would only need its own savepoint, but a       *)
(* nested write that unwinds pops entries which its parents own too, so    *)
(* the invariant (Inv) says of every open write that its way back lasts.   *)
(***************************************************************************)
EXTENDS AccountStore, Transact, SequenceTheorems, TLAPS

-----------------------------------------------------------------------------
(* The maps of one height, key by key. *)

(* The ordered map drops nothing when a key is set. *)
LEMMA OrderedMapKeeps ==
  ASSUME CacheSize = 0, NEW elem, NEW kept
  PROVE  AfterSet(elem, kept) = {elem}
BY DEF AfterSet

(* Saving an element before it is replaced does not change what the height  *)
(* restores.                                                                *)
LEMMA SaveThenPut ==
  ASSUME NEW map \in DiffMap, NEW elem \in ElemMap,
         NEW k \in Keys, NEW v
  PROVE  RestoreElem(SaveDiff(map, elem, {k}), [elem EXCEPT ![k] = v]) = RestoreElem(map, elem)
BY MarkersAssumption DEF RestoreElem, SaveDiff, ElemMap, DiffMap

(* Nor does saving elements that stay (flush). *)
LEMMA SaveThenKeep ==
  ASSUME NEW map \in DiffMap, NEW elem \in ElemMap,
         NEW K \in SUBSET Keys
  PROVE  RestoreElem(SaveDiff(map, elem, K), elem) = RestoreElem(map, elem)
BY MarkersAssumption DEF RestoreElem, SaveDiff, ElemMap, DiffMap

(* A change of the pending set that is marked is undone by the marks. *)
LEMMA MarkThenChange ==
  ASSUME NEW map \in MarkMap, NEW dirty \in SUBSET Keys,
         NEW changed \in SUBSET Keys, NEW after \in SUBSET Keys,
         \A k \in Keys \ changed : k \in dirty <=> k \in after
  PROVE  RestoreDirty(MarkDirty(map, dirty, changed), after) = RestoreDirty(map, dirty)
<1> DEFINE m == MarkDirty(map, dirty, changed)
<1>1. ASSUME NEW k \in Keys
      PROVE  (m[k] = "dirty" \/ (m[k] = "unsaved" /\ k \in after))
               <=> (map[k] = "dirty" \/ (map[k] = "unsaved" /\ k \in dirty))
  BY <1>1 DEF MarkDirty, MarkMap, DirtyMark
<1> QED BY <1>1 DEF RestoreDirty

(* Undoing a merged height is undoing its two parts in turn. *)
LEMMA MergedElem ==
  ASSUME NEW lower \in DiffMap, NEW higher \in DiffMap,
         NEW elem \in ElemMap
  PROVE  RestoreElem(MergeDiff(lower, higher), elem) = RestoreElem(lower, RestoreElem(higher, elem))
BY DEF RestoreElem, MergeDiff, ElemMap, DiffMap

(* The same for the pending marks. *)
LEMMA MergedMarks ==
  ASSUME NEW lower \in MarkMap, NEW higher \in MarkMap,
         NEW dirty \in SUBSET Keys
  PROVE  RestoreDirty(MergeMarks(lower, higher), dirty)
           = RestoreDirty(lower, RestoreDirty(higher, dirty))
<1>1. ASSUME NEW k \in Keys
      PROVE  k \in RestoreDirty(MergeMarks(lower, higher), dirty)
               <=> k \in RestoreDirty(lower, RestoreDirty(higher, dirty))
  BY <1>1 DEF RestoreDirty, MergeMarks, MarkMap, DirtyMark
<1>2. /\ RestoreDirty(MergeMarks(lower, higher), dirty) \subseteq Keys
      /\ RestoreDirty(lower, RestoreDirty(higher, dirty)) \subseteq Keys
  BY DEF RestoreDirty
<1> QED BY <1>1, <1>2

(* Types of the pieces. *)
LEMMA MapTypes ==
  /\ NoDiff \in DiffMap
  /\ NoDirtyMarks \in MarkMap
  /\ \A map \in DiffMap, elem \in ElemMap, K \in SUBSET Keys :
       /\ SaveDiff(map, elem, K) \in DiffMap
       /\ RestoreElem(map, elem) \in ElemMap
  /\ \A map \in MarkMap, dirty \in SUBSET Keys, K \in SUBSET Keys :
       /\ MarkDirty(map, dirty, K) \in MarkMap
       /\ RestoreDirty(map, dirty) \in SUBSET Keys
  /\ \A m1, m2 \in DiffMap : MergeDiff(m1, m2) \in DiffMap
  /\ \A m1, m2 \in MarkMap : MergeMarks(m1, m2) \in MarkMap
BY DEF NoDiff, NoDirtyMarks, ElemMap, DiffMap, MarkMap, SaveDiff, RestoreElem, MarkDirty, RestoreDirty, DirtyMark,
       MergeDiff, MergeMarks

-----------------------------------------------------------------------------
(* Stacks. *)

(* The innermost element of a stack. *)
LEMMA TopOfStack ==
  ASSUME NEW S, NEW s \in Seq(S), s # <<>>
  PROVE  Len(s) \in Nat \ {0} /\ Top(s) \in S /\ Top(s) = s[Len(s)]
BY DEF Top

(* A stack without its innermost element. *)
LEMMA PopStack ==
  ASSUME NEW S, NEW s \in Seq(S), s # <<>>
  PROVE  /\ Pop(s) \in Seq(S)
         /\ Len(Pop(s)) = Len(s) - 1
         /\ \A i \in 1..Len(s) - 1 : Pop(s)[i] = s[i]
<1>1. PICK n \in Nat : n = Len(s) - 1
  OBVIOUS
<1>2. \A i \in 1..n : s[i] \in S
  BY <1>1
<1>3. /\ SubSeq(s, 1, n) \in Seq(S)
      /\ Len(SubSeq(s, 1, n)) = IF 1 <= n THEN n - 1 + 1 ELSE 0
      /\ \A i \in 1..n - 1 + 1 : SubSeq(s, 1, n)[i] = s[1 + i - 1]
  BY <1>2, SubSeqProperties
<1>4. \A i \in 1..n : SubSeq(s, 1, n)[i] = s[i]
  BY <1>3
<1> QED BY <1>1, <1>3, <1>4 DEF Pop

(* A stack with one more element. *)
LEMMA PushStack ==
  ASSUME NEW S, NEW s \in Seq(S), NEW x \in S
  PROVE  /\ Append(s, x) \in Seq(S)
         /\ Len(Append(s, x)) = Len(s) + 1
         /\ Append(s, x)[Len(s) + 1] = x
         /\ \A i \in 1..Len(s) : Append(s, x)[i] = s[i]
OBVIOUS

-----------------------------------------------------------------------------
(* A cache with n open checkpoints. *)
CacheAt(c, n) == /\ c \in CacheType
                 /\ n \in Nat
                 /\ Len(c.diff) = n + 1
                 /\ Len(c.dirtyCp) = n

(* The innermost height of c leads back to then. *)
UndoesTop(c, n, then) == Undoes(c.diff[n + 1], c.dirtyCp[n], c, then)

(* c1 differs from c at most in the innermost height. *)
SameBelow(c, c1, n) == /\ \A i \in 1..n : c1.diff[i] = c.diff[i]
                       /\ \A i \in 1..n - 1 : c1.dirtyCp[i] = c.dirtyCp[i]

(* The elements and pending marks of an earlier moment. *)
IsPast(then) == then.elem \in ElemMap /\ then.dirty \in SUBSET Keys

(* The fields of a cache at a given height. *)
LEMMA CacheFields ==
  ASSUME NEW c, NEW n, CacheAt(c, n)
  PROVE  /\ c.elem \in ElemMap
         /\ c.dirty \in SUBSET Keys
         /\ c.diff \in Seq(DiffMap)
         /\ c.dirtyCp \in Seq(MarkMap)
         /\ c.diff # <<>>
         /\ n \in Nat /\ Len(c.diff) = n + 1 /\ Len(c.dirtyCp) = n
         /\ (c.dirtyCp = <<>> <=> n = 0)
BY DEF CacheAt, CacheType

(* A record with those fields is such a cache. *)
LEMMA CacheFromFields ==
  ASSUME NEW elem \in ElemMap, NEW dirty \in SUBSET Keys,
         NEW diff \in Seq(DiffMap), NEW marks \in Seq(MarkMap),
         NEW n \in Nat, Len(diff) = n + 1, Len(marks) = n
  PROVE  CacheAt([elem |-> elem, diff |-> diff, dirty |-> dirty, dirtyCp |-> marks], n)
BY DEF CacheAt, CacheType

(* The marks after a change of the pending set. *)
LEMMA MarksAfterStack ==
  ASSUME NEW c, NEW n, CacheAt(c, n), NEW changed \in SUBSET Keys
  PROVE  /\ MarksAfter(c, changed) \in Seq(MarkMap)
         /\ Len(MarksAfter(c, changed)) = n
         /\ n > 0 => MarksAfter(c, changed)[n] = MarkDirty(c.dirtyCp[n], c.dirty, changed)
         /\ \A i \in 1..n - 1 : MarksAfter(c, changed)[i] = c.dirtyCp[i]
<1>1. /\ c.dirty \in SUBSET Keys
      /\ c.dirtyCp \in Seq(MarkMap)
      /\ n \in Nat /\ Len(c.dirtyCp) = n
      /\ (c.dirtyCp = <<>> <=> n = 0)
  BY CacheFields
<1>2. CASE n = 0
  BY <1>1, <1>2 DEF MarksAfter
<1>3. CASE n # 0
  <2>1. Top(c.dirtyCp) \in MarkMap /\ Top(c.dirtyCp) = c.dirtyCp[n]
    BY <1>1, <1>3, TopOfStack
  <2>2. PICK x \in MarkMap : x = MarkDirty(Top(c.dirtyCp), c.dirty, changed)
    BY <1>1, <2>1, MapTypes
  <2>3. MarksAfter(c, changed) = ReplaceTop(c.dirtyCp, x)
    BY <1>1, <1>3, <2>2 DEF MarksAfter
  <2>4. /\ ReplaceTop(c.dirtyCp, x) \in Seq(MarkMap)
        /\ Len(ReplaceTop(c.dirtyCp, x)) = n
        /\ ReplaceTop(c.dirtyCp, x)[n] = x
        /\ \A i \in 1..n - 1 : ReplaceTop(c.dirtyCp, x)[i] = c.dirtyCp[i]
    BY <1>1, <1>3 DEF ReplaceTop
  <2> QED BY <2>1, <2>2, <2>3, <2>4
<1> QED BY <1>2, <1>3

(* The diff after the innermost height was replaced. *)
LEMMA DiffStack ==
  ASSUME NEW c, NEW n, CacheAt(c, n), NEW x \in DiffMap
  PROVE  /\ ReplaceTop(c.diff, x) \in Seq(DiffMap)
         /\ Len(ReplaceTop(c.diff, x)) = n + 1
         /\ ReplaceTop(c.diff, x)[n + 1] = x
         /\ \A i \in 1..n : ReplaceTop(c.diff, x)[i] = c.diff[i]
         /\ Top(c.diff) = c.diff[n + 1]
         /\ c.diff[n + 1] \in DiffMap
<1>1. /\ c.diff \in Seq(DiffMap)
      /\ c.diff # <<>>
      /\ n \in Nat /\ Len(c.diff) = n + 1
  BY CacheFields
<1>2. /\ ReplaceTop(c.diff, x) \in Seq(DiffMap)
      /\ Len(ReplaceTop(c.diff, x)) = Len(c.diff)
      /\ ReplaceTop(c.diff, x)[Len(c.diff)] = x
      /\ \A i \in 1..Len(c.diff) - 1 : ReplaceTop(c.diff, x)[i] = c.diff[i]
  BY <1>1 DEF ReplaceTop
<1>3. Len(c.diff) = n + 1 /\ 1..Len(c.diff) - 1 = 1..n
  BY <1>1
<1>4. Top(c.diff) = c.diff[n + 1] /\ c.diff[n + 1] \in DiffMap
  BY <1>1, TopOfStack
<1>5. \A i \in 1..n : ReplaceTop(c.diff, x)[i] = c.diff[i]
  BY <1>2, <1>3
<1> QED BY <1>2, <1>3, <1>4, <1>5

-----------------------------------------------------------------------------
(* One lemma per operation: types, heights, what stays, and that the        *)
(* innermost height still leads back to where it led.                       *)

(* put and del. *)
LEMMA PutCache ==
  ASSUME CacheSize = 0, NEW c, NEW n, CacheAt(c, n), NEW k \in Keys, NEW v \in Elements,
         NEW c1 \in CachePut(c, k, v)
  PROVE  /\ CacheAt(c1, n) /\ SameBelow(c, c1, n)
         /\ c1.elem = [c.elem EXCEPT ![k] = v] /\ c1.dirty = c.dirty \cup {k}
         /\ \A then : IsPast(then) /\ n > 0 /\ UndoesTop(c, n, then) => UndoesTop(c1, n, then)
<1>1. PICK e : e = [c.elem EXCEPT ![k] = v]
  OBVIOUS
<1>2. PICK d : d = SaveDiff(c.diff[n + 1], c.elem, {k})
  OBVIOUS
<1>3. PICK changed \in SUBSET Keys : changed = {k} \ c.dirty
  BY CacheFields
<1>4. c.elem \in ElemMap /\ c.dirty \in SUBSET Keys /\ n \in Nat /\ c.dirtyCp \in Seq(MarkMap)
      /\ Len(c.dirtyCp) = n
  BY CacheFields
<1>5. NoDiff \in DiffMap
  BY MapTypes
<1>6. c.diff[n + 1] \in DiffMap /\ Top(c.diff) = c.diff[n + 1]
  BY <1>5, DiffStack
<1>7. d \in DiffMap /\ e \in ElemMap
  BY <1>1, <1>2, <1>4, <1>6, MapTypes DEF ElemMap
<1>8. c1 = [elem |-> e, diff |-> ReplaceTop(c.diff, d), dirty |-> c.dirty \cup {k},
            dirtyCp |-> MarksAfter(c, changed)]
  <2>1. AfterSet([c.elem EXCEPT ![k] = v], {k}) = {e}
    BY <1>1, OrderedMapKeeps
  <2>2. PICK x \in AfterSet([c.elem EXCEPT ![k] = v], {k}) :
          c1 = [elem |-> x, diff |-> ReplaceTop(c.diff, SaveDiff(Top(c.diff), c.elem, {k})),
                dirty |-> c.dirty \cup {k}, dirtyCp |-> MarksAfter(c, {k} \ c.dirty)]
    BY DEF CachePut
  <2> QED BY <1>2, <1>3, <1>6, <2>1, <2>2
<1>9. /\ c1.elem = e /\ c1.diff = ReplaceTop(c.diff, d) /\ c1.dirty = c.dirty \cup {k}
      /\ c1.dirtyCp = MarksAfter(c, changed)
  BY <1>8
<1>10. CacheAt(c1, n)
  <2>1. c1.diff \in Seq(DiffMap) /\ Len(c1.diff) = n + 1
    BY <1>7, <1>9, DiffStack
  <2>2. c1.dirtyCp \in Seq(MarkMap) /\ Len(c1.dirtyCp) = n
    BY <1>9, MarksAfterStack
  <2> QED BY <1>4, <1>7, <1>8, <1>9, <2>1, <2>2, CacheFromFields
<1>11. SameBelow(c, c1, n)
  BY <1>7, <1>9, DiffStack, MarksAfterStack DEF SameBelow
<1>12. ASSUME NEW then, IsPast(then), n > 0, UndoesTop(c, n, then)
       PROVE  UndoesTop(c1, n, then)
  <2>1. c1.diff[n + 1] = d /\ c1.dirtyCp[n] = MarkDirty(c.dirtyCp[n], c.dirty, changed)
    BY <1>7, <1>9, <1>12, DiffStack, MarksAfterStack
  <2>2. RestoreElem(d, e) = RestoreElem(c.diff[n + 1], c.elem)
    BY <1>1, <1>2, <1>4, <1>6, SaveThenPut
  <2>3. c.dirtyCp[n] \in MarkMap
    BY <1>4, <1>12
  <2>4. c1.dirty \in SUBSET Keys /\ \A j \in Keys \ changed : j \in c.dirty <=> j \in c1.dirty
    BY <1>3, <1>4, <1>9
  <2>5. RestoreDirty(c1.dirtyCp[n], c1.dirty) = RestoreDirty(c.dirtyCp[n], c.dirty)
    BY <1>4, <2>1, <2>3, <2>4, MarkThenChange
  <2>6. \A j \in Keys : d[j] = Unsaved => c1.dirtyCp[n][j] = "unsaved"
    <3>1. \A j \in Keys : d[j] = Unsaved => c.diff[n + 1][j] = Unsaved /\ j # k
      BY <1>2, <1>4, <1>6, MarkersAssumption DEF SaveDiff, ElemMap, DiffMap
    <3>2. \A j \in Keys : c.diff[n + 1][j] = Unsaved => c.dirtyCp[n][j] = "unsaved"
      BY <1>12 DEF UndoesTop, Undoes
    <3> QED BY <1>3, <2>1, <3>1, <3>2 DEF MarkDirty
  <2> QED BY <1>9, <1>12, <2>1, <2>2, <2>5, <2>6 DEF UndoesTop, Undoes
<1> QED BY <1>1, <1>9, <1>10, <1>11, <1>12

(* flush, as long as nothing pending was dropped. *)
LEMMA FlushCache ==
  ASSUME NEW c, NEW n, CacheAt(c, n), c.dirty \subseteq Cached(c)
  PROVE  /\ CacheAt(CacheFlush(c), n) /\ SameBelow(c, CacheFlush(c), n)
         /\ CacheFlush(c).elem = c.elem /\ CacheFlush(c).dirty = {}
         /\ \A then : IsPast(then) /\ n > 0 /\ UndoesTop(c, n, then) => UndoesTop(CacheFlush(c), n, then)
<1>1. PICK c1 : c1 = CacheFlush(c)
  OBVIOUS
<1>2. PICK d : d = IF n = 0 THEN NoDiff ELSE SaveDiff(c.diff[n + 1], c.elem, c.dirty)
  OBVIOUS
<1>3. c.elem \in ElemMap /\ c.dirty \in SUBSET Keys /\ n \in Nat /\ c.dirtyCp \in Seq(MarkMap)
      /\ Len(c.dirtyCp) = n /\ (c.dirtyCp = <<>> <=> n = 0)
  BY CacheFields
<1>4. c.diff[n + 1] \in DiffMap /\ Top(c.diff) = c.diff[n + 1]
  BY MapTypes, DiffStack
<1>5. d \in DiffMap
  BY <1>2, <1>3, <1>4, MapTypes
<1>6. FlushItems(c) = c.dirty
  BY DEF FlushItems
<1>7. c1 = [elem |-> c.elem, diff |-> ReplaceTop(c.diff, d), dirty |-> {},
            dirtyCp |-> MarksAfter(c, c.dirty)]
  BY <1>1, <1>2, <1>3, <1>4, <1>6 DEF CacheFlush
<1>8. /\ c1.elem = c.elem /\ c1.diff = ReplaceTop(c.diff, d) /\ c1.dirty = {}
      /\ c1.dirtyCp = MarksAfter(c, c.dirty)
  BY <1>7
<1>9. CacheAt(c1, n)
  <2>1. c1.diff \in Seq(DiffMap) /\ Len(c1.diff) = n + 1
    BY <1>5, <1>8, DiffStack
  <2>2. c1.dirtyCp \in Seq(MarkMap) /\ Len(c1.dirtyCp) = n
    BY <1>3, <1>8, MarksAfterStack
  <2> QED BY <1>3, <1>7, <1>8, <2>1, <2>2, CacheFromFields
<1>10. SameBelow(c, c1, n)
  <2>1. \A i \in 1..n : c1.diff[i] = c.diff[i]
    BY <1>5, <1>8, DiffStack
  <2>2. \A i \in 1..n - 1 : c1.dirtyCp[i] = c.dirtyCp[i]
    BY <1>3, <1>8, MarksAfterStack
  <2> QED BY <2>1, <2>2 DEF SameBelow
<1>11. ASSUME NEW then, IsPast(then), n > 0, UndoesTop(c, n, then)
       PROVE  UndoesTop(c1, n, then)
  <2>1. c1.diff[n + 1] = d /\ c1.dirtyCp[n] = MarkDirty(c.dirtyCp[n], c.dirty, c.dirty)
    BY <1>3, <1>5, <1>8, <1>11, DiffStack, MarksAfterStack
  <2>2. RestoreElem(d, c.elem) = RestoreElem(c.diff[n + 1], c.elem)
    BY <1>2, <1>3, <1>4, <1>11, SaveThenKeep
  <2>3. c.dirtyCp[n] \in MarkMap
    BY <1>3, <1>11
  <2>4. {} \in SUBSET Keys /\ \A j \in Keys \ c.dirty : j \in c.dirty <=> j \in {}
    OBVIOUS
  <2>5. RestoreDirty(c1.dirtyCp[n], {}) = RestoreDirty(c.dirtyCp[n], c.dirty)
    BY <1>3, <2>1, <2>3, <2>4, MarkThenChange
  <2>6. \A j \in Keys : d[j] = Unsaved => c1.dirtyCp[n][j] = "unsaved"
    <3>1. \A j \in Keys : d[j] = Unsaved => c.diff[n + 1][j] = Unsaved /\ j \notin c.dirty
      BY <1>2, <1>3, <1>4, <1>11, MarkersAssumption DEF SaveDiff, ElemMap, DiffMap
    <3>2. \A j \in Keys : c.diff[n + 1][j] = Unsaved => c.dirtyCp[n][j] = "unsaved"
      BY <1>11 DEF UndoesTop, Undoes
    <3> QED BY <2>1, <3>1, <3>2 DEF MarkDirty
  <2> QED BY <1>8, <1>11, <2>1, <2>2, <2>5, <2>6 DEF UndoesTop, Undoes
<1> QED BY <1>1, <1>8, <1>9, <1>10, <1>11

(* clear, once flush has left nothing pending. *)
LEMMA ClearCache ==
  ASSUME NEW c, NEW n, CacheAt(c, n), c.dirty = {}
  PROVE  /\ CacheAt(CacheClear(c), n) /\ SameBelow(c, CacheClear(c), n)
         /\ CacheClear(c).elem = [k \in Keys |-> Absent] /\ CacheClear(c).dirty = {}
         /\ \A then : IsPast(then) /\ n > 0 /\ UndoesTop(c, n, then) => UndoesTop(CacheClear(c), n, then)
<1>1. PICK c1 : c1 = CacheClear(c)
  OBVIOUS
<1>2. c.elem \in ElemMap /\ c.diff \in Seq(DiffMap) /\ c.dirtyCp \in Seq(MarkMap)
      /\ n \in Nat /\ Len(c.dirtyCp) = n /\ Len(c.diff) = n + 1 /\ {} \in SUBSET Keys
  BY CacheFields
<1>3. c1 = [elem |-> [k \in Keys |-> Absent], diff |-> c.diff, dirty |-> {},
            dirtyCp |-> MarksAfter(c, {})]
  BY <1>1 DEF CacheClear, CacheAt, CacheType
<1>4. /\ c1.elem = [k \in Keys |-> Absent] /\ c1.diff = c.diff /\ c1.dirty = {}
      /\ c1.dirtyCp = MarksAfter(c, {})
  BY <1>3
<1>5. [k \in Keys |-> Absent] \in ElemMap
  BY DEF ElemMap
<1>6. CacheAt(c1, n)
  <2>1. c1.dirtyCp \in Seq(MarkMap) /\ Len(c1.dirtyCp) = n
    BY <1>2, <1>4, MarksAfterStack
  <2>2. PICK marks \in Seq(MarkMap) : marks = c1.dirtyCp /\ Len(marks) = n
    BY <2>1
  <2>3. PICK elem \in ElemMap, dirty \in SUBSET Keys : elem = [k \in Keys |-> Absent] /\ dirty = {}
    BY <1>2, <1>5
  <2>4. c1 = [elem |-> elem, diff |-> c.diff, dirty |-> dirty, dirtyCp |-> marks]
    BY <1>3, <1>4, <2>2, <2>3
  <2>5. CacheAt([elem |-> elem, diff |-> c.diff, dirty |-> dirty, dirtyCp |-> marks], n)
    BY <1>2, <2>2, CacheFromFields
  <2> QED BY <2>4, <2>5
<1>7. SameBelow(c, c1, n)
  BY <1>2, <1>4, MarksAfterStack DEF SameBelow
<1>8. ASSUME NEW then, IsPast(then), n > 0, UndoesTop(c, n, then)
      PROVE  UndoesTop(c1, n, then)
  <2>0. PICK none \in SUBSET Keys : none = {}
    OBVIOUS
  <2>1. PICK m : m = MarkDirty(c.dirtyCp[n], c.dirty, none)
    OBVIOUS
  <2>2. c1.dirtyCp[n] = m
    <3>1. c.dirtyCp # <<>> /\ Top(c.dirtyCp) = c.dirtyCp[n] /\ n \in 1..n
      BY <1>2, <1>8 DEF Top
    <3>2. MarksAfter(c, {}) = ReplaceTop(c.dirtyCp, m)
      BY <2>0, <2>1, <3>1 DEF MarksAfter
    <3> QED BY <1>2, <1>4, <3>1, <3>2 DEF ReplaceTop
  <2>3. c.dirtyCp[n] \in MarkMap /\ c.diff[n + 1] \in DiffMap
    BY <1>2, <1>8
  <2>4. m = c.dirtyCp[n]
    BY <2>0, <2>1, <2>3 DEF MarkDirty, MarkMap
  <2>5. /\ \A k \in Keys : \/ RestoreElem(c.diff[n + 1], c.elem)[k] = then.elem[k]
                          \/ (RestoreElem(c.diff[n + 1], c.elem)[k] = Absent /\ k \notin then.dirty)
        /\ then.dirty = RestoreDirty(c.dirtyCp[n], {})
        /\ \A k \in Keys : c.diff[n + 1][k] = Unsaved => c.dirtyCp[n][k] = "unsaved"
    BY <1>8 DEF UndoesTop, Undoes
  <2>6. ASSUME NEW k \in Keys
        PROVE  \/ RestoreElem(c.diff[n + 1], c1.elem)[k] = then.elem[k]
               \/ (RestoreElem(c.diff[n + 1], c1.elem)[k] = Absent /\ k \notin then.dirty)
    <3>1. CASE c.diff[n + 1][k] = Unsaved
      <4>1. k \notin then.dirty
        BY <2>5, <3>1 DEF RestoreDirty
      <4> QED BY <1>4, <3>1, <4>1 DEF RestoreElem
    <3>2. CASE c.diff[n + 1][k] # Unsaved
      BY <2>5, <3>2 DEF RestoreElem
    <3> QED BY <3>1, <3>2
  <2> QED BY <1>4, <2>2, <2>4, <2>5, <2>6 DEF UndoesTop, Undoes
<1> QED BY <1>1, <1>4, <1>6, <1>7, <1>8

(* checkpoint: the new height leads back to the cache as it is. *)
LEMMA CheckpointCache ==
  ASSUME NEW c, NEW n, CacheAt(c, n)
  PROVE  /\ CacheAt(CacheCheckpoint(c), n + 1)
         /\ CacheCheckpoint(c).elem = c.elem /\ CacheCheckpoint(c).dirty = c.dirty
         /\ \A i \in 1..n + 1 : CacheCheckpoint(c).diff[i] = c.diff[i]
         /\ \A i \in 1..n : CacheCheckpoint(c).dirtyCp[i] = c.dirtyCp[i]
         /\ \A then : then.elem = c.elem /\ then.dirty = c.dirty
                     => UndoesTop(CacheCheckpoint(c), n + 1, then)
<1>1. PICK c1 : c1 = CacheCheckpoint(c)
  OBVIOUS
<1>2. c.elem \in ElemMap /\ c.dirty \in SUBSET Keys /\ c.diff \in Seq(DiffMap)
      /\ c.dirtyCp \in Seq(MarkMap) /\ n \in Nat /\ Len(c.dirtyCp) = n /\ Len(c.diff) = n + 1
      /\ NoDiff \in DiffMap /\ NoDirtyMarks \in MarkMap
  BY CacheFields, MapTypes
<1>3. c1 = [elem |-> c.elem, diff |-> Append(c.diff, NoDiff), dirty |-> c.dirty,
            dirtyCp |-> Append(c.dirtyCp, NoDirtyMarks)]
  BY <1>1 DEF CacheCheckpoint, CacheAt, CacheType
<1>4. /\ c1.elem = c.elem /\ c1.dirty = c.dirty
      /\ c1.diff = Append(c.diff, NoDiff) /\ c1.dirtyCp = Append(c.dirtyCp, NoDirtyMarks)
  BY <1>3
<1>5. /\ c1.diff \in Seq(DiffMap) /\ Len(c1.diff) = n + 1 + 1 /\ c1.diff[n + 1 + 1] = NoDiff
      /\ \A i \in 1..n + 1 : c1.diff[i] = c.diff[i]
  BY <1>2, <1>4
<1>6. /\ c1.dirtyCp \in Seq(MarkMap) /\ Len(c1.dirtyCp) = n + 1 /\ c1.dirtyCp[n + 1] = NoDirtyMarks
      /\ \A i \in 1..n : c1.dirtyCp[i] = c.dirtyCp[i]
  BY <1>2, <1>4
<1>7. CacheAt(c1, n + 1)
  BY <1>2, <1>3, <1>4, <1>5, <1>6 DEF CacheAt, CacheType
<1>8. ASSUME NEW then, then.elem = c.elem, then.dirty = c.dirty
      PROVE  UndoesTop(c1, n + 1, then)
  <2>1. RestoreElem(NoDiff, c.elem) = c.elem
    BY <1>2 DEF RestoreElem, NoDiff, ElemMap
  <2>2. RestoreDirty(NoDirtyMarks, c.dirty) = c.dirty
    BY <1>2 DEF RestoreDirty, NoDirtyMarks
  <2>3. \A k \in Keys : NoDirtyMarks[k] = "unsaved"
    BY DEF NoDirtyMarks
  <2> QED BY <1>4, <1>5, <1>6, <1>8, <2>1, <2>2, <2>3 DEF UndoesTop, Undoes
<1> QED BY <1>1, <1>4, <1>5, <1>6, <1>7, <1>8

-----------------------------------------------------------------------------
(* Two adjacent heights: undoing both is undoing their merge, and undoing   *)
(* the lower after the higher.                                              *)
LEMMA UndoesBoth ==
  ASSUME NEW lower \in DiffMap, NEW higher \in DiffMap, NEW lmarks \in MarkMap, NEW hmarks \in MarkMap,
         NEW now, now.elem \in ElemMap, now.dirty \in SUBSET Keys,
         NEW mid, mid.elem \in ElemMap, mid.dirty \in SUBSET Keys,
         NEW then, then.dirty \in SUBSET Keys,
         Undoes(higher, hmarks, now, mid), Undoes(lower, lmarks, mid, then)
  PROVE  /\ Undoes(MergeDiff(lower, higher), MergeMarks(lmarks, hmarks), now, then)
         /\ \A back : /\ back.elem = RestoreElem(higher, now.elem)
                      /\ back.dirty = RestoreDirty(hmarks, now.dirty)
                      => Undoes(lower, lmarks, back, then)
<1>1. PICK be : be = RestoreElem(higher, now.elem)
  OBVIOUS
<1>2. be \in ElemMap
  BY <1>1, MapTypes
<1>3. /\ \A k \in Keys : be[k] = mid.elem[k] \/ (be[k] = Absent /\ k \notin mid.dirty)
      /\ mid.dirty = RestoreDirty(hmarks, now.dirty)
      /\ \A k \in Keys : higher[k] = Unsaved => hmarks[k] = "unsaved"
  BY <1>1 DEF Undoes
<1>4. /\ \A k \in Keys : \/ RestoreElem(lower, mid.elem)[k] = then.elem[k]
                        \/ (RestoreElem(lower, mid.elem)[k] = Absent /\ k \notin then.dirty)
      /\ then.dirty = RestoreDirty(lmarks, mid.dirty)
      /\ \A k \in Keys : lower[k] = Unsaved => lmarks[k] = "unsaved"
  BY DEF Undoes
<1>5. ASSUME NEW k \in Keys
      PROVE  \/ RestoreElem(lower, be)[k] = then.elem[k]
             \/ (RestoreElem(lower, be)[k] = Absent /\ k \notin then.dirty)
  <2>1. CASE lower[k] # Unsaved
    BY <1>4, <2>1 DEF RestoreElem
  <2>2. CASE lower[k] = Unsaved
    <3>1. RestoreElem(lower, be)[k] = be[k] /\ RestoreElem(lower, mid.elem)[k] = mid.elem[k]
      BY <2>2 DEF RestoreElem
    <3>2. k \in then.dirty <=> k \in mid.dirty
      BY <1>4, <2>2 DEF RestoreDirty
    <3> QED BY <1>3, <1>4, <3>1, <3>2
  <2> QED BY <2>1, <2>2
<1>6. RestoreElem(MergeDiff(lower, higher), now.elem) = RestoreElem(lower, be)
  BY <1>1, MergedElem
<1>7. RestoreDirty(MergeMarks(lmarks, hmarks), now.dirty) = then.dirty
  BY <1>3, <1>4, MergedMarks
<1>8. \A k \in Keys : MergeDiff(lower, higher)[k] = Unsaved => MergeMarks(lmarks, hmarks)[k] = "unsaved"
  BY <1>3, <1>4 DEF MergeDiff, MergeMarks
<1>9. Undoes(MergeDiff(lower, higher), MergeMarks(lmarks, hmarks), now, then)
  BY <1>5, <1>6, <1>7, <1>8 DEF Undoes
<1>10. ASSUME NEW back, back.elem = be, back.dirty = RestoreDirty(hmarks, now.dirty)
       PROVE  Undoes(lower, lmarks, back, then)
  BY <1>3, <1>4, <1>5, <1>10 DEF Undoes
<1> QED BY <1>1, <1>9, <1>10

(* commit: what the two innermost heights undid, the merged height undoes. *)
LEMMA CommitCache ==
  ASSUME NEW c, NEW n, CacheAt(c, n), n > 0
  PROVE  /\ CacheAt(CacheCommit(c), n - 1)
         /\ CacheCommit(c).elem = c.elem /\ CacheCommit(c).dirty = c.dirty
         /\ \A i \in 1..n - 1 : CacheCommit(c).diff[i] = c.diff[i]
         /\ \A i \in 1..n - 2 : CacheCommit(c).dirtyCp[i] = c.dirtyCp[i]
         /\ \A mid, then :
              n > 1 /\ IsPast(mid) /\ IsPast(then) /\ UndoesTop(c, n, mid) /\ Undoes(c.diff[n], c.dirtyCp[n - 1], mid, then)
              => UndoesTop(CacheCommit(c), n - 1, then)
<1>1. PICK c1 : c1 = CacheCommit(c)
  OBVIOUS
<1>2. c.elem \in ElemMap /\ c.dirty \in SUBSET Keys /\ c.diff \in Seq(DiffMap)
      /\ c.dirtyCp \in Seq(MarkMap) /\ n \in Nat /\ Len(c.dirtyCp) = n /\ Len(c.diff) = n + 1
      /\ c.diff # <<>> /\ c.dirtyCp # <<>>
  BY CacheFields
<1>3. PICK pd \in Seq(DiffMap) :
        pd = Pop(c.diff) /\ Len(pd) = n /\ (\A i \in 1..n : pd[i] = c.diff[i]) /\ pd # <<>>
  <2>1. Pop(c.diff) \in Seq(DiffMap) /\ Len(Pop(c.diff)) = Len(c.diff) - 1
        /\ \A i \in 1..Len(c.diff) - 1 : Pop(c.diff)[i] = c.diff[i]
    BY <1>2, PopStack
  <2> QED BY <1>2, <2>1
<1>4. PICK d \in DiffMap : d = MergeDiff(c.diff[n], c.diff[n + 1])
  BY <1>2, MapTypes
<1>5. Top(pd) = c.diff[n] /\ Top(c.diff) = c.diff[n + 1]
  BY <1>2, <1>3, TopOfStack
<1>6. c1.elem = c.elem /\ c1.dirty = c.dirty /\ c1.diff = ReplaceTop(pd, d)
  BY <1>1, <1>3, <1>4, <1>5 DEF CacheCommit
<1>7. c1.diff \in Seq(DiffMap) /\ Len(c1.diff) = n /\ c1.diff[n] = d
      /\ \A i \in 1..n - 1 : c1.diff[i] = c.diff[i]
  <2>1. n \in Nat \ {0}
    BY <1>2
  <2>2. /\ ReplaceTop(pd, d) \in Seq(DiffMap) /\ Len(ReplaceTop(pd, d)) = n /\ ReplaceTop(pd, d)[n] = d
        /\ \A i \in 1..n - 1 : ReplaceTop(pd, d)[i] = pd[i]
    <3>1. pd \in Seq(DiffMap) /\ Len(pd) = n
      BY <1>3
    <3> QED BY <2>1, <3>1 DEF ReplaceTop
  <2>3. c1.diff = ReplaceTop(pd, d) /\ \A i \in 1..n : pd[i] = c.diff[i]
    BY <1>3, <1>6
  <2>4. \A i \in 1..n - 1 : i \in 1..n
    BY <2>1
  <2> QED BY <2>2, <2>3, <2>4
<1>8. /\ c1.dirtyCp \in Seq(MarkMap) /\ Len(c1.dirtyCp) = n - 1
      /\ \A i \in 1..n - 2 : c1.dirtyCp[i] = c.dirtyCp[i]
      /\ n > 1 => c1.dirtyCp[n - 1] = MergeMarks(c.dirtyCp[n - 1], c.dirtyCp[n])
  <2>1. CASE n = 1
    BY <1>1, <1>2, <2>1 DEF CacheCommit
  <2>2. CASE n > 1
    <3>1. PICK p \in Nat \ {0} : n = p + 1 /\ n - 1 = p /\ n - 2 = p - 1
      BY <1>2, <2>2
    <3>2. PICK pm \in Seq(MarkMap) :
            pm = Pop(c.dirtyCp) /\ Len(pm) = p /\ (\A i \in 1..p : pm[i] = c.dirtyCp[i]) /\ pm # <<>>
      <4>1. Pop(c.dirtyCp) \in Seq(MarkMap) /\ Len(Pop(c.dirtyCp)) = Len(c.dirtyCp) - 1
            /\ \A i \in 1..Len(c.dirtyCp) - 1 : Pop(c.dirtyCp)[i] = c.dirtyCp[i]
        BY <1>2, PopStack
      <4> QED BY <1>2, <3>1, <4>1
    <3>3. PICK m \in MarkMap : m = MergeMarks(c.dirtyCp[p], c.dirtyCp[n])
      BY <1>2, <3>1, MapTypes
    <3>4. Top(pm) = c.dirtyCp[p] /\ Top(c.dirtyCp) = c.dirtyCp[n]
      <4>1. Top(pm) = pm[p] /\ p \in 1..p
        BY <3>1, <3>2, TopOfStack
      <4>2. c.dirtyCp \in Seq(MarkMap) /\ c.dirtyCp # <<>> /\ Len(c.dirtyCp) = n
        BY <1>2, <3>1
      <4>3. Top(c.dirtyCp) = c.dirtyCp[n]
        BY <4>2, TopOfStack
      <4> QED BY <3>2, <4>1, <4>3
    <3>5. c1.dirtyCp = ReplaceTop(pm, m)
      BY <1>1, <1>2, <3>1, <3>2, <3>3, <3>4 DEF CacheCommit
    <3>6. /\ c1.dirtyCp \in Seq(MarkMap) /\ Len(c1.dirtyCp) = p /\ c1.dirtyCp[p] = m
          /\ \A i \in 1..p - 1 : c1.dirtyCp[i] = c.dirtyCp[i]
      <4>1. /\ ReplaceTop(pm, m) \in Seq(MarkMap) /\ Len(ReplaceTop(pm, m)) = p /\ ReplaceTop(pm, m)[p] = m
            /\ \A i \in 1..p - 1 : ReplaceTop(pm, m)[i] = pm[i]
        <5>1. pm \in Seq(MarkMap) /\ Len(pm) = p
          BY <3>2
        <5> QED BY <5>1 DEF ReplaceTop
      <4>2. c1.dirtyCp = ReplaceTop(pm, m) /\ \A i \in 1..p : pm[i] = c.dirtyCp[i]
        BY <3>2, <3>5
      <4>3. \A i \in 1..p - 1 : i \in 1..p
        BY <3>1
      <4> QED BY <4>1, <4>2, <4>3
    <3> QED BY <3>1, <3>3, <3>6
  <2> QED BY <1>2, <2>1, <2>2
<1>9. CacheAt(c1, n - 1)
  <2>1. c1 = [elem |-> c1.elem, diff |-> c1.diff, dirty |-> c1.dirty, dirtyCp |-> c1.dirtyCp]
    BY <1>1 DEF CacheCommit
  <2> QED BY <1>2, <1>6, <1>7, <1>8, <2>1 DEF CacheAt, CacheType
<1>10. ASSUME NEW mid, NEW then, IsPast(mid), IsPast(then), n > 1, UndoesTop(c, n, mid),
              Undoes(c.diff[n], c.dirtyCp[n - 1], mid, then)
       PROVE  UndoesTop(c1, n - 1, then)
  <2>1. PICK lower \in DiffMap, higher \in DiffMap, lmarks \in MarkMap, hmarks \in MarkMap :
          lower = c.diff[n] /\ higher = c.diff[n + 1] /\ lmarks = c.dirtyCp[n - 1] /\ hmarks = c.dirtyCp[n]
    BY <1>2, <1>10
  <2>2. /\ mid.elem \in ElemMap /\ mid.dirty \in SUBSET Keys /\ then.dirty \in SUBSET Keys
    BY <1>10 DEF IsPast
  <2>3. Undoes(higher, hmarks, c, mid) /\ Undoes(lower, lmarks, mid, then)
    BY <1>10, <2>1 DEF UndoesTop
  <2>4. Undoes(MergeDiff(lower, higher), MergeMarks(lmarks, hmarks), c, then)
    BY <1>2, <2>2, <2>3, UndoesBoth
  <2>5. c1.diff[n - 1 + 1] = MergeDiff(lower, higher) /\ c1.dirtyCp[n - 1] = MergeMarks(lmarks, hmarks)
    BY <1>2, <1>4, <1>7, <1>8, <1>10, <2>1
  <2> QED BY <1>6, <2>4, <2>5 DEF UndoesTop, Undoes
<1> QED BY <1>1, <1>6, <1>7, <1>8, <1>9, <1>10

(* revert: the elements and marks the innermost height restores; the height *)
(* below leads from them to where it led.                                   *)
LEMMA RevertCache ==
  ASSUME CacheSize = 0, NEW c, NEW n, CacheAt(c, n), n > 0, NEW c1 \in CacheRevert(c)
  PROVE  /\ CacheAt(c1, n - 1)
         /\ c1.elem = RestoreElem(c.diff[n + 1], c.elem)
         /\ c1.dirty = RestoreDirty(c.dirtyCp[n], c.dirty)
         /\ \A i \in 1..n : c1.diff[i] = c.diff[i]
         /\ \A i \in 1..n - 1 : c1.dirtyCp[i] = c.dirtyCp[i]
         /\ \A mid, then :
              n > 1 /\ IsPast(mid) /\ IsPast(then) /\ UndoesTop(c, n, mid) /\ Undoes(c.diff[n], c.dirtyCp[n - 1], mid, then)
              => UndoesTop(c1, n - 1, then)
<1>1. c.elem \in ElemMap /\ c.dirty \in SUBSET Keys /\ c.diff \in Seq(DiffMap)
      /\ c.dirtyCp \in Seq(MarkMap) /\ n \in Nat /\ Len(c.dirtyCp) = n /\ Len(c.diff) = n + 1
      /\ c.diff # <<>> /\ c.dirtyCp # <<>>
  BY CacheFields
<1>2. Top(c.diff) = c.diff[n + 1] /\ Top(c.dirtyCp) = c.dirtyCp[n]
  BY <1>1, TopOfStack
<1>3. PICK e : e = RestoreElem(c.diff[n + 1], c.elem)
  OBVIOUS
<1>4. c1 = [elem |-> e, diff |-> Pop(c.diff), dirty |-> RestoreDirty(c.dirtyCp[n], c.dirty),
            dirtyCp |-> Pop(c.dirtyCp)]
  <2>1. AfterSet(RestoreElem(Top(c.diff), c.elem), {}) = {e}
    BY <1>2, <1>3, OrderedMapKeeps
  <2>2. PICK x \in AfterSet(RestoreElem(Top(c.diff), c.elem), {}) :
          c1 = [elem |-> x, diff |-> Pop(c.diff), dirty |-> RestoreDirty(Top(c.dirtyCp), c.dirty),
                dirtyCp |-> Pop(c.dirtyCp)]
    BY DEF CacheRevert
  <2> QED BY <1>2, <2>1, <2>2
<1>5. /\ c1.elem = e /\ c1.dirty = RestoreDirty(c.dirtyCp[n], c.dirty)
      /\ c1.diff = Pop(c.diff) /\ c1.dirtyCp = Pop(c.dirtyCp)
  BY <1>4
<1>6. /\ c1.diff \in Seq(DiffMap) /\ Len(c1.diff) = n /\ \A i \in 1..n : c1.diff[i] = c.diff[i]
  <2>1. Pop(c.diff) \in Seq(DiffMap) /\ Len(Pop(c.diff)) = Len(c.diff) - 1
        /\ \A i \in 1..Len(c.diff) - 1 : Pop(c.diff)[i] = c.diff[i]
    BY <1>1, PopStack
  <2> QED BY <1>1, <1>5, <2>1
<1>7. /\ c1.dirtyCp \in Seq(MarkMap) /\ Len(c1.dirtyCp) = n - 1
      /\ \A i \in 1..n - 1 : c1.dirtyCp[i] = c.dirtyCp[i]
  <2>1. Pop(c.dirtyCp) \in Seq(MarkMap) /\ Len(Pop(c.dirtyCp)) = Len(c.dirtyCp) - 1
        /\ \A i \in 1..Len(c.dirtyCp) - 1 : Pop(c.dirtyCp)[i] = c.dirtyCp[i]
    BY <1>1, PopStack
  <2> QED BY <1>1, <1>5, <2>1
<1>8. c1.elem \in ElemMap /\ c1.dirty \in SUBSET Keys
  <2>1. c.diff[n + 1] \in DiffMap /\ c.dirtyCp[n] \in MarkMap
    BY <1>1
  <2>2. e \in ElemMap
    BY <1>1, <1>3, <2>1, MapTypes
  <2>3. RestoreDirty(c.dirtyCp[n], c.dirty) \in SUBSET Keys
    BY DEF RestoreDirty
  <2> QED BY <1>5, <2>2, <2>3
<1>9. CacheAt(c1, n - 1)
  <2>1. c1 = [elem |-> c1.elem, diff |-> c1.diff, dirty |-> c1.dirty, dirtyCp |-> c1.dirtyCp]
    BY <1>4
  <2> QED BY <1>1, <1>6, <1>7, <1>8, <2>1 DEF CacheAt, CacheType
<1>10. ASSUME NEW mid, NEW then, IsPast(mid), IsPast(then), n > 1, UndoesTop(c, n, mid),
              Undoes(c.diff[n], c.dirtyCp[n - 1], mid, then)
       PROVE  UndoesTop(c1, n - 1, then)
  <2>1. PICK lower \in DiffMap, higher \in DiffMap, lmarks \in MarkMap, hmarks \in MarkMap :
          lower = c.diff[n] /\ higher = c.diff[n + 1] /\ lmarks = c.dirtyCp[n - 1] /\ hmarks = c.dirtyCp[n]
    BY <1>1, <1>10
  <2>2. /\ mid.elem \in ElemMap /\ mid.dirty \in SUBSET Keys /\ then.dirty \in SUBSET Keys
    BY <1>10 DEF IsPast
  <2>3. Undoes(higher, hmarks, c, mid) /\ Undoes(lower, lmarks, mid, then)
    BY <1>10, <2>1 DEF UndoesTop
  <2>4. c1.elem = RestoreElem(higher, c.elem) /\ c1.dirty = RestoreDirty(hmarks, c.dirty)
    BY <1>3, <1>5, <2>1
  <2>5. Undoes(lower, lmarks, c1, then)
    BY <1>1, <2>2, <2>3, <2>4, UndoesBoth
  <2>6. c1.diff[n - 1 + 1] = lower /\ c1.dirtyCp[n - 1] = lmarks
    <3>1. n \in 1..n /\ n - 1 \in 1..n - 1 /\ n - 1 + 1 = n
      BY <1>1, <1>10
    <3>2. c1.diff[n] = c.diff[n] /\ c1.dirtyCp[n - 1] = c.dirtyCp[n - 1]
      BY <1>6, <1>7, <3>1
    <3> QED BY <2>1, <3>1, <3>2
  <2> QED BY <2>5, <2>6 DEF UndoesTop
<1> QED BY <1>3, <1>5, <1>6, <1>7, <1>9, <1>10

-----------------------------------------------------------------------------
(* The store: cache, trie and checkpoints together. *)

IInv == TypeOK /\ Coherent /\ RollbackExact

(* What was cached, pending and stored at one moment. *)
Moment(c, t) == [elem |-> c.elem, dirty |-> c.dirty, trie |-> t]

(* The types of the pieces, read off TypeOK. *)
LEMMA Types ==
  ASSUME TypeOK
  PROVE  /\ CacheAt(cache, Depth) /\ Depth \in Nat
         /\ trie \in TrieMap /\ held \in TrieMap
         /\ trieCp \in Seq(TrieMap) /\ Len(trieCp) = Depth
         /\ hist \in Seq(Snapshot) /\ Len(hist) = Depth
         /\ (trieCp = <<>> <=> Depth = 0)
         /\ (hist = <<>> <=> Depth = 0)
<1>1. hist \in Seq(Snapshot) /\ trieCp \in Seq(TrieMap) /\ Len(trieCp) = Len(hist)
  BY DEF TypeOK, Depth
<1>2. CacheAt(cache, Depth)
  BY <1>1 DEF TypeOK, CacheAt, Depth
<1> QED BY <1>1, <1>2 DEF TypeOK, Depth

(* A past moment has the types a rollback needs. *)
LEMMA PastSnapshot ==
  ASSUME NEW s \in Snapshot
  PROVE  IsPast(s) /\ s.trie \in TrieMap
BY DEF Snapshot, IsPast

(* Only the elements and the pending marks of a moment matter to a rollback. *)
LEMMA UndoesFields ==
  ASSUME NEW map, NEW marks, NEW then, NEW a, NEW b, a.elem = b.elem, a.dirty = b.dirty
  PROVE  Undoes(map, marks, a, then) <=> Undoes(map, marks, b, then)
BY DEF Undoes

(* Coherence of now, read off the invariant. *)
LEMMA NowCoherent ==
  ASSUME IInv
  PROVE  CoherentAt(Moment(cache, trie))
<1>1. Depth + 1 \in 1..Depth + 1
  BY Types DEF IInv
<1>2. CoherentAt(Level(Depth + 1))
  BY <1>1 DEF IInv, Coherent
<1> QED BY <1>2 DEF Level, Moment

(* The innermost height leads back from now. *)
LEMMA NowUndoes ==
  ASSUME IInv, Depth > 0
  PROVE  /\ UndoesTop(cache, Depth, hist[Depth])
         /\ hist[Depth].trie = trieCp[Depth]
         /\ hist[Depth] \in Snapshot
         /\ CoherentAt(hist[Depth])
         /\ Depth > 1 => /\ hist[Depth - 1] \in Snapshot
                        /\ Undoes(cache.diff[Depth], cache.dirtyCp[Depth - 1], hist[Depth], hist[Depth - 1])
<1>1. PICK n \in Nat : n = Depth /\ n > 0 /\ n \in 1..n /\ n # n + 1 /\ n \in 1..n + 1
  BY Types DEF IInv
<1>2. hist \in Seq(Snapshot) /\ Len(hist) = n
  BY <1>1, Types DEF IInv
<1>3. Level(n + 1) = Moment(cache, trie) /\ Level(n) = hist[n]
  BY <1>1 DEF Level, Moment
<1>4. Undoes(cache.diff[n + 1], cache.dirtyCp[n], Level(n + 1), hist[n]) /\ hist[n].trie = trieCp[n]
  BY <1>1 DEF IInv, RollbackExact
<1>5. UndoesTop(cache, n, hist[n])
  <2>1. Moment(cache, trie).elem = cache.elem /\ Moment(cache, trie).dirty = cache.dirty
    BY DEF Moment
  <2>2. Undoes(cache.diff[n + 1], cache.dirtyCp[n], Moment(cache, trie), hist[n])
    BY <1>3, <1>4
  <2>3. Undoes(cache.diff[n + 1], cache.dirtyCp[n], cache, hist[n])
    BY <2>1, <2>2, UndoesFields
  <2> QED BY <2>3 DEF UndoesTop
<1>6. CoherentAt(hist[n])
  <2>1. CoherentAt(Level(n))
    BY <1>1 DEF IInv, Coherent
  <2> QED BY <1>3, <2>1
<1>7. ASSUME n > 1
      PROVE  hist[n - 1] \in Snapshot /\ Undoes(cache.diff[n], cache.dirtyCp[n - 1], hist[n], hist[n - 1])
  <2>1. n - 1 \in 1..n /\ n - 1 + 1 = n
    BY <1>1, <1>7
  <2>2. Undoes(cache.diff[n - 1 + 1], cache.dirtyCp[n - 1], Level(n - 1 + 1), hist[n - 1])
    BY <1>1, <2>1 DEF IInv, RollbackExact
  <2> QED BY <1>2, <1>3, <2>1, <2>2
<1> QED BY <1>1, <1>2, <1>4, <1>5, <1>6, <1>7
-----------------------------------------------------------------------------
(* Initial states. *)
LEMMA InitInv == Init => IInv
<1> SUFFICES ASSUME Init PROVE IInv
  OBVIOUS
<1>1. /\ EmptyCache.elem = [k \in Keys |-> Absent]
      /\ EmptyCache.dirty = {}
      /\ EmptyCache.diff = <<NoDiff>>
      /\ EmptyCache.dirtyCp = <<>>
  BY DEF EmptyCache
<1>2. EmptyCache \in CacheType
  <2>1. NoDiff \in DiffMap /\ [k \in Keys |-> Absent] \in ElemMap
    BY MapTypes DEF ElemMap
  <2>2. <<NoDiff>> \in Seq(DiffMap) /\ <<>> \in Seq(MarkMap)
    BY <2>1
  <2> QED BY <2>1, <2>2 DEF EmptyCache, CacheType
<1>3. EmptyTrie \in TrieMap
  BY StoreAssumption DEF EmptyTrie, TrieMap
<1>4. TypeOK
  <2>1. Len(<<NoDiff>>) = 1 /\ Len(<<>>) = 0 /\ <<>> \in Seq(TrieMap) /\ <<>> \in Seq(Snapshot)
    OBVIOUS
  <2> QED BY <1>1, <1>2, <1>3, <2>1 DEF Init, TypeOK, Depth
<1>5. Depth = 0
  BY DEF Init, Depth
<1>6. Coherent
  BY <1>1, <1>5 DEF Init, Coherent, CoherentAt, Level
<1>7. RollbackExact
  BY <1>5 DEF RollbackExact
<1> QED BY <1>4, <1>6, <1>7 DEF IInv


-----------------------------------------------------------------------------
(* Steps that open and close no checkpoint. *)
LEMMA SameHeightInv ==
  ASSUME IInv, hist' = hist, trieCp' = trieCp, trie' \in TrieMap, held' \in TrieMap,
         CacheAt(cache', Depth), SameBelow(cache, cache', Depth),
         \A then : IsPast(then) /\ Depth > 0 /\ UndoesTop(cache, Depth, then)
                     => UndoesTop(cache', Depth, then),
         CoherentAt(Moment(cache', trie'))
  PROVE  IInv'
<1>1. PICK n \in Nat : n = Depth
  BY Types DEF IInv
<1>2. Depth' = n
  BY <1>1 DEF Depth
<1>3. hist \in Seq(Snapshot) /\ Len(hist) = n /\ trieCp \in Seq(TrieMap) /\ Len(trieCp) = n
  BY <1>1, Types DEF IInv
<1>4. TypeOK'
  BY <1>1, <1>2, <1>3 DEF TypeOK, CacheAt
<1>5. \A i \in 1..n : Level(i)' = Level(i) /\ Level(i) = hist[i]
  BY <1>1, <1>2 DEF Level
<1>6. Level(n + 1)' = Moment(cache', trie')
  BY <1>2 DEF Level, Moment
<1>7. Coherent'
  <2>1. ASSUME NEW i \in 1..n + 1 PROVE CoherentAt(Level(i)')
    <3>1. CASE i = n + 1
      BY <1>6, <3>1
    <3>2. CASE i # n + 1
      <4>1. i \in 1..n
        BY <3>2
      <4>2. CoherentAt(Level(i))
        BY <1>1 DEF IInv, Coherent
      <4> QED BY <1>5, <4>1, <4>2
    <3> QED BY <3>1, <3>2
  <2>2. \A i \in 1..n + 1 : CoherentAt(Level(i))'
    BY <2>1 DEF CoherentAt
  <2> QED BY <1>2, <2>2 DEF Coherent
<1>8. ASSUME NEW i \in 1..n
      PROVE  /\ Undoes(cache'.diff[i + 1], cache'.dirtyCp[i], Level(i + 1)', hist[i])
             /\ hist[i].trie = trieCp[i]
  <2>1. /\ Undoes(cache.diff[i + 1], cache.dirtyCp[i], Level(i + 1), hist[i])
        /\ hist[i].trie = trieCp[i]
    BY <1>1 DEF IInv, RollbackExact
  <2>2. CASE i = n
    <3>1. n > 0 /\ UndoesTop(cache, n, hist[n]) /\ IsPast(hist[n])
      BY <1>1, <2>2, NowUndoes, PastSnapshot
    <3>2. UndoesTop(cache', n, hist[n])
      BY <1>1, <3>1
    <3>3. Moment(cache', trie').elem = cache'.elem /\ Moment(cache', trie').dirty = cache'.dirty
      BY DEF Moment
    <3>4. Undoes(cache'.diff[n + 1], cache'.dirtyCp[n], cache', hist[n])
      BY <3>2 DEF UndoesTop
    <3>5. Undoes(cache'.diff[n + 1], cache'.dirtyCp[n], Moment(cache', trie'), hist[n])
      BY <3>3, <3>4, UndoesFields
    <3> QED BY <1>6, <2>1, <2>2, <3>5
  <2>3. CASE i # n
    <3>1. i + 1 \in 1..n /\ i \in 1..n - 1
      BY <2>3
    <3>2. cache'.diff[i + 1] = cache.diff[i + 1] /\ cache'.dirtyCp[i] = cache.dirtyCp[i]
      BY <1>1, <3>1 DEF SameBelow
    <3> QED BY <1>5, <2>1, <3>1, <3>2
  <2> QED BY <2>2, <2>3
<1>9. RollbackExact'
  BY <1>2, <1>8 DEF RollbackExact
<1> QED BY <1>4, <1>7, <1>9 DEF IInv

(* Steps that close the innermost checkpoint. *)
LEMMA PoppedInv ==
  ASSUME IInv, Depth > 0, hist' = Pop(hist), trieCp' = Pop(trieCp), trie' \in TrieMap, held' \in TrieMap,
         CacheAt(cache', Depth - 1),
         \A i \in 1..Depth - 1 : cache'.diff[i] = cache.diff[i],
         \A i \in 1..Depth - 2 : cache'.dirtyCp[i] = cache.dirtyCp[i],
         Depth > 1 => UndoesTop(cache', Depth - 1, hist[Depth - 1]),
         CoherentAt(Moment(cache', trie'))
  PROVE  IInv'
<1>1. PICK n \in Nat : Depth = n + 1 /\ Depth - 1 = n /\ Depth - 2 = n - 1
  BY Types DEF IInv
<1>2. hist \in Seq(Snapshot) /\ Len(hist) = n + 1 /\ trieCp \in Seq(TrieMap) /\ Len(trieCp) = n + 1
      /\ hist # <<>> /\ trieCp # <<>>
  BY <1>1, Types DEF IInv
<1>3. hist' \in Seq(Snapshot) /\ Len(hist') = n /\ \A i \in 1..n : hist'[i] = hist[i]
  <2>1. Pop(hist) \in Seq(Snapshot) /\ Len(Pop(hist)) = Len(hist) - 1
        /\ \A i \in 1..Len(hist) - 1 : Pop(hist)[i] = hist[i]
    BY <1>2, PopStack
  <2> QED BY <1>2, <2>1
<1>4. trieCp' \in Seq(TrieMap) /\ Len(trieCp') = n /\ \A i \in 1..n : trieCp'[i] = trieCp[i]
  <2>1. Pop(trieCp) \in Seq(TrieMap) /\ Len(Pop(trieCp)) = Len(trieCp) - 1
        /\ \A i \in 1..Len(trieCp) - 1 : Pop(trieCp)[i] = trieCp[i]
    BY <1>2, PopStack
  <2> QED BY <1>2, <2>1
<1>5. Depth' = n
  BY <1>3 DEF Depth
<1>6. TypeOK'
  BY <1>1, <1>3, <1>4, <1>5 DEF TypeOK, CacheAt
<1>7. \A i \in 1..n : Level(i)' = hist[i] /\ Level(i) = hist[i]
  BY <1>1, <1>3, <1>5 DEF Level
<1>8. Level(n + 1)' = Moment(cache', trie')
  BY <1>5 DEF Level, Moment
<1>9. Coherent'
  <2>1. ASSUME NEW i \in 1..n + 1 PROVE CoherentAt(Level(i)')
    <3>1. CASE i = n + 1
      BY <1>8, <3>1
    <3>2. CASE i # n + 1
      <4>1. i \in 1..n /\ i \in 1..n + 1 + 1
        BY <3>2
      <4>2. CoherentAt(Level(i))
        BY <1>1, <4>1 DEF IInv, Coherent
      <4> QED BY <1>7, <4>1, <4>2
    <3> QED BY <3>1, <3>2
  <2>2. \A i \in 1..n + 1 : CoherentAt(Level(i))'
    BY <2>1 DEF CoherentAt
  <2> QED BY <1>5, <2>2 DEF Coherent
<1>10. ASSUME NEW i \in 1..n
       PROVE  /\ Undoes(cache'.diff[i + 1], cache'.dirtyCp[i], Level(i + 1)', hist[i])
              /\ hist[i].trie = trieCp[i]
  <2>1. /\ Undoes(cache.diff[i + 1], cache.dirtyCp[i], Level(i + 1), hist[i])
        /\ hist[i].trie = trieCp[i]
    <3>1. i \in 1..n + 1
      OBVIOUS
    <3> QED BY <1>1, <3>1 DEF IInv, RollbackExact
  <2>2. CASE i = n
    <3>1. UndoesTop(cache', n, hist[n])
      BY <1>1, <2>2
    <3>2. Moment(cache', trie').elem = cache'.elem /\ Moment(cache', trie').dirty = cache'.dirty
      BY DEF Moment
    <3>3. Undoes(cache'.diff[n + 1], cache'.dirtyCp[n], cache', hist[n])
      BY <3>1 DEF UndoesTop
    <3>4. Undoes(cache'.diff[n + 1], cache'.dirtyCp[n], Moment(cache', trie'), hist[n])
      BY <3>2, <3>3, UndoesFields
    <3> QED BY <1>8, <2>1, <2>2, <3>4
  <2>3. CASE i # n
    <3>1. i + 1 \in 1..n /\ i \in 1..n - 1
      BY <2>3
    <3>2. cache'.diff[i + 1] = cache.diff[i + 1] /\ cache'.dirtyCp[i] = cache.dirtyCp[i]
      BY <1>1, <3>1
    <3> QED BY <1>7, <2>1, <3>1, <3>2
  <2> QED BY <2>2, <2>3
<1>11. RollbackExact'
  BY <1>3, <1>4, <1>5, <1>10 DEF RollbackExact
<1> QED BY <1>6, <1>9, <1>11 DEF IInv

-----------------------------------------------------------------------------
(* Writing the cache to the trie. *)

(* In a coherent cache every pending key is cached: flush writes them all. *)
LEMMA PendingCached ==
  ASSUME NEW c, NEW n, CacheAt(c, n), NEW t, CoherentAt(Moment(c, t))
  PROVE  c.dirty \subseteq Cached(c) /\ FlushItems(c) = c.dirty
<1>1. c.dirty \in SUBSET Keys
  BY CacheFields
<1>2. c.dirty \subseteq Cached(c)
  BY <1>1 DEF CoherentAt, Moment, Cached
<1> QED BY <1>2 DEF FlushItems

(* A flush leaves a coherent cache coherent, and shows callers no change. *)
LEMMA FlushCoherent ==
  ASSUME NEW c, NEW n, CacheAt(c, n), NEW t \in TrieMap, CoherentAt(Moment(c, t))
  PROVE  /\ Flushed(c, t) \in TrieMap
         /\ CoherentAt(Moment(CacheFlush(c), Flushed(c, t)))
         /\ ViewOf(CacheFlush(c).elem, Flushed(c, t)) = ViewOf(c.elem, t)
<1>1. c.dirty \subseteq Cached(c) /\ FlushItems(c) = c.dirty
  BY PendingCached
<1>2. c.elem \in ElemMap
  BY CacheFields
<1>3. /\ \A k \in Keys : c.elem[k] # Absent /\ k \notin c.dirty => c.elem[k] = t[k]
      /\ \A k \in c.dirty : c.elem[k] # Absent
  BY DEF CoherentAt, Moment
<1>4. CacheFlush(c).elem = c.elem /\ CacheFlush(c).dirty = {}
  BY DEF CacheFlush
<1>5. Flushed(c, t) \in TrieMap
  BY <1>1, <1>2 DEF Flushed, Cached, TrieMap, ElemMap
<1>6. CoherentAt(Moment(CacheFlush(c), Flushed(c, t)))
  BY <1>1, <1>3, <1>4 DEF CoherentAt, Moment, Flushed
<1>7. \A k \in Keys : (IF c.elem[k] = Absent THEN Flushed(c, t)[k] ELSE c.elem[k])
                       = (IF c.elem[k] = Absent THEN t[k] ELSE c.elem[k])
  BY <1>1, <1>3 DEF Flushed
<1>8. ViewOf(c.elem, Flushed(c, t)) = ViewOf(c.elem, t)
  BY <1>7 DEF ViewOf
<1> QED BY <1>4, <1>5, <1>6, <1>8

-----------------------------------------------------------------------------
(* One lemma per action. *)

(* put and del keep the invariant, and write one key of the view. *)
LEMMA PutInv ==
  ASSUME CacheSize = 0, IInv, NEW k \in Keys, NEW v \in Elements, PutAccount(k, v)
  PROVE  IInv' /\ View' = [View EXCEPT ![k] = v]
<1>1. CacheAt(cache, Depth) /\ Depth \in Nat /\ trie \in TrieMap /\ held \in TrieMap
  BY Types DEF IInv
<1>2. cache' \in CachePut(cache, k, v) /\ UNCHANGED <<trie, trieCp, held, hist>>
  BY DEF PutAccount
<1>3. PICK c1 : c1 = cache'
  OBVIOUS
<1>4. /\ CacheAt(c1, Depth) /\ SameBelow(cache, c1, Depth)
      /\ c1.elem = [cache.elem EXCEPT ![k] = v] /\ c1.dirty = cache.dirty \cup {k}
      /\ \A then : IsPast(then) /\ Depth > 0 /\ UndoesTop(cache, Depth, then) => UndoesTop(c1, Depth, then)
  BY <1>1, <1>2, <1>3, PutCache
<1>5. cache.elem \in ElemMap
  BY <1>1, CacheFields
<1>6. CoherentAt(Moment(c1, trie))
  <2>1. /\ \A j \in Keys : cache.elem[j] # Absent /\ j \notin cache.dirty => cache.elem[j] = trie[j]
        /\ \A j \in cache.dirty : cache.elem[j] # Absent
    BY NowCoherent DEF CoherentAt, Moment
  <2>2. cache.dirty \subseteq Keys
    BY <1>1, CacheFields
  <2> QED BY <1>4, <1>5, <2>1, <2>2, MarkersAssumption DEF CoherentAt, Moment, ElemMap
<1>7. IInv'
  BY <1>1, <1>2, <1>3, <1>4, <1>6, SameHeightInv
<1>8. View' = [View EXCEPT ![k] = v]
  BY <1>1, <1>2, <1>3, <1>4, <1>5, MarkersAssumption DEF View, ViewOf, ElemMap
<1> QED BY <1>7, <1>8

(* A cache miss keeps the invariant and changes no account. *)
LEMMA GetInv ==
  ASSUME CacheSize = 0, IInv, NEW k \in Keys, GetAccount(k)
  PROVE  IInv' /\ View' = View
<1>1. trie \in TrieMap /\ cache.elem[k] = Absent
  BY Types DEF IInv, GetAccount
<1>2. PICK v \in Elements : v = trie[k]
  BY <1>1 DEF TrieMap
<1>3. PutAccount(k, v)
  BY <1>2 DEF GetAccount, PutAccount
<1>4. IInv' /\ View' = [View EXCEPT ![k] = v]
  BY <1>3, PutInv
<1>5. [View EXCEPT ![k] = v] = View
  BY <1>1, <1>2 DEF View, ViewOf
<1> QED BY <1>4, <1>5

(* A new checkpoint remembers the present as its moment. *)
LEMMA CheckpointInv ==
  ASSUME IInv, Checkpoint
  PROVE  IInv' /\ View' = View
<1>1. PICK n \in Nat : n = Depth /\ CacheAt(cache, n) /\ trie \in TrieMap /\ held \in TrieMap
        /\ trieCp \in Seq(TrieMap) /\ Len(trieCp) = n /\ hist \in Seq(Snapshot) /\ Len(hist) = n
  BY Types DEF IInv
<1>2. /\ trieCp' = Append(trieCp, trie) /\ cache' = CacheCheckpoint(cache)
      /\ hist' = Append(hist, Moment(cache, trie)) /\ UNCHANGED <<trie, held>>
  BY DEF Checkpoint, Moment
<1>3. PICK c1 : c1 = cache'
  OBVIOUS
<1>4. /\ CacheAt(c1, n + 1) /\ c1.elem = cache.elem /\ c1.dirty = cache.dirty
      /\ \A i \in 1..n + 1 : c1.diff[i] = cache.diff[i]
      /\ \A i \in 1..n : c1.dirtyCp[i] = cache.dirtyCp[i]
      /\ \A then : then.elem = cache.elem /\ then.dirty = cache.dirty => UndoesTop(c1, n + 1, then)
  BY <1>1, <1>2, <1>3, CheckpointCache
<1>5. PICK s \in Snapshot : s = Moment(cache, trie)
  BY <1>1, CacheFields DEF Snapshot, Moment
<1>6. hist' \in Seq(Snapshot) /\ Len(hist') = n + 1 /\ hist'[n + 1] = s /\ \A i \in 1..n : hist'[i] = hist[i]
  BY <1>1, <1>2, <1>5
<1>7. trieCp' \in Seq(TrieMap) /\ Len(trieCp') = n + 1 /\ trieCp'[n + 1] = trie
      /\ \A i \in 1..n : trieCp'[i] = trieCp[i]
  BY <1>1, <1>2
<1>8. Depth' = n + 1
  BY <1>6 DEF Depth
<1>9. TypeOK'
  BY <1>1, <1>2, <1>3, <1>4, <1>6, <1>7, <1>8 DEF TypeOK, CacheAt
<1>10. Moment(c1, trie) = s
  BY <1>4, <1>5 DEF Moment
<1>11. Level(n + 1 + 1)' = s
  BY <1>2, <1>3, <1>8, <1>10 DEF Level, Moment
<1>12. \A i \in 1..n + 1 : Level(i)' = Level(i)
  BY <1>1, <1>5, <1>6, <1>8 DEF Level, Moment
<1>13. Coherent'
  <2>1. CoherentAt(s)
    BY <1>5, NowCoherent
  <2>2. \A i \in 1..n + 1 : CoherentAt(Level(i))
    BY <1>1 DEF IInv, Coherent
  <2>3. \A i \in 1..n + 1 + 1 : CoherentAt(Level(i)')
    BY <1>11, <1>12, <2>1, <2>2
  <2>4. \A i \in 1..n + 1 + 1 : CoherentAt(Level(i))'
    BY <2>3 DEF CoherentAt
  <2> QED BY <1>8, <2>4 DEF Coherent
<1>14. ASSUME NEW i \in 1..n + 1
       PROVE  /\ Undoes(c1.diff[i + 1], c1.dirtyCp[i], Level(i + 1)', hist'[i])
              /\ hist'[i].trie = trieCp'[i]
  <2>1. CASE i = n + 1
    <3>1. s.elem = cache.elem /\ s.dirty = cache.dirty /\ s.trie = trie
      BY <1>5 DEF Moment
    <3>2. Undoes(c1.diff[n + 1 + 1], c1.dirtyCp[n + 1], c1, s)
      BY <1>4, <3>1 DEF UndoesTop
    <3>3. Undoes(c1.diff[n + 1 + 1], c1.dirtyCp[n + 1], s, s)
      BY <1>4, <3>1, <3>2, UndoesFields
    <3> QED BY <1>6, <1>7, <1>11, <2>1, <3>1, <3>3
  <2>2. CASE i # n + 1
    <3>1. i \in 1..n /\ i + 1 \in 1..n + 1
      BY <2>2
    <3>2. Undoes(cache.diff[i + 1], cache.dirtyCp[i], Level(i + 1), hist[i]) /\ hist[i].trie = trieCp[i]
      BY <1>1, <3>1 DEF IInv, RollbackExact
    <3> QED BY <1>4, <1>6, <1>7, <1>12, <3>1, <3>2
  <2> QED BY <2>1, <2>2
<1>15. RollbackExact'
  BY <1>3, <1>8, <1>14 DEF RollbackExact
<1>16. View' = View
  BY <1>2, <1>3, <1>4 DEF View
<1> QED BY <1>9, <1>13, <1>15, <1>16 DEF IInv

(* A flush under open checkpoints keeps every rollback exact. *)
LEMMA GetStateRootInv ==
  ASSUME IInv, GetStateRoot
  PROVE  IInv' /\ View' = View /\ (held' = held \/ (hist = <<>> /\ held' = View))
<1>1. CacheAt(cache, Depth) /\ Depth \in Nat /\ trie \in TrieMap /\ held \in TrieMap
      /\ (trieCp = <<>> <=> Depth = 0) /\ (hist = <<>> <=> Depth = 0)
  BY Types DEF IInv
<1>2. /\ cache' = CacheFlush(cache) /\ trie' = Flushed(cache, trie)
      /\ held' = (IF trieCp = <<>> THEN trie' ELSE held) /\ UNCHANGED <<trieCp, hist>>
  BY DEF GetStateRoot
<1>3. CoherentAt(Moment(cache, trie))
  BY NowCoherent
<1>4. /\ trie' \in TrieMap /\ CoherentAt(Moment(cache', trie'))
      /\ ViewOf(cache'.elem, trie') = ViewOf(cache.elem, trie)
  BY <1>1, <1>2, <1>3, FlushCoherent
<1>5. cache.dirty \subseteq Cached(cache) /\ FlushItems(cache) = cache.dirty
  BY <1>1, <1>3, PendingCached
<1>6. PICK c1 : c1 = CacheFlush(cache)
  OBVIOUS
<1>7. /\ CacheAt(c1, Depth) /\ SameBelow(cache, c1, Depth)
      /\ \A then : IsPast(then) /\ Depth > 0 /\ UndoesTop(cache, Depth, then) => UndoesTop(c1, Depth, then)
  BY <1>1, <1>5, <1>6, FlushCache
<1>8. IInv'
  BY <1>1, <1>2, <1>4, <1>6, <1>7, SameHeightInv
<1>9. View' = View
  BY <1>4 DEF View
<1>10. trie' = View
  <2>1. \A k \in Keys : Flushed(cache, trie)[k] = ViewOf(cache.elem, trie)[k]
    BY <1>3, <1>5 DEF Flushed, ViewOf, CoherentAt, Moment
  <2> QED BY <1>2, <2>1 DEF View, ViewOf, Flushed
<1> QED BY <1>1, <1>2, <1>8, <1>9, <1>10

(* Moving the trie and clearing the cache keeps every rollback exact. *)
LEMMA SetStateRootInv ==
  ASSUME IInv, SetStateRoot
  PROVE  IInv' /\ View' = held
<1>1. CacheAt(cache, Depth) /\ Depth \in Nat /\ trie \in TrieMap /\ held \in TrieMap
  BY Types DEF IInv
<1>2. cache' = CacheClear(CacheFlush(cache)) /\ trie' = held /\ UNCHANGED <<trieCp, held, hist>>
  BY DEF SetStateRoot
<1>3. cache.dirty \subseteq Cached(cache)
  BY <1>1, NowCoherent, PendingCached
<1>4. PICK c1 : c1 = CacheFlush(cache)
  OBVIOUS
<1>5. /\ CacheAt(c1, Depth) /\ SameBelow(cache, c1, Depth) /\ c1.dirty = {}
      /\ \A then : IsPast(then) /\ Depth > 0 /\ UndoesTop(cache, Depth, then) => UndoesTop(c1, Depth, then)
  BY <1>1, <1>3, <1>4, FlushCache
<1>6. PICK c2 : c2 = CacheClear(c1)
  OBVIOUS
<1>7. /\ CacheAt(c2, Depth) /\ SameBelow(c1, c2, Depth)
      /\ c2.elem = [k \in Keys |-> Absent] /\ c2.dirty = {}
      /\ \A then : IsPast(then) /\ Depth > 0 /\ UndoesTop(c1, Depth, then) => UndoesTop(c2, Depth, then)
  BY <1>5, <1>6, ClearCache
<1>8. SameBelow(cache, c2, Depth)
  BY <1>5, <1>7 DEF SameBelow
<1>9. CoherentAt(Moment(c2, held))
  BY <1>7 DEF CoherentAt, Moment
<1>10. cache' = c2
  BY <1>2, <1>4, <1>6
<1>11. \A then : IsPast(then) /\ Depth > 0 /\ UndoesTop(cache, Depth, then) => UndoesTop(c2, Depth, then)
  BY <1>5, <1>7
<1>12. IInv'
  BY <1>1, <1>2, <1>7, <1>8, <1>9, <1>10, <1>11, SameHeightInv
<1>13. View' = held
  BY <1>1, <1>2, <1>7, <1>10 DEF View, ViewOf, TrieMap
<1> QED BY <1>12, <1>13

(* commit merges two heights; the outermost one also flushes. *)
LEMMA CommitInv ==
  ASSUME IInv, Commit
  PROVE  IInv' /\ View' = View
<1>1. PICK n \in Nat : n = Depth /\ n > 0 /\ CacheAt(cache, n) /\ trie \in TrieMap /\ held \in TrieMap
        /\ Len(trieCp) = n
  BY Types DEF IInv, Commit
<1>2. PICK c : c = CacheCommit(cache)
  OBVIOUS
<1>3. /\ IF n = 1 THEN cache' = CacheFlush(c) /\ trie' = Flushed(c, trie)
                   ELSE cache' = c /\ trie' = trie
      /\ trieCp' = Pop(trieCp) /\ hist' = Pop(hist) /\ held' = held
  BY <1>1, <1>2 DEF Commit
<1>4. /\ CacheAt(c, n - 1) /\ c.elem = cache.elem /\ c.dirty = cache.dirty
      /\ \A i \in 1..n - 1 : c.diff[i] = cache.diff[i]
      /\ \A i \in 1..n - 2 : c.dirtyCp[i] = cache.dirtyCp[i]
      /\ \A mid, then :
           n > 1 /\ IsPast(mid) /\ IsPast(then) /\ UndoesTop(cache, n, mid)
             /\ Undoes(cache.diff[n], cache.dirtyCp[n - 1], mid, then)
           => UndoesTop(c, n - 1, then)
  BY <1>1, <1>2, CommitCache
<1>5. CoherentAt(Moment(c, trie))
  <2>1. Moment(c, trie) = Moment(cache, trie)
    BY <1>4 DEF Moment
  <2> QED BY <2>1, NowCoherent
<1>6. CASE n = 1
  <2>1. /\ trie' \in TrieMap /\ CoherentAt(Moment(cache', trie'))
        /\ ViewOf(cache'.elem, trie') = ViewOf(c.elem, trie)
    BY <1>1, <1>3, <1>4, <1>5, <1>6, FlushCoherent
  <2>2. c.dirty \subseteq Cached(c)
    BY <1>4, <1>5, PendingCached
  <2>3. CacheAt(CacheFlush(c), n - 1)
    BY <1>4, <2>2, FlushCache
  <2>4. (\A i \in 1..n - 1 : cache'.diff[i] = cache.diff[i])
        /\ (\A i \in 1..n - 2 : cache'.dirtyCp[i] = cache.dirtyCp[i])
    BY <1>6
  <2>5. IInv'
    BY <1>1, <1>3, <1>6, <2>1, <2>3, <2>4, PoppedInv
  <2> QED BY <1>4, <2>1, <2>5 DEF View
<1>7. CASE n # 1
  <2>1. /\ UndoesTop(cache, n, hist[n]) /\ hist[n] \in Snapshot /\ hist[n - 1] \in Snapshot
        /\ Undoes(cache.diff[n], cache.dirtyCp[n - 1], hist[n], hist[n - 1])
    BY <1>1, <1>7, NowUndoes
  <2>2. IsPast(hist[n]) /\ IsPast(hist[n - 1])
    BY <2>1, PastSnapshot
  <2>3. UndoesTop(c, n - 1, hist[n - 1])
    BY <1>1, <1>4, <1>7, <2>1, <2>2
  <2>4. IInv'
    BY <1>1, <1>3, <1>4, <1>5, <1>7, <2>3, PoppedInv
  <2> QED BY <1>3, <1>4, <1>7, <2>4 DEF View
<1> QED BY <1>6, <1>7

(* revert leads back to the moment of the checkpoint. *)
LEMMA RevertInv ==
  ASSUME CacheSize = 0, IInv, Revert
  PROVE  IInv' /\ View' = ViewOf(hist[Depth].elem, hist[Depth].trie)
<1>1. PICK n \in Nat : n = Depth /\ n > 0 /\ CacheAt(cache, n) /\ held \in TrieMap
        /\ trieCp \in Seq(TrieMap) /\ Len(trieCp) = n /\ trieCp # <<>>
  BY Types DEF IInv, Revert
<1>2. Top(trieCp) = trieCp[n] /\ trieCp[n] \in TrieMap
  BY <1>1 DEF Top
<1>3. PICK c \in CacheRevert(cache) :
        IF n = 1 THEN cache' = CacheFlush(c) /\ trie' = Flushed(c, trieCp[n])
                 ELSE cache' = c /\ trie' = trieCp[n]
  BY <1>1, <1>2 DEF Revert
<1>4. trieCp' = Pop(trieCp) /\ hist' = Pop(hist) /\ held' = held
  BY DEF Revert
<1>5. /\ CacheAt(c, n - 1)
      /\ c.elem = RestoreElem(cache.diff[n + 1], cache.elem)
      /\ c.dirty = RestoreDirty(cache.dirtyCp[n], cache.dirty)
      /\ \A i \in 1..n : c.diff[i] = cache.diff[i]
      /\ \A i \in 1..n - 1 : c.dirtyCp[i] = cache.dirtyCp[i]
      /\ \A mid, then :
           n > 1 /\ IsPast(mid) /\ IsPast(then) /\ UndoesTop(cache, n, mid)
             /\ Undoes(cache.diff[n], cache.dirtyCp[n - 1], mid, then)
           => UndoesTop(c, n - 1, then)
  BY <1>1, RevertCache
<1>6. PICK s \in Snapshot : s = hist[n] /\ UndoesTop(cache, n, s) /\ CoherentAt(s) /\ s.trie = trieCp[n]
  BY <1>1, NowUndoes
<1>7. (\A k \in Keys : c.elem[k] = s.elem[k] \/ (c.elem[k] = Absent /\ k \notin s.dirty))
      /\ c.dirty = s.dirty
  BY <1>5, <1>6 DEF UndoesTop, Undoes
<1>8. /\ \A k \in Keys : s.elem[k] # Absent /\ k \notin s.dirty => s.elem[k] = s.trie[k]
      /\ \A k \in s.dirty : s.elem[k] # Absent
  BY <1>6 DEF CoherentAt
<1>9. s.dirty \subseteq Keys
  BY DEF Snapshot
<1>10. CoherentAt(Moment(c, s.trie))
  BY <1>7, <1>8, <1>9 DEF CoherentAt, Moment
<1>11. ViewOf(c.elem, s.trie) = ViewOf(s.elem, s.trie)
  BY <1>7, <1>8 DEF ViewOf
<1>12. CASE n = 1
  <2>1. /\ trie' \in TrieMap /\ CoherentAt(Moment(cache', trie'))
        /\ ViewOf(cache'.elem, trie') = ViewOf(c.elem, s.trie)
    BY <1>2, <1>3, <1>5, <1>6, <1>10, <1>12, FlushCoherent
  <2>2. c.dirty \subseteq Cached(c)
    BY <1>5, <1>10, PendingCached
  <2>3. CacheAt(CacheFlush(c), n - 1)
    BY <1>5, <2>2, FlushCache
  <2>4. (\A i \in 1..n - 1 : cache'.diff[i] = cache.diff[i])
        /\ (\A i \in 1..n - 2 : cache'.dirtyCp[i] = cache.dirtyCp[i])
    BY <1>12
  <2>5. IInv'
    BY <1>1, <1>3, <1>4, <1>12, <2>1, <2>3, <2>4, PoppedInv
  <2> QED BY <1>1, <1>6, <1>11, <2>1, <2>5 DEF View
<1>13. CASE n # 1
  <2>1. /\ hist[n - 1] \in Snapshot
        /\ Undoes(cache.diff[n], cache.dirtyCp[n - 1], hist[n], hist[n - 1])
    BY <1>1, <1>13, NowUndoes
  <2>2. IsPast(s) /\ IsPast(hist[n - 1])
    BY <2>1, PastSnapshot
  <2>3. UndoesTop(c, n - 1, hist[n - 1])
    BY <1>1, <1>5, <1>6, <1>13, <2>1, <2>2
  <2>4. (\A i \in 1..n - 1 : c.diff[i] = cache.diff[i])
        /\ (\A i \in 1..n - 2 : c.dirtyCp[i] = cache.dirtyCp[i])
    BY <1>1, <1>5
  <2>5. IInv'
    BY <1>1, <1>2, <1>3, <1>4, <1>5, <1>6, <1>10, <1>13, <2>3, <2>4, PoppedInv
  <2> QED BY <1>1, <1>3, <1>6, <1>11, <1>13, <2>5 DEF View
<1> QED BY <1>12, <1>13

-----------------------------------------------------------------------------
(* Every step keeps the inductive invariant. *)
LEMMA NextInv ==
  ASSUME CacheSize = 0, IInv, [Next]_vars
  PROVE  IInv'
<1>1. ASSUME NEW k \in Keys, GetAccount(k) PROVE IInv'
  BY <1>1, GetInv
<1>2. ASSUME NEW k \in Keys, NEW v \in Elements, PutAccount(k, v) PROVE IInv'
  BY <1>2, PutInv
<1>3. CASE Checkpoint
  BY <1>3, CheckpointInv
<1>4. CASE Commit
  BY <1>4, CommitInv
<1>5. CASE Revert
  BY <1>5, RevertInv
<1>6. CASE GetStateRoot
  BY <1>6, GetStateRootInv
<1>7. CASE SetStateRoot
  BY <1>7, SetStateRootInv
<1>8. CASE UNCHANGED vars
  BY <1>8 DEF vars, IInv, TypeOK, Coherent, CoherentAt, RollbackExact, Level, Depth, Undoes
<1> QED BY <1>1, <1>2, <1>3, <1>4, <1>5, <1>6, <1>7, <1>8 DEF Next

(* With the ordered map, for every set of keys and values and every depth:  *)
(* types hold, no pending write is dropped, no clean element is stale, and  *)
(* the rollback data of every open checkpoint leads back to its moment      *)
(* (cache.ts, account.ts, merkleStateManager.ts).                           *)
THEOREM StoreSafe ==
  ASSUME CacheSize = 0
  PROVE  Spec => []StoreSound
<1>1. Init => IInv
  BY InitInv
<1>2. IInv /\ [Next]_vars => IInv'
  BY NextInv
<1>3. IInv => StoreSound
  BY DEF IInv, StoreSound
<1> QED BY <1>1, <1>2, <1>3, PTL DEF Spec

-----------------------------------------------------------------------------
(* Refinement of WorldState. *)
Saved == [i \in 1..Depth |-> ViewOf(hist[i].elem, hist[i].trie)]

(* The saved views form a sequence as long as the history. *)
LEMMA SavedSeq ==
  ASSUME IInv
  PROVE  /\ Saved \in Seq(TrieMap) /\ Len(Saved) = Depth /\ Depth \in Nat
         /\ \A i \in 1..Depth : Saved[i] = ViewOf(hist[i].elem, hist[i].trie)
         /\ View \in TrieMap
<1>1. hist \in Seq(Snapshot) /\ Len(hist) = Depth /\ Depth \in Nat /\ trie \in TrieMap
      /\ CacheAt(cache, Depth)
  BY Types DEF IInv
<1>2. ASSUME NEW s \in Snapshot PROVE ViewOf(s.elem, s.trie) \in TrieMap
  BY DEF ViewOf, Snapshot, ElemMap, TrieMap
<1>3. cache.elem \in ElemMap
  BY <1>1, CacheFields
<1>4. View \in TrieMap
  BY <1>1, <1>3 DEF View, ViewOf, ElemMap, TrieMap
<1>5. \A i \in 1..Depth : ViewOf(hist[i].elem, hist[i].trie) \in TrieMap
  BY <1>1, <1>2
<1> QED BY <1>1, <1>4, <1>5 DEF Saved

(* Closing a checkpoint drops the last saved view. *)
LEMMA SavedPop ==
  ASSUME IInv, IInv', Depth > 0, hist' = Pop(hist)
  PROVE  Saved' = SubSeq(Saved, 1, Len(Saved) - 1) /\ Saved # <<>>
<1>1. PICK n \in Nat : n + 1 = Depth /\ n = Depth - 1
  BY SavedSeq
<1>2. Saved \in Seq(TrieMap) /\ Len(Saved) = n + 1 /\ Saved # <<>>
  BY <1>1, SavedSeq
<1>3. /\ Pop(Saved) \in Seq(TrieMap) /\ Len(Pop(Saved)) = Len(Saved) - 1
      /\ \A i \in 1..Len(Saved) - 1 : Pop(Saved)[i] = Saved[i]
  BY <1>2, PopStack
<1>4. hist \in Seq(Snapshot) /\ Len(hist) = n + 1 /\ hist # <<>>
  BY <1>1, Types DEF IInv
<1>5. /\ Len(Pop(hist)) = Len(hist) - 1
      /\ \A i \in 1..Len(hist) - 1 : Pop(hist)[i] = hist[i]
  BY <1>4, PopStack
<1>6. Depth' = n /\ \A i \in 1..n : hist'[i] = hist[i]
  BY <1>4, <1>5 DEF Depth
<1>7. Saved' = [i \in 1..n |-> ViewOf(hist[i].elem, hist[i].trie)]
  BY <1>6 DEF Saved
<1>8. Pop(Saved) = [i \in 1..n |-> ViewOf(hist[i].elem, hist[i].trie)]
  <2>1. \A i \in 1..n : Pop(Saved)[i] = ViewOf(hist[i].elem, hist[i].trie)
    <3>1. \A i \in 1..n : Pop(Saved)[i] = Saved[i]
      BY <1>2, <1>3
    <3>2. \A i \in 1..n : Saved[i] = ViewOf(hist[i].elem, hist[i].trie)
      BY <1>1, SavedSeq
    <3> QED BY <3>1, <3>2
  <2> QED BY <1>2, <1>3, <2>1
<1> QED BY <1>2, <1>7, <1>8 DEF Pop

(* Opening one appends the view. *)
LEMMA SavedPush ==
  ASSUME IInv, IInv', hist' = Append(hist, Moment(cache, trie))
  PROVE  Saved' = Append(Saved, View)
<1>1. PICK n \in Nat : n = Depth
  BY SavedSeq
<1>2. Saved \in Seq(TrieMap) /\ Len(Saved) = n /\ View \in TrieMap
      /\ \A i \in 1..n : Saved[i] = ViewOf(hist[i].elem, hist[i].trie)
  BY <1>1, SavedSeq
<1>3. hist \in Seq(Snapshot) /\ Len(hist) = n
  BY <1>1, Types DEF IInv
<1>4. PICK m : m = Moment(cache, trie) /\ m.elem = cache.elem /\ m.trie = trie
  BY DEF Moment
<1>5. Depth' = n + 1 /\ hist'[n + 1] = m /\ \A i \in 1..n : hist'[i] = hist[i]
  BY <1>3, <1>4 DEF Depth
<1>6. Saved' = [i \in 1..n + 1 |-> ViewOf(hist'[i].elem, hist'[i].trie)]
  BY <1>5 DEF Saved, ViewOf
<1>7. PICK q \in Seq(TrieMap) :
        /\ q = Append(Saved, View) /\ Len(q) = n + 1 /\ q[n + 1] = View
        /\ \A i \in 1..n : q[i] = Saved[i]
  <2>1. /\ Append(Saved, View) \in Seq(TrieMap)
        /\ Len(Append(Saved, View)) = Len(Saved) + 1
        /\ Append(Saved, View)[Len(Saved) + 1] = View
        /\ \A i \in 1..Len(Saved) : Append(Saved, View)[i] = Saved[i]
    BY <1>2, PushStack
  <2> QED BY <1>2, <2>1
<1>8. \A i \in 1..n : ViewOf(hist'[i].elem, hist'[i].trie) = q[i]
  BY <1>2, <1>5, <1>7
<1>9. ViewOf(hist'[n + 1].elem, hist'[n + 1].trie) = q[n + 1]
  BY <1>4, <1>5, <1>7 DEF View
<1>10. \A i \in 1..n + 1 : ViewOf(hist'[i].elem, hist'[i].trie) = q[i]
  <2>1. \A i \in 1..n + 1 : i \in 1..n \/ i = n + 1
    OBVIOUS
  <2> QED BY <1>8, <1>9, <2>1
<1>11. q = [i \in 1..n + 1 |-> ViewOf(hist'[i].elem, hist'[i].trie)]
  <2>1. q = [i \in 1..n + 1 |-> q[i]]
    <3>1. q = [i \in 1..Len(q) |-> q[i]]
      OBVIOUS
    <3>2. Len(q) = n + 1
      BY <1>7
    <3> QED BY <3>1, <3>2
  <2>2. [i \in 1..n + 1 |-> q[i]] = [i \in 1..n + 1 |-> ViewOf(hist'[i].elem, hist'[i].trie)]
    BY <1>10
  <2> QED BY <2>1, <2>2
<1> QED BY <1>6, <1>7, <1>11

(* Every step is a step of the abstract map, or changes nothing. *)
LEMMA NextRefines ==
  ASSUME CacheSize = 0, IInv, [Next]_vars
  PROVE  [W!Next]_<<View, Saved, held>>
<1>0. IInv'
  BY NextInv
<1>1. ASSUME NEW k \in Keys, GetAccount(k) PROVE UNCHANGED <<View, Saved, held>>
  BY <1>1, GetInv DEF GetAccount, Saved, Depth
<1>2. ASSUME NEW k \in Keys, NEW v \in Elements, PutAccount(k, v) PROVE W!Write(k, v)
  BY <1>2, PutInv DEF PutAccount, Saved, Depth, W!Write
<1>3. CASE Checkpoint
  <2>1. View' = View /\ held' = held /\ hist' = Append(hist, Moment(cache, trie))
    BY <1>3, CheckpointInv DEF Checkpoint, Moment
  <2>2. Saved' = Append(Saved, View)
    BY <1>0, <2>1, SavedPush
  <2>3. W!Checkpoint
    BY <2>1, <2>2 DEF W!Checkpoint, Saved
  <2> QED BY <2>3 DEF W!Next
<1>4. CASE Commit
  <2>1. View' = View /\ held' = held /\ hist' = Pop(hist) /\ Depth > 0
    BY <1>4, CommitInv, Types DEF Commit, IInv
  <2>2. Saved' = SubSeq(Saved, 1, Len(Saved) - 1) /\ Saved # <<>>
    BY <1>0, <2>1, SavedPop
  <2>3. W!Commit
    BY <2>1, <2>2 DEF W!Commit, Saved
  <2> QED BY <2>3 DEF W!Next
<1>5. CASE Revert
  <2>1. View' = ViewOf(hist[Depth].elem, hist[Depth].trie) /\ held' = held /\ hist' = Pop(hist) /\ Depth > 0
    BY <1>5, RevertInv, Types DEF Revert, IInv
  <2>2. Saved' = SubSeq(Saved, 1, Len(Saved) - 1) /\ Saved # <<>>
    BY <1>0, <2>1, SavedPop
  <2>3. View' = Saved[Len(Saved)]
    BY <2>1, SavedSeq
  <2>4. W!Revert
    BY <2>1, <2>2, <2>3 DEF W!Revert, Saved
  <2> QED BY <2>4 DEF W!Next
<1>6. CASE GetStateRoot
  <2>1. View' = View /\ hist' = hist /\ (held' = held \/ (hist = <<>> /\ held' = View))
    BY <1>6, GetStateRootInv DEF GetStateRoot
  <2>2. Saved' = Saved
    BY <2>1 DEF Saved, Depth
  <2>3. CASE held' = held
    BY <2>1, <2>2, <2>3
  <2>4. CASE hist = <<>> /\ held' = View
    <3>1. Saved = <<>>
      <4>1. Len(Saved) = 0 /\ Saved \in Seq(TrieMap)
        BY <2>4, SavedSeq DEF Depth
      <4> QED BY <4>1
    <3>2. W!TakeRoot
      BY <2>1, <2>2, <2>4, <3>1 DEF W!TakeRoot, Saved
    <3> QED BY <3>2 DEF W!Next
  <2> QED BY <2>1, <2>3, <2>4
<1>7. CASE SetStateRoot
  <2>1. View' = held /\ hist' = hist /\ held' = held
    BY <1>7, SetStateRootInv DEF SetStateRoot
  <2>2. Saved' = Saved
    BY <2>1 DEF Saved, Depth
  <2>3. W!SetRoot
    BY <2>1, <2>2 DEF W!SetRoot, Saved
  <2> QED BY <2>3 DEF W!Next
<1>8. CASE UNCHANGED vars
  BY <1>8 DEF vars, View, Saved, Depth
<1> QED BY <1>1, <1>2, <1>3, <1>4, <1>5, <1>6, <1>7, <1>8 DEF Next, W!Next

(* With the ordered map the cached, checkpointed store implements a plain   *)
(* map with a stack of copies: reads, flushes and root computations change  *)
(* nothing a caller sees, and revert brings every account back exactly.     *)
THEOREM StoreActsAsMap ==
  ASSUME CacheSize = 0
  PROVE  Spec => ActsAsMap
<1>1. Init => W!Init
  <2> SUFFICES ASSUME Init PROVE W!Init
    OBVIOUS
  <2>1. IInv
    BY InitInv
  <2>2. Depth = 0
    BY DEF Init, Depth
  <2>3. Saved = <<>>
    <3>1. Len(Saved) = 0 /\ Saved \in Seq(TrieMap)
      BY <2>1, <2>2, SavedSeq
    <3> QED BY <3>1
  <2>4. View = [k \in Keys |-> Nothing]
    BY DEF Init, View, ViewOf, EmptyCache, EmptyTrie
  <2> QED BY <2>3, <2>4 DEF Init, W!Init, Saved, EmptyTrie
<1>2. IInv /\ [Next]_vars => [W!Next]_<<View, Saved, held>>
  BY NextRefines
<1>3. [W!Next]_<<View, Saved, held>> => [W!Next]_(W!wvars)
  BY DEF W!wvars, Saved
<1>4. Init => IInv
  BY InitInv
<1>5. IInv /\ [Next]_vars => IInv'
  BY NextInv
<1> QED BY <1>1, <1>2, <1>3, <1>4, <1>5, PTL DEF Spec, ActsAsMap, W!Spec
-----------------------------------------------------------------------------
(* Nested writes of the development node.                                  *)


\* Dropping the last element of a sequence keeps the others.
LEMMA PopFacts ==
    ASSUME NEW S, NEW s \in Seq(S), s # << >>
    PROVE  /\ Len(s) \in Nat \ {0}
           /\ Popped(s) \in Seq(S)
           /\ Len(Popped(s)) = Len(s) - 1
           /\ \A i \in 1..(Len(s) - 1) : Popped(s)[i] = s[i]
<1>1. Len(s) \in Nat \ {0}
  BY EmptySeq
<1>2. PICK n \in Nat : n = Len(s) - 1
  BY <1>1
<1>3. \A i \in 1..n : s[i] \in S
  BY <1>1, <1>2
<1>4. /\ SubSeq(s, 1, n) \in Seq(S)
      /\ Len(SubSeq(s, 1, n)) = IF 1 <= n THEN n - 1 + 1 ELSE 0
      /\ \A i \in 1..n - 1 + 1 : SubSeq(s, 1, n)[i] = s[1 + i - 1]
  BY <1>3, SubSeqProperties
<1>5. \A i \in 1..n : SubSeq(s, 1, n)[i] = s[i]
  BY <1>4
<1> QED
  BY <1>1, <1>2, <1>4, <1>5 DEF Popped

\* A recorded change keeps every way back: the new entry is the oldest one only
\* for a cell that had not changed.
LEMMA RecordKeepsWayBack ==
    ASSUME NEW j \in Seq(Entry), NEW now \in Tables, NEW then \in Tables,
           NEW s \in Nat, s <= Len(j), NEW c \in Cells, NEW v \in Values,
           LeadsBack(j, s, now, then)
    PROVE  LeadsBack(Append(j, [cell |-> c, before |-> now[c]]), s,
                     [now EXCEPT ![c] = v], then)
<1> DEFINE e == [cell |-> c, before |-> now[c]]
           k == Append(j, e)
           n == Len(j)
<1>1. /\ n \in Nat
      /\ Len(k) = n + 1
      /\ \A i \in 1..n : k[i] = j[i]
      /\ k[n + 1] = e
  <2>1. e \in Entry
    BY DEF Entry, Tables
  <2> QED
    BY <2>1, AppendProperties
<1>2. ASSUME NEW d \in Cells
      PROVE  CellBack(k, s, [now EXCEPT ![c] = v], then, d)
  <2>1. CellBack(j, s, now, then, d)
    BY <1>2 DEF LeadsBack
  <2>2. CASE \E p \in (s + 1)..n : Oldest(j, s, d, p) /\ j[p].before = then[d]
    <3>1. PICK p \in (s + 1)..n : Oldest(j, s, d, p) /\ j[p].before = then[d]
      BY <2>2
    <3>2. p \in (s + 1)..(n + 1) /\ p \in 1..n
      BY <1>1
    <3>3. Oldest(k, s, d, p)
      BY <1>1, <3>1, <3>2 DEF Oldest
    <3> HIDE DEF k
    <3> QED
      BY <1>1, <3>1, <3>2, <3>3 DEF CellBack
  <2>3. CASE /\ \A p \in (s + 1)..n : j[p].cell # d
             /\ now[d] = then[d]
             /\ d = c
    <3>1. \A q \in (s + 1)..((n + 1) - 1) : k[q].cell # d
      BY <1>1, <2>3
    <3>2. Oldest(k, s, d, n + 1) /\ k[n + 1].before = then[d]
      BY <1>1, <2>3, <3>1 DEF Oldest
    <3>3. n + 1 \in (s + 1)..Len(k)
      BY <1>1
    <3> HIDE DEF k
    <3> QED
      BY <3>2, <3>3 DEF CellBack
  <2>4. CASE /\ \A p \in (s + 1)..n : j[p].cell # d
             /\ now[d] = then[d]
             /\ d # c
    <3>1. \A p \in (s + 1)..Len(k) : k[p].cell # d
      <4> TAKE p \in (s + 1)..Len(k)
      <4>1. CASE p = n + 1
        BY <1>1, <2>4, <4>1
      <4>2. CASE p # n + 1
        <5>1. p \in (s + 1)..n /\ p \in 1..n
          BY <1>1, <4>2
        <5> QED
          BY <1>1, <2>4, <5>1
      <4> QED
        BY <4>1, <4>2
    <3>2. [now EXCEPT ![c] = v][d] = then[d]
      BY <2>4 DEF Tables
    <3> HIDE DEF k
    <3> QED
      BY <3>1, <3>2 DEF CellBack
  <2> QED
    BY <2>1, <2>2, <2>3, <2>4 DEF CellBack
<1> QED
  BY <1>2 DEF LeadsBack

\* Running the newest undo entry keeps every way back that includes it.
LEMMA UndoKeepsWayBack ==
    ASSUME NEW j \in Seq(Entry), NEW now \in Tables, NEW then \in Tables,
           NEW s \in Nat, s < Len(j), LeadsBack(j, s, now, then)
    PROVE  LeadsBack(Popped(j), s, [now EXCEPT ![Latest(j).cell] = Latest(j).before], then)
<1> DEFINE n == Len(j)
           k == Popped(j)
           e == j[n]
<1>1. /\ n \in Nat /\ n # 0
      /\ j # << >>
  BY EmptySeq
<1>2. /\ Len(k) = n - 1
      /\ \A i \in 1..(n - 1) : k[i] = j[i]
  BY <1>1, PopFacts
<1>3. e.cell \in Cells /\ e.before \in Values
  <2>1. e \in Entry
    BY <1>1
  <2> QED
    BY <2>1 DEF Entry
<1>4. ASSUME NEW d \in Cells
      PROVE  CellBack(k, s, [now EXCEPT ![e.cell] = e.before], then, d)
  <2>1. CellBack(j, s, now, then, d)
    BY <1>4 DEF LeadsBack
  <2>2. CASE \E p \in (s + 1)..n : Oldest(j, s, d, p) /\ j[p].before = then[d]
    <3>1. PICK p \in (s + 1)..n : Oldest(j, s, d, p) /\ j[p].before = then[d]
      BY <2>2
    <3>2. CASE p = n
      <4>1. \A q \in (s + 1)..Len(k) : k[q].cell # d
        <5> TAKE q \in (s + 1)..Len(k)
        <5>1. q \in (s + 1)..(n - 1) /\ q \in 1..(n - 1)
          BY <1>1, <1>2
        <5> QED
          BY <1>2, <3>1, <3>2, <5>1 DEF Oldest
      <4>2. [now EXCEPT ![e.cell] = e.before][d] = then[d]
        BY <1>3, <3>1, <3>2 DEF Oldest, Tables
      <4> HIDE DEF k
      <4> QED
        BY <4>1, <4>2 DEF CellBack
    <3>3. CASE p # n
      <4>1. p \in (s + 1)..Len(k) /\ p \in 1..(n - 1)
        BY <1>1, <1>2, <3>3
      <4>2. Oldest(k, s, d, p) /\ k[p].before = then[d]
        BY <1>1, <1>2, <3>1, <4>1 DEF Oldest
      <4> HIDE DEF k
      <4> QED
        BY <4>1, <4>2 DEF CellBack
    <3> QED
      BY <3>2, <3>3
  <2>3. CASE /\ \A p \in (s + 1)..n : j[p].cell # d
             /\ now[d] = then[d]
    <3>1. e.cell # d
      BY <1>1, <2>3
    <3>2. \A p \in (s + 1)..Len(k) : k[p].cell # d
      BY <1>1, <1>2, <2>3
    <3>3. [now EXCEPT ![e.cell] = e.before][d] = then[d]
      BY <2>3, <3>1 DEF Tables
    <3> HIDE DEF k
    <3> QED
      BY <3>2, <3>3 DEF CellBack
  <2> QED
    BY <2>1, <2>2, <2>3 DEF CellBack
<1> QED
  BY <1>4 DEF LeadsBack, Latest

Inv == TransactTypeOK /\ CanUnwind

\* A write that begins finds the chain as it is and needs no undo entry yet.
LEMMA BeginStep == Inv /\ Begin => Inv'
<1> SUFFICES ASSUME Inv, Begin PROVE Inv'
  OBVIOUS
<1> USE DEF Inv, TransactTypeOK, Begin, Start
<1>1. PICK f \in Frame : f = [start |-> Len(journal), root |-> root, burned |-> burned]
  BY DEF Frame
<1>2. PICK h \in Chain : h = Found
  BY DEF Found, Chain
<1>3. PICK n \in Nat : n = Len(frames) /\ n = Len(foundThen)
  OBVIOUS
<1>4. /\ frames' \in Seq(Frame) /\ Len(frames') = n + 1 /\ frames'[n + 1] = f
      /\ \A i \in 1..n : frames'[i] = frames[i]
  BY <1>1, <1>3
<1>5. /\ foundThen' \in Seq(Chain) /\ Len(foundThen') = n + 1 /\ foundThen'[n + 1] = h
      /\ \A i \in 1..n : foundThen'[i] = foundThen[i]
  BY <1>2, <1>3
<1>6. TransactTypeOK'
  <2>1. f.start = Len(journal)
    BY <1>1
  <2>2. \A i \in 1..(n + 1) : frames'[i].start <= Len(journal)
    <3> TAKE i \in 1..(n + 1)
    <3>1. CASE i = n + 1
      BY <1>4, <2>1, <3>1
    <3>2. CASE i # n + 1
      BY <1>3, <1>4, <3>2
    <3> QED
      BY <3>1, <3>2
  <2>3. ASSUME NEW i \in 1..(n + 1), NEW j \in 1..(n + 1), i <= j
        PROVE  frames'[i].start <= frames'[j].start
    <3>1. CASE j = n + 1
      BY <1>4, <2>1, <2>2, <3>1
    <3>2. CASE j # n + 1
      <4>1. i \in 1..n /\ j \in 1..n
        BY <1>3, <2>3, <3>2
      <4> QED
        BY <1>3, <1>4, <2>3, <4>1
    <3> QED
      BY <3>1, <3>2
  <2>4. frames' # << >> /\ frames'[1].start = 0
    <3>1. CASE n = 0
      BY <1>3, <1>4, <2>1, <3>1
    <3>2. CASE n # 0
      BY <1>3, <1>4, <3>2
    <3> QED
      BY <1>4, <3>1, <3>2
  <2> QED
    BY <1>3, <1>4, <1>5, <2>2, <2>3, <2>4
<1>7. CanUnwind'
  <2>1. ASSUME NEW i \in 1..(n + 1)
        PROVE  /\ LeadsBack(journal', frames'[i].start, table', foundThen'[i].table)
               /\ frames'[i].root = foundThen'[i].root
               /\ frames'[i].burned = foundThen'[i].burned
    <3>1. CASE i = n + 1
      <4>1. frames'[i].start = Len(journal) /\ frames'[i].root = root
            /\ frames'[i].burned = burned
        BY <1>1, <1>4, <3>1
      <4>2. foundThen'[i].table = table /\ foundThen'[i].root = root /\ foundThen'[i].burned = burned
        BY <1>2, <1>5, <3>1 DEF Found
      <4>3. LeadsBack(journal, Len(journal), table, table)
        BY DEF LeadsBack, CellBack
      <4> QED
        BY <4>1, <4>2, <4>3
    <3>2. CASE i # n + 1
      <4>1. i \in 1..n /\ i \in 1..Len(frames)
        BY <1>3, <3>2
      <4>2. frames'[i] = frames[i] /\ foundThen'[i] = foundThen[i]
        BY <1>4, <1>5, <4>1
      <4> QED
        BY <4>1, <4>2 DEF CanUnwind
    <3> QED
      BY <3>1, <3>2
  <2> QED
    BY <1>3, <1>4, <2>1 DEF CanUnwind
<1> QED
  BY <1>6, <1>7

\* A change to a table, recorded while a write is open.
LEMMA WriteTableStep ==
    ASSUME NEW c \in Cells, NEW v \in Values, Inv, WriteTable(c, v)
    PROVE  Inv'
<1> USE DEF Inv, TransactTypeOK, WriteTable
<1>1. table' \in Tables
  BY DEF Tables
<1>2. PICK e \in Entry : e = [cell |-> c, before |-> table[c]]
  BY DEF Tables, Entry
<1>3. /\ journal' \in Seq(Entry)
      /\ Len(journal') >= Len(journal)
  BY <1>2
<1>4. TransactTypeOK'
  <2>1. \A i \in 1..Len(frames) : frames[i].start \in Nat
    <3>1. \A i \in 1..Len(frames) : frames[i] \in Frame
      OBVIOUS
    <3> QED
      BY <3>1 DEF Frame
  <2>2. \A i \in 1..Len(frames) : frames[i].start <= Len(journal')
    BY <1>3, <2>1
  <2>3. frames = << >> => journal' = << >>
    OBVIOUS
  <2> QED
    BY <1>1, <1>3, <2>2, <2>3
<1>5. ASSUME NEW i \in 1..Len(frames)
      PROVE  LeadsBack(journal', frames[i].start, table', foundThen[i].table)
  <2>1. frames # << >> /\ frames[i] \in Frame /\ foundThen[i] \in Chain
    BY <1>5
  <2>2. frames[i].start \in Nat /\ foundThen[i].table \in Tables
        /\ frames[i].start <= Len(journal)
    BY <1>5, <2>1 DEF Frame, Chain
  <2>3. LeadsBack(journal, frames[i].start, table, foundThen[i].table)
    BY <1>5 DEF CanUnwind
  <2>4. LeadsBack(Append(journal, [cell |-> c, before |-> table[c]]), frames[i].start,
                  [table EXCEPT ![c] = v], foundThen[i].table)
    BY <2>2, <2>3, RecordKeepsWayBack
  <2> QED
    BY <2>1, <2>4
<1>6. CanUnwind'
  BY <1>5 DEF CanUnwind
<1> QED
  BY <1>4, <1>6

\* A write that commits leaves the frames below it as they were.
LEMMA ReturnStep == Inv /\ Return => Inv'
<1> SUFFICES ASSUME Inv, Return PROVE Inv'
  OBVIOUS
<1> USE DEF Inv, TransactTypeOK, Return, JournalAfterReturn
<1>1. PICK n \in Nat \ {0} : n = Len(frames) /\ n = Len(foundThen)
  BY EmptySeq
<1>2. foundThen # << >>
  BY <1>1
<1>3. /\ frames' \in Seq(Frame) /\ Len(frames') = n - 1
      /\ \A i \in 1..(n - 1) : frames'[i] = frames[i]
  BY <1>1, PopFacts
<1>4. /\ foundThen' \in Seq(Chain) /\ Len(foundThen') = n - 1
      /\ \A i \in 1..(n - 1) : foundThen'[i] = foundThen[i]
  BY <1>1, <1>2, PopFacts
<1>5. n - 1 # 0 => journal' = journal
  BY <1>1
<1>6. TransactTypeOK'
  <2>1. \A i \in 1..(n - 1) : frames'[i].start <= Len(journal')
    BY <1>1, <1>3, <1>5
  <2>2. \A i, j \in 1..(n - 1) : i <= j => frames'[i].start <= frames'[j].start
    BY <1>1, <1>3
  <2>3. IF frames' = << >> THEN journal' = << >> ELSE frames'[1].start = 0
    <3>1. CASE n = 1
      BY <1>1, <1>3, <3>1
    <3>2. CASE n # 1
      <4>1. 1 \in 1..(n - 1) /\ frames # << >>
        BY <1>1, <3>2
      <4> QED
        BY <1>3, <4>1
    <3> QED
      BY <3>1, <3>2
  <2>4. journal' \in Seq(Entry)
    OBVIOUS
  <2> QED
    BY <1>3, <1>4, <2>1, <2>2, <2>3, <2>4
<1>7. CanUnwind'
  <2>1. ASSUME NEW i \in 1..(n - 1)
        PROVE  /\ LeadsBack(journal', frames'[i].start, table', foundThen'[i].table)
               /\ frames'[i].root = foundThen'[i].root
               /\ frames'[i].burned = foundThen'[i].burned
    <3>1. i \in 1..Len(frames) /\ n - 1 # 0
      BY <1>1
    <3>2. frames'[i] = frames[i] /\ foundThen'[i] = foundThen[i] /\ journal' = journal
      BY <1>3, <1>4, <1>5, <3>1
    <3> QED
      BY <3>1, <3>2 DEF CanUnwind
  <2> QED
    BY <1>3, <2>1 DEF CanUnwind
<1> QED
  BY <1>6, <1>7

\* One undo entry of the innermost write; every frame below starts no later.
LEMMA UndoStep == Inv /\ UndoEntry => Inv'
<1> SUFFICES ASSUME Inv, UndoEntry PROVE Inv'
  OBVIOUS
<1> USE DEF Inv, TransactTypeOK, UndoEntry
<1>1. PICK n \in Nat \ {0} : n = Len(frames)
  BY EmptySeq
<1>2. /\ n \in 1..Len(frames)
      /\ Latest(frames) = frames[n]
      /\ frames[n] \in Frame
  BY <1>1 DEF Latest
<1>3. frames[n].start \in Nat /\ Len(journal) \in Nat /\ Len(journal) > frames[n].start
  BY <1>2 DEF Frame
<1>4. journal # << >>
  BY <1>3
<1>5. journal' \in Seq(Entry) /\ Len(journal') = Len(journal) - 1
  BY <1>4, PopFacts
<1>6. table' \in Tables
  <2>1. Latest(journal) \in Entry
    BY <1>3, <1>4 DEF Latest
  <2> QED
    BY <2>1 DEF Entry, Tables
<1>7. ASSUME NEW i \in 1..Len(frames)
      PROVE  /\ frames[i].start \in Nat /\ frames[i].start <= frames[n].start
             /\ foundThen[i].table \in Tables
  <2>1. i \in 1..n /\ i <= n /\ i \in 1..Len(foundThen)
    BY <1>1
  <2>2. frames[i] \in Frame /\ foundThen[i] \in Chain
    BY <2>1
  <2>3. frames[i].start <= frames[n].start
    BY <1>2, <2>1
  <2> QED
    BY <2>2, <2>3 DEF Frame, Chain
<1>8. TransactTypeOK'
  BY <1>3, <1>5, <1>6, <1>7
<1>9. ASSUME NEW i \in 1..Len(frames)
      PROVE  LeadsBack(journal', frames[i].start, table', foundThen[i].table)
  <2>1. frames[i].start \in Nat /\ frames[i].start < Len(journal)
        /\ foundThen[i].table \in Tables
    BY <1>3, <1>7
  <2>2. LeadsBack(journal, frames[i].start, table, foundThen[i].table)
    BY DEF CanUnwind
  <2> QED
    BY <2>1, <2>2, UndoKeepsWayBack
<1>10. CanUnwind'
  BY <1>9 DEF CanUnwind
<1> QED
  BY <1>8, <1>10

\* When the undo loop is over the tables are those the write found.
LEMMA UnwoundStep ==
    ASSUME Inv, Unwound
    PROVE  Inv' /\ Found' = Latest(foundThen)
<1> USE DEF Inv, TransactTypeOK, Unwound
<1>1. PICK n \in Nat \ {0} : n = Len(frames) /\ n = Len(foundThen)
  BY EmptySeq
<1>2. foundThen # << >> /\ n \in 1..Len(frames)
  BY <1>1
<1>3. Latest(frames) = frames[n] /\ Latest(foundThen) = foundThen[n] /\ foundThen[n] \in Chain
      /\ frames[n] \in Frame
  BY <1>1, <1>2 DEF Latest
<1>4. Found' = Latest(foundThen)
  <2>1. LeadsBack(journal, Len(journal), table, foundThen[n].table)
        /\ frames[n].burned = foundThen[n].burned /\ frames[n].root = foundThen[n].root
    BY <1>2, <1>3 DEF CanUnwind
  <2>2. \A c \in Cells : table[c] = foundThen[n].table[c]
    BY <2>1 DEF LeadsBack, CellBack
  <2>3. table = foundThen[n].table
    BY <1>3, <2>2 DEF Chain, Tables
  <2>4. root = foundThen[n].root
    BY <1>2, <1>3, <2>1 DEF CanUnwind
  <2> QED
    BY <1>3, <2>1, <2>3, <2>4 DEF Found, Chain
<1>5. /\ frames' \in Seq(Frame) /\ Len(frames') = n - 1
      /\ \A i \in 1..(n - 1) : frames'[i] = frames[i]
  BY <1>1, <1>2, PopFacts
<1>6. /\ foundThen' \in Seq(Chain) /\ Len(foundThen') = n - 1
      /\ \A i \in 1..(n - 1) : foundThen'[i] = foundThen[i]
  BY <1>1, <1>2, PopFacts
<1>7. TransactTypeOK'
  <2>1. frames[n].start \in Nat /\ Len(journal) = frames[n].start
    BY <1>3 DEF Frame
  <2>2. \A i \in 1..(n - 1) : frames'[i].start <= Len(journal)
    BY <1>1, <1>2, <1>5, <2>1, SMTT(30)
  <2>3. \A i, j \in 1..(n - 1) : i <= j => frames'[i].start <= frames'[j].start
    BY <1>1, <1>5
  <2>4. IF frames' = << >> THEN journal' = << >> ELSE frames'[1].start = 0
    <3>1. CASE n = 1
      BY <1>1, <1>5, <2>1, <3>1, EmptySeq
    <3>2. CASE n # 1
      <4>1. 1 \in 1..(n - 1) /\ frames # << >>
        BY <1>1, <3>2
      <4> QED
        BY <1>5, <4>1
    <3> QED
      BY <3>1, <3>2
  <2>5. burned' \in Burns
    BY <1>3 DEF Frame
  <2> QED
    BY <1>5, <1>6, <2>2, <2>3, <2>4, <2>5
<1>8. CanUnwind'
  <2>1. ASSUME NEW i \in 1..(n - 1)
        PROVE  /\ LeadsBack(journal', frames'[i].start, table', foundThen'[i].table)
               /\ frames'[i].root = foundThen'[i].root
               /\ frames'[i].burned = foundThen'[i].burned
    <3>1. i \in 1..Len(frames)
      BY <1>1
    <3>2. frames'[i] = frames[i] /\ foundThen'[i] = foundThen[i]
      BY <1>5, <1>6
    <3> QED
      BY <3>1, <3>2 DEF CanUnwind
  <2> QED
    BY <1>5, <2>1 DEF CanUnwind
<1> QED
  BY <1>4, <1>7, <1>8

\* The other steps touch neither the journal nor the tables, or only set the
\* innermost root back.
LEMMA OtherSteps ==
    ASSUME Inv,
           \/ \E r \in Roots : WriteState(r)
           \/ \E b \in Burns : Burn(b)
           \/ Throw
           \/ UNCHANGED transactVars
    PROVE  Inv'
<1> USE DEF Inv, TransactTypeOK
<1>1. CASE \E r \in Roots : WriteState(r)
  BY <1>1 DEF WriteState, CanUnwind
<1>2. CASE \E b \in Burns : Burn(b)
  BY <1>2 DEF Burn, CanUnwind
<1>3. CASE Throw
  <2>1. PICK n \in Nat \ {0} : n = Len(frames)
    BY <1>3, EmptySeq DEF Throw
  <2>2. Latest(frames) \in Frame
    BY <2>1 DEF Latest
  <2>3. root' \in Roots /\ root' = Latest(frames').root
    BY <1>3, <2>2 DEF Throw, Frame
  <2> QED
    BY <1>3, <2>3 DEF Throw, CanUnwind
<1>4. CASE UNCHANGED transactVars
  BY <1>4 DEF transactVars, CanUnwind
<1> QED
  BY <1>1, <1>2, <1>3, <1>4

\* Type correctness and the way back of every open write, for all tables,
\* values and depths of nesting.
THEOREM WaysBackKept == TransactSpec => []UnwindSound
<1>1. TransactInit => Inv
  <2> SUFFICES ASSUME TransactInit PROVE Inv
    OBVIOUS
  <2>1. Len(frames) = 0 /\ Len(foundThen) = 0
    BY DEF TransactInit
  <2>2. journal \in Seq(Entry) /\ frames \in Seq(Frame) /\ foundThen \in Seq(Chain)
    BY DEF TransactInit
  <2>3. TransactTypeOK
    <3>1. unwinding \in BOOLEAN /\ ~unwinding
      BY Zenon DEF TransactInit
    <3>2. root \in Roots /\ table \in Tables /\ burned \in Burns
          /\ frames = << >> /\ journal = << >>
      BY Zenon DEF TransactInit
    <3>3. \A i \in 1..Len(frames) : FALSE
      BY <2>1
    <3> QED
      BY <2>1, <2>2, <3>1, <3>2, <3>3 DEF TransactTypeOK
  <2>4. CanUnwind
    BY <2>1 DEF CanUnwind
  <2> QED
    BY <2>3, <2>4 DEF Inv
<1>2. Inv /\ [TransactNext]_transactVars => Inv'
  <2> SUFFICES ASSUME Inv, [TransactNext]_transactVars PROVE Inv'
    OBVIOUS
  <2>1. CASE \E c \in Cells, v \in Values : WriteTable(c, v)
    BY <2>1, WriteTableStep
  <2> QED
    BY <2>1, BeginStep, ReturnStep, UndoStep, UnwoundStep, OtherSteps DEF TransactNext
<1> QED
  BY <1>1, <1>2, PTL DEF TransactSpec, Inv, UnwindSound

\* transact keeps its promise: a throw out of any write, at any depth, leaves
\* the root, the tables and the burned total exactly as the write found them.
THEOREM FaultUnwinds == TransactSpec => FaultLeavesChain
<1>1. Inv /\ [TransactNext]_transactVars => (unwinding /\ ~unwinding' => Found' = Latest(foundThen))
  <2> SUFFICES ASSUME Inv, [TransactNext]_transactVars, unwinding, ~unwinding'
               PROVE  Found' = Latest(foundThen)
    OBVIOUS
  <2>1. Unwound
    BY DEF TransactNext, transactVars, Begin, WriteState, WriteTable, Burn, Return, Throw, UndoEntry
  <2> QED
    BY <2>1, UnwoundStep
<1>2. TransactSpec => []Inv
  BY WaysBackKept, PTL DEF Inv, UnwindSound
<1> QED
  BY <1>1, <1>2, PTL DEF TransactSpec, FaultLeavesChain
=============================================================================
