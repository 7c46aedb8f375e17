--------------------------- MODULE StateManagers ---------------------------
(***************************************************************************)
(* The four state managers of packages/statemanager/src behind the one     *)
(* interface StateManagerInterface: "merkle" (tries), "binary" (one binary *)
(* tree), "rpc" (caches over a remote provider), "simple" (stacks of maps).*)
(* merkle and binary run with their three caches or without them.          *)
(*                                                                         *)
(* m is the manager: the caches (StateCache records), disk (what lies      *)
(* below the caches; a trie's root is the map it stores), diskCp (its      *)
(* checkpoints), tries (_storageTries), ids, tok and tokCp (registered     *)
(* token ids) and orig (originalStorageCache).  world is a history         *)
(* variable, what a caller that knows only the interface expects; past     *)
(* keeps it for every open checkpoint and kept for the root in held.       *)
(* astray records the steps after which a manager is known not to keep     *)
(* the interface's promise; the README lists them.                         *)
(***************************************************************************)
EXTENDS Integers, Sequences, FiniteSetsExt

CONSTANTS Kinds,       \* the configurations checked, [name, cached]
          Addresses, Slots,
          Codes,       \* non-empty code
          SlotValues,  \* non-zero slot values
          Balances,    \* account values other than a new account's 0
          Tokens,
          Absent, Unsaved, Nothing, NoCode,
          MaxDepth,    \* bound: checkpoints open at once
          MaxTotal,    \* bound: at which the token totals stop growing
          MaxCalls     \* bound: calls after construction or genesis

VARIABLES kind, m, world, past, held, kept, astray, wiped, calls

vars == <<kind, m, world, past, held, kept, astray, wiped, calls>>

Storage == [Slots -> SlotValues \cup {0}]
NoStorage == [s \in Slots |-> 0]
Account == [val : Balances \cup {0}, code : Codes \cup {NoCode}, root : Storage, tok : SUBSET Tokens]
NewAccount == [val |-> 0, code |-> NoCode, root |-> NoStorage, tok |-> {}]
SlotKeys == Addresses \X Slots

AC == INSTANCE StateCache WITH Keys <- Addresses, Elements <- Account \cup {Nothing}, CacheSize <- 0
CC == INSTANCE StateCache WITH Keys <- Addresses, Elements <- Codes \cup {NoCode, Nothing}, CacheSize <- 0
SC == INSTANCE StateCache WITH Keys <- SlotKeys, Elements <- SlotValues \cup {0}, CacheSize <- 0

Only(S) == CHOOSE x \in S : TRUE
Is(name) == kind.name = name
Depth == Len(past)

-----------------------------------------------------------------------------
(* What lies below the caches.  merkle keeps accounts by address and code   *)
(* by hash; storage is part of the account through its root.  The others    *)
(* keep code and storage by address.                                        *)
EmptyDisk == [acct   |-> [a \in Addresses |-> Nothing],
              codes  |-> {},
              chunks |-> [a \in Addresses |-> NoCode],
              slots  |-> [a \in Addresses |-> NoStorage]]

(* The provider of the rpc manager: an account with code, in block 1 with   *)
(* storage too.                                                             *)
Provided(block) ==
  LET acct == [NewAccount EXCEPT !.val = Only(Balances), !.code = Only(Codes)]
      st == [s \in Slots |-> IF block = 1 THEN Only(SlotValues) ELSE 0]
  IN  [EmptyDisk EXCEPT !.acct = [a \in Addresses |-> acct],
                        !.chunks = [a \in Addresses |-> acct.code],
                        !.slots = [a \in Addresses |-> st]]

NoTokens == [t \in Tokens |-> 0]
NoTries == [a \in Addresses |-> Absent]
NoOriginals == [k \in SlotKeys |-> Absent]

Fresh(disk) == [ac |-> AC!EmptyCache, cc |-> CC!EmptyCache, sc |-> SC!EmptyCache,
                disk |-> disk, diskCp |-> <<>>, tries |-> NoTries,
                ids |-> {}, tok |-> NoTokens, tokCp |-> <<>>, orig |-> NoOriginals]

-----------------------------------------------------------------------------
(* The caches: AccountCache, CodeCache and StorageCache keep elements the   *)
(* same way; a manager configured without caches skips them.                *)

CacheAccount(s, a, v) == [s EXCEPT !.ac = Only(AC!CachePut(@, a, v))]
CacheCode(s, a, c) == [s EXCEPT !.cc = Only(CC!CachePut(@, a, c))]
CacheSlot(s, a, k, v) == [s EXCEPT !.sc = Only(SC!CachePut(@, <<a, k>>, v))]
CacheNoCode(s, a) == CacheCode(s, a, Nothing)

SlotCached(s, a, k) == kind.cached /\ s.sc.elem[<<a, k>>] # Absent
CodeCached(s, a) == kind.cached /\ s.cc.elem[a] # Absent
AccountCached(s, a) == kind.cached /\ s.ac.elem[a] # Absent

(* StorageCache.clearStorage: every cached slot is saved for a rollback,    *)
(* stops being pending and leaves the cache.                                *)
ClearSlots(s, a) ==
  LET sc == s.sc
      cleared == {k \in SlotKeys : k[1] = a /\ sc.elem[k] # Absent}
  IN  [s EXCEPT !.sc =
        [elem    |-> [k \in SlotKeys |-> IF k[1] = a THEN Absent ELSE sc.elem[k]],
         diff    |-> SC!ReplaceTop(sc.diff, SC!SaveDiff(SC!Top(sc.diff), sc.elem, cleared)),
         dirty   |-> sc.dirty \ cleared,
         dirtyCp |-> SC!MarksAfter(sc, cleared \cap sc.dirty)]]

(* Caches.deleteAccount *)
CachesDelete(s, a) == ClearSlots(CacheAccount(CacheNoCode(s, a), a, Nothing), a)

CachesDo(s, A(_), C(_), S(_)) ==
  IF kind.cached THEN [s EXCEPT !.ac = A(@), !.cc = C(@), !.sc = S(@)] ELSE s

CodeCheckpoint(c) == CC!CacheCheckpoint(c)
SlotCheckpoint(c) == SC!CacheCheckpoint(c)
CodeCommit(c) == CC!CacheCommit(c)
SlotCommit(c) == SC!CacheCommit(c)
CodeRevert(c) == Only(CC!CacheRevert(c))
SlotRevert(c) == Only(SC!CacheRevert(c))
CodeFlushed(c) == CC!CacheFlush(c)
SlotFlushed(c) == SC!CacheFlush(c)
CodeClear(c) == CC!CacheClear(c)
SlotClear(c) == SC!CacheClear(c)

CachesCheckpoint(s) == CachesDo(s, AC!CacheCheckpoint, CodeCheckpoint, SlotCheckpoint)
CachesCommit(s) == CachesDo(s, AC!CacheCommit, CodeCommit, SlotCommit)
CachesRevert(s) == CachesDo(s, LAMBDA c : Only(AC!CacheRevert(c)), CodeRevert, SlotRevert)
CachesClear(s) == CachesDo(s, AC!CacheClear, CodeClear, SlotClear)

-----------------------------------------------------------------------------
(* Accounts *)

AccountOf(s, a) == IF AccountCached(s, a) THEN s.ac.elem[a] ELSE s.disk.acct[a]

(* A miss reads what lies below and caches it; the binary manager caches    *)
(* only an absence.                                                         *)
BinaryGetAccount(s, a) ==
  IF kind.cached /\ ~AccountCached(s, a) /\ s.disk.acct[a] = Nothing
  THEN CacheAccount(s, a, Nothing) ELSE s

GetAccount(s, a) ==
  IF Is("binary") THEN BinaryGetAccount(s, a)
  ELSE IF kind.cached /\ ~AccountCached(s, a) THEN CacheAccount(s, a, s.disk.acct[a])
  ELSE s

(* Tokens of an account are registered when it is written.  merkle adds up  *)
(* the amounts (1 each here), rpc and simple keep a set.                    *)
MerkleRegistered(s, acct) ==
  [s EXCEPT !.tok = [t \in Tokens |-> IF t \in acct.tok /\ t \notin s.ids
                                      THEN Min({@[t] + 1, MaxTotal}) ELSE @[t]]]

Registered(s, acct) ==
  CASE acct = Nothing \/ Is("binary") -> s
    [] Is("merkle") -> MerkleRegistered(s, acct)
    [] OTHER -> [s EXCEPT !.tok = [t \in Tokens |-> IF t \in acct.tok THEN 1 ELSE @[t]]]

(* the account trie, the two header leaves of the tree, or the top map *)
WriteAccount(s, a, acct) == [s EXCEPT !.disk.acct[a] = acct]

PutAccount(s, a, acct) ==
  IF kind.cached THEN CacheAccount(Registered(s, acct), a, acct)
  ELSE WriteAccount(Registered(s, acct), a, acct)

Existing(s, a) == IF AccountOf(s, a) = Nothing THEN NewAccount ELSE AccountOf(s, a)

(* modifyAccountFields: getAccount, change, putAccount. *)
ModifyAccountFields(s, a, acct) == PutAccount(GetAccount(s, a), a, acct)

(* Tokens an account held are taken off the totals not yet permanent.       *)
MerkleDelete(s, a) ==
  LET g == GetAccount(s, a)
      acct == AccountOf(s, a)
      c == IF kind.cached THEN CachesDelete(g, a) ELSE WriteAccount(g, a, Nothing)
  IN  [c EXCEPT !.tries[a] = Absent,
                !.tok = IF acct = Nothing THEN @
                        ELSE [t \in Tokens |-> IF t \in acct.tok /\ @[t] > 0 THEN @[t] - 1 ELSE @[t]]]

(* Code chunks and slots stay in the tree. *)
BinaryDelete(s, a) == IF kind.cached THEN CachesDelete(s, a) ELSE WriteAccount(s, a, Nothing)

(* The rpc and simple managers only forget the account itself. *)
RpcDelete(s, a) == CacheAccount(s, a, Nothing)
SimpleDelete(s, a) == WriteAccount(s, a, Nothing)

DeleteAccount(s, a) ==
  CASE Is("merkle") -> MerkleDelete(s, a)
    [] Is("binary") -> BinaryDelete(s, a)
    [] Is("rpc")    -> RpcDelete(s, a)
    [] Is("simple") -> SimpleDelete(s, a)

-----------------------------------------------------------------------------
(* Code *)

(* The code's hash goes into the account. *)
Hashed(s, a, c) == ModifyAccountFields(s, a, [Existing(s, a) EXCEPT !.code = c])

StoreCode(s, c) == [s EXCEPT !.disk.codes = @ \cup {c}]

MerklePutCode(s, a, c) ==
  Hashed(IF kind.cached THEN CacheCode(s, a, c) ELSE StoreCode(s, c), a, c)

(* _writeCodeToTree does nothing for empty code. *)
WriteCodeToTree(s, a, c) ==
  IF c = NoCode THEN s ELSE Hashed([s EXCEPT !.disk.chunks[a] = c], a, c)

BinaryPutCode(s, a, c) == WriteCodeToTree(IF kind.cached THEN CacheCode(s, a, c) ELSE s, a, c)
RpcPutCode(s, a, c) == CacheCode(s, a, c)
SimplePutCode(s, a, c) == Hashed([s EXCEPT !.disk.chunks[a] = c], a, c)

PutCode(s, a, c) ==
  CASE Is("merkle") -> MerklePutCode(s, a, c)
    [] Is("binary") -> BinaryPutCode(s, a, c)
    [] Is("rpc")    -> RpcPutCode(s, a, c)
    [] Is("simple") -> SimplePutCode(s, a, c)

(* By the hash in the account, or by the account's address. *)
MerkleStoredCode(s, acct) == IF acct.code \in s.disk.codes THEN acct.code ELSE NoCode
BinaryStoredCode(s, a) == s.disk.chunks[a]

StoredCode(s, a) ==
  LET acct == AccountOf(s, a)
  IN  CASE Is("rpc") \/ Is("simple") -> s.disk.chunks[a]
        [] ~(Is("rpc") \/ Is("simple")) /\ (acct = Nothing \/ acct.code = NoCode) -> NoCode
        [] OTHER -> IF Is("binary") THEN BinaryStoredCode(s, a) ELSE MerkleStoredCode(s, acct)

(* A cached {code: undefined} is empty code. *)
CodeOf(s, a) ==
  CASE ~CodeCached(s, a) -> StoredCode(s, a)
    [] OTHER -> IF s.cc.elem[a] = Nothing THEN NoCode ELSE s.cc.elem[a]

RpcGetCode(s, a) == CacheCode(s, a, StoredCode(s, a))

(* getCode: a miss reads the account and, if it is a contract, caches its   *)
(* code, which put marks as pending.                                        *)
GetCode(s, a) ==
  IF ~kind.cached \/ CodeCached(s, a) THEN s
  ELSE IF Is("rpc") THEN RpcGetCode(s, a)
  ELSE IF Existing(s, a).code = NoCode THEN GetAccount(s, a)
  ELSE CacheCode(GetAccount(s, a), a, StoredCode(s, a))

-----------------------------------------------------------------------------
(* Storage *)

(* The trie of _getStorageTrie: the one in use, else one at the account's   *)
(* root.                                                                    *)
StorageTrie(s, a, acct) == IF s.tries[a] # Absent THEN s.tries[a] ELSE acct.root

StoredSlot(s, a, k) ==
  IF Is("rpc") \/ Is("simple") THEN s.disk.slots[a][k]
  ELSE IF AccountOf(s, a) = Nothing THEN 0
  ELSE IF Is("binary") THEN s.disk.slots[a][k] ELSE StorageTrie(s, a, AccountOf(s, a))[k]

SlotOf(s, a, k) == IF SlotCached(s, a, k) THEN s.sc.elem[<<a, k>>] ELSE StoredSlot(s, a, k)

SlotRead(s, a, k) == IF kind.cached THEN CacheSlot(s, a, k, StoredSlot(s, a, k)) ELSE s

MerkleGetStorage(s, a, k) ==
  IF AccountOf(s, a) = Nothing THEN GetAccount(s, a)
  ELSE SlotRead([GetAccount(s, a) EXCEPT !.tries[a] = StorageTrie(s, a, AccountOf(s, a))], a, k)

BinaryGetStorage(s, a, k) ==
  IF AccountOf(s, a) = Nothing THEN GetAccount(s, a) ELSE SlotRead(GetAccount(s, a), a, k)

RpcGetStorage(s, a, k) == SlotRead(s, a, k)
SimpleGetStorage(s, a, k) == s

GetStorage(s, a, k) ==
  CASE SlotCached(s, a, k) -> s
    [] OTHER -> CASE Is("merkle") -> MerkleGetStorage(s, a, k)
                  [] Is("binary") -> BinaryGetStorage(s, a, k)
                  [] Is("rpc")    -> RpcGetStorage(s, a, k)
                  [] Is("simple") -> SimpleGetStorage(s, a, k)

(* _modifyContractStorage: the trie's new content becomes the account's     *)
(* storage root.                                                            *)
ModifyContractStorage(s, a, acct, content) ==
  PutAccount([s EXCEPT !.tries[a] = content], a, [acct EXCEPT !.root = content])

WriteContractStorage(s, a, acct, k, v) ==
  ModifyContractStorage(s, a, acct, [StorageTrie(s, a, acct) EXCEPT ![k] = v])

WriteStorageToTree(s, a, k, v) == [s EXCEPT !.disk.slots[a][k] = v]

(* The slot is cached and, because put answers undefined, written through   *)
(* to the storage trie as well.                                             *)
MerklePutStorage(s, a, k, v) ==
  LET g == GetAccount(s, a)
  IN  WriteContractStorage(IF kind.cached THEN CacheSlot(g, a, k, v) ELSE g, a, AccountOf(g, a), k, v)

BinaryPutStorage(s, a, k, v) ==
  IF kind.cached THEN CacheSlot(s, a, k, v) ELSE WriteStorageToTree(s, a, k, v)

RpcPutStorage(s, a, k, v) == CacheSlot(s, a, k, v)
SimplePutStorage(s, a, k, v) == WriteStorageToTree(s, a, k, v)

PutStorage(s, a, k, v) ==
  CASE Is("merkle") -> MerklePutStorage(s, a, k, v)
    [] Is("binary") -> BinaryPutStorage(s, a, k, v)
    [] Is("rpc")    -> RpcPutStorage(s, a, k, v)
    [] Is("simple") -> SimplePutStorage(s, a, k, v)

MerkleClearStorage(s, a) ==
  LET g == GetAccount(s, a)
  IN  ModifyContractStorage(IF kind.cached THEN ClearSlots(g, a) ELSE g, a, Existing(g, a), NoStorage)

(* Only the cache is cleared; the simple manager does nothing. *)
BinaryClearStorage(s, a) == IF kind.cached THEN ClearSlots(s, a) ELSE s
RpcClearStorage(s, a) == ClearSlots(s, a)

ClearStorage(s, a) ==
  CASE Is("merkle") -> MerkleClearStorage(s, a)
    [] Is("binary") -> BinaryClearStorage(s, a)
    [] Is("rpc")    -> RpcClearStorage(s, a)
    [] Is("simple") -> s

(* originalStorageCache.get: the first answer is remembered. *)
OriginalGet(s, a, k) ==
  IF s.orig[<<a, k>>] # Absent THEN s
  ELSE [GetStorage(s, a, k) EXCEPT !.orig[<<a, k>>] = SlotOf(s, a, k)]

-----------------------------------------------------------------------------
(* Flush: pending code, then slots, then accounts. *)

FlushCode(s) ==
  FoldSet(LAMBDA a, acc : CASE s.cc.elem[a] = Nothing -> acc
                            [] OTHER -> IF Is("binary") THEN WriteCodeToTree(acc, a, s.cc.elem[a])
                                        ELSE Hashed(StoreCode(acc, s.cc.elem[a]), a, s.cc.elem[a]),
          [s EXCEPT !.cc = CodeFlushed(@)], CC!FlushItems(s.cc))

FlushSlots(s) ==
  FoldSet(LAMBDA k, acc :
            LET g == GetAccount(acc, k[1])
                acct == AccountOf(acc, k[1])
            IN  IF acct = Nothing THEN g
                ELSE IF Is("binary") THEN WriteStorageToTree(g, k[1], k[2], s.sc.elem[k])
                ELSE WriteContractStorage(g, k[1], acct, k[2], s.sc.elem[k]),
          [s EXCEPT !.sc = SlotFlushed(@)], SC!FlushItems(s.sc))

FlushAccounts(s) ==
  LET items == AC!FlushItems(s.ac)
  IN  [s EXCEPT !.ac = AC!CacheFlush(@),
                !.disk.acct = [a \in Addresses |-> IF a \in items THEN s.ac.elem[a] ELSE @[a]]]

(* The rpc manager has nowhere to write: it only forgets what is pending.   *)
RpcFlush(s) == [s EXCEPT !.ac = AC!CacheFlush(@)]

BinaryFlush(s) == FlushAccounts(FlushSlots(FlushCode(s)))

Flush(s) ==
  CASE ~kind.cached -> s
    [] Is("rpc")    -> RpcFlush(s)
    [] Is("binary") -> BinaryFlush(s)
    [] OTHER        -> FlushAccounts(FlushSlots(FlushCode(s)))

-----------------------------------------------------------------------------
(* Checkpoints *)

CheckpointOf(s) == [CachesCheckpoint(s) EXCEPT !.diskCp = Append(@, s.disk), !.tokCp = Append(@, s.tok)]

Outermost(s) == Len(s.diskCp) = 1

(* The outermost commit or revert flushes and forgets the original values.  *)
Settled(s) == [Flush(s) EXCEPT !.orig = NoOriginals]

PopTokens(s) == [s EXCEPT !.tokCp = AC!Pop(@)]

(* Only the outermost commit makes registrations permanent. *)
CommitTokens(s, outermost) ==
  IF outermost
  THEN [PopTokens(s) EXCEPT !.ids = @ \cup {t \in Tokens : s.tok[t] > 0}, !.tok = NoTokens]
  ELSE PopTokens(s)

Committed(s) == [CachesCommit(s) EXCEPT !.diskCp = AC!Pop(@)]

MerkleCommit(s) ==
  CommitTokens(IF Outermost(s) THEN Settled(Committed(s)) ELSE Committed(s), Outermost(s))

BinaryCommit(s) ==
  PopTokens(IF Outermost(s) THEN Settled(Committed(s)) ELSE Committed(s))

(* One of the two top copies goes; what was registered stays. *)
RpcCommit(s) == PopTokens(Committed(s))
SimpleCommit(s) == PopTokens(Committed(s))

CommitOf(s) ==
  CASE Is("merkle") -> MerkleCommit(s)
    [] Is("binary") -> BinaryCommit(s)
    [] Is("rpc")    -> RpcCommit(s)
    [] Is("simple") -> SimpleCommit(s)

Reverted(s) == [CachesRevert(s) EXCEPT !.disk = AC!Top(s.diskCp), !.diskCp = AC!Pop(@)]

RevertTokens(s) == PopTokens([s EXCEPT !.tok = AC!Top(s.tokCp)])

(* Faulty variant: the storage tries in use survive the rollback. *)
MerkleRevertTriesKept(s) ==
  RevertTokens(IF Outermost(s) THEN Settled(Reverted(s)) ELSE Reverted(s))

MerkleRevert(s) ==
  LET r == [Reverted(s) EXCEPT !.tries = NoTries]
  IN  RevertTokens(IF Outermost(s) THEN Settled(r) ELSE r)

BinaryRevert(s) == RevertTokens(IF Outermost(s) THEN Settled(Reverted(s)) ELSE Reverted(s))
RpcRevert(s) == RevertTokens(Reverted(s))
SimpleRevert(s) == RevertTokens(Reverted(s))

RevertOf(s) ==
  CASE Is("merkle") -> MerkleRevert(s)
    [] Is("binary") -> BinaryRevert(s)
    [] Is("rpc")    -> RpcRevert(s)
    [] Is("simple") -> SimpleRevert(s)

(* setStateRoot: flush, move to the root, clear the caches and the tries.   *)
(* The code database belongs to no root.                                    *)
MerkleSetRoot(s, disk) ==
  [CachesClear(Flush(s)) EXCEPT !.disk.acct = disk.acct, !.tries = NoTries]

(* The binary manager does not flush, and clears when asked to. *)
BinarySetRoot(s, disk) == [CachesClear(s) EXCEPT !.disk = disk]

SetRoot(s, disk) == IF Is("merkle") THEN MerkleSetRoot(s, disk) ELSE BinarySetRoot(s, disk)

(* clearCaches of the rpc manager: its registered tokens go as well. *)
ClearCaches(s) ==
  [CachesClear(s) EXCEPT !.orig = NoOriginals, !.tok = NoTokens, !.tokCp = <<>>]

TokensBefore(s) == IF s.tokCp = <<>> THEN s.tok ELSE s.tokCp[1]

(* merkle's copy is at the state before the outermost checkpoint, without   *)
(* what its caches hold; the simple manager copies its stacks.              *)
MerkleCopy(s) ==
  [Fresh(IF s.diskCp = <<>> THEN s.disk ELSE s.diskCp[1])
     EXCEPT !.ids = s.ids, !.tok = TokensBefore(s)]
SimpleCopy(s) == [Fresh(s.disk) EXCEPT !.diskCp = s.diskCp, !.tok = s.tok, !.tokCp = s.tokCp]

(* tokenIdExists; the binary manager has no registry. *)
Known(s) == {t \in Tokens : t \in s.ids \/ s.tok[t] > 0}

-----------------------------------------------------------------------------
(* Proofs of the merkle manager.  A proof carries a path of the account     *)
(* trie (which shows what that trie holds) and claims about the account.    *)

GetMerkleStateProof(s, a) ==
  LET f == GetAccount(Flush(s), a)
      acct == Existing(f, a)
  IN  [path |-> f.disk.acct, exists |-> AccountOf(f, a) # Nothing,
       val |-> acct.val, code |-> acct.code, root |-> acct.root,
       slots |-> IF AccountOf(f, a) = Nothing THEN <<>>
                 ELSE [k \in Slots |-> SlotOf(f, a, k)]]

(* Faulty variant: the storage hash is not compared with the account's. *)
VerifyProofNoRoot(s, a, p) ==
  LET proved == Flush(s).disk.acct[a]
  IN  /\ p.path = Flush(s).disk.acct
      /\ IF proved = Nothing
         THEN p.val = 0 /\ p.root = NoStorage /\ p.code = NoCode /\ p.slots = <<>>
         ELSE /\ p.val = proved.val /\ p.code = proved.code
              /\ p.slots = <<>> \/ \A k \in Slots : p.slots[k] = p.root[k]

VerifyProof(s, a, p) ==
  LET proved == Flush(s).disk.acct[a]
  IN  /\ p.path = Flush(s).disk.acct
      /\ IF proved = Nothing
         THEN p.val = 0 /\ p.root = NoStorage /\ p.code = NoCode /\ p.slots = <<>>
         ELSE /\ p.val = proved.val /\ p.root = proved.root /\ p.code = proved.code
              /\ p.slots = <<>> \/ \A k \in Slots : p.slots[k] = proved.root[k]

(* fromMerkleStateProof: the account trie of the path, the storage trie of  *)
(* the claimed root.                                                        *)
FromProof(p, a) ==
  [Fresh([EmptyDisk EXCEPT !.acct = p.path]) EXCEPT !.tries[a] = p.root]

-----------------------------------------------------------------------------
(* The post-state of an execution witness (binary manager): the leaves of   *)
(* an account that a block accessed, with the values they end with; a leaf  *)
(* that is not there is Nothing.                                            *)

Leaves == {"basic", "hash", "code"} \cup Slots

(* getComputedValue; with caches it looks only there. *)
ComputedValue(s, a, leaf) ==
  LET acct == IF ~kind.cached THEN AccountOf(s, a)
              ELSE IF s.ac.elem[a] = Absent THEN Nothing ELSE s.ac.elem[a]
  IN  CASE leaf = "basic" -> IF acct = Nothing THEN Nothing ELSE acct.val
        [] leaf = "hash"  -> IF acct = Nothing THEN Nothing ELSE acct.code
        [] leaf = "code"  -> IF ~kind.cached THEN CodeOf(s, a)
                             ELSE IF s.cc.elem[a] = Absent THEN Nothing ELSE s.cc.elem[a]
        [] OTHER -> IF ~kind.cached THEN SlotOf(s, a, leaf)
                    ELSE IF s.sc.elem[<<a, leaf>>] = Absent THEN Nothing ELSE s.sc.elem[<<a, leaf>>]

(* An absent slot and a slot of zeros are the same. *)
Matches(leaf, computed, canonical) ==
  computed = (IF leaf \in Slots /\ canonical = Nothing /\ computed = 0 THEN 0 ELSE canonical)

(* verifyBinaryTreePostState *)
VerifyPostState(s, a, accessed, post) ==
  /\ \A leaf \in accessed : leaf \in DOMAIN post /\ Matches(leaf, ComputedValue(s, a, leaf), post[leaf])
  /\ DOMAIN post \subseteq accessed

-----------------------------------------------------------------------------
(* What the caller expects *)

Forgotten(w, a) == [w EXCEPT !.acct[a] = Nothing, !.code[a] = NoCode, !.st[a] = NoStorage]

View(s) == [acct |-> [a \in Addresses |->
                        IF AccountOf(s, a) = Nothing THEN Nothing
                        ELSE [val |-> AccountOf(s, a).val, tok |-> AccountOf(s, a).tok]],
            code |-> [a \in Addresses |-> CodeOf(s, a)],
            st   |-> [a \in Addresses |-> [k \in Slots |-> SlotOf(s, a, k)]],
            known |-> Known(s)]

(* World with an account created where there was none. *)
Made(w, a) == IF w.acct[a] = Nothing THEN [w EXCEPT !.acct[a] = [val |-> 0, tok |-> {}]] ELSE w

Pending(s) == s.ac.dirty # {} \/ s.cc.dirty # {} \/ s.sc.dirty # {}

(* generateCanonicalGenesis with one account that has code and storage; the *)
(* binary manager puts the storage first, the others have no genesis.       *)
Genesis(s) ==
  LET a == Only(Addresses)
      acct == [NewAccount EXCEPT !.val = Only(Balances)]
      Stored(t) == PutStorage(t, a, Only(Slots), Only(SlotValues))
      Coded(t) == PutCode(t, a, Only(Codes))
  IN  CASE Is("merkle") -> Flush(Stored(Coded(PutAccount(s, a, acct))))
        [] Is("binary") ->
             Flush(CommitOf(PutAccount(Coded(Stored(PutAccount(CheckpointOf(s), a, NewAccount))), a,
                                       [acct EXCEPT !.code = Only(Codes)])))
        [] OTHER -> s

Init == /\ kind \in Kinds
        /\ \E s \in {Fresh(IF Is("rpc") THEN Provided(1) ELSE EmptyDisk)} : m = Genesis(s)
        /\ world = View(m)
        /\ past = <<>>
        /\ held = m.disk
        /\ kept = world
        /\ astray = FALSE
        /\ wiped = {}
        /\ calls = 0

(* The steps a manager is known not to carry out as the interface says.     *)
LeavesStorage(a) == ~Is("merkle") /\ (world.st[a] # NoStorage \/ m.disk.slots[a] # NoStorage)
LeavesCodeOrStorage(a) ==
  LeavesStorage(a) \/ (~Is("merkle") /\ (world.code[a] # NoCode \/ m.disk.chunks[a] # NoCode))

Read(s) == s # m /\ m' = s /\ UNCHANGED <<kind, world, past, held, kept, astray, wiped>>
Write(s, w) == m' = s /\ world' = [w EXCEPT !.known = Known(s)] /\ UNCHANGED <<kind, past, held, kept>>

DoGetAccount(a) == Read(GetAccount(m, a))
DoGetCode(a) == Read(GetCode(m, a))
DoGetStorage(a, k) == Read(GetStorage(m, a, k))
DoOriginalGet(a, k) == Depth > 0 /\ Read(OriginalGet(m, a, k))

(* A caller changes an account it has read, or makes a new one. *)
DoPutAccount(a, v, toks) ==
  /\ Write(ModifyAccountFields(m, a, [Existing(m, a) EXCEPT !.val = v, !.tok = toks]),
           [world EXCEPT !.acct[a] = [val |-> v, tok |-> toks]])
  /\ UNCHANGED <<astray, wiped>>

(* putAccount(address, undefined) leaves pending code and slots behind. *)
DoPutUndefined(a) ==
  /\ world.acct[a] # Nothing
  /\ Write(PutAccount(m, a, Nothing), Forgotten(world, a))
  /\ astray' = (astray \/ LeavesCodeOrStorage(a) \/ world.code[a] # NoCode \/ world.st[a] # NoStorage
                  \/ m.tries[a] # Absent \/ m.cc.elem[a] # Absent)
  /\ wiped' = wiped \cup {a}

DoDeleteAccount(a) ==
  /\ Write(DeleteAccount(m, a), Forgotten(world, a))
  /\ astray' = (astray \/ LeavesCodeOrStorage(a))
  /\ wiped' = wiped \cup {a}

DoPutCode(a, c) ==
  /\ Write(PutCode(m, a, c), [Made(world, a) EXCEPT !.code[a] = c])
  /\ astray' = (astray \/ (Is("binary") /\ c = NoCode) \/ (Is("rpc") /\ world.acct[a] = Nothing))
  /\ UNCHANGED wiped

(* The interpreter's SSTORE runs in an account and reads the original value *)
(* first.                                                                   *)
DoPutStorage(a, k, v) ==
  /\ Depth > 0 /\ world.acct[a] # Nothing
  /\ Write(PutStorage(OriginalGet(m, a, k), a, k, v), [world EXCEPT !.st[a][k] = v])
  /\ UNCHANGED <<astray, wiped>>

DoClearStorage(a) ==
  /\ Write(ClearStorage(m, a),
           [(IF Is("merkle") THEN Made(world, a) ELSE world) EXCEPT !.st[a] = NoStorage])
  /\ astray' = (astray \/ LeavesStorage(a))
  /\ wiped' = wiped \cup {a}

Checkpoint ==
  /\ Depth < MaxDepth
  /\ m' = CheckpointOf(m)
  /\ past' = Append(past, [world |-> world, pending |-> Pending(m)])
  /\ wiped' = IF Depth = 0 THEN {} ELSE wiped
  /\ UNCHANGED <<kind, world, held, kept, astray>>

Commit ==
  /\ Depth > 0
  /\ m' = CommitOf(m)
  /\ past' = AC!Pop(past)
  /\ world' = [world EXCEPT !.known = Known(m')]
  /\ UNCHANGED <<kind, held, kept, astray, wiped>>

Revert ==
  /\ Depth > 0
  /\ m' = RevertOf(m)
  /\ world' = AC!Top(past).world
  /\ past' = AC!Pop(past)
  /\ UNCHANGED <<kind, held, kept, astray, wiped>>

(* getStateRoot flushes (the binary manager's does not); a caller keeps a   *)
(* root taken outside any checkpoint with nothing pending.                  *)
GetStateRoot ==
  /\ Is("merkle") \/ Is("binary")
  /\ m' = IF Is("merkle") THEN Flush(m) ELSE m
  /\ IF Depth = 0 /\ ~Pending(m') THEN held' = m'.disk /\ kept' = world
     ELSE UNCHANGED <<held, kept>>
  /\ world' = [world EXCEPT !.known = Known(m')]
  /\ UNCHANGED <<kind, past, astray, wiped>>

DoFlush == ~Is("merkle") /\ Read(Flush(m))

SetStateRoot ==
  /\ Is("merkle") \/ Is("binary")
  /\ Depth = 0
  /\ m' = SetRoot(m, held)
  /\ world' = [kept EXCEPT !.known = Known(m')]
  /\ astray' = (astray \/ \E a \in Addresses : kept.acct[a] # Nothing /\ ~(kept.acct[a].tok \subseteq Known(m')))
  /\ UNCHANGED <<kind, past, held, kept, wiped>>

(* setBlockTag of the rpc manager *)
SetBlockTag(block) ==
  /\ Is("rpc") /\ Depth = 0
  /\ m' = [ClearCaches(m) EXCEPT !.disk = Provided(block)]
  /\ world' = View(Fresh(Provided(block)))
  /\ UNCHANGED <<kind, past, held, kept, astray, wiped>>

Next ==
  /\ calls < MaxCalls
  /\ calls' = calls + 1
  /\ \/ \E a \in Addresses : \/ DoGetAccount(a)
                             \/ DoGetCode(a)
                             \/ DoPutUndefined(a)
                             \/ DoDeleteAccount(a)
                             \/ DoClearStorage(a)
     \/ \E a \in Addresses, k \in Slots : DoGetStorage(a, k) \/ DoOriginalGet(a, k)
     \/ \E a \in Addresses, v \in Balances, toks \in SUBSET Tokens : DoPutAccount(a, v, toks)
     \/ \E a \in Addresses, c \in Codes \cup {NoCode} : DoPutCode(a, c)
     \/ \E a \in Addresses, k \in Slots, v \in SlotValues \cup {0} : DoPutStorage(a, k, v)
     \/ Checkpoint \/ Commit \/ Revert
     \/ GetStateRoot \/ DoFlush \/ SetStateRoot
     \/ \E block \in {1, 2} : SetBlockTag(block)

Spec == Init /\ [][Next]_vars

-----------------------------------------------------------------------------
(* The types of the caches, and every checkpoint stack (of the three caches,*)
(* of the store below, of the tokens) has the height of the others.         *)
ManagerTypeOK ==
  /\ m.ac \in AC!CacheType /\ m.cc \in CC!CacheType /\ m.sc \in SC!CacheType
  /\ m.tries \in [Addresses -> Storage \cup {Absent}]
  /\ Len(m.diskCp) = Depth /\ Len(m.tokCp) = Depth
  /\ kind.cached => \A n \in {Len(m.ac.dirtyCp), Len(m.cc.dirtyCp), Len(m.sc.dirtyCp)} : n = Depth

(* Whatever was cached, flushed, committed or reverted, a manager answers   *)
(* the accounts, code, slots and token ids that the calls so far left, and  *)
(* a revert or an older state root brings back exactly those of then.       *)
ReadsAgree == ~astray => View(m) = world

(* A flush writes everything that is pending, so that the state root alone  *)
(* says all of it: a manager that starts from the root with empty caches    *)
(* gives the same answers.                                                  *)
Persisted ==
  (Is("merkle") \/ Is("binary")) /\ ~astray => \A f \in {Flush(m)} :
    /\ ~Pending(f)
    /\ View([Fresh(f.disk) EXCEPT !.ids = f.ids, !.tok = f.tok]) = world

(* A copy is what shallowCopy is documented to be: the state before the     *)
(* outermost open checkpoint, tokens included (unless writes were still     *)
(* pending there); the simple manager's is the current state.               *)
CopyExact ==
  LET base == IF Depth = 0 THEN [world |-> world, pending |-> Pending(m)] ELSE past[1]
  IN  ~astray => /\ Is("merkle") /\ ~base.pending => View(MerkleCopy(m)) = base.world
                 /\ Is("simple") => View(SimpleCopy(m)) = world

(* A token that some account holds is known to tokenIdExists, at every      *)
(* depth and after every rollback.                                          *)
HeldTokensKnown ==
  ~Is("binary") /\ ~astray =>
    \A a \in Addresses : world.acct[a] # Nothing => world.acct[a].tok \subseteq Known(m)

(* The original value SSTORE is charged by is the value at the outermost    *)
(* checkpoint, whatever nested checkpoints wrote, committed or reverted     *)
(* since (as long as the account's storage was not wiped meanwhile).        *)
OriginalExact ==
  (Is("merkle") \/ Is("binary")) /\ ~astray /\ Depth > 0 =>
    \A k \in SlotKeys : m.orig[k] # Absent /\ k[1] \notin wiped =>
      m.orig[k] = past[1].world.st[k[1]][k[2]]

(* A proof the manager makes is accepted and shows the state, pending       *)
(* writes included; a proof with any claim changed is accepted only if what *)
(* it claims is still true; a manager made from the proof answers the same. *)
ProofExact ==
  Is("merkle") /\ ~astray => \A a \in Addresses : \A p \in {GetMerkleStateProof(m, a)} :
    /\ VerifyProof(m, a, p)
    /\ p.exists = (world.acct[a] # Nothing)
    /\ p.code = world.code[a] /\ p.root = world.st[a]
    /\ \A q \in [path : {p.path}, exists : {p.exists}, val : Balances \cup {0}, code : Codes \cup {NoCode},
                   root : Storage, slots : Storage \cup {<<>>}] :
         VerifyProof(m, a, q) => /\ q = [p EXCEPT !.slots = q.slots]
                                 /\ q.slots # <<>> => q.slots = world.st[a]
    /\ \A f \in {FromProof(p, a)} : /\ View(f).acct[a] = world.acct[a]
                                    /\ View(f).st[a] = world.st[a]

(* The binary manager without caches accepts a witness exactly when it      *)
(* lists the accessed leaves, each with the value the block left it with.   *)
WitnessExact ==
  Is("binary") /\ ~kind.cached /\ ~astray =>
    \A a \in Addresses : \A accessed, listed \in SUBSET Leaves :
      \A honest \in {[leaf \in listed |->
                        CASE leaf = "code" -> world.code[a]
                          [] leaf \in Slots -> world.st[a][leaf]
                          [] OTHER -> IF world.acct[a] = Nothing THEN Nothing
                                      ELSE IF leaf = "basic" THEN world.acct[a].val ELSE world.code[a]]} :
        /\ VerifyPostState(m, a, accessed, honest) <=> (listed = accessed)
        /\ \A leaf \in listed, other \in {Unsaved} :
             ~VerifyPostState(m, a, accessed, [honest EXCEPT ![leaf] = other])

\* Every manager answers as a caller expects: now, at older roots, in a copy,
\* for original values and for token ids.
ManagersAgree == ManagerTypeOK /\ ReadsAgree /\ Persisted /\ CopyExact /\ HeldTokensKnown /\ OriginalExact

\* Proofs and witnesses are accepted for the state they are of and no other.
ProofsHold == ProofExact /\ WitnessExact
=============================================================================
