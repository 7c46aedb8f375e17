------------------------------ MODULE Machine ------------------------------
(***************************************************************************)
(* The TVM: a transaction, its message calls and creations, and the        *)
(* interpreter that runs their bytecode (vm/src/runTx.ts, tvm/src/tvm.ts,  *)
(* interpreter.ts, opcodes/, stack.ts, memory.ts, transientStorage.ts).    *)
(*                                                                         *)
(* Every running message is a frame: the environment, the run state and    *)
(* what the interpreter collects.  One action is one opcode, or the end of *)
(* a message with everything its caller then does.  The state of accounts  *)
(* that a message's execution checkpoint stands for is kept in the frame;  *)
(* Journal, CheckpointDB and AccountStore show what a checkpoint does.     *)
(*                                                                         *)
(* Fees are parameters: only their order matters.  There is one token.     *)
(* EOF code, the access witness and the block access list are not here.    *)
(***************************************************************************)
EXTENDS Words, FiniteSets, SequencesExt

CONSTANTS Fee,        \* what operations cost, by the names of params.ts
          StackLimit, \* deepest message
          MaxHeight,  \* items on a stack
          MaxInt64,   \* most units of a token
          MaxUint64,  \* a nonce that CREATE does not exceed
          MinTokenId, \* the token's id is greater
          Block,      \* the header's fields; slot 0 stands for none
          Identity,   \* address of the identity precompile
          Scenarios   \* accounts before, active EIPs and the transactions that are run

ASSUME MachineAssumption ==
    /\ Fee.callStipend <= Fee.callValueTransfer   \* 2300 and 9000
    /\ Fee.quadCoefficientDiv > 0 /\ Fee.maxRefundQuotient > 0

VARIABLES world,     \* account of every address that has one
          transient, \* transient storage with its journal
          writes,    \* slots written in this transaction
          frames,    \* running messages, innermost last
          counter,   \* nonce of the TRON transaction context
          eips,      \* active EIPs
          todo,      \* transactions not yet finished, the current one first
          result,    \* of the message at depth 0
          start,     \* accounts at the transaction's checkpoint
          derived,   \* history: addresses derived from the counter
          burnt      \* history: value destroyed

machineVars == <<world, transient, writes, frames, counter, eips, todo, result, start, derived, burnt>>

Op == [STOP |-> 0, ADD |-> 1, MUL |-> 2, SUB |-> 3, DIV |-> 4, SDIV |-> 5, MOD |-> 6, SMOD |-> 7,
       ADDMOD |-> 8, MULMOD |-> 9, EXP |-> 10, SIGNEXTEND |-> 11, LT |-> 16, GT |-> 17, SLT |-> 18,
       SGT |-> 19, EQ |-> 20, ISZERO |-> 21, AND |-> 22, OR |-> 23, XOR |-> 24, NOT |-> 25,
       BYTE |-> 26, SHL |-> 27, SHR |-> 28, SAR |-> 29, CLZ |-> 30, KECCAK256 |-> 32,
       ADDRESS |-> 48, BALANCE |-> 49, ORIGIN |-> 50, CALLER |-> 51, CALLVALUE |-> 52,
       CALLDATALOAD |-> 53, CALLDATASIZE |-> 54, CALLDATACOPY |-> 55, CODESIZE |-> 56,
       CODECOPY |-> 57, GASPRICE |-> 58, EXTCODESIZE |-> 59, EXTCODECOPY |-> 60,
       RETURNDATASIZE |-> 61, RETURNDATACOPY |-> 62, EXTCODEHASH |-> 63, BLOCKHASH |-> 64,
       COINBASE |-> 65, TIMESTAMP |-> 66, NUMBER |-> 67, PREVRANDAO |-> 68, GASLIMIT |-> 69,
       CHAINID |-> 70, SELFBALANCE |-> 71, BASEFEE |-> 72, SLOTNUM |-> 75, POP |-> 80, MLOAD |-> 81,
       MSTORE |-> 82, MSTORE8 |-> 83, SLOAD |-> 84, SSTORE |-> 85, JUMP |-> 86, JUMPI |-> 87,
       PC |-> 88, MSIZE |-> 89, GAS |-> 90, JUMPDEST |-> 91, TLOAD |-> 92, TSTORE |-> 93,
       MCOPY |-> 94, PUSH0 |-> 95, PUSH1 |-> 96, PUSH2 |-> 97, DUP1 |-> 128, DUP2 |-> 129,
       SWAP1 |-> 144, SWAP2 |-> 145, LOG0 |-> 160, LOG1 |-> 161, CALLTOKEN |-> 208,
       TOKENBALANCE |-> 209, CALLTOKENVALUE |-> 210, CALLTOKENID |-> 211, ISCONTRACT |-> 212,
       DUPN |-> 230, SWAPN |-> 231, EXCHANGE |-> 232, CREATE |-> 240, CALL |-> 241,
       CALLCODE |-> 242, RETURN |-> 243, DELEGATECALL |-> 244, CREATE2 |-> 245,
       STATICCALL |-> 250, REVERT |-> 253, INVALID |-> 254, SELFDESTRUCT |-> 255]

PushOps == Op.PUSH1..(Op.PUSH1 + WordBytes - 1)
DupOps == 128..143
SwapOps == 144..159
LogOps == 160..164

\* Opcodes that an EIP brings; where it is not active they are INVALID.
EipOps == [x \in {1153, 3198, 3855, 5656, 7843, 7939, 8024} |->
             CASE x = 1153 -> {Op.TLOAD, Op.TSTORE}
               [] x = 3198 -> {Op.BASEFEE}
               [] x = 3855 -> {Op.PUSH0}
               [] x = 5656 -> {Op.MCOPY}
               [] x = 7843 -> {Op.SLOTNUM}
               [] x = 7939 -> {Op.CLZ}
               [] x = 8024 -> {Op.DUPN, Op.SWAPN, Op.EXCHANGE}]

Known == ({Op[n] : n \in DOMAIN Op} \cup PushOps \cup DupOps \cup SwapOps \cup LogOps) \ {Op.INVALID}
LookupOpInfo(c) ==
    IF c \in Known /\ \A x \in DOMAIN EipOps : c \in EipOps[x] => x \in eips THEN c ELSE Op.INVALID
-----------------------------------------------------------------------------
(* Bytes *)

Slice(data, from, len) ==
    [i \in 1..len |-> IF from + i <= Len(data) THEN data[from + i] ELSE 0]
Number(bytes) == FoldLeft(LAMBDA n, b : n * (ByteMax + 1) + b, 0, bytes)
ToBytes(w) == [i \in 1..WordBytes |-> BYTE(i - 1, w)]

\* keccak256 is only known to be a function of its input.
Hash(bytes) == FoldLeft(LAMBDA n, b : (7 * n + b + 3) % TWO_POW256, 1, bytes)

\* An address has one byte less than a word: the prefix of TRON fills it.
AddressSpace == 2^(WordBits - ByteBits)
createAddressFromStackBigInt(w) == w % AddressSpace
PrefixWord == 65 * AddressSpace

\* Of the transaction t: its deployment, and the creations by its counter.
ContractAddress(t) == 90 + t
CreateAddress(t, n) == 96 + 16 * t + n
CreateAddress2(caller, salt, code) == 160 + (Hash(<<caller, salt>> \o code) % 64)
-----------------------------------------------------------------------------
(* Accounts *)

NoAccount == [balance |-> 0, nonce |-> 0, asset |-> 0, code |-> << >>, storage |-> << >>]
Exists(a) == a \in DOMAIN world
GetAccount(w, a) == IF a \in DOMAIN w THEN w[a] ELSE NoAccount
PutAccount(w, a, acc) == [x \in DOMAIN w \cup {a} |-> IF x = a THEN acc ELSE w[x]]
IsEmpty(acc) == acc.balance = 0 /\ acc.nonce = 0 /\ acc.code = << >>
GetStorage(acc, k) == IF k \in DOMAIN acc.storage THEN acc.storage[k] ELSE 0
PutStorage(acc, k, v) ==
    LET s == acc.storage
        D == IF v = 0 THEN DOMAIN s \ {k} ELSE DOMAIN s \cup {k}
    IN [acc EXCEPT !.storage = [x \in D |-> IF x = k THEN v ELSE s[x]]]
-----------------------------------------------------------------------------
(* Transient storage: the values, every change with the value before it, and *)
(* the length of that journal at every open checkpoint.                      *)

TransientGet(t, slot) == IF slot \in DOMAIN t.storage THEN t.storage[slot] ELSE 0
TransientSet(s, slot, v) == [x \in DOMAIN s \cup {slot} |-> IF x = slot THEN v ELSE s[x]]

TransientPut(t, slot, v) ==
    [t EXCEPT !.changes = Append(@, [slot |-> slot, prev |-> TransientGet(t, slot)]),
              !.storage = TransientSet(@, slot, v)]

TransientCheckpoint(t) == [t EXCEPT !.indices = Append(@, Len(t.changes))]
TransientCommit(t) == [t EXCEPT !.indices = Front(@)]

\* Faulty variant: the changes are undone oldest first.
TransientRevertForward(t) ==
    LET at == Last(t.indices)
        undone == FoldLeft(LAMBDA s, c : TransientSet(s, c.slot, c.prev), t.storage,
                           SubSeq(t.changes, at + 1, Len(t.changes)))
    IN [storage |-> undone, changes |-> SubSeq(t.changes, 1, at), indices |-> Front(t.indices)]

TransientRevert(t) ==
    LET at == Last(t.indices)
        undone == FoldRight(LAMBDA c, s : TransientSet(s, c.slot, c.prev),
                            SubSeq(t.changes, at + 1, Len(t.changes)), t.storage)
    IN [storage |-> undone, changes |-> SubSeq(t.changes, 1, at), indices |-> Front(t.indices)]

TransientClear(t) == [t EXCEPT !.storage = << >>, !.changes = << >>]

\* What a contract can read.
Readable(t) == {<<slot, t.storage[slot]>> : slot \in {s \in DOMAIN t.storage : t.storage[s] # 0}}
-----------------------------------------------------------------------------
(* The run state *)

Top == frames[Len(frames)]
Running(f) == f.halt = "run"
Halt(f, why) == [f EXCEPT !.halt = why]
Error(f) == Halt(f, "error")
Stopped(f, data) == [f EXCEPT !.halt = "stop", !.returnValue = data]

\* The stack has its top first.
Has(f, n) == Len(f.stack) >= n
Arg(f, n) == f.stack[n]
PopN(f, n) == [f EXCEPT !.stack = SubSeq(@, n + 1, Len(@))]

Push(f, w) == IF Len(f.stack) >= MaxHeight THEN Error(f)
              ELSE [f EXCEPT !.stack = <<w>> \o @]
Peeked(f, n, g) == IF Has(f, n) THEN g ELSE Error(f)

Swapped(s, i, j) == [s EXCEPT ![i] = s[j], ![j] = s[i]]
Swap(f, n) == IF Len(f.stack) <= n THEN Error(f)
              ELSE [f EXCEPT !.stack = Swapped(@, 1, n + 1)]
Dup(f, n) == IF ~Has(f, n) THEN Error(f) ELSE Push(f, f.stack[n])
ExchangeItems(f, x, y) == IF ~Has(f, x + 1) \/ ~Has(f, y + 1) THEN Error(f)
                          ELSE [f EXCEPT !.stack = Swapped(@, x + 1, y + 1)]

Read(f, offset, len) == Slice(f.memory, offset, len)
Write(f, offset, data) ==
    IF data = << >> THEN f
    ELSE [f EXCEPT !.memory =
            [i \in 1..(IF Len(@) > offset + Len(data) THEN Len(@) ELSE offset + Len(data)) |->
               IF i > offset /\ i <= offset + Len(data) THEN data[i - offset]
               ELSE IF i <= Len(@) THEN @[i] ELSE 0]]

Words32(len) == divCeil(len, WordBytes)
MemoryCost(words) == words * Fee.memory + (words * words) \div Fee.quadCoefficientDiv

\* Gas that this step owes on top of what it owes so far.
Owe(f, gas) == [f EXCEPT !.due = @ + gas]

subMemUsage(f, offset, len) ==
    LET words == Words32(offset + len)
        cost == MemoryCost(words)
    IN IF len = 0 \/ words <= f.words THEN f
       ELSE [f EXCEPT !.words = words,
                      !.highest = IF cost > @ THEN cost ELSE @,
                      !.due = @ + (IF cost > f.highest THEN cost - f.highest ELSE cost)]

CopyGas(len) == Fee.copy * Words32(len)

\* useGas: what is owed is taken, or all the gas is.
UseGas(f, gas) == IF gas > f.gas THEN [Error(f) EXCEPT !.gas = 0] ELSE [f EXCEPT !.gas = @ - gas]
Pay(f) == IF ~Running(f) THEN f ELSE UseGas([f EXCEPT !.due = 0], f.due)
-----------------------------------------------------------------------------
(* Jump analysis *)

Byte(code, pc) == IF pc < Len(code) THEN code[pc + 1] ELSE 0

SingleImmediateValid(i) == i <= 90 \/ i >= 128
PairImmediateValid(i) == i <= 79 \/ i >= 128
DecodeSingle(i) == IF i <= 90 THEN i + 17 ELSE i - 20
DecodePair(i) ==
    LET k == IF i <= 79 THEN i ELSE i - 48
        q == k \div 16
        r == k % 16
    IN IF q < r THEN <<q + 1, r + 1>> ELSE <<r + 1, 29 - q>>

\* Bytes after the opcode at pc that the analysis passes over.
Immediates(code, pc) ==
    LET c == Byte(code, pc)
    IN IF c \in PushOps THEN c - (Op.PUSH1 - 1)
       ELSE IF 8024 \in eips /\ pc + 1 < Len(code)
               /\ \/ c = Op.EXCHANGE /\ PairImmediateValid(Byte(code, pc + 1))
                  \/ c \in {Op.DUPN, Op.SWAPN} /\ SingleImmediateValid(Byte(code, pc + 1))
            THEN 1
       ELSE 0

PushData(code, pc) == Number(Slice(code, pc, Byte(code, pc - 1) - (Op.PUSH1 - 1)))

\* The positions that hold an opcode, the valid jumps among them, and the
\* value of every PUSH by the position of its data.
GetValidJumpDestinations(code) ==
    LET scan == FoldLeft(LAMBDA acc, pc :
                            IF pc < acc.next THEN acc
                            ELSE [next |-> pc + 1 + Immediates(code, pc), starts |-> acc.starts \cup {pc}],
                         [next |-> 0, starts |-> {}], [i \in 1..Len(code) |-> i - 1])
        P == {pc + 1 : pc \in {p \in scan.starts : Byte(code, p) \in PushOps}}
    IN [starts |-> scan.starts,
        jumps |-> {pc \in scan.starts : Byte(code, pc) = Op.JUMPDEST},
        pushes |-> [pc \in P |-> PushData(code, pc)]]

NotAnalysed == [starts |-> {}, jumps |-> {}, pushes |-> << >>]
-----------------------------------------------------------------------------
(* Dynamic gas: what a step owes beyond its base fee *)

Free == {Op.STOP, Op.RETURN, Op.REVERT}
BaseFee(c) == IF c \in Free THEN 0
              ELSE IF c \in {Op.CREATE, Op.CREATE2} THEN Fee.create
              ELSE Fee.base

maxCallGas(gasLimit, gasLeft) == IF gasLimit > gasLeft THEN gasLeft ELSE gasLimit
setCallGasLimit(f, requested) ==
    IF f.due > f.gas THEN Error(f)
    ELSE [f EXCEPT !.messageGas = maxCallGas(requested, f.gas - f.due)]

updateSstoreGas(current, value, written) ==
    IF current = 0 /\ value # 0 /\ ~written THEN Fee.sstoreSet ELSE Fee.sstoreReset

ExpGas(f) == Owe(f, IF Arg(f, 2) = 0 THEN 0 ELSE Fee.expByte * ExponentBytes(Arg(f, 2)))
Keccak256Gas(f) == Owe(subMemUsage(f, Arg(f, 1), Arg(f, 2)), Fee.keccak256Word * Words32(Arg(f, 2)))
CalldatacopyGas(f) == Owe(subMemUsage(f, Arg(f, 1), Arg(f, 3)), CopyGas(Arg(f, 3)))
CodecopyGas(f) == Owe(subMemUsage(f, Arg(f, 1), Arg(f, 3)), CopyGas(Arg(f, 3)))
ExtcodecopyGas(f) == Owe(subMemUsage(f, Arg(f, 2), Arg(f, 4)), CopyGas(Arg(f, 4)))
ReturndatacopyGas(f) ==
    IF Arg(f, 2) + Arg(f, 3) > Len(f.returnBytes) THEN Error(f)
    ELSE Owe(subMemUsage(f, Arg(f, 1), Arg(f, 3)), CopyGas(Arg(f, 3)))
MloadGas(f) == subMemUsage(f, Arg(f, 1), WordBytes)
MstoreGas(f) == subMemUsage(f, Arg(f, 1), WordBytes)
Mstore8Gas(f) == subMemUsage(f, Arg(f, 1), 1)
SstoreGas(f) ==
    IF f.static THEN Error(f)
    ELSE Peeked(f, 2, Owe(f, updateSstoreGas(GetStorage(GetAccount(world, f.address), Arg(f, 1)),
                                             Arg(f, 2), <<f.address, Arg(f, 1)>> \in writes)))
McopyGas(f) == subMemUsage(subMemUsage(Owe(f, Fee.copy * Words32(Arg(f, 3))), Arg(f, 2), Arg(f, 3)),
                           Arg(f, 1), Arg(f, 3))
LogGas(f, c) ==
    IF f.static THEN Error(f)
    ELSE Peeked(f, 2, Owe(subMemUsage(f, Arg(f, 1), Arg(f, 2)),
                          Fee.logTopic * (c - Op.LOG0) + Arg(f, 2) * Fee.logData))
ReturnGas(f) == subMemUsage(f, Arg(f, 1), Arg(f, 2))

\* The creation gets all the gas that is left: it may be short, then Pay fails.
WithRest(f) == [f EXCEPT !.messageGas = f.gas - f.due]
CreateGas(f) ==
    IF f.static THEN Error(f)
    ELSE Peeked(f, 3, WithRest(subMemUsage(f, Arg(f, 2), Arg(f, 3))))
Create2Gas(f) ==
    IF f.static THEN Error(f)
    ELSE Peeked(f, 4, WithRest(Owe(subMemUsage(f, Arg(f, 2), Arg(f, 3)),
                                   Fee.keccak256Word * Words32(Arg(f, 3)))))

\* Where the input of a call begins on the stack; its output follows.
InputAt(c) == CASE c \in {Op.CALL, Op.CALLCODE} -> 4
                [] c = Op.CALLTOKEN -> 5
                [] OTHER -> 3
CallArgs(c) == InputAt(c) + 3

CallMemory(f, c) ==
    LET i == InputAt(c)
    IN subMemUsage(subMemUsage(f, Arg(f, i), Arg(f, i + 1)), Arg(f, i + 2), Arg(f, i + 3))

NewAccountGas(a) == IF Exists(a) THEN 0 ELSE Fee.callNewAccount
ValueGas(value, extra) == IF value # 0 THEN Fee.callValueTransfer + extra ELSE 0

\* CALL and CALLTOKEN: value can make the account.
CallGas(f, c) ==
    LET to == createAddressFromStackBigInt(Arg(f, 2))
    IN IF f.static /\ Arg(f, 3) # 0 THEN Error(f)
       ELSE setCallGasLimit(Owe(CallMemory(f, c), ValueGas(Arg(f, 3), NewAccountGas(to))), Arg(f, 1))
CallcodeGas(f, c) == setCallGasLimit(Owe(CallMemory(f, c), ValueGas(Arg(f, 3), 0)), Arg(f, 1))
DelegatecallGas(f, c) == setCallGasLimit(CallMemory(f, c), Arg(f, 1))
StaticcallGas(f, c) == setCallGasLimit(CallMemory(f, c), Arg(f, 1))
SelfdestructGas(f) ==
    IF f.static THEN Error(f)
    ELSE Peeked(f, 1, Owe(f, NewAccountGas(createAddressFromStackBigInt(Arg(f, 1)))))

DynamicGas(f, c) ==
    CASE c = Op.EXP -> Peeked(f, 2, ExpGas(f))
      [] c = Op.KECCAK256 -> Peeked(f, 2, Keccak256Gas(f))
      [] c = Op.CALLDATACOPY -> Peeked(f, 3, CalldatacopyGas(f))
      [] c = Op.CODECOPY -> Peeked(f, 3, CodecopyGas(f))
      [] c = Op.EXTCODECOPY -> Peeked(f, 4, ExtcodecopyGas(f))
      [] c = Op.RETURNDATACOPY -> Peeked(f, 3, ReturndatacopyGas(f))
      [] c = Op.MLOAD -> Peeked(f, 1, MloadGas(f))
      [] c = Op.MSTORE -> Peeked(f, 1, MstoreGas(f))
      [] c = Op.MSTORE8 -> Peeked(f, 1, Mstore8Gas(f))
      [] c = Op.SSTORE -> SstoreGas(f)
      [] c = Op.MCOPY -> Peeked(f, 3, McopyGas(f))
      [] c \in LogOps -> LogGas(f, c)
      [] c \in {Op.RETURN, Op.REVERT} -> Peeked(f, 2, ReturnGas(f))
      [] c = Op.CREATE -> CreateGas(f)
      [] c = Op.CREATE2 -> Create2Gas(f)
      [] c \in {Op.CALL, Op.CALLTOKEN} -> Peeked(f, CallArgs(c), CallGas(f, c))
      [] c = Op.CALLCODE -> Peeked(f, CallArgs(c), CallcodeGas(f, c))
      [] c = Op.DELEGATECALL -> Peeked(f, CallArgs(c), DelegatecallGas(f, c))
      [] c = Op.STATICCALL -> Peeked(f, CallArgs(c), StaticcallGas(f, c))
      [] c = Op.SELFDESTRUCT -> SelfdestructGas(f)
      [] OTHER -> f
-----------------------------------------------------------------------------
(* runStep: charge, analyse before the first jump, advance.  The handlers    *)
(* below get the frame after that; an opcode that cannot be paid halted it.  *)

Analysed(f) == f.analysis # NotAnalysed

Charged(f) ==
    LET c == LookupOpInfo(Byte(f.code, f.pc))
        paid == IF c = Op.INVALID THEN Error(f) ELSE Pay(DynamicGas(Owe(f, BaseFee(c)), c))
        ready == IF Running(paid) /\ c \in {Op.JUMP, Op.JUMPI} /\ ~Analysed(f)
                 THEN [paid EXCEPT !.analysis = GetValidJumpDestinations(f.code)] ELSE paid
    IN [ready EXCEPT !.pc = @ + 1]

\* The handler pops n words (top first) and pushes v.
Replace(f, n, v) == Push(PopN(f, n), v)

IsEOF(code) == Len(code) >= 2 /\ code[1] = 239 /\ code[2] = 0
EOFBYTES == <<239, 0>>
VisibleCode(a) == LET code == GetAccount(world, a).code IN IF IsEOF(code) THEN EOFBYTES ELSE code
Named(f, n) == createAddressFromStackBigInt(Arg(f, n))

Token == MinTokenId + 1
IsValidTronTokenId(id) == id > MinTokenId /\ id <= MaxInt64
TokenBalance(acc, id) == IF id = Token THEN acc.asset ELSE 0

tx == Head(todo)
GasPrice(t) == IF t.tip < 0 THEN t.price
               ELSE Block.baseFee + (IF t.tip < t.price - Block.baseFee THEN t.tip ELSE t.price - Block.baseFee)

\* The getters that only read the environment.
Environment(f, c) ==
    CASE c = Op.ADDRESS -> f.address
      [] c = Op.ORIGIN -> tx.from
      [] c = Op.CALLER -> f.caller
      [] c = Op.CALLVALUE -> f.value
      [] c = Op.CALLDATASIZE -> Len(f.data)
      [] c = Op.CODESIZE -> Len(f.code)
      [] c = Op.GASPRICE -> GasPrice(tx)
      [] c = Op.RETURNDATASIZE -> Len(f.returnBytes)
      [] c = Op.COINBASE -> Block.coinbase
      [] c = Op.TIMESTAMP -> Block.timestamp
      [] c = Op.NUMBER -> Block.number
      [] c = Op.PREVRANDAO -> IF 4399 \in eips THEN Block.prevRandao ELSE Block.difficulty
      [] c = Op.GASLIMIT -> Block.gasLimit
      [] c = Op.CHAINID -> Block.chainId
      [] c = Op.SELFBALANCE -> f.contract.balance
      [] c = Op.BASEFEE -> Block.baseFee
      [] c = Op.SLOTNUM -> Block.slot
      [] c = Op.PC -> f.pc - 1
      [] c = Op.MSIZE -> f.words * WordBytes
      [] c = Op.GAS -> f.gas
      [] c = Op.PUSH0 -> 0
Getters == {Op.ADDRESS, Op.ORIGIN, Op.CALLER, Op.CALLVALUE, Op.CALLDATASIZE, Op.CODESIZE, Op.GASPRICE,
            Op.RETURNDATASIZE, Op.COINBASE, Op.TIMESTAMP, Op.NUMBER, Op.PREVRANDAO, Op.GASLIMIT,
            Op.CHAINID, Op.SELFBALANCE, Op.BASEFEE, Op.SLOTNUM, Op.PC, Op.MSIZE, Op.GAS, Op.PUSH0}

Unary(c, a) == CASE c = Op.ISZERO -> ISZERO(a) [] c = Op.NOT -> NOT(a) [] c = Op.CLZ -> CLZ(a)
UnaryOps == {Op.ISZERO, Op.NOT, Op.CLZ}
Binary(c, a, b) ==
    CASE c = Op.ADD -> ADD(a, b) [] c = Op.MUL -> MUL(a, b) [] c = Op.SUB -> SUB(a, b)
      [] c = Op.DIV -> DIV(a, b) [] c = Op.SDIV -> SDIV(a, b) [] c = Op.MOD -> MOD(a, b)
      [] c = Op.SMOD -> SMOD(a, b) [] c = Op.EXP -> EXP(a, b) [] c = Op.SIGNEXTEND -> SIGNEXTEND(a, b)
      [] c = Op.LT -> LT(a, b) [] c = Op.GT -> GT(a, b) [] c = Op.SLT -> SLT(a, b)
      [] c = Op.SGT -> SGT(a, b) [] c = Op.EQ -> EQ(a, b) [] c = Op.AND -> AND(a, b)
      [] c = Op.OR -> OR(a, b) [] c = Op.XOR -> XOR(a, b) [] c = Op.BYTE -> BYTE(a, b)
      [] c = Op.SHL -> SHL(a, b) [] c = Op.SHR -> SHR(a, b) [] c = Op.SAR -> SAR(a, b)
BinaryOps == (Op.ADD..Op.MOD \cup {Op.SMOD, Op.EXP, Op.SIGNEXTEND} \cup Op.LT..Op.EQ \cup Op.AND..Op.XOR
              \cup Op.BYTE..Op.SAR)
Ternary(c, a, b, n) == IF c = Op.ADDMOD THEN ADDMOD(a, b, n) ELSE MULMOD(a, b, n)
TernaryOps == {Op.ADDMOD, Op.MULMOD}

\* Opcodes that read one word and push one.
BALANCE(f) == GetAccount(world, Named(f, 1)).balance
CALLDATALOAD(f) == IF Arg(f, 1) > Len(f.data) THEN 0 ELSE Number(Slice(f.data, Arg(f, 1), WordBytes))
EXTCODESIZE(f) == Len(VisibleCode(Named(f, 1)))
EXTCODEHASH(f) ==
    LET acc == GetAccount(world, Named(f, 1))
    IN CASE IsEOF(acc.code) -> Hash(EOFBYTES)
         [] IsEmpty(acc) -> 0
         [] OTHER -> Hash(acc.code)
BLOCKHASH(f) == LET diff == Block.number - Arg(f, 1)
                IN IF diff > 256 \/ diff <= 0 THEN 0 ELSE Hash(<<Arg(f, 1)>>)
MLOAD(f) == Number(Read(f, Arg(f, 1), WordBytes))
SLOAD(f) == GetStorage(GetAccount(world, f.address), Arg(f, 1))
TLOAD(f) == TransientGet(transient, <<f.address, Arg(f, 1)>>)
ISCONTRACT(f) ==
    IF Named(f, 1) = f.address /\ Arg(f, 1) # 0 THEN 1
    ELSE Truth(GetAccount(world, Named(f, 1)).code # << >>)
Lookup(f, c) ==
    CASE c = Op.BALANCE -> BALANCE(f) [] c = Op.CALLDATALOAD -> CALLDATALOAD(f)
      [] c = Op.EXTCODESIZE -> EXTCODESIZE(f) [] c = Op.EXTCODEHASH -> EXTCODEHASH(f)
      [] c = Op.BLOCKHASH -> BLOCKHASH(f) [] c = Op.MLOAD -> MLOAD(f) [] c = Op.SLOAD -> SLOAD(f)
      [] c = Op.TLOAD -> TLOAD(f) [] c = Op.ISCONTRACT -> ISCONTRACT(f)
Lookups == {Op.BALANCE, Op.CALLDATALOAD, Op.EXTCODESIZE, Op.EXTCODEHASH, Op.BLOCKHASH, Op.MLOAD,
            Op.SLOAD, Op.TLOAD, Op.ISCONTRACT}

KECCAK256(f) == Replace(f, 2, Hash(Read(f, Arg(f, 1), Arg(f, 2))))
TOKENBALANCE(f) ==
    IF ~IsValidTronTokenId(Arg(f, 1)) THEN Error(f)
    ELSE Replace(f, 2, TokenBalance(GetAccount(world, Named(f, 2)), Arg(f, 1)))
CALLTOKENVALUE(f) == IF f.tokenValue > MaxInt64 THEN Error(f) ELSE Push(f, f.tokenValue)
CALLTOKENID(f) == IF f.tokenId > MaxInt64 THEN Error(f) ELSE Push(f, f.tokenId)

\* Copies into memory: three words, four with an address.
CALLDATACOPY(f) == Write(PopN(f, 3), Arg(f, 1), Slice(f.data, Arg(f, 2), Arg(f, 3)))
CODECOPY(f) == Write(PopN(f, 3), Arg(f, 1), Slice(f.code, Arg(f, 2), Arg(f, 3)))
RETURNDATACOPY(f) == Write(PopN(f, 3), Arg(f, 1), Slice(f.returnBytes, Arg(f, 2), Arg(f, 3)))
EXTCODECOPY(f) == Write(PopN(f, 4), Arg(f, 2), Slice(VisibleCode(Named(f, 1)), Arg(f, 3), Arg(f, 4)))
MCOPY(f) == Write(PopN(f, 3), Arg(f, 1), Read(f, Arg(f, 2), Arg(f, 3)))
MSTORE(f) == Write(PopN(f, 2), Arg(f, 1), ToBytes(Arg(f, 2)))
MSTORE8(f) == Write(PopN(f, 2), Arg(f, 1), <<Arg(f, 2) % (ByteMax + 1)>>)

JumpTo(f, dest) == IF dest > Len(f.code) \/ dest \notin f.analysis.jumps THEN Error(f)
                   ELSE [f EXCEPT !.pc = dest]
JUMP(f) == JumpTo(PopN(f, 1), Arg(f, 1))
JUMPI(f) == IF Arg(f, 2) = 0 THEN PopN(f, 2) ELSE JumpTo(PopN(f, 2), Arg(f, 1))

\* The analysis has the values of the PUSHes; before it they are read.
PUSH(f, c) ==
    LET v == IF Analysed(f) THEN f.analysis.pushes[f.pc] ELSE PushData(f.code, f.pc)
    IN Push([f EXCEPT !.pc = @ + c - (Op.PUSH1 - 1)], v)

ReadImmediate(f) == Byte(f.code, f.pc)
DUPN(f) == LET i == ReadImmediate(f)
           IN IF SingleImmediateValid(i) THEN Dup([f EXCEPT !.pc = @ + 1], DecodeSingle(i)) ELSE Error(f)
SWAPN(f) == LET i == ReadImmediate(f)
            IN IF SingleImmediateValid(i) THEN Swap([f EXCEPT !.pc = @ + 1], DecodeSingle(i)) ELSE Error(f)
EXCHANGE(f) ==
    LET i == ReadImmediate(f)
        xy == DecodePair(i)
    IN IF PairImmediateValid(i) THEN ExchangeItems([f EXCEPT !.pc = @ + 1], xy[1], xy[2]) ELSE Error(f)

LOG(f, c) ==
    LET n == c - Op.LOG0
    IN IF ~Has(f, 2 + n) THEN Error(f)
       ELSE [PopN(f, 2 + n) EXCEPT !.logs = Append(@, [kind |-> "log", from |-> f.address, to |-> f.address,
                                                       value |-> n])]
RETURN(f) == Stopped(f, Read(f, Arg(f, 1), Arg(f, 2)))
REVERT(f) == Halt(Stopped(f, Read(f, Arg(f, 1), Arg(f, 2))), "revert")

\* Every opcode that touches nothing but its own run state.
Execute(f, c) ==
    CASE c = Op.STOP -> Stopped(f, << >>)
      [] c \in Getters -> Push(f, Environment(f, c))
      [] c \in UnaryOps -> Peeked(f, 1, Replace(f, 1, Unary(c, Arg(f, 1))))
      [] c \in BinaryOps -> Peeked(f, 2, Replace(f, 2, Binary(c, Arg(f, 1), Arg(f, 2))))
      [] c \in TernaryOps -> Peeked(f, 3, Replace(f, 3, Ternary(c, Arg(f, 1), Arg(f, 2), Arg(f, 3))))
      [] c \in Lookups -> Peeked(f, 1, Replace(f, 1, Lookup(f, c)))
      [] c = Op.KECCAK256 -> KECCAK256(f)
      [] c = Op.TOKENBALANCE -> Peeked(f, 2, TOKENBALANCE(f))
      [] c = Op.CALLTOKENVALUE -> CALLTOKENVALUE(f)
      [] c = Op.CALLTOKENID -> CALLTOKENID(f)
      [] c = Op.CALLDATACOPY -> CALLDATACOPY(f)
      [] c = Op.CODECOPY -> CODECOPY(f)
      [] c = Op.RETURNDATACOPY -> RETURNDATACOPY(f)
      [] c = Op.EXTCODECOPY -> EXTCODECOPY(f)
      [] c = Op.MCOPY -> MCOPY(f)
      [] c = Op.MSTORE -> MSTORE(f)
      [] c = Op.MSTORE8 -> MSTORE8(f)
      [] c = Op.POP -> Peeked(f, 1, PopN(f, 1))
      [] c = Op.JUMP -> Peeked(f, 1, JUMP(f))
      [] c = Op.JUMPI -> Peeked(f, 2, JUMPI(f))
      [] c = Op.JUMPDEST -> f
      [] c \in PushOps -> PUSH(f, c)
      [] c \in DupOps -> Dup(f, c - 127)
      [] c \in SwapOps -> Swap(f, c - 143)
      [] c = Op.DUPN -> DUPN(f)
      [] c = Op.SWAPN -> SWAPN(f)
      [] c = Op.EXCHANGE -> EXCHANGE(f)
      [] c \in LogOps -> LOG(f, c)
      [] c = Op.RETURN -> RETURN(f)
      [] c = Op.REVERT -> REVERT(f)
-----------------------------------------------------------------------------
(* Messages: _runCall, _executeCall, _executeCreate.  A message that runs no *)
(* code is a frame that has already halted.                                  *)

NoAddress == -1
TransferLog(from, to, value) ==
    IF 7708 \in eips /\ value > 0 /\ from # to
    THEN <<[kind |-> "transfer", from |-> from, to |-> to, value |-> value]>> ELSE << >>
BurnLog(a, value) ==
    IF 7708 \in eips /\ value > 0
    THEN <<[kind |-> "burn", from |-> a, to |-> a, value |-> value]>> ELSE << >>

\* What the execution checkpoint of a message takes back.
Saved == [world |-> world, writes |-> writes, burnt |-> burnt, readable |-> Readable(transient)]

Contract(w, a) == LET acc == GetAccount(w, a)
                  IN [balance |-> acc.balance, nonce |-> acc.nonce, asset |-> acc.asset]

\* A new interpreter for message g, which sees the accounts w.
NewFrame(g, w, saved, code, logs) ==
    [address |-> g.to, caller |-> g.caller, data |-> g.data, value |-> g.value, tokenId |-> g.tokenId,
     tokenValue |-> g.tokenValue, code |-> code, static |-> g.static, create |-> g.create,
     depth |-> g.depth, limit |-> g.gas, gas |-> g.gas, pc |-> 0, stack |-> << >>, memory |-> << >>,
     words |-> 0, highest |-> 0, due |-> 0, analysis |-> NotAnalysed, messageGas |-> 0,
     returnBytes |-> << >>, returnValue |-> << >>, logs |-> logs, selfdestruct |-> g.selfdestruct,
     created |-> g.created, contract |-> Contract(w, g.to), saved |-> saved,
     out |-> <<0, 0>>, halt |-> "run"]

Overflows(acc, g) ==
    acc.balance + g.value > MAX_INTEGER \/ (g.tokenValue > 0 /\ acc.asset + g.tokenValue > MaxInt64)

Reduced(w, g) ==
    LET acc == GetAccount(w, g.caller)
    IN PutAccount(w, g.caller, [acc EXCEPT !.balance = @ - g.value, !.asset = @ - g.tokenValue])
Increased(w, g) ==
    LET acc == GetAccount(w, g.to)
    IN PutAccount(w, g.to, [acc EXCEPT !.balance = @ + g.value, !.asset = @ + g.tokenValue])

\* A call without a transfer does not make its recipient.
Transferred(w, g) ==
    IF g.delegate THEN w
    ELSE IF g.to \in DOMAIN w \/ g.value # 0 \/ g.tokenValue # 0 THEN Increased(Reduced(w, g), g)
    ELSE Reduced(w, g)

IdentityRun(f) ==
    LET fee == Fee.identity + Fee.identityWord * Words32(Len(f.data))
    IN IF fee > f.gas THEN Error(f) ELSE Stopped([f EXCEPT !.gas = @ - fee], f.data)

\* The accounts and the frame a call begins with.  Where the recipient would
\* overflow, the frame is refused at no cost, and what was moved is undone
\* with it.
ExecuteCall(g, w, saved) ==
    LET after == Transferred(w, g)
        code == IF g.codeAddress = Identity THEN << >> ELSE GetAccount(w, g.codeAddress).code
        f == NewFrame(g, after, saved, code, IF g.delegate THEN << >> ELSE TransferLog(g.caller, g.to, g.value))
    IN IF ~g.delegate /\ Overflows(GetAccount(Reduced(w, g), g.to), g)
       THEN [world |-> w, frame |-> Halt(f, "refused")]
       ELSE [world |-> after,
             frame |-> IF g.codeAddress = Identity THEN IdentityRun(f)
                       ELSE IF code = << >> THEN Stopped(f, << >>) ELSE f]

Occupied(acc) == acc.nonce > 0 \/ acc.code # << >> \/ acc.storage # << >>

GeneratedAddress(g, n) ==
    CASE g.salt # NoAddress -> CreateAddress2(g.caller, g.salt, g.data)
      [] g.depth = 0 -> ContractAddress(Len(todo))
      [] OTHER -> CreateAddress(Len(todo), n)

ExecuteCreate(h, w, saved, n) ==
    LET a == GeneratedAddress(h, n)
        g == [h EXCEPT !.to = a, !.data = << >>,
                       !.created = IF 6780 \in eips THEN @ \cup {a} ELSE @]
        less == Reduced(w, g)
        acc == GetAccount(less, a)
        fresh == [acc EXCEPT !.nonce = @ + Truth(607 \in eips)]
        after == Increased(PutAccount(less, a, fresh), g)
        f == NewFrame(g, after, saved, h.data, TransferLog(g.caller, a, g.value))
    IN CASE Occupied(acc) -> [world |-> w, frame |-> Error(f)]
         [] ~Occupied(acc) /\ Overflows(acc, g) -> [world |-> w, frame |-> Halt(f, "refused")]
         [] OTHER -> [world |-> after, frame |-> IF h.data = << >> THEN Stopped(f, << >>) ELSE f]

\* Both checkpoints of _runCall.
Opened(t) == IF 1153 \in eips THEN TransientCheckpoint(TransientCheckpoint(t)) ELSE t

\* The frame f, run up to here, waits for message g.
Nested(f, g) ==
    LET e == ExecuteCall(g, world, Saved)
    IN /\ world' = e.world
       /\ frames' = Append(Front(frames), f) \o <<e.frame>>
       /\ transient' = Opened(transient)
       /\ counter' = counter + 1
       /\ UNCHANGED <<writes, eips, todo, result, start, derived, burnt>>

Stay(f) == /\ frames' = Append(Front(frames), f)
           /\ UNCHANGED <<world, transient, writes, counter, eips, todo, result, start, derived, burnt>>
-----------------------------------------------------------------------------
(* Opcodes with an effect beyond their run state *)

Current == LookupOpInfo(Byte(Top.code, Top.pc))
EffectOps == {Op.SSTORE, Op.TSTORE, Op.SELFDESTRUCT, Op.CREATE, Op.CREATE2, Op.CALL, Op.CALLCODE,
              Op.DELEGATECALL, Op.STATICCALL, Op.CALLTOKEN}

\* An opcode that fails while it is charged, or that has no effect outside.
RunStep(f) ==
    /\ ~Running(f) \/ Current \notin EffectOps
    /\ Running(f) /\ Current = Op.SLOTNUM => Block.slot # 0
    /\ Stay(IF Running(f) THEN Execute(f, Current) ELSE f)

SSTORE(f) ==
    /\ Current = Op.SSTORE /\ Running(f)
    /\ world' = PutAccount(world, f.address, PutStorage(GetAccount(world, f.address), Arg(f, 1), Arg(f, 2)))
    /\ writes' = writes \cup {<<f.address, Arg(f, 1)>>}
    /\ frames' = Append(Front(frames), [PopN(f, 2) EXCEPT !.contract = Contract(world, f.address)])
    /\ UNCHANGED <<transient, counter, eips, todo, result, start, derived, burnt>>

TSTORE(f) ==
    /\ Current = Op.TSTORE /\ Running(f)
    /\ IF f.static \/ ~Has(f, 2) THEN Stay(Error(f))
       ELSE /\ transient' = TransientPut(transient, <<f.address, Arg(f, 1)>>, Arg(f, 2))
            /\ frames' = Append(Front(frames), PopN(f, 2))
            /\ UNCHANGED <<world, writes, counter, eips, todo, result, start, derived, burnt>>

\* The beneficiary gets everything; the contract keeps what it has only where
\* it is its own beneficiary and, with EIP-6780, is older than the transaction.
SELFDESTRUCT(f) ==
    LET to == Named(f, 1)
        self == f.address
        acc == GetAccount(world, self)
        ben == GetAccount(world, to)
        balance == f.contract.balance
        paid == IF to = self THEN world
                ELSE PutAccount(world, to, [ben EXCEPT !.balance = @ + balance, !.asset = @ + acc.asset])
        doModify == 6780 \notin eips \/ self \in f.created \/ to # self
    IN /\ Current = Op.SELFDESTRUCT /\ Running(f)
       /\ world' = IF doModify THEN [paid EXCEPT ![self].balance = 0, ![self].asset = 0] ELSE paid
       /\ burnt' = IF to = self /\ doModify
                   THEN [balance |-> burnt.balance + balance, asset |-> burnt.asset + acc.asset] ELSE burnt
       /\ counter' = counter + 1
       /\ frames' = Append(Front(frames),
             [Stopped(f, << >>) EXCEPT
                !.selfdestruct = @ \cup {self},
                !.logs = @ \o TransferLog(self, to, balance)
                           \o (IF to = self /\ doModify THEN BurnLog(self, balance) ELSE << >>)])
       /\ UNCHANGED <<transient, writes, eips, todo, result, start, derived>>

Stipend(f, c) == IF c \in {Op.CALL, Op.CALLCODE, Op.CALLTOKEN} /\ Arg(f, 3) # 0 THEN Fee.callStipend ELSE 0

\* The message of each kind of call.
CallMessage(f, c) ==
    LET i == InputAt(c)
        own == c \in {Op.CALLCODE, Op.DELEGATECALL}
    IN [caller |-> IF c = Op.DELEGATECALL THEN f.caller ELSE f.address,
        to |-> IF own THEN f.address ELSE Named(f, 2),
        codeAddress |-> Named(f, 2),
        value |-> CASE c = Op.DELEGATECALL -> f.value
                    [] c \in {Op.CALL, Op.CALLCODE} -> Arg(f, 3)
                    [] OTHER -> 0,
        tokenId |-> IF c = Op.CALLTOKEN THEN Arg(f, 4) ELSE 0,
        tokenValue |-> IF c = Op.CALLTOKEN THEN Arg(f, 3) ELSE 0,
        data |-> Read(f, Arg(f, i), Arg(f, i + 1)),
        gas |-> f.messageGas + Stipend(f, c),
        static |-> f.static \/ c = Op.STATICCALL,
        delegate |-> c = Op.DELEGATECALL, own |-> own, create |-> FALSE, salt |-> NoAddress,
        depth |-> f.depth + 1, selfdestruct |-> f.selfdestruct, created |-> f.created]

TokenArgsInvalid(f) ==
    LET value == Arg(f, 3)
        id == Arg(f, 4)
    IN (f.static /\ value # 0) \/ value > MaxInt64 \/ (id # 0 /\ ~IsValidTronTokenId(id)) \/ (id = 0 /\ value > 0)

ToItself(g) == ~g.own /\ g.caller = g.to /\ (g.value > 0 \/ g.tokenValue > 0)

\* _baseCall and create push 0 and run nothing.
CannotSend(f, g) ==
    \/ f.depth >= StackLimit
    \/ ~g.delegate /\ f.contract.balance < g.value
    \/ g.tokenValue > 0 /\ (IF g.tokenId = Token THEN f.contract.asset ELSE 0) < g.tokenValue

\* The stipend is added to the caller's gas as well: the message uses it up.
Billed(f, c) == [f EXCEPT !.gas = @ + Stipend(f, c)]

CallOps == {Op.CALL, Op.CALLCODE, Op.DELEGATECALL, Op.STATICCALL, Op.CALLTOKEN}
BaseCall(f) ==
    LET c == Current
        i == InputAt(c)
        g == CallMessage(f, c)
        waiting == [PopN(Billed(f, c), CallArgs(c)) EXCEPT
                      !.returnBytes = << >>, !.out = <<Arg(f, i + 2), Arg(f, i + 3)>>]
    IN /\ c \in CallOps /\ Running(f)
       /\ CASE c = Op.CALLTOKEN /\ TokenArgsInvalid(f) -> Stay(Error(f))
            [] ~(c = Op.CALLTOKEN /\ TokenArgsInvalid(f)) /\ ToItself(g) -> Stay(Error(f))
            [] ~(c = Op.CALLTOKEN /\ TokenArgsInvalid(f)) /\ ~ToItself(g) /\ CannotSend(f, g) ->
                 Stay(Push(waiting, 0))
            [] OTHER -> Nested(waiting, g)

\* The number that an address was derived from is used up, collision or not.
AddressCounter(n, e) == n + 1

CREATE(f) ==
    LET c == Current
        args == IF c = Op.CREATE THEN 3 ELSE 4
        data == Read(f, Arg(f, 2), Arg(f, 3))
        g == [caller |-> f.address, to |-> NoAddress, codeAddress |-> NoAddress, value |-> Arg(f, 1),
              tokenId |-> 0, tokenValue |-> 0, data |-> data, gas |-> f.messageGas, static |-> FALSE,
              delegate |-> FALSE, own |-> FALSE, create |-> TRUE,
              salt |-> IF c = Op.CREATE2 THEN Arg(f, 4) ELSE NoAddress,
              depth |-> f.depth + 1, selfdestruct |-> f.selfdestruct, created |-> f.created]
        popped == PopN(f, args)
        waiting == [popped EXCEPT !.returnBytes = << >>, !.out = <<0, 0>>]
        bumped == PutAccount(world, f.address, [GetAccount(world, f.address) EXCEPT !.nonce = @ + 1])
        e == ExecuteCreate(g, bumped, [Saved EXCEPT !.world = bumped], counter)
    IN /\ c \in {Op.CREATE, Op.CREATE2} /\ Running(f)
       /\ IF IsEOF(data) THEN Stay(Push(popped, 0))
          ELSE IF CannotSend(f, g) \/ f.contract.nonce >= MaxUint64 THEN Stay(Push(waiting, 0))
          ELSE /\ world' = e.world
               /\ frames' = Front(frames) \o <<[waiting EXCEPT !.contract.nonce = @ + 1], e.frame>>
               /\ transient' = Opened(transient)
               /\ counter' = AddressCounter(counter, e)
               /\ derived' = IF c = Op.CREATE THEN Append(derived, e.frame.address) ELSE derived
               /\ UNCHANGED <<writes, eips, todo, result, start, burnt>>

Interpret ==
    /\ frames # << >> /\ Running(Top) /\ Top.pc < Len(Top.code)
    /\ \E f \in {Charged(Top)} :
          RunStep(f) \/ SSTORE(f) \/ TSTORE(f) \/ SELFDESTRUCT(f) \/ BaseCall(f) \/ CREATE(f)
-----------------------------------------------------------------------------
(* The end of a message *)

Done(f) == ~Running(f) \/ f.pc >= Len(f.code)

\* What runInterpreter reports: gas used, data, failure.
Report(f) ==
    LET halt == IF Running(f) THEN "stop" ELSE f.halt
    IN [used |-> IF halt = "error" THEN f.limit ELSE f.limit - f.gas,
        data |-> IF halt \in {"stop", "revert"} THEN f.returnValue ELSE << >>,
        error |-> IF halt = "stop" THEN "none" ELSE halt]

\* The end of _executeCreate: the code is paid for or everything is taken.
\* It looks at the data of a revert as well.
Deposited(f) ==
    LET r == Report(f)
        total == r.used + (IF r.error = "none" THEN Len(r.data) * Fee.createData ELSE 0)
        lost == [used |-> f.limit, data |-> << >>, error |-> "error"]
    IN IF total > f.limit THEN lost
       ELSE IF 3541 \in eips /\ r.data # << >> /\ r.data[1] = 239 THEN lost
       ELSE [r EXCEPT !.used = total]

Outcome(f) == IF f.create THEN Deposited(f) ELSE Report(f)

\* Faulty variant: the caller goes on with the account it read before the call.
ReloadedStale(p, w) == p
Reloaded(p, w) == [p EXCEPT !.contract = Contract(w, p.address)]

\* What the waiting caller does with the outcome r of f, whose accounts are w.
Returned(p, f, r, w) ==
    LET ok == r.error = "none"
        charged == UseGas(p, r.used)
        told == [charged EXCEPT
                   !.returnBytes = IF r.error = "revert" \/ (ok /\ ~f.create) THEN r.data ELSE << >>,
                   !.logs = IF ok THEN @ \o f.logs ELSE @,
                   !.selfdestruct = IF ok THEN @ \cup f.selfdestruct ELSE @,
                   !.created = IF ok THEN @ \cup f.created ELSE @]
        synced == IF ok THEN Reloaded(told, w) ELSE told
        len == IF Len(told.returnBytes) < p.out[2] THEN Len(told.returnBytes) ELSE p.out[2]
    IN Push(Write(synced, p.out[1], SubSeq(told.returnBytes, 1, len)),
            IF ~ok THEN 0 ELSE IF f.create THEN PrefixWord + f.address ELSE 1)

\* Both checkpoints are closed; at depth 0 the storage is cleared first.
Closed(t, ok, depth) ==
    LET cleared == IF depth = 0 THEN TransientClear(t) ELSE t
        inner == IF ok THEN TransientCommit(cleared) ELSE TransientRevert(cleared)
    IN IF 1153 \in eips THEN TransientCommit(inner) ELSE t

Leave ==
    /\ frames # << >> /\ Done(Top)
    /\ LET f == Top
           r == Outcome(f)
           ok == r.error = "none"
           w == CASE ~ok -> f.saved.world
                  [] ok /\ f.create /\ r.data # << >> -> [world EXCEPT ![f.address].code = r.data]
                  [] OTHER -> world
       IN /\ world' = w
          /\ writes' = IF ok THEN writes ELSE f.saved.writes
          /\ burnt' = IF ok THEN burnt ELSE f.saved.burnt
          /\ transient' = Closed(transient, ok, f.depth)
          /\ \/ /\ f.depth > 0
                /\ frames' = Append(SubSeq(frames, 1, Len(frames) - 2),
                                    Returned(frames[Len(frames) - 1], f, r, w))
                /\ UNCHANGED result
             \/ /\ f.depth = 0
                /\ frames' = << >>
                /\ result' = [result EXCEPT !.phase = "executed", !.used = r.used,
                                            !.logs = IF ok THEN f.logs ELSE << >>,
                                            !.selfdestruct = IF ok THEN f.selfdestruct ELSE {},
                                            !.created = IF ok THEN f.created ELSE {}]
    /\ UNCHANGED <<counter, eips, todo, start, derived>>

\* An error that is no TVM error ends the transaction: every checkpoint of
\* every message is reverted, then the transaction's.
Throw ==
    /\ frames # << >> /\ Running(Top) /\ Top.pc < Len(Top.code)
    /\ Current = Op.SLOTNUM /\ Block.slot = 0 /\ Running(Charged(Top))
    /\ world' = start /\ writes' = {} /\ frames' = << >>
    /\ transient' = FoldLeft(LAMBDA t, i : TransientRevert(t), transient, transient.indices)
    /\ burnt' = frames[1].saved.burnt
    /\ todo' = Tail(todo)
    /\ result' = [result EXCEPT !.phase = "none"]
    /\ UNCHANGED <<counter, eips, start, derived>>
-----------------------------------------------------------------------------
(* The transaction *)

\* 7623: the least that data costs.
Tokens(data) == FoldLeft(LAMBDA n, b : n + (IF b = 0 THEN 1 ELSE 4), 0, data)
FloorCost(t) == IF 7623 \in eips THEN Fee.tx + Fee.totalCostFloorPerToken * Tokens(t.data) ELSE 0
DataGas(t) == FoldLeft(LAMBDA n, b : n + (IF b = 0 THEN Fee.txDataZero ELSE Fee.txDataNonZero), 0, t.data)
IntrinsicGas(t) ==
    Fee.tx + DataGas(t) + (IF 606 \in eips /\ t.to = NoAddress THEN Fee.txCreation ELSE 0)

MaxOf(a, b) == IF a > b THEN a ELSE b
IsFeeMarket(t) == t.tip >= 0
TxCost(t) == t.gasLimit * GasPrice(t)
UpfrontCost(t) == TxCost(t) + t.value
MaxCost(t) == t.value + (IF IsFeeMarket(t) THEN t.gasLimit * t.price ELSE 0)
InclusionFee(t) == GasPrice(t) - Block.baseFee

TokenArgsValid(t, acc) ==
    /\ t.tokenValue > 0 => t.to # t.from
    /\ t.tokenId # 0 => t.tokenId > MinTokenId
    /\ t.tokenId = 0 => t.tokenValue = 0
    /\ t.tokenValue > 0 => TokenBalance(acc, t.tokenId) >= t.tokenValue

\* Every check of runTx before anything is taken from the sender.
Accepted(t) ==
    LET acc == GetAccount(world, t.from)
    IN /\ t.gasLimit <= Block.gasLimit
       /\ IsFeeMarket(t) => 1559 \in eips
       /\ t.gasLimit >= MaxOf(IntrinsicGas(t), FloorCost(t))
       /\ 1559 \in eips => t.price >= Block.baseFee
       /\ acc.code = << >>
       /\ acc.balance >= UpfrontCost(t) /\ acc.balance >= MaxCost(t)
       /\ t.value > 0 => t.to # t.from
       /\ TokenArgsValid(t, acc)
       /\ acc.nonce = t.nonce

Idle == frames = << >> /\ todo # << >> /\ result.phase # "executed"

Reject ==
    /\ Idle /\ ~Accepted(tx)
    /\ todo' = Tail(todo)
    /\ result' = [result EXCEPT !.phase = "none"]
    /\ UNCHANGED <<world, transient, writes, frames, counter, eips, start, derived, burnt>>

\* The cost is taken and the nonce moves before the message's own checkpoint.
BeginTx ==
    /\ Idle /\ Accepted(tx)
    /\ LET t == tx
           charged == [world EXCEPT ![t.from].balance = @ - TxCost(t), ![t.from].nonce = @ + 1]
           saved == [world |-> charged, writes |-> {}, burnt |-> burnt, readable |-> {}]
           g == [caller |-> t.from, to |-> t.to, codeAddress |-> t.to, value |-> t.value,
                 tokenId |-> t.tokenId, tokenValue |-> t.tokenValue, data |-> t.data,
                 gas |-> t.gasLimit - IntrinsicGas(t), static |-> FALSE, delegate |-> FALSE,
                 own |-> FALSE, create |-> t.to = NoAddress, salt |-> NoAddress, depth |-> 0,
                 selfdestruct |-> {}, created |-> {}]
           e == IF g.create THEN ExecuteCreate(g, charged, saved, 0) ELSE ExecuteCall(g, charged, saved)
       IN world' = e.world /\ frames' = <<e.frame>>
    /\ start' = world
    /\ counter' = 0 /\ derived' = << >> /\ writes' = {}
    /\ transient' = Opened(transient)
    /\ result' = [result EXCEPT !.phase = "none"]
    /\ UNCHANGED <<eips, todo, burnt>>

Spent(t) == MaxOf(result.used + IntrinsicGas(t), FloorCost(t))

Destroyed == {a \in result.selfdestruct : 6780 \in eips => a \in result.created}
MinerValue(t) == Spent(t) * (IF 1559 \in eips THEN InclusionFee(t) ELSE GasPrice(t))

AddBalance(w, a, n) == LET acc == GetAccount(w, a) IN PutAccount(w, a, [acc EXCEPT !.balance = @ + n])

FinalLogs(w, gone, logs) ==
    FoldLeft(LAMBDA l, a : l \o BurnLog(a, w[a].balance), logs, SetToSortSeq(gone, LAMBDA a, b : a < b))

\* What is not spent goes back, the miner is paid, contracts are deleted.
Settle ==
    /\ result.phase = "executed"
    /\ LET t == tx
           refunded == AddBalance(world, t.from, TxCost(t) - Spent(t) * GasPrice(t))
           mined == AddBalance(refunded, Block.coinbase, MinerValue(t))
           gone == Destroyed \cap DOMAIN mined
       IN /\ world' = [a \in DOMAIN mined \ gone |-> mined[a]]
          /\ burnt' = [balance |-> burnt.balance + Spent(t) * GasPrice(t) - MinerValue(t)
                                     + MapThenSumSet(LAMBDA a : mined[a].balance, gone),
                       asset |-> burnt.asset + MapThenSumSet(LAMBDA a : mined[a].asset, gone)]
          /\ result' = [result EXCEPT !.phase = "settled", !.used = Spent(t), !.from = t.from,
                                      !.limit = t.gasLimit, !.paid = Spent(t) * GasPrice(t), !.mined = MinerValue(t),
                                      !.logs = FinalLogs(mined, gone, @)]
    /\ writes' = {}
    /\ todo' = Tail(todo)
    /\ UNCHANGED <<transient, frames, counter, eips, start, derived>>

MachineInit ==
    /\ \E s \in Scenarios : world = s.world /\ eips = s.eips /\ todo = s.txs
    /\ transient = [storage |-> << >>, changes |-> << >>, indices |-> << >>]
    /\ writes = {} /\ frames = << >> /\ counter = 0 /\ derived = << >>
    /\ start = world
    /\ burnt = [balance |-> 0, asset |-> 0]
    /\ result = [phase |-> "none", used |-> 0, from |-> NoAddress, limit |-> 0, paid |-> 0, mined |-> 0,
                 logs |-> << >>, selfdestruct |-> {}, created |-> {}]

Finished == todo = << >> /\ UNCHANGED machineVars

MachineNext == BeginTx \/ Reject \/ Interpret \/ Throw \/ Leave \/ Settle \/ Finished

MachineSpec == MachineInit /\ [][MachineNext]_machineVars
-----------------------------------------------------------------------------
(* Properties *)

\* Accounts hold no negative amounts, stacks hold words, and the frames are
\* the messages from depth 0 inwards, every one but the last waiting.
MachineTypeOK ==
    /\ \A a \in DOMAIN world : /\ a \in 0..(AddressSpace - 1)
                               /\ world[a].balance \in Word /\ world[a].nonce \in Nat /\ world[a].asset \in Nat
    /\ \A i \in DOMAIN frames :
         /\ frames[i].depth = i - 1 /\ i - 1 <= StackLimit
         /\ Len(frames[i].stack) <= MaxHeight
         /\ \A n \in DOMAIN frames[i].stack : frames[i].stack[n] \in Word
         /\ i < Len(frames) => Running(frames[i])
         /\ frames[i].halt \in {"run", "stop", "revert", "error", "refused"}
    /\ Len(transient.indices) = (IF 1153 \in eips THEN 2 * Len(frames) ELSE 0)
    /\ result.phase \in {"none", "executed", "settled"}

\* Positions of opcodes: 0, and what follows an opcode and its immediates.
OperandBytes(code, pc) ==
    LET c == Byte(code, pc)
    IN IF c \in PushOps THEN c - Op.PUSH1 + 1
       ELSE IF 8024 \notin eips THEN 0
       ELSE IF c = Op.EXCHANGE THEN Truth(PairImmediateValid(Byte(code, pc + 1)))
       ELSE IF c \in {Op.DUPN, Op.SWAPN} THEN Truth(SingleImmediateValid(Byte(code, pc + 1)))
       ELSE 0
OpcodesOf(code) ==
    FoldLeft(LAMBDA at, pc : IF pc = 0 \/ \E q \in at : q + 1 + OperandBytes(code, q) = pc
                             THEN at \cup {pc} ELSE at,
             {}, [i \in 1..Len(code) |-> i - 1])

\* Execution is at an opcode, never in the data of one, wherever it jumps to.
\* Once a frame was analysed the interpreter takes opcodes and PUSH values from
\* tables that have entries for some positions only (run, cachedOpcodes,
\* cachedPushes): it never arrives at another one, whatever was executed
\* before the analysis.
CachedFetch ==
    \A i \in DOMAIN frames :
        LET f == frames[i]
        IN Running(f) /\ f.pc < Len(f.code) /\ Analysed(f) => f.pc \in OpcodesOf(f.code) \cap f.analysis.starts

\* Gas is never negative and never made: a message gets no more than its
\* caller still has, so charging the caller for it ("this should always be
\* safe") cannot fail, and a transaction spends no more than its limit.
GasBounded ==
    /\ \A i \in DOMAIN frames :
         /\ 0 <= frames[i].gas /\ frames[i].gas <= frames[i].limit
         /\ i < Len(frames) => frames[i + 1].limit <= frames[i].gas
    /\ frames # << >> => frames[1].limit <= tx.gasLimit
    /\ result.phase = "settled" => result.used <= result.limit

\* Every byte of memory was paid for: memory is no longer than the words that
\* were charged, also where the output of a call is written (writeCallOutput),
\* and the highest cost is that of those words.
MemoryPaid ==
    \A i \in DOMAIN frames :
        /\ Len(frames[i].memory) <= frames[i].words * WordBytes
        /\ frames[i].highest = MemoryCost(frames[i].words)

\* No step makes or loses value or tokens: what accounts hold, what the
\* running transaction has put aside for its gas and what was destroyed on
\* purpose add up to the same.
HeldBack == IF frames # << >> \/ result.phase = "executed" THEN TxCost(tx) ELSE 0
Balances(w) == MapThenSumSet(LAMBDA a : w[a].balance, DOMAIN w)
Assets(w) == MapThenSumSet(LAMBDA a : w[a].asset, DOMAIN w)
Holdings == <<Balances(world) + HeldBack + burnt.balance, Assets(world) + burnt.asset>>
Conserved == [][Holdings' = Holdings]_machineVars

\* While a static frame runs, directly or through messages of any kind, no
\* account, slot or transient value changes and no account is made.
StaticUnchanged ==
    \A i \in DOMAIN frames :
        frames[i].static => /\ world = frames[i].saved.world
                            /\ writes = frames[i].saved.writes
                            /\ Readable(transient) = frames[i].saved.readable

\* A message that fails leaves transient storage as it found it, whatever its
\* own messages committed; after a transaction, however it ended, nothing is
\* left for the next one to read (TransientStorage, postMessageCleanup).
TransientExact ==
    [][/\ Len(frames') < Len(frames) /\ frames' # << >> /\ Outcome(Top).error # "none"
             => Readable(transient') = Top.saved.readable
       /\ frames' = << >> => Readable(transient') = {}]_machineVars

\* The account that a frame keeps in env.contract, and checks its transfers
\* and pays its beneficiary by, is what the state holds, after every message
\* that may have changed it, failed or not.
ContractFresh ==
    frames # << >> /\ Running(Top) => Top.contract = Contract(world, Top.address)

\* No two creations of one transaction are given the same address: the
\* counter they derive it from is not taken back with a frame that fails.
FreshAddresses == IsInjective(derived)

\* With EIP-7708, a transaction's receipt accounts for every balance: the
\* logs of transfers and burns, the fee the sender paid and the reward of the
\* miner turn the balances before it into those after it, for every account.
Logged(logs, a) ==
    FoldLeft(LAMBDA n, l :
               n + (IF l.kind = "transfer" /\ l.to = a THEN l.value ELSE 0)
                 - (IF l.kind \in {"transfer", "burn"} /\ l.from = a THEN l.value ELSE 0), 0, logs)
LogsExplainBalances ==
    result.phase = "settled" /\ 7708 \in eips =>
        \A a \in DOMAIN world \cup DOMAIN start \cup {l.to : l \in Range(result.logs)} :
            GetAccount(world, a).balance =
                GetAccount(start, a).balance + Logged(result.logs, a)
                  - (IF a = result.from THEN result.paid ELSE 0)
                  + (IF a = Block.coinbase THEN result.mined ELSE 0)

\* Whatever the program, after every step: fetching with and without the tables
\* agrees, gas and memory are paid for, static frames write nothing, copies of
\* accounts are fresh, addresses are new, and logs explain the balances.
MachineSound == /\ MachineTypeOK /\ CachedFetch /\ GasBounded /\ MemoryPaid
                /\ StaticUnchanged /\ ContractFresh /\ FreshAddresses /\ LogsExplainBalances

\* No step makes or loses sun or tokens, or a transient value that its frame's
\* fate does not explain.
StepsConserve == Conserved /\ TransientExact
=============================================================================
