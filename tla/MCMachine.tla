----------------------------- MODULE MCMachine -----------------------------
(***************************************************************************)
(* Either programs of two contracts A and B, run by transactions of the    *)
(* sender S, or the stakes and usage that pay for transactions, with two   *)
(* owners under Stake 1.0 or Stake 2.0.                                    *)
(***************************************************************************)
EXTENDS Machine, Resources

VARIABLE which

S == 1
T == 2
Id == 4
Miner == 9
A == 10
B == 11
EofContract == 12
Missing == 13

MCFee == [base |-> 1, memory |-> 1, quadCoefficientDiv |-> 4, copy |-> 1, keccak256Word |-> 1, expByte |-> 1,
          logTopic |-> 1, logData |-> 1, sstoreSet |-> 5, sstoreReset |-> 2, callValueTransfer |-> 4,
          callStipend |-> 3, callNewAccount |-> 3, create |-> 3, createData |-> 1, identity |-> 1,
          identityWord |-> 1, maxRefundQuotient |-> 5, tx |-> 2, txCreation |-> 3, txDataZero |-> 1,
          txDataNonZero |-> 1, totalCostFloorPerToken |-> 1]
MCBlock == [coinbase |-> Miner, number |-> 5, timestamp |-> 77, prevRandao |-> 6, difficulty |-> 2,
            gasLimit |-> 1000, chainId |-> 3, baseFee |-> 1, slot |-> 0]

All == {606, 607, 1153, 1559, 3198, 3541, 3855, 4399, 5656, 6780, 7623, 7708, 7843, 7939, 8024}
Bare == {1153, 7708, 3855}

O == Op
P(n) == <<O.PUSH1, n>>
\* A call by op with value, the output going to bytes 0 and 1.
Call(op, to, value, gas) ==
    CASE op \in {O.CALL, O.CALLCODE} -> P(2) \o P(0) \o P(0) \o P(0) \o P(value) \o P(to) \o P(gas) \o <<op>>
      [] op = O.CALLTOKEN -> P(2) \o P(0) \o P(0) \o P(0) \o P(3) \o P(value) \o P(to) \o P(gas) \o <<op>>
      [] OTHER -> P(2) \o P(0) \o P(0) \o P(0) \o P(to) \o P(gas) \o <<op>>
Ret(offset, len) == P(len) \o P(offset) \o <<O.RETURN>>
Rev(offset, len) == P(len) \o P(offset) \o <<O.REVERT>>
Store(k, v) == P(v) \o P(k) \o <<O.SSTORE>>
TStore(k, v) == P(v) \o P(k) \o <<O.TSTORE>>
Data == <<O.CALLDATASIZE>> \o P(0) \o P(0) \o <<O.CALLDATACOPY>>
Create(value) == <<O.CALLDATASIZE>> \o P(0) \o P(value) \o <<O.CREATE>>
Create2(value) == P(5) \o <<O.CALLDATASIZE>> \o P(0) \o P(value) \o <<O.CREATE2>>
\* Calls what CREATE left on the stack below some words.
CallIt(value, below) == P(0) \o P(0) \o P(0) \o P(0) \o P(value) \o <<O.DUP1 + 5 + below>> \o P(20) \o <<O.CALL>>

Acc(sun, units, code) == [balance |-> sun, nonce |-> 0, asset |-> units, code |-> code, storage |-> << >>]
World(a, b) ==
    S :> Acc(2000, 8, << >>) @@ T :> Acc(1, 5, << >>) @@ A :> Acc(9, 4, a) @@ B :> Acc(5, 3, b)
      @@ EofContract :> Acc(0, 0, <<239, 0, 1>>)
Tx(to, value, token, data, gas, nonce) ==
    [from |-> S, to |-> to, value |-> value, tokenId |-> IF token = 0 THEN 0 ELSE 3, tokenValue |-> token,
     data |-> data, gasLimit |-> gas, price |-> 2, tip |-> -1, nonce |-> nonce]

\* What B does when it is called.
Callees ==
    {<<O.STOP>>,
     Store(0, 1) \o Ret(0, 2),
     TStore(0, 2) \o TStore(0, 0) \o P(0) \o <<O.TLOAD>> \o Ret(0, 2),
     TStore(0, 2) \o TStore(0, 3) \o Rev(0, 1),
     P(0) \o P(0) \o <<O.LOG0>> \o P(7) \o P(0) \o P(1) \o <<O.LOG1, O.INVALID>>,
     P(T) \o <<O.SELFDESTRUCT>>, P(B) \o <<O.SELFDESTRUCT>>, P(A) \o <<O.SELFDESTRUCT>>,
     P(Missing) \o <<O.SELFDESTRUCT>>,
     TStore(1, 1) \o Call(O.CALL, A, 1, 25) \o Rev(0, 0),
     Store(0, 2) \o Call(O.CALL, A, 2, 30) \o <<O.STOP>>,
     Call(O.CALL, Missing, 1, 2) \o Call(O.CALL, T, 0, 2) \o <<O.STOP>>}

\* How A calls it; a nested entry (TLOAD or a non-zero caller value) ends at once.
Kinds == {O.CALL, O.CALLCODE, O.DELEGATECALL, O.STATICCALL, O.CALLTOKEN}
Callers ==
    {TStore(0, 9) \o Call(k, B, 2, 45) \o P(0) \o <<O.SSTORE>> \o P(0) \o <<O.TLOAD>> : k \in Kinds}
    \cup {Call(O.CALL, B, 1, 60) \o Call(k, B, 1, 20) \o Rev(0, 2) : k \in {O.CALL, O.DELEGATECALL}}
    \cup {Call(O.STATICCALL, B, 0, 60) \o Call(O.CALL, B, 0, 60) \o Call(O.CALL, T, 9, 9) \o <<O.STOP>>}

Interactions ==
    {[world |-> World(a, b), eips |-> e, txs |-> <<Tx(A, v, 0, << >>, gas, 0)>>] :
        a \in Callers, b \in Callees, e \in {All, Bare}, v \in {0, 1}, gas \in {40, 75, 160}}

\* A creates from the data of the transaction and uses what it created.
Creators ==
    {Data \o Create(2) \o CallIt(1, 0) \o CallIt(1, 1) \o <<O.STOP>>,
     Data \o Create2(0) \o Create2(1) \o Create(0) \o <<O.STOP>>,
     Data \o Create(0) \o Call(O.CALL, B, 1, 90) \o Create(1) \o Rev(0, 0),
     Data \o Create(200) \o Create(0) \o Create(0) \o CallIt(2, 0) \o <<O.STOP>>}
Inits ==
    {<< >>, Ret(0, 1), Ret(0, 9), <<239, 0>>,
     P(239) \o P(0) \o <<O.MSTORE8>> \o Ret(0, 1), P(239) \o P(0) \o <<O.MSTORE8>> \o Rev(0, 1),
     P(T) \o <<O.SELFDESTRUCT>>, <<O.ADDRESS, O.SELFDESTRUCT>>,
     \* leaves the code: SELFDESTRUCT to CALLER
     P(51) \o P(0) \o <<O.MSTORE8>> \o P(255) \o P(1) \o <<O.MSTORE8>> \o Ret(0, 2),
     Store(0, 1) \o Rev(0, 0)}
Creations ==
    {[world |-> World(a, b), eips |-> e, txs |-> <<Tx(A, 1, 0, d, gas, 0), Tx(NoAddress, 3, 0, d, 40, 1)>>] :
        a \in Creators, d \in Inits, e \in {All, Bare},
        b \in {Data \o Create(0) \o Rev(0, 0), <<O.STOP>>}, gas \in {60, 260}}

\* Programs that touch no other contract.
Alu == P(5) \o P(3) \o <<O.ADD>> \o P(7) \o <<O.MUL>> \o P(200) \o <<O.SUB>> \o P(9) \o <<O.DIV>> \o P(2) \o <<O.SDIV>>
    \o P(6) \o <<O.MOD>> \o P(5) \o <<O.SMOD>> \o P(3) \o P(4) \o <<O.ADDMOD>> \o P(3) \o P(5) \o <<O.MULMOD>>
    \o P(3) \o <<O.EXP>> \o P(0) \o <<O.SIGNEXTEND>> \o P(1) \o <<O.LT>> \o P(1) \o <<O.GT>> \o P(1) \o <<O.SLT>>
    \o P(1) \o <<O.SGT>> \o P(1) \o <<O.EQ, O.ISZERO>> \o P(3) \o <<O.AND>> \o P(4) \o <<O.OR>> \o P(1)
    \o <<O.XOR, O.NOT>> \o P(1) \o <<O.BYTE>> \o P(2) \o <<O.SHL>> \o P(1) \o <<O.SHR>> \o P(1) \o <<O.SAR, O.CLZ>>
Env == <<O.ADDRESS, O.ORIGIN, O.CALLER, O.CALLVALUE, O.CALLDATASIZE, O.CODESIZE, O.GASPRICE, O.RETURNDATASIZE,
         O.COINBASE, O.TIMESTAMP, O.NUMBER, O.PREVRANDAO, O.GASLIMIT, O.CHAINID, O.SELFBALANCE, O.POP, O.POP,
         O.POP, O.POP, O.PC, O.MSIZE, O.GAS, O.CALLTOKENVALUE, O.CALLTOKENID, O.BASEFEE, O.PUSH0>>
Reads == P(T) \o <<O.BALANCE, O.CALLDATALOAD>> \o P(EofContract) \o <<O.EXTCODESIZE>> \o P(EofContract)
    \o <<O.EXTCODEHASH>> \o P(B) \o <<O.EXTCODEHASH>> \o P(Missing) \o <<O.EXTCODEHASH>> \o P(4)
    \o <<O.BLOCKHASH, O.MLOAD>> \o P(1) \o <<O.SLOAD>> \o P(A) \o <<O.ISCONTRACT>> \o P(B) \o <<O.ISCONTRACT>>
    \o P(T) \o P(3) \o <<O.TOKENBALANCE>> \o P(T) \o P(1) \o <<O.TOKENBALANCE>>
Memory == P(5) \o P(3) \o <<O.MSTORE>> \o P(3) \o P(0) \o <<O.KECCAK256>> \o P(3) \o P(1) \o P(7) \o <<O.CODECOPY>>
    \o P(2) \o P(0) \o P(1) \o P(B) \o <<O.EXTCODECOPY>> \o Call(O.CALL, Id, 0, 9) \o P(2) \o P(0) \o P(0)
    \o P(5) \o P(Id) \o P(9) \o <<O.STATICCALL, O.RETURNDATASIZE>> \o P(0) \o P(12) \o <<O.RETURNDATACOPY>>
    \o P(4) \o P(2) \o P(20) \o <<O.MCOPY>> \o P(9) \o P(0) \o P(0) \o <<O.RETURNDATACOPY>>
Jumps ==
    {P(4) \o <<O.JUMP, O.INVALID, O.JUMPDEST>> \o P(O.JUMPDEST) \o P(1) \o P(8) \o <<O.JUMPI>>,
     P(0) \o P(9) \o <<O.JUMPI>> \o P(2) \o <<O.JUMPI, O.POP, O.JUMP>>,
     <<O.JUMPDEST>> \o P(1) \o P(0) \o <<O.JUMPI>>, P(90) \o <<O.JUMP>>,
     \* the byte after DUPN is a jump destination where it is no valid immediate
     P(3) \o <<O.DUPN, O.JUMPDEST, O.JUMP>>, P(4) \o <<O.JUMP, O.DUPN, O.JUMPDEST, O.STOP>>,
     P(5) \o <<O.JUMP, O.SWAPN, 128, O.JUMPDEST, O.EXCHANGE, 0, O.JUMP>>,
     P(3) \o <<O.JUMP, O.JUMPDEST, O.PUSH2, 1>>, P(5) \o <<O.JUMP, O.PUSH2, O.JUMPDEST, O.JUMPDEST>>}
Zeros(n) == [i \in 1..n |-> O.PUSH0]
Stacks ==
    {Zeros(17) \o <<O.DUPN, 0, O.SWAPN, 0, O.EXCHANGE, 0, O.EXCHANGE, 90, O.SWAPN, 0>>,
     Zeros(18) \o <<O.SWAPN, 0, O.DUP1, O.DUP2, O.SWAP1>>, <<O.PUSH0, O.SWAP1>>, <<O.DUP1>>,
     Zeros(21), Zeros(18) \o P(1) \o P(15) \o <<O.JUMPI, O.DUPN, 0>>}
Tokens3 == P(2) \o P(0) \o P(0) \o P(0) \o P(0) \o P(1) \o P(B) \o P(9) \o <<O.CALLTOKEN>>
Odd == {Call(O.CALL, A, 1, 9), Call(O.CALLTOKEN, A, 1, 9), Tokens3, Call(O.CALLTOKEN, T, 4, 9) \o Call(O.CALL, Id, 1, 9),
        <<O.SLOTNUM>>, TStore(1, 1) \o <<O.SLOTNUM>>, Call(O.CALL, B, 100, 5) \o <<O.STOP>>, Store(0, 0) \o Store(0, 1)}
Alone ==
    {[world |-> World(a, TStore(1, 1) \o <<O.SLOTNUM>>), eips |-> e,
      txs |-> <<Tx(A, 0, n, <<1, 0>>, gas, 0), Tx(A, 1, 0, << >>, 70, 1)>>] :
        a \in {Alu, Env, Reads, Memory} \cup Jumps \cup Stacks \cup Odd, e \in {All, Bare},
        gas \in {30, 130}, n \in {0, 2}}

\* Transactions that are refused or cost the floor, and fee market prices.
Refusals ==
    {[world |-> World(<<O.STOP>>, <<O.STOP>>), eips |-> e, txs |-> <<t, Tx(T, 1, 0, << >>, 20, 1)>>] :
        e \in {All, Bare},
        t \in {Tx(S, 1, 0, << >>, 20, 0), Tx(S, 0, 1, << >>, 20, 0), Tx(A, 0, 9, << >>, 20, 0), Tx(A, 0, 5, << >>, 20, 0),
               Tx(A, 0, 6, << >>, 20, 0), Tx(A, 1, 0, <<5, 5>>, 8, 0), Tx(A, 1, 0, <<5, 5>>, 40, 0), Tx(A, 1, 0, << >>, 999, 0),
               Tx(A, 1, 0, << >>, 1001, 0), Tx(A, 1999, 0, << >>, 20, 0), Tx(A, 1, 0, << >>, 20, 1), Tx(Missing, 0, 0, << >>, 20, 0),
               [Tx(A, 1, 0, << >>, 20, 0) EXCEPT !.tip = 0], [Tx(A, 1, 0, << >>, 20, 0) EXCEPT !.tip = 3, !.price = 3],
               [Tx(A, 1, 0, << >>, 20, 0) EXCEPT !.price = 0], [Tx(A, 1, 0, << >>, 20, 0) EXCEPT !.from = B],
               [Tx(A, 0, 1, << >>, 20, 0) EXCEPT !.tokenId = 1], [Tx(A, 0, 1, << >>, 20, 0) EXCEPT !.tokenId = 0]}}

MCScenarios == Interactions \cup Creations \cup Alone \cup Refusals

StakeTwo == [unfreezeDelay |-> 1, newResourceModel |-> TRUE, cancelAllUnfreeze |-> TRUE,
             delegateResource |-> TRUE, maxLock |-> 2, multiSign |-> TRUE]
StakeOne == [StakeTwo EXCEPT !.unfreezeDelay = 0, !.newResourceModel = FALSE]
BothStakes == {StakeTwo, StakeOne}
OwnersAlike == Permutations(Owners)

NoMachine ==
    /\ world = << >> /\ eips = {} /\ todo = << >> /\ start = world
    /\ transient = [storage |-> << >>, changes |-> << >>, indices |-> << >>]
    /\ writes = {} /\ frames = << >> /\ counter = 0 /\ derived = << >>
    /\ burnt = [balance |-> 0, asset |-> 0]
    /\ result = [phase |-> "none", used |-> 0, from |-> NoAddress, limit |-> 0, paid |-> 0, mined |-> 0,
                 logs |-> << >>, selfdestruct |-> {}, created |-> {}]

MCInit == \/ which = "machine" /\ MachineInit /\ Init /\ params = StakeTwo
          \/ which = "resources" /\ Init /\ NoMachine
MCNext == \/ which = "machine" /\ MachineNext /\ UNCHANGED <<which, vars>>
          \/ which = "resources" /\ Next /\ UNCHANGED <<which, machineVars>>
MCSpec == MCInit /\ [][MCNext]_<<which, vars, machineVars>>
=============================================================================
