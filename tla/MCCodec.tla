------------------------------ MODULE MCCodec -------------------------------
(***************************************************************************)
(* The encodings under everything that is hashed: RLP byte by byte over a  *)
(* small layout, accounts and contract addresses over the real layout, and *)
(* transactions.  A behaviour follows one of the three.                    *)
(***************************************************************************)
EXTENDS RlpStream, Accounts, Transactions

VARIABLE which

Owner == [type |-> 0, id |-> 0, name |-> <<111>>, threshold |-> 1, parent |-> 0, operations |-> << >>,
          keys |-> <<[address |-> Fill(3, 20), weight |-> 1]>>]
Active == [type |-> 2, id |-> 2, name |-> << >>, threshold |-> 300, parent |-> 0, operations |-> Fill(200, 32),
           keys |-> <<[address |-> Fill(3, 20), weight |-> 0], [address |-> Fill(4, 20), weight |-> 256]>>]

MCHashes == {Fill(7, 32)}
MCLists == {<<Owner>>, <<Owner, Active>>}

Plain == [type |-> Legacy, chain |-> Undefined, nonce |-> 0, price |-> 2, prio |-> 0, gas |-> 1, to |-> 1,
          value |-> 0, tokenId |-> 0, tokenValue |-> 0, data |-> 0, access |-> 0, v |-> Undefined,
          rs |-> NoSig, prot |-> FALSE, frozen |-> TRUE, sender |-> "none"]

\* Of every type: nonce, token fields, gas and price at their limits, a
\* creation, tips, and signatures of zeros.
MCDatas == {[d EXCEPT !.type = t] : t \in {Legacy, AccessListEIP2930, FeeMarketEIP1559},
              d \in {Plain, [Plain EXCEPT !.nonce = 3], [Plain EXCEPT !.tokenId = 1, !.tokenValue = 1],
                     [Plain EXCEPT !.tokenId = 2], [Plain EXCEPT !.gas = 3, !.price = 6],
                     [Plain EXCEPT !.value = 1, !.to = 0], [Plain EXCEPT !.prio = 1, !.access = 1],
                     [Plain EXCEPT !.prio = 3], [Plain EXCEPT !.v = 0, !.rs = Zero],
                     [Plain EXCEPT !.v = 37, !.rs = Zero]}}

NoRlp == wire = << >> /\ item = NoItem
NoAccount == acct = NewAccount /\ created = {}
NoTransaction == /\ tx = NoTx(Plain) /\ chain = 1 /\ signed = {} /\ origin = NoOrigin
                 /\ broken = FALSE /\ made = 0

Init == \/ which = "rlp" /\ RlpInit /\ NoAccount /\ NoTransaction
        \/ which = "accounts" /\ AccountInit /\ NoRlp /\ NoTransaction
        \/ which = "transactions" /\ TransactionsInit /\ NoRlp /\ NoAccount

Next == \/ which = "rlp" /\ RlpNext /\ UNCHANGED <<which, accountVars, txVars>>
        \/ which = "accounts" /\ AccountNext /\ UNCHANGED <<which, rlpVars, txVars>>
        \/ which = "transactions" /\ TransactionsNext /\ UNCHANGED <<which, rlpVars, accountVars>>

Spec == Init /\ [][Next]_<<which, rlpVars, accountVars, txVars>>
=============================================================================
