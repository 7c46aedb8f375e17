------------------------------ MODULE MCWallet ------------------------------
(* Instance of Wallet for TLC. *)
EXTENDS Wallet, TLC

CONSTANTS a, b, n, c

Sign(signers, permission, memo) == [signers |-> signers, permission |-> permission, memo |-> memo]
SomeEnvelopes ==
    {Sign(<<a>>, 0, FALSE), Sign(<<b>>, 0, FALSE), Sign(<<b>>, 2, FALSE), Sign(<<a, b>>, 0, TRUE)}

Owner(threshold, keys) == [threshold |-> threshold, keys |-> keys, operations |-> {}]
Both == <<Key(a, 1), Key(b, 1)>>
Active == [threshold |-> 1, keys |-> <<Key(b, 1)>>, operations |-> {"transfer", "asset"}]
SomePermissions ==
    {(0 :> o) @@ (2 :> Active) :
        o \in {Owner(2, Both), Owner(3, Append(Both, Key(n, 1))), Owner(1, <<Key(b, 1)>>)}}

Issue(name, frozen) ==
    [name |-> name, supply |-> 4, frozen |-> frozen, num |-> 3, trxNum |-> 2, start |-> 1, end |-> 2,
     freeLimit |-> 1, publicLimit |-> 1]
Tranche(amount, days) == [amount |-> amount, days |-> days]
SomeIssues == {Issue("X", <<Tranche(1, 0), Tranche(1, 1)>>), Issue("Y", << >>)}

SomeIds == {<<"id", 1>>, <<"id", 2>>}
SomeFees == ("bandwidth" :> 1) @@ ("create" :> 1) @@ ("newAccount" :> 2) @@ ("multiSign" :> 1)
                @@ ("memo" :> 1) @@ ("issue" :> 2) @@ ("permission" :> 1) @@ ("energy" :> 1)

Strict == [sameTokenName |-> FALSE, updateAccountName |-> FALSE, multiSign |-> TRUE,
           forbidTransferToContract |-> FALSE, unlocked |-> {}]
Open == [sameTokenName |-> TRUE, updateAccountName |-> TRUE, multiSign |-> FALSE,
         forbidTransferToContract |-> TRUE, unlocked |-> {b}]
BothParams == {Strict, Open}
=============================================================================
