------------------------------ MODULE MCChain ------------------------------
(***************************************************************************)
(* A tree of two branches for the chain: a1-a2 and b1-b2-b3, heavy at b1,  *)
(* where b2 counts a1 as its uncle and b3 would count it again.  And, in a *)
(* behaviour of its own, a chain that two or three signers seal.           *)
(***************************************************************************)
EXTENDS Chain, Clique, TLC

VARIABLE which

MCBlocks == {"g", "a1", "a2", "b1", "b2", "b3"}
MCParent == [g |-> "g", a1 |-> "g", a2 |-> "a1", b1 |-> "g", b2 |-> "b1", b3 |-> "b2"]
MCNumber == [g |-> 0, a1 |-> 1, a2 |-> 2, b1 |-> 1, b2 |-> 2, b3 |-> 3]
MCDifficulty == [g |-> 0, a1 |-> 1, a2 |-> 1, b1 |-> 3, b2 |-> 1, b3 |-> 1]
MCUncles == [g |-> {}, a1 |-> {}, a2 |-> {}, b1 |-> {}, b2 |-> {"a1"}, b3 |-> {"a1"}]

MCGenesisSigners == {<<2, 1>>, <<1, 2, 3>>}
MCBallots == {<<0, FALSE>>, <<3, TRUE>>, <<3, FALSE>>, <<2, FALSE>>}

NoClique == /\ headers = << >> /\ fate = "well"
            /\ snap = genesisInit(<<2, 1>>).mem /\ disk = genesisInit(<<2, 1>>).db
NoChain == Init /\ mode = "number"

MCInit == \/ which = "chain" /\ Init /\ NoClique
          \/ which = "clique" /\ CliqueInit /\ NoChain
MCNext == \/ which = "chain" /\ Next /\ UNCHANGED <<which, cliqueVars>>
          \/ which = "clique" /\ CliqueNext /\ UNCHANGED <<which, vars>>
          \/ which = "clique" /\ UNCHANGED <<which, vars, cliqueVars>>  \* nobody seals a block
MCSpec == MCInit /\ [][MCNext]_<<which, vars, cliqueVars>>

\* Nothing is claimed of a chain that delBlock has hurt, or of lists that a
\* branch with other votes has mixed up, so they are not followed.
Followed == ~hurt /\ fate \in {"well", "switched"}
=============================================================================
