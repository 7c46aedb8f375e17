---------------------------- MODULE MCExecution -----------------------------
(***************************************************************************)
(* Either the checkpoints of blocks, transactions, calls and builders, or  *)
(* the blocks that builders make and other VMs run, or the TVM's journal.  *)
(* Of the transactions, a alone meets the gas target, a and b together     *)
(* leave room for c only, b fails, reads the clock and cannot pay the fee  *)
(* once it has risen.  The journal has one account, the precompile that    *)
(* stays touched.                                                          *)
(***************************************************************************)
EXTENDS Execution, Blocks, Journal

CONSTANTS acct, slot

VARIABLE which

MCTxPool == {[id |-> "a", gasLimit |-> 5, spent |-> 4, price |-> 20, status |-> 1, logs |-> {"x"}, reads |-> FALSE, signed |-> TRUE],
             [id |-> "b", gasLimit |-> 4, spent |-> 3, price |-> 17, status |-> 0, logs |-> {}, reads |-> TRUE, signed |-> TRUE],
             [id |-> "c", gasLimit |-> 1, spent |-> 1, price |-> 20, status |-> 1, logs |-> {"y"}, reads |-> FALSE, signed |-> TRUE]}

NoExecution == Init
NoBlocks == /\ consensus = "none" /\ blocks = <<GenesisBlock(0)>> /\ world = << >> /\ saves = << >>
            /\ bld = NoBuilder /\ held = << >> /\ now = 0 /\ astray = FALSE
NoJournal == JournalInit

MCInit == \/ which = "frames" /\ Init /\ NoBlocks /\ NoJournal
          \/ which = "blocks" /\ BlkInit /\ NoExecution /\ NoJournal
          \/ which = "journal" /\ JournalInit /\ NoExecution /\ NoBlocks
MCNext == \/ which = "frames" /\ Next /\ UNCHANGED <<which, blkVars, journalVars>>
          \/ which = "blocks" /\ BlkNext /\ UNCHANGED <<which, vars, journalVars>>
          \/ which = "blocks" /\ UNCHANGED <<which, vars, blkVars, journalVars>>  \* nobody needs a block
          \/ which = "journal" /\ JournalNext /\ UNCHANGED <<which, vars, blkVars>>
MCSpec == MCInit /\ [][MCNext]_<<which, vars, blkVars, journalVars>>

\* Nothing is claimed of a state that the code has lost, so it is not followed.
Followed == ~astray
=============================================================================
