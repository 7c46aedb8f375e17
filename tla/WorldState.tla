----------------------------- MODULE WorldState -----------------------------
(***************************************************************************)
(* What a state manager promises its callers (StateManagerInterface): one  *)
(* current value per key, and a stack of checkpoints.  commit keeps the    *)
(* current values, revert brings back exactly the values of the matching   *)
(* checkpoint, and setStateRoot goes back to a root taken earlier, leaving *)
(* the checkpoints as they are.  Reading, flushing and computing a root    *)
(* are not steps: they change no value a caller can observe.               *)
(***************************************************************************)
EXTENDS Integers, Sequences

CONSTANTS Keys, Elements, Nothing

VARIABLES cur,     \* the value of every key
          saved,   \* the values at each open checkpoint, outermost first
          mark     \* the values at the last root a caller took

wvars == <<cur, saved, mark>>

Init == /\ cur = [k \in Keys |-> Nothing]
        /\ saved = <<>>
        /\ mark = [k \in Keys |-> Nothing]

Write(k, v) == /\ cur' = [cur EXCEPT ![k] = v]
               /\ UNCHANGED <<saved, mark>>

Checkpoint == /\ saved' = Append(saved, cur)
              /\ UNCHANGED <<cur, mark>>

Commit == /\ saved # <<>>
          /\ saved' = SubSeq(saved, 1, Len(saved) - 1)
          /\ UNCHANGED <<cur, mark>>

Revert == /\ saved # <<>>
          /\ cur' = saved[Len(saved)]
          /\ saved' = SubSeq(saved, 1, Len(saved) - 1)
          /\ UNCHANGED mark

TakeRoot == /\ saved = <<>>
            /\ mark' = cur
            /\ UNCHANGED <<cur, saved>>

SetRoot == /\ cur' = mark
           /\ UNCHANGED <<saved, mark>>

Next == \/ \E k \in Keys, v \in Elements : Write(k, v)
        \/ Checkpoint
        \/ Commit
        \/ Revert
        \/ TakeRoot
        \/ SetRoot

Spec == Init /\ [][Next]_wvars
=============================================================================
