----------------------------- MODULE Execution -----------------------------
(***************************************************************************)
(* Who opens a state checkpoint, and who closes it: runBlock, runTx and    *)
(* BlockBuilder (vm/src) and the message calls of the TVM (tvm/src/tvm.ts).*)
(*                                                                         *)
(* Each running function is a frame.  The world state is the set of writes *)
(* that are visible; the state manager keeps a stack of earlier states.    *)
(* A nested commit or revert of the state manager never fails.  The commit *)
(* of its only checkpoint writes to the database and may fail: before the  *)
(* checkpoint is popped (the batch), or after it (the root, the flush).  A *)
(* revert that fails has popped and restored, and its retry finds nothing: *)
(* only the error it throws differs, so it is no step of its own.          *)
(*                                                                         *)
(* log is a history: for every frame its kind, the frames it ran in, the   *)
(* state it found and how it ended.  A checkpoint, too, carries a note of  *)
(* who opened it; no action reads it.                                      *)
(***************************************************************************)
EXTENDS Integers, Sequences, FiniteSets

CONSTANTS MaxFrames,   \* bound: frames entered in one behaviour
          MaxRoots,    \* bound: frames that the user of the library starts
          Roots,       \* what the user of the library calls
          Faults       \* how the outermost commit can fail

ASSUME ExecutionAssumption ==
    /\ MaxFrames \in Nat /\ MaxRoots \in Nat
    /\ Roots \subseteq {"block", "builder", "tx", "call", "code"}
    /\ Faults \subseteq {"kept", "torn"}

VARIABLES st,       \* the writes that are visible
          cps,      \* the state manager's checkpoints
          frames,   \* the running frames, innermost last
          log,      \* history
          written   \* history: every write ever made

vars == <<st, cps, frames, log, written>>

Ids == 1..MaxFrames

\* A write belongs to the frame's own checkpoint (nonce, fees, rewards), to the
\* execution checkpoint of a call, or was made under no checkpoint of the frame.
Write == [frame : Ids, layer : {"own", "exec", "bare"}]
By(f, l) == [frame |-> f, layer |-> l]

Top == frames[Len(frames)]
Kind == log[Top.id].kind
Below == SubSeq(frames, 1, Len(frames) - 1)
At(k, pc) == frames # << >> /\ Kind = k /\ Top.pc = pc
To(pc) == [frames EXCEPT ![Len(frames)].pc = pc]
Fresh == Len(log) + 1

RootFrames == {f \in 1..Len(log) : log[f].path = {}}
Starts(k) == k \in Roots /\ frames = << >> /\ Cardinality(RootFrames) < MaxRoots

Logged(k, found) ==
    Append(log, [kind |-> k, path |-> {frames[i].id : i \in 1..Len(frames)},
                 found |-> found, verdict |-> "open"])
Judged(v) == [log EXCEPT ![Top.id].verdict = v]

Frame(pc, outer) == [id |-> Fresh, pc |-> pc, outer |-> outer, exec |-> FALSE]

\* A frame of kind k starts inside the frames s and finds the state now.
Enter(k, s, frame, now) ==
    /\ Fresh \in Ids
    /\ log' = Logged(k, now)
    /\ frames' = Append(s, frame)

Writes(W) == st' = st \cup W /\ written' = written \cup W

\* A checkpoint of the state now, opened by frame f for layer l.
Saved(now, f, l) == [state |-> now, owner |-> f, layer |-> l]
Opened(f, l) == Append(cps, Saved(st, f, l))

Init == /\ st = {} /\ cps = << >> /\ frames = << >> /\ log = << >> /\ written = {}
-----------------------------------------------------------------------------
(* The state manager *)

Outermost == Len(cps) = 1

Popped(n) == SubSeq(cps, 1, Len(cps) - n)

\* The innermost n checkpoints are reverted.
Reverted(n) == /\ st' = IF n = 0 THEN st ELSE cps[Len(cps) - n + 1].state
               /\ cps' = Popped(n)

Active(b) == IF b THEN 1 ELSE 0
ActiveIn(frame) == Active(frame.outer) + Active(frame.exec)

\* An error leaves a frame for the one below; what BlockBuilder throws goes to
\* its user, and the builder stays as it is.
Propagated(s) ==
    IF s = << >> \/ log[s[Len(s)].id].kind = "builder" THEN s
    ELSE [s EXCEPT ![Len(s)].pc = "unwind"]
-----------------------------------------------------------------------------
(* Message calls *)

\* The outer checkpoint, then the caller's nonce and balance.
OpenCall(s, now, W) ==
    /\ Enter("call", s, Frame("init", TRUE), now)
    /\ cps' = Append(cps, Saved(now, Fresh, "own"))
    /\ st' = now \cup W
    /\ written' = written \cup (now \ st) \cup W

RunCall ==
    \/ /\ Starts("call")
       /\ OpenCall(frames, st, {By(Fresh, "own")})
    \/ /\ At("tx", "charged")
       /\ OpenCall(To("called"), st, {By(Fresh, "own")})

\* beforeMessage has been emitted: the execution checkpoint.
BeforeMessage ==
    /\ At("call", "init")
    /\ cps' = Opened(Top.id, "exec")
    /\ frames' = [frames EXCEPT ![Len(frames)].pc = "exec", ![Len(frames)].exec = TRUE]
    /\ UNCHANGED <<st, log, written>>

\* Transfers, storage, code: runCode makes them under no checkpoint.
ExecWrite == By(Top.id, IF Kind = "call" THEN "exec" ELSE "bare")
Executing == At("call", "exec") \/ At("code", "exec")

Execute ==
    /\ Executing
    /\ Writes({ExecWrite})
    /\ UNCHANGED <<cps, frames, log>>

\* CALL and its kin; CREATE counts up the creator's nonce first.
CallFromInterpreter ==
    /\ Executing
    /\ \/ OpenCall(frames, st, {})
       \/ OpenCall(frames, st \cup {ExecWrite}, {})

RunCode ==
    /\ Starts("code")
    /\ Enter("code", frames, Frame("exec", FALSE), st)
    /\ UNCHANGED <<st, cps, written>>

ReturnFromCode ==
    /\ At("code", "exec")
    /\ frames' = Below
    /\ log' = Judged("ok")
    /\ UNCHANGED <<st, cps, written>>

\* The frame leaves its code; the execution checkpoint is closed.
Left == [frames EXCEPT ![Len(frames)].pc = "after", ![Len(frames)].exec = FALSE]

Succeed ==
    /\ At("call", "exec")
    /\ cps' = Popped(1)
    /\ frames' = Left
    /\ UNCHANGED <<st, log, written>>

\* Faulty variant: the changes of a failed call are committed.
FailCommitted ==
    /\ At("call", "exec")
    /\ cps' = Popped(1)
    /\ frames' = Left
    /\ log' = Judged("fail")
    /\ UNCHANGED <<st, written>>

\* An exceptionError: the changes go, the nonce stays.
Fail ==
    /\ At("call", "exec")
    /\ Reverted(1)
    /\ frames' = Left
    /\ log' = Judged("fail")
    /\ UNCHANGED written
-----------------------------------------------------------------------------
(* Transactions and blocks *)

RunTx ==
    /\ Starts("tx") \/ At("block", "body")
    /\ Enter("tx", frames, Frame("setup", TRUE), st)
    /\ cps' = Opened(Fresh, "own")
    /\ UNCHANGED <<st, written>>

\* The sender has been validated and pays in advance.
Charge ==
    /\ At("tx", "setup")
    /\ Writes({By(Top.id, "own")})
    /\ frames' = To("charged")
    /\ UNCHANGED <<cps, log>>

\* The refund, the miner's part and the self-destructs.
Settle ==
    /\ At("tx", "called")
    /\ Writes({By(Top.id, "own")})
    /\ frames' = To("settle")
    /\ UNCHANGED <<cps, log>>

RunBlock ==
    /\ Starts("block")
    /\ Enter("block", frames, Frame("body", TRUE), st)
    /\ cps' = Opened(Fresh, "own")
    /\ UNCHANGED <<st, written>>

\* The parent's hash, withdrawals and rewards.
ApplyBlock ==
    /\ At("block", "body")
    /\ Writes({By(Top.id, "own")})
    /\ UNCHANGED <<cps, frames, log>>
-----------------------------------------------------------------------------
(* How a call, a transaction or a block ends *)

Finished == At("call", "after") \/ At("tx", "settle") \/ At("block", "body")

Verdict(v) == IF log[Top.id].verdict = "fail" THEN "fail" ELSE v

Commit ==
    /\ Finished
    /\ cps' = Popped(1)
    /\ frames' = Below
    /\ log' = Judged(Verdict("ok"))
    /\ UNCHANGED <<st, written>>

\* The batch fails and the checkpoint stays.  runTx and the call revert it;
\* runBlock commits outside its try and leaves it open.
CommitKept ==
    /\ "kept" \in Faults
    /\ Finished /\ Outermost
    /\ \/ /\ Kind # "block"
          /\ frames' = To("unwind")
          /\ UNCHANGED log
       \/ /\ Kind = "block"
          /\ frames' = Below
          /\ log' = Judged("left")
    /\ UNCHANGED <<st, cps, written>>

\* The failure comes after the checkpoint was popped: there is nothing to
\* revert, and the revert that is tried throws an error of its own.
CommitTorn ==
    /\ "torn" \in Faults
    /\ Finished /\ Outermost
    /\ cps' = Popped(1)
    /\ frames' = IF Kind = "block" THEN Below ELSE To("torn")
    /\ log' = Judged(Verdict("kept"))
    /\ UNCHANGED <<st, written>>

UnwindTorn ==
    /\ At("call", "torn") \/ At("tx", "torn")
    /\ frames' = Propagated(Below)
    /\ UNCHANGED <<st, cps, log, written>>

\* Validation, an event listener or the backend throws.
Throw ==
    /\ frames # << >>
    /\ Kind # "builder"
    /\ Top.pc \notin {"unwind", "torn"}
    /\ frames' = To("unwind")
    /\ UNCHANGED <<st, cps, log, written>>

\* Faulty variant: the outer checkpoint of a call is reverted without the inner.
UnwindOuter ==
    /\ frames # << >>
    /\ Top.pc = "unwind"
    /\ Reverted(Active(Top.outer))
    /\ log' = Judged(IF Kind = "code" THEN "kept" ELSE "throw")
    /\ frames' = Propagated(Below)
    /\ UNCHANGED written

\* The inner checkpoint is reverted before the outer one.
Unwind ==
    /\ frames # << >>
    /\ Top.pc = "unwind"
    /\ Reverted(ActiveIn(Top))
    /\ log' = Judged(IF Kind = "code" THEN "kept" ELSE "throw")
    /\ frames' = Propagated(Below)
    /\ UNCHANGED written
-----------------------------------------------------------------------------
(* BlockBuilder: a frame that waits for its user *)

\* With EIP-2935 the builder starts with a checkpoint, and with a write where
\* the history contract is deployed.
BuildBlock ==
    /\ Starts("builder")
    /\ \/ /\ Enter("builder", frames, Frame("pending", FALSE), st)
          /\ UNCHANGED <<st, cps, written>>
       \/ /\ Enter("builder", frames, Frame("pending", TRUE), st)
          /\ cps' = Opened(Fresh, "own")
          /\ \E W \in SUBSET {By(Fresh, "own")} : Writes(W)

\* The checkpoint is opened once, with the first transaction.
Checkpointed == IF Top.outer THEN cps ELSE Opened(Top.id, "own")
WithCheckpoint == [frames EXCEPT ![Len(frames)].outer = TRUE]

AddTransaction ==
    /\ At("builder", "pending")
    /\ Enter("tx", WithCheckpoint, Frame("setup", TRUE), st)
    /\ cps' = Append(Checkpointed, Saved(st, Fresh, "own"))
    /\ UNCHANGED <<st, written>>

\* The transaction does not fit into the block, or runTx refuses it at once.
RejectTransaction ==
    /\ At("builder", "pending")
    /\ cps' = Checkpointed
    /\ frames' = WithCheckpoint
    /\ UNCHANGED <<st, log, written>>

\* What rewards and withdrawals there are is written under the checkpoint, if
\* one is open.
Rewards == {By(Top.id, IF Top.outer THEN "own" ELSE "bare")}
Reward == \E W \in SUBSET Rewards : Writes(W)

\* The block is refused after the rewards: the builder stays pending.
BuildRefused ==
    /\ At("builder", "pending")
    /\ Reward
    /\ UNCHANGED <<cps, frames, log>>

Built(outer) == [frames EXCEPT ![Len(frames)].pc = "build", ![Len(frames)].outer = outer]

\* The block is in the chain; then the checkpoint is committed.
Build ==
    /\ At("builder", "pending")
    /\ Reward
    /\ \/ /\ cps' = Popped(Active(Top.outer))
          /\ frames' = Built(FALSE)
          /\ log' = Judged("ok")
       \/ /\ "kept" \in Faults /\ Top.outer /\ Outermost
          /\ frames' = Built(TRUE)
          /\ UNCHANGED <<cps, log>>
       \/ /\ "torn" \in Faults /\ Top.outer /\ Outermost
          /\ cps' = Popped(1)
          /\ frames' = To("torn")
          /\ log' = Judged("kept")

\* revert looks at no status: it may follow a build.
BuilderRevert ==
    /\ frames # << >>
    /\ Kind = "builder"
    /\ Top.pc # "torn"
    /\ Reverted(Active(Top.outer))
    /\ frames' = [frames EXCEPT ![Len(frames)].pc = "reverted", ![Len(frames)].outer = FALSE]
    /\ log' = Judged(IF log[Top.id].verdict = "open" THEN "throw" ELSE log[Top.id].verdict)
    /\ UNCHANGED written

\* The user lets go of a builder that holds no checkpoint.
DropBuilder ==
    /\ frames # << >>
    /\ Kind = "builder"
    /\ ~Top.outer \/ Top.pc = "torn"
    /\ frames' = << >>
    /\ UNCHANGED <<st, cps, log, written>>

Idle == frames = << >> /\ UNCHANGED vars

Next == \/ RunCall \/ BeforeMessage \/ Execute \/ CallFromInterpreter
        \/ RunCode \/ ReturnFromCode \/ Succeed \/ Fail
        \/ RunTx \/ Charge \/ Settle \/ RunBlock \/ ApplyBlock
        \/ Commit \/ CommitKept \/ CommitTorn \/ UnwindTorn \/ Throw \/ Unwind
        \/ BuildBlock \/ AddTransaction \/ RejectTransaction
        \/ BuildRefused \/ Build \/ BuilderRevert \/ DropBuilder
        \/ Idle

Spec == Init /\ [][Next]_vars
-----------------------------------------------------------------------------
Kinds == {"block", "builder", "tx", "call", "code"}
Verdicts == {"open", "ok", "fail", "throw", "kept", "left"}
Entry == [kind : Kinds, path : SUBSET Ids, found : SUBSET Write, verdict : Verdicts]
Pcs == {"init", "exec", "after", "setup", "charged", "called", "settle", "body",
        "unwind", "torn", "pending", "build", "reverted"}

\* Every variable keeps its type, and only a call that runs code, or is thrown
\* out of it, holds an execution checkpoint.
TypeOK == /\ st \subseteq written /\ written \subseteq Write
          /\ cps \in Seq([state : SUBSET Write, owner : Ids, layer : {"own", "exec"}])
          /\ log \in Seq(Entry) /\ Len(log) <= MaxFrames
          /\ frames \in Seq([id : 1..Len(log), pc : Pcs, outer : BOOLEAN, exec : BOOLEAN])
          /\ \A i \in 1..Len(frames) : frames[i].exec => frames[i].pc \in {"exec", "unwind"}

\* A write is taken back by the throw of a frame around it, by the throw of its
\* own frame unless no checkpoint covered it, and, if a call's code made it, by
\* the failure of that call or of one around it.
Undone(w) ==
    \/ \E f \in log[w.frame].path : log[f].verdict \in {"fail", "throw"}
    \/ log[w.frame].verdict = "throw" /\ w.layer # "bare"
    \/ log[w.frame].verdict = "fail" /\ w.layer = "exec"

\* The visible state is what the frames' fates say it is: no write of a failed
\* or thrown frame is left, and none of a surviving frame is lost, however
\* calls, transactions, blocks and builders were nested and whichever of them
\* threw, failed or could not commit.
Surviving == st = {w \in written : ~Undone(w)}

Running == 1..Len(frames)

\* The checkpoints that someone will close, and those nobody will.
Owned == {<<frames[i].id, "own">> : i \in {j \in Running : frames[j].outer /\ frames[j].pc # "torn"}}
             \cup {<<frames[i].id, "exec">> : i \in {j \in Running : frames[j].exec}}
Abandoned == {<<f, "own">> : f \in {g \in 1..Len(log) : log[g].verdict = "left"}}

Outside(c, d) == c.owner < d.owner \/ (c.owner = d.owner /\ c.layer = "own" /\ d.layer = "exec")

\* Every checkpoint of the state manager is one that a running frame will close
\* or one that a block left open when its commit failed, each is there once,
\* and they are nested as the frames are: no path through the handlers closes
\* another frame's checkpoint, closes one twice or forgets one.
Accounted ==
    /\ {<<cps[k].owner, cps[k].layer>> : k \in 1..Len(cps)} = Owned \cup Abandoned
    /\ \A j, k \in 1..Len(cps) : j < k => Outside(cps[j], cps[k])

\* A call, a transaction or a block that throws leaves exactly the state it
\* found.
ThrowRestores ==
    [][\A f \in 1..Len(log) :
          (log[f].verdict # "throw" /\ log'[f].verdict = "throw" /\ log[f].kind # "builder")
              => st' = log[f].found]_vars

\* The visible state is what the fates of the frames say, and every open
\* checkpoint has an owner who will close it.
FramesSound == TypeOK /\ Surviving /\ Accounted
=============================================================================
