------------------------------ MODULE Journal ------------------------------
(***************************************************************************)
(* The TVM's journal (tvm/src/journal.ts): which addresses and slots are   *)
(* warm, which accounts were touched and which slots were written, with a  *)
(* log of labelled differences that lets a reverted message call take back *)
(* what it noted.                                                          *)
(*                                                                         *)
(* The four tables are one set of marks.  A difference carries the height  *)
(* it was opened at; commit does not merge differences but opens a new one *)
(* at the lower height.  The state manager behind the journal is external: *)
(* it accepts checkpoint, commit and revert, or rejects them and changes   *)
(* nothing.  hist is a history variable: for every checkpoint open in the  *)
(* state manager the marks it found and the length of the log, 0 when the  *)
(* journal was cleaned since.  No action reads hist beyond its length,     *)
(* which is the number of open checkpoints.                                *)
(***************************************************************************)
EXTENDS Integers, Sequences

CONSTANTS Addrs,      \* account addresses
          Slots,      \* storage slots
          Ripemd,     \* the precompile that stays touched
          NoSlot,     \* the slot of a mark about a whole address
          MaxDepth,   \* bound: checkpoints open at once
          MaxLog      \* bound: differences in the log

ASSUME JournalAssumption ==
    /\ Ripemd \in Addrs
    /\ NoSlot \notin Slots
    /\ MaxDepth \in Nat /\ MaxLog \in Nat

VARIABLES marks,    \* journal, touched and storageWrites
          diff,     \* journalDiff
          height,   \* journalHeight
          hist

journalVars == <<marks, diff, height, hist>>

Warm(a) == [kind |-> "warm", addr |-> a, slot |-> NoSlot]
WarmSlot(a, s) == [kind |-> "slot", addr |-> a, slot |-> s]
Touched(a) == [kind |-> "touched", addr |-> a, slot |-> NoSlot]
Written(a, s) == [kind |-> "written", addr |-> a, slot |-> s]

Marks == [kind : {"warm", "touched"}, addr : Addrs, slot : {NoSlot}]
             \cup [kind : {"slot", "written"}, addr : Addrs, slot : Slots]

\* Touched precompile 3 survives every revert.
Kept == {Touched(Ripemd)}

Difference == [height : Int, added : SUBSET Marks]
OpenedAt(h) == [height |-> h, added |-> {}]
Newest == diff[Len(diff)]

JournalInit == /\ marks = {}
        /\ diff = <<OpenedAt(0)>>
        /\ height = 0
        /\ hist = << >>

\* The log no longer has a difference of the current height: a checkpoint that
\* was open when the journal was cleaned has been reverted.
Drained == Newest.height # height

\* Marks that were not there are recorded in the newest difference.  After an
\* outer revert of a cleaned journal its users clean it, or open a checkpoint,
\* before they note anything again.
Note(S) ==
    /\ ~Drained
    /\ marks' = marks \cup S
    /\ diff' = [diff EXCEPT ![Len(diff)].added = @ \cup (S \ marks)]
    /\ UNCHANGED <<height, hist>>

AddWarmedAddress(a) == Note({Warm(a)})

\* The slot of an address that is cold warms the address too.
AddWarmedStorage(a, s) == Note({Warm(a), WarmSlot(a, s)})

\* putAccount and deleteAccount touch the account first.
TouchAccount(a) == Note({Touched(a)})

RecordStorageWrite(a, s) == Note({Written(a, s)})

Checkpoint ==
    /\ Len(hist) < MaxDepth
    /\ Len(diff) < MaxLog
    /\ height' = height + 1
    /\ diff' = Append(diff, OpenedAt(height + 1))
    /\ hist' = Append(hist, [marks |-> marks, at |-> IF Drained THEN 0 ELSE Len(diff)])
    /\ UNCHANGED marks

\* Faulty variant: the bookkeeping is not taken back.
CheckpointKept ==
    /\ Len(hist) < MaxDepth
    /\ Len(diff) < MaxLog
    /\ height' = height + 1
    /\ diff' = Append(diff, OpenedAt(height + 1))
    /\ UNCHANGED <<marks, hist>>

\* The state manager rejects the checkpoint: the bookkeeping is taken back.
CheckpointRejected ==
    /\ Len(hist) < MaxDepth
    /\ Len(diff) < MaxLog
    /\ UNCHANGED journalVars

\* commit keeps the marks; later ones belong to the checkpoint below.
JournalCommit ==
    /\ hist # << >>
    /\ Len(diff) < MaxLog
    /\ height' = height - 1
    /\ diff' = Append(diff, OpenedAt(height - 1))
    /\ hist' = SubSeq(hist, 1, Len(hist) - 1)
    /\ UNCHANGED marks

\* The first difference, from the newest back, that belongs to a checkpoint
\* further out; 0 if there is none.
Lower == {i \in 1..Len(diff) : diff[i].height < height}
UndoAfterLast == Len(diff) - 1
UndoAfter == IF Lower = {} THEN 0
             ELSE CHOOSE i \in Lower : \A j \in Lower : j <= i

\* What the differences after position n added.
AddedAfter(n) == UNION {diff[j].added : j \in (n + 1)..Len(diff)}

\* Deleting an address deletes the slots under it.
Deleted(S) == S \cup {m \in Marks : m.kind = "slot" /\ Warm(m.addr) \in S}

\* The loop always leaves one difference in the log, even one it has undone.
LogAfterRevert == IF UndoAfter = 0 THEN 1 ELSE UndoAfter

Revert ==
    /\ hist # << >>
    /\ marks' = (marks \ Deleted(AddedAfter(UndoAfter))) \cup (marks \cap Kept)
    /\ diff' = SubSeq(diff, 1, LogAfterRevert)
    /\ height' = height - 1
    /\ hist' = SubSeq(hist, 1, Len(hist) - 1)

\* A rejected commit or revert leaves the journal as it is, for a retry.
StateManagerRejects ==
    /\ hist # << >>
    /\ UNCHANGED journalVars

\* cleanJournal, cleanup: between transactions, and at the end of one while its
\* own checkpoint and the block's are still open.
CleanJournal ==
    /\ marks' = {}
    /\ diff' = <<OpenedAt(0)>>
    /\ height' = 0
    /\ hist' = [i \in 1..Len(hist) |-> [marks |-> {}, at |-> 0]]

WrittenMarks == {m \in Marks : m.kind = "written"}

\* At the boundary of a public execution the written slots are forgotten.
ClearStorageWrites ==
    /\ marks' = marks \ WrittenMarks
    /\ diff' = [i \in 1..Len(diff) |-> [diff[i] EXCEPT !.added = @ \ WrittenMarks]]
    /\ hist' = [i \in 1..Len(hist) |-> [hist[i] EXCEPT !.marks = @ \ WrittenMarks]]
    /\ UNCHANGED height

JournalNext == \/ \E a \in Addrs : AddWarmedAddress(a) \/ TouchAccount(a)
        \/ \E a \in Addrs, s \in Slots : AddWarmedStorage(a, s) \/ RecordStorageWrite(a, s)
        \/ Checkpoint
        \/ CheckpointRejected
        \/ JournalCommit
        \/ Revert
        \/ StateManagerRejects
        \/ CleanJournal
        \/ ClearStorageWrites

JournalSpec == JournalInit /\ [][JournalNext]_journalVars
-----------------------------------------------------------------------------
Found == [marks : SUBSET Marks, at : Nat]

\* Every variable keeps its type, and the log is never empty: every note finds
\* a difference to go into.
JournalTypeOK == /\ marks \subseteq Marks
          /\ diff \in Seq(Difference) /\ diff # << >>
          /\ height \in Int
          /\ hist \in Seq(Found)

\* The height the journal has when checkpoint i is the innermost.
HeightOf(i) == height - (Len(hist) - i)

\* The differences noted since checkpoint i are exactly the ones a revert to it
\* walks over: those of committed inner calls included, which carry higher
\* labels, and none older.  This is the worry of the TODO in revert.
LabelsDelimit ==
    \A i \in 1..Len(hist) :
        /\ hist[i].at <= Len(diff)
        /\ \A j \in (hist[i].at + 1)..Len(diff) : diff[j].height >= HeightOf(i)
        /\ hist[i].at > 0 => diff[hist[i].at].height < HeightOf(i)

\* A reverted message call leaves no mark of its own, and takes none of the
\* enclosing calls', however its inner calls ended; only the touched precompile
\* stays.
RevertExact ==
    [][Revert => marks' = hist[Len(hist)].marks \cup (marks \cap Kept)]_journalVars

\* The log is never empty and its labels delimit the message calls.
JournalSound == JournalTypeOK /\ LabelsDelimit
=============================================================================
