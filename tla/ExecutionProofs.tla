--------------------------- MODULE ExecutionProofs ---------------------------
(***************************************************************************)
(* However calls, transactions, blocks and builders are nested, fail,      *)
(* throw or cannot commit, the visible state is what their fates say, every*)
(* checkpoint has one owner that will close it, and what throws leaves the *)
(* state it found: for any number of frames.  The journal below them keeps *)
(* labels that delimit its message calls and reverts exactly, for every    *)
(* set of addresses and slots and every nesting of calls.                  *)
(*                                                                         *)
(* Above them, blocks: what a builder or a generator makes is what any VM  *)
(* that has the blocks before it accepts, and no altered copy of it is.    *)
(*                                                                         *)
(* None of this is inductive alone.  A revert gives the right state only   *)
(* if the checkpoint it restores holds every surviving write made outside  *)
(* its owner (Snapshots), if it is the owner's (Accounted), and if the     *)
(* frames around the owner have not ended before it (Shaped, Nested).      *)
(* For blocks, what a pending builder holds must be what its transactions  *)
(* made of the head's state (Building), and a block that waits to be put   *)
(* must be honest already (HeldIs).                                        *)
(***************************************************************************)
EXTENDS Execution, Journal, Blocks, SequenceTheorems, FiniteSetTheorems, WellFoundedInduction, TLAPS
-----------------------------------------------------------------------------
(***************************************************************************)
(* The journal.                                                            *)
(***************************************************************************)

\* A warm slot lies under a warm address.
Closed(S) == \A m \in S : m.kind = "slot" => Warm(m.addr) \in S

\* The checkpoints sit at increasing positions of the log, below its end; the
\* ones that were open when the journal was cleaned sit at 0.
CallsOrdered ==
    /\ \A i \in 1..Len(hist) : hist[i].at < Len(diff)
    /\ \A i, k \in 1..Len(hist) :
           i < k => hist[i].at < hist[k].at \/ (hist[i].at = 0 /\ hist[k].at = 0)

\* The differences after what f found have labels from h on, and the one it was
\* found at has the label just below.
LabelsAt(f, d, h) ==
    /\ \A j \in 1..Len(d) : f.at < j => d[j].height >= h
    /\ f.at > 0 => d[f.at].height = h - 1

Labelled == \A i \in 1..Len(hist) : LabelsAt(hist[i], diff, HeightOf(i))

\* A drained log is one difference whose marks are gone.
DrainedLog ==
    Drained => /\ Len(diff) = 1
               /\ Newest.height > height
               /\ marks \subseteq Kept
               /\ \A i \in 1..Len(hist) : hist[i].at = 0

\* m was added to the log d after position k.
AddedIn(d, m, k) == \E j \in 1..Len(d) : k < j /\ m \in d[j].added

\* What f found is what is there now without what the log d added since.
Remembered(f, d, present) ==
    /\ \A m \in Marks \ Kept : m \in f.marks <=> m \in present /\ ~AddedIn(d, m, f.at)
    /\ \A m \in Kept : m \in f.marks => m \in present
    /\ f.at = 0 => f.marks \subseteq Kept
    /\ Closed(f.marks)

Exact == \A i \in 1..Len(hist) : Remembered(hist[i], diff, marks)

JournalInv == /\ JournalTypeOK
        /\ CallsOrdered
        /\ Labelled
        /\ DrainedLog
        /\ Exact
        /\ Closed(marks)
-----------------------------------------------------------------------------
\* The types of the log's and the history's elements.
LEMMA JournalShape ==
    ASSUME JournalTypeOK
    PROVE  /\ Len(hist) \in Nat
           /\ Len(diff) \in Nat \ {0}
           /\ \A j \in 1..Len(diff) : diff[j].height \in Int /\ diff[j].added \subseteq Marks
           /\ \A i \in 1..Len(hist) : hist[i].at \in Nat /\ hist[i].marks \subseteq Marks
<1>1. diff \in Seq(Difference) /\ diff # << >> /\ hist \in Seq(Found)
  BY DEF JournalTypeOK
<1>2. Len(hist) \in Nat /\ Len(diff) \in Nat \ {0}
  BY <1>1, EmptySeq
<1>3. ASSUME NEW j \in 1..Len(diff)
      PROVE  diff[j].height \in Int /\ diff[j].added \subseteq Marks
  <2>1. diff[j] \in Difference
    BY <1>1
  <2> QED
    BY <2>1 DEF Difference
<1>4. ASSUME NEW i \in 1..Len(hist)
      PROVE  hist[i].at \in Nat /\ hist[i].marks \subseteq Marks
  <2>1. hist[i] \in Found
    BY <1>1
  <2> QED
    BY <2>1 DEF Found
<1> QED
  BY <1>2, <1>3, <1>4

\* The prefix of a sequence.
LEMMA Prefix ==
    ASSUME NEW S, NEW q \in Seq(S), NEW n \in 0..Len(q)
    PROVE  /\ SubSeq(q, 1, n) \in Seq(S)
           /\ Len(SubSeq(q, 1, n)) = n
           /\ \A i \in 1..n : SubSeq(q, 1, n)[i] = q[i]
<1>1. Len(q) \in Nat /\ n \in Nat
  OBVIOUS
<1>2. \A i \in 1..n : q[i] \in S
  BY <1>1
<1>3. /\ SubSeq(q, 1, n) \in Seq(S)
      /\ Len(SubSeq(q, 1, n)) = IF 1 <= n THEN n - 1 + 1 ELSE 0
      /\ \A i \in 1..n - 1 + 1 : SubSeq(q, 1, n)[i] = q[1 + i - 1]
  BY <1>1, <1>2, SubSeqProperties
<1>4. \A i \in 1..n : SubSeq(q, 1, n)[i] = q[i]
  BY <1>1, <1>3
<1> QED
  BY <1>1, <1>3, <1>4

\* The invariant holds of a new journal.
LEMMA JournalStarts ==
    ASSUME JournalInit
    PROVE  JournalInv
<1>1. marks = {} /\ diff = <<OpenedAt(0)>> /\ height = 0 /\ hist = << >>
  BY DEF JournalInit
<1>2. Len(hist) = 0 /\ Len(diff) = 1 /\ diff[1] = OpenedAt(0)
  BY <1>1
<1>3. OpenedAt(0) \in Difference
  BY DEF OpenedAt, Difference
<1>4. JournalTypeOK
  BY <1>1, <1>3 DEF JournalTypeOK
<1>5. ~Drained
  BY <1>1, <1>2 DEF Drained, Newest, OpenedAt
<1> QED
  BY <1>1, <1>2, <1>4, <1>5 DEF JournalInv, CallsOrdered, Labelled, DrainedLog, Exact, Closed

\* A note goes into a difference after every checkpoint.
LEMMA NoteStep ==
    ASSUME JournalInv, NEW S \in SUBSET Marks, Closed(S), Note(S)
    PROVE  JournalInv'
<1> DEFINE n == Len(hist)
           L == Len(diff)
<1>1. /\ ~Drained
      /\ marks' = marks \cup S
      /\ diff' = [diff EXCEPT ![L].added = @ \cup (S \ marks)]
      /\ height' = height
      /\ hist' = hist
  BY DEF Note
<1>2. /\ JournalTypeOK /\ CallsOrdered /\ Labelled /\ DrainedLog /\ Exact /\ Closed(marks)
  BY DEF JournalInv
<1>3. /\ n \in Nat
      /\ L \in Nat \ {0}
      /\ \A j \in 1..L : diff[j].height \in Int /\ diff[j].added \subseteq Marks
      /\ \A i \in 1..n : hist[i].at \in Nat /\ hist[i].marks \subseteq Marks
  BY <1>2, JournalShape
<1>4. /\ diff' \in Seq(Difference)
      /\ Len(diff') = L
      /\ \A j \in 1..L : diff'[j].height = diff[j].height
      /\ \A j \in 1..L : j # L => diff'[j].added = diff[j].added
      /\ diff'[L].added = diff[L].added \cup (S \ marks)
  <2>1. diff \in Seq(Difference)
    BY <1>2 DEF JournalTypeOK
  <2>2. diff' = [diff EXCEPT ![L] = [diff[L] EXCEPT !.added = @ \cup (S \ marks)]]
    BY <1>1
  <2>3. diff[L] \in Difference
    BY <1>3, <2>1
  <2>4. [diff[L] EXCEPT !.added = @ \cup (S \ marks)] \in Difference
    BY <2>3 DEF Difference
  <2>5. /\ [diff[L] EXCEPT !.added = @ \cup (S \ marks)].height = diff[L].height
        /\ [diff[L] EXCEPT !.added = @ \cup (S \ marks)].added = diff[L].added \cup (S \ marks)
    BY <2>3 DEF Difference
  <2> QED
    BY <1>3, <2>1, <2>2, <2>3, <2>4, <2>5
<1>5. JournalTypeOK'
  <2>1. diff' # << >>
    BY <1>3, <1>4, EmptySeq
  <2> QED
    BY <1>1, <1>2, <1>4, <2>1 DEF JournalTypeOK
<1>6. CallsOrdered'
  BY <1>1, <1>2, <1>4 DEF CallsOrdered
<1>7. Labelled'
  BY <1>1, <1>2, <1>3, <1>4 DEF Labelled, LabelsAt, HeightOf, CallsOrdered
<1>8. DrainedLog'
  BY <1>1, <1>3, <1>4 DEF DrainedLog, Drained, Newest
<1>9. ASSUME NEW i \in 1..n
      PROVE  Remembered(hist[i], diff', marks')
  <2>1. hist[i].at \in Nat /\ hist[i].at < L
    BY <1>2, <1>3 DEF CallsOrdered
  <2>2. ASSUME NEW m \in Marks
        PROVE  AddedIn(diff', m, hist[i].at) <=> AddedIn(diff, m, hist[i].at) \/ m \in S \ marks
    BY <1>1, <1>3, <1>4, <2>1 DEF AddedIn
  <2>3. Remembered(hist[i], diff, marks)
    BY <1>2 DEF Exact
  <2> QED
    BY <1>1, <2>2, <2>3 DEF Remembered
<1>10. Exact'
  BY <1>1, <1>9 DEF Exact, Remembered, AddedIn, Closed
<1>11. Closed(marks')
  BY <1>1, <1>2 DEF Closed
<1> QED
  BY <1>5, <1>6, <1>7, <1>8, <1>10, <1>11 DEF JournalInv, Closed

\* A new difference at the end of the log keeps the others.
LEMMA Pushed ==
    ASSUME JournalTypeOK, NEW h \in Int, diff' = Append(diff, OpenedAt(h))
    PROVE  /\ diff' \in Seq(Difference)
           /\ diff' # << >>
           /\ Len(diff') = Len(diff) + 1
           /\ \A j \in 1..Len(diff) : diff'[j] = diff[j]
           /\ diff'[Len(diff) + 1].height = h
           /\ diff'[Len(diff) + 1].added = {}
<1>1. OpenedAt(h) \in Difference
  BY DEF OpenedAt, Difference
<1>2. diff \in Seq(Difference) /\ Len(diff) \in Nat
  BY DEF JournalTypeOK
<1>3. /\ diff' \in Seq(Difference)
      /\ Len(diff') = Len(diff) + 1
      /\ \A j \in 1..Len(diff) : diff'[j] = diff[j]
      /\ diff'[Len(diff) + 1] = OpenedAt(h)
  BY <1>1, <1>2, AppendProperties
<1> QED
  BY <1>2, <1>3, EmptySeq DEF OpenedAt

\* A new difference keeps the labels of the checkpoints that are not above it.
LEMMA PushedLabels ==
    ASSUME JournalTypeOK, NEW g \in Int, diff' = Append(diff, OpenedAt(g)),
           NEW f, f.at \in Nat, f.at <= Len(diff),
           NEW h \in Int, h <= g, LabelsAt(f, diff, h)
    PROVE  LabelsAt(f, diff', h)
<1>1. PICK L \in Nat : L = Len(diff)
  BY JournalShape
<1>2. /\ Len(diff') = L + 1
      /\ \A j \in 1..L : diff'[j] = diff[j]
      /\ diff'[L + 1].height = g
  BY <1>1, Pushed
<1>3. ASSUME NEW j \in 1..(L + 1), f.at < j
      PROVE  diff'[j].height >= h
  <2>1. CASE j \in 1..L
    BY <1>1, <1>2, <1>3, <2>1 DEF LabelsAt
  <2>2. CASE j = L + 1
    BY <1>2, <2>2
  <2>3. j \in 1..L \/ j = L + 1
    OBVIOUS
  <2> QED
    BY <2>1, <2>2, <2>3
<1>4. ASSUME f.at > 0
      PROVE  diff'[f.at].height = h - 1
  <2>1. f.at \in 1..L
    BY <1>1, <1>4
  <2> QED
    BY <1>2, <1>4, <2>1 DEF LabelsAt
<1> QED
  BY <1>2, <1>3, <1>4 DEF LabelsAt

\* A new difference adds nothing to what happened since a checkpoint.
LEMMA PushedRemembers ==
    ASSUME JournalTypeOK, NEW g \in Int, diff' = Append(diff, OpenedAt(g)),
           NEW f, Remembered(f, diff, marks)
    PROVE  Remembered(f, diff', marks)
<1>1. PICK L \in Nat : L = Len(diff)
  BY JournalShape
<1>2. /\ Len(diff') = L + 1
      /\ \A j \in 1..L : diff'[j] = diff[j]
      /\ diff'[L + 1].added = {}
  BY <1>1, Pushed
<1>3. \A j \in 1..(L + 1) : j \in 1..L \/ j = L + 1
  OBVIOUS
<1>4. ASSUME NEW m
      PROVE  AddedIn(diff', m, f.at) <=> AddedIn(diff, m, f.at)
  BY <1>1, <1>2, <1>3 DEF AddedIn
<1> QED
  BY <1>4 DEF Remembered

\* A checkpoint finds the marks as they are.
LEMMA CheckpointStep ==
    ASSUME JournalInv, Checkpoint
    PROVE  JournalInv'
<1>0. JournalTypeOK /\ CallsOrdered /\ Labelled /\ DrainedLog /\ Exact /\ Closed(marks) /\ height \in Int
  BY DEF JournalInv, JournalTypeOK
<1>1. PICK n \in Nat, L \in Nat \ {0} : n = Len(hist) /\ L = Len(diff)
  BY <1>0, JournalShape
<1>2. PICK f : f = [marks |-> marks, at |-> IF Drained THEN 0 ELSE L]
  OBVIOUS
<1>3. /\ height' = height + 1
      /\ diff' = Append(diff, OpenedAt(height + 1))
      /\ hist' = Append(hist, f)
      /\ marks' = marks
  BY <1>1, <1>2 DEF Checkpoint
<1>4. /\ \A j \in 1..L : diff[j].height \in Int /\ diff[j].added \subseteq Marks
      /\ \A i \in 1..n : hist[i].at \in Nat /\ hist[i].at < L /\ hist[i].marks \subseteq Marks
  BY <1>0, <1>1, JournalShape DEF CallsOrdered
<1>5. /\ diff' \in Seq(Difference)
      /\ diff' # << >>
      /\ Len(diff') = L + 1
      /\ \A j \in 1..L : diff'[j] = diff[j]
      /\ diff'[L + 1].height = height + 1
      /\ diff'[L + 1].added = {}
  BY <1>0, <1>1, <1>3, Pushed
<1>6. /\ f \in Found /\ hist \in Seq(Found)
      /\ hist' \in Seq(Found)
      /\ Len(hist') = n + 1
      /\ \A i \in 1..n : hist'[i] = hist[i]
      /\ hist'[n + 1] = f
  <2>1. f \in Found /\ hist \in Seq(Found)
    BY <1>0, <1>2 DEF Found, JournalTypeOK
  <2> QED
    BY <1>1, <1>3, <2>1, AppendProperties
<1>7. /\ f.marks = marks /\ f.at \in Nat /\ f.at <= L
      /\ Drained => /\ f.at = 0
                    /\ L = 1
                    /\ diff[1].height > height
                    /\ marks \subseteq Kept
                    /\ \A i \in 1..n : hist[i].at = 0
      /\ ~Drained => f.at = L /\ diff[L].height = height
  BY <1>0, <1>1, <1>2 DEF DrainedLog, Drained, Newest
<1>8. \A i \in 1..(n + 1) : i \in 1..n \/ i = n + 1
  OBVIOUS
<1>9. JournalTypeOK'
  BY <1>0, <1>3, <1>5, <1>6 DEF JournalTypeOK
<1>10. CallsOrdered'
  <2>1. ASSUME NEW i \in 1..(n + 1)
        PROVE  hist'[i].at < L + 1
    BY <1>4, <1>6, <1>7, <1>8
  <2>2. ASSUME NEW i \in 1..(n + 1), NEW k \in 1..(n + 1), i < k
        PROVE  hist'[i].at < hist'[k].at \/ (hist'[i].at = 0 /\ hist'[k].at = 0)
    <3>1. i \in 1..n
      BY <2>2
    <3>2. CASE k \in 1..n
      BY <1>0, <1>1, <1>6, <2>2, <3>1, <3>2 DEF CallsOrdered
    <3>3. CASE k = n + 1
      BY <1>4, <1>6, <1>7, <3>1, <3>3
    <3> QED
      BY <1>8, <3>2, <3>3
  <2> QED
    BY <1>5, <1>6, <2>1, <2>2 DEF CallsOrdered
<1>11. Labelled'
  <2>1. ASSUME NEW i \in 1..n
        PROVE  /\ HeightOf(i)' = HeightOf(i)
               /\ HeightOf(i) \in Int
               /\ HeightOf(i) <= height + 1
    <3>1. HeightOf(i) = height - (n - i) /\ HeightOf(i)' = height' - ((n + 1) - i)
      BY <1>1, <1>6 DEF HeightOf
    <3> QED
      BY <1>0, <1>3, <3>1
  <2>2. HeightOf(n + 1)' = height + 1
    BY <1>0, <1>3, <1>6 DEF HeightOf
  <2>3. ASSUME NEW i \in 1..n
        PROVE  LabelsAt(hist'[i], diff', HeightOf(i)')
    <3>1. LabelsAt(hist[i], diff, HeightOf(i))
      BY <1>0, <1>1 DEF Labelled
    <3>2. PICK g \in Int : g = height + 1
      BY <1>0
    <3>3. /\ diff' = Append(diff, OpenedAt(g))
          /\ hist[i].at \in Nat /\ hist[i].at <= Len(diff)
          /\ HeightOf(i) \in Int /\ HeightOf(i) <= g
      BY <1>1, <1>3, <1>4, <2>1, <3>2
    <3>4. LabelsAt(hist[i], diff', HeightOf(i))
      BY <1>0, <3>1, <3>3, PushedLabels
    <3> QED
      BY <1>6, <2>1, <3>4
  <2>4. LabelsAt(f, diff', height + 1)
    <3>1. \A j \in 1..(L + 1) : j \in 1..L \/ j = L + 1
      OBVIOUS
    <3>2. CASE Drained
      BY <1>0, <1>4, <1>5, <1>7, <3>1, <3>2 DEF LabelsAt
    <3>3. CASE ~Drained
      BY <1>0, <1>4, <1>5, <1>7, <3>1, <3>3 DEF LabelsAt
    <3> QED
      BY <3>2, <3>3
  <2>5. ASSUME NEW i \in 1..(n + 1)
        PROVE  LabelsAt(hist'[i], diff', HeightOf(i)')
    BY <1>6, <1>8, <2>2, <2>3, <2>4
  <2> QED
    BY <1>6, <2>5 DEF Labelled, LabelsAt
<1>12. DrainedLog'
  BY <1>3, <1>5 DEF DrainedLog, Drained, Newest
<1>13. Exact'
  <2>1. ASSUME NEW i \in 1..n
        PROVE  Remembered(hist'[i], diff', marks')
    <3>1. Remembered(hist[i], diff, marks)
      BY <1>0, <1>1 DEF Exact
    <3>2. Remembered(hist[i], diff', marks)
      BY <1>0, <1>3, <3>1, PushedRemembers
    <3> QED
      BY <1>3, <1>6, <3>2
  <2>2. Remembered(f, diff, marks)
    <3>1. CASE Drained
      BY <1>0, <1>7, <3>1 DEF Remembered
    <3>2. CASE ~Drained
      <4>1. f.at # 0 /\ \A m : ~AddedIn(diff, m, f.at)
        BY <1>1, <1>7, <3>2 DEF AddedIn
      <4> QED
        BY <1>0, <1>7, <4>1 DEF Remembered
    <3> QED
      BY <3>1, <3>2
  <2>3. Remembered(f, diff', marks)
    BY <1>0, <1>3, <2>2, PushedRemembers
  <2>4. ASSUME NEW i \in 1..(n + 1)
        PROVE  Remembered(hist'[i], diff', marks')
    BY <1>3, <1>6, <1>8, <2>1, <2>3
  <2> QED
    BY <1>6, <2>4 DEF Exact, Remembered, AddedIn, Closed
<1> QED
  BY <1>0, <1>3, <1>9, <1>10, <1>11, <1>12, <1>13 DEF JournalInv, Closed

\* The innermost checkpoint is dropped from the history.
LEMMA MarksPopped ==
    ASSUME JournalTypeOK, hist # << >>, hist' = SubSeq(hist, 1, Len(hist) - 1)
    PROVE  \E p \in Nat :
               /\ Len(hist) = p + 1
               /\ hist' \in Seq(Found)
               /\ Len(hist') = p
               /\ \A i \in 1..p : hist'[i] = hist[i]
<1>1. hist \in Seq(Found) /\ Len(hist) \in Nat \ {0}
  BY EmptySeq DEF JournalTypeOK
<1>2. PICK p \in Nat : Len(hist) = p + 1
  <2> WITNESS Len(hist) - 1 \in Nat
  <2> QED
    BY <1>1
<1>3. p \in 0..Len(hist) /\ hist' = SubSeq(hist, 1, p)
  BY <1>1, <1>2
<1> QED
  BY <1>1, <1>2, <1>3, Prefix

\* A commit leaves the marks to the checkpoint below.
LEMMA JournalCommitStep ==
    ASSUME JournalInv, JournalCommit
    PROVE  JournalInv'
<1>0. JournalTypeOK /\ CallsOrdered /\ Labelled /\ DrainedLog /\ Exact /\ Closed(marks) /\ height \in Int
  BY DEF JournalInv, JournalTypeOK
<1>1. /\ hist # << >>
      /\ height' = height - 1
      /\ diff' = Append(diff, OpenedAt(height - 1))
      /\ hist' = SubSeq(hist, 1, Len(hist) - 1)
      /\ marks' = marks
  BY DEF JournalCommit
<1>2. PICK p \in Nat : /\ Len(hist) = p + 1
                       /\ hist' \in Seq(Found)
                       /\ Len(hist') = p
                       /\ \A i \in 1..p : hist'[i] = hist[i]
  BY <1>0, <1>1, MarksPopped
<1>3. PICK L \in Nat \ {0} : L = Len(diff)
  BY <1>0, JournalShape
<1>4. /\ \A j \in 1..L : diff[j].height \in Int /\ diff[j].added \subseteq Marks
      /\ \A i \in 1..p : hist[i].at \in Nat /\ hist[i].at < L
  BY <1>0, <1>2, <1>3, JournalShape DEF CallsOrdered
<1>5. /\ diff' \in Seq(Difference)
      /\ diff' # << >>
      /\ Len(diff') = L + 1
      /\ \A j \in 1..L : diff'[j] = diff[j]
      /\ diff'[L + 1].height = height - 1
      /\ diff'[L + 1].added = {}
  BY <1>0, <1>1, <1>3, Pushed
<1>6. JournalTypeOK'
  BY <1>0, <1>1, <1>2, <1>5 DEF JournalTypeOK
<1>7. CallsOrdered'
  BY <1>0, <1>2, <1>4, <1>5 DEF CallsOrdered
<1>8. Labelled'
  <2>1. ASSUME NEW i \in 1..p
        PROVE  LabelsAt(hist'[i], diff', HeightOf(i)')
    <3>1. /\ HeightOf(i)' = HeightOf(i)
          /\ HeightOf(i) \in Int
          /\ HeightOf(i) <= height - 1
      BY <1>0, <1>1, <1>2 DEF HeightOf
    <3>2. LabelsAt(hist[i], diff, HeightOf(i))
      BY <1>0, <1>2 DEF Labelled
    <3>3. PICK g \in Int : g = height - 1
      BY <1>0
    <3>4. /\ diff' = Append(diff, OpenedAt(g))
          /\ hist[i].at \in Nat /\ hist[i].at <= Len(diff)
          /\ HeightOf(i) \in Int /\ HeightOf(i) <= g
      BY <1>1, <1>3, <1>4, <3>1, <3>3
    <3>5. LabelsAt(hist[i], diff', HeightOf(i))
      BY <1>0, <3>2, <3>4, PushedLabels
    <3> QED
      BY <1>2, <3>1, <3>5
  <2> QED
    BY <1>2, <2>1 DEF Labelled, LabelsAt
<1>9. DrainedLog'
  BY <1>1, <1>5 DEF DrainedLog, Drained, Newest
<1>10. Exact'
  <2>1. ASSUME NEW i \in 1..p
        PROVE  Remembered(hist'[i], diff', marks')
    <3>1. Remembered(hist[i], diff, marks)
      BY <1>0, <1>2 DEF Exact
    <3>2. Remembered(hist[i], diff', marks)
      BY <1>0, <1>1, <3>1, PushedRemembers
    <3> QED
      BY <1>1, <1>2, <3>2
  <2> QED
    BY <1>2, <2>1 DEF Exact, Remembered, AddedIn, Closed
<1> QED
  BY <1>0, <1>1, <1>6, <1>7, <1>8, <1>9, <1>10 DEF JournalInv, Closed

\* A cleaned journal knows nothing, and its open checkpoints found nothing.
LEMMA CleanStep ==
    ASSUME JournalInv, CleanJournal
    PROVE  JournalInv'
<1>0. JournalTypeOK /\ hist \in Seq(Found)
  BY DEF JournalInv, JournalTypeOK
<1>1. PICK n \in Nat : n = Len(hist)
  BY <1>0, JournalShape
<1>2. /\ marks' = {}
      /\ diff' = <<OpenedAt(0)>>
      /\ height' = 0
      /\ hist' = [i \in 1..n |-> [marks |-> {}, at |-> 0]]
  BY <1>1 DEF CleanJournal
<1>3. [marks |-> {}, at |-> 0] \in Found
  BY DEF Found
<1>4. /\ hist' \in Seq(Found)
      /\ Len(hist') = n
      /\ \A i \in 1..n : hist'[i].marks = {} /\ hist'[i].at = 0
  BY <1>2, <1>3
<1>5. /\ diff' \in Seq(Difference) /\ diff' # << >>
      /\ Len(diff') = 1
      /\ diff'[1].height = 0
  <2>1. OpenedAt(0) \in Difference /\ OpenedAt(0).height = 0
    BY DEF OpenedAt, Difference
  <2> QED
    BY <1>2, <2>1
<1>6. JournalTypeOK'
  BY <1>2, <1>4, <1>5 DEF JournalTypeOK
<1>7. CallsOrdered'
  BY <1>4, <1>5 DEF CallsOrdered
<1>8. Labelled'
  BY <1>2, <1>4, <1>5 DEF Labelled, LabelsAt, HeightOf
<1>9. DrainedLog'
  BY <1>2, <1>5 DEF DrainedLog, Drained, Newest
<1>10. Exact'
  BY <1>2, <1>4 DEF Exact, Remembered, Closed
<1> QED
  BY <1>2, <1>6, <1>7, <1>8, <1>9, <1>10 DEF JournalInv, Closed

\* The written slots are forgotten by the marks, the log and the history alike.
LEMMA ClearStep ==
    ASSUME JournalInv, ClearStorageWrites
    PROVE  JournalInv'
<1>0. JournalTypeOK /\ CallsOrdered /\ Labelled /\ DrainedLog /\ Exact /\ Closed(marks)
  BY DEF JournalInv
<1>1. PICK n \in Nat, L \in Nat \ {0} : n = Len(hist) /\ L = Len(diff)
  BY <1>0, JournalShape
<1>2. /\ marks' = marks \ WrittenMarks
      /\ diff' = [j \in 1..L |-> [diff[j] EXCEPT !.added = @ \ WrittenMarks]]
      /\ hist' = [i \in 1..n |-> [hist[i] EXCEPT !.marks = @ \ WrittenMarks]]
      /\ height' = height
  BY <1>1 DEF ClearStorageWrites
<1>3. ASSUME NEW j \in 1..L
      PROVE  /\ diff'[j] \in Difference
             /\ diff'[j].height = diff[j].height
             /\ diff'[j].added = diff[j].added \ WrittenMarks
  <2>1. diff[j] \in Difference
    BY <1>0, <1>1 DEF JournalTypeOK
  <2>2. diff'[j] = [diff[j] EXCEPT !.added = @ \ WrittenMarks]
    BY <1>2
  <2> QED
    BY <2>1, <2>2 DEF Difference
<1>4. ASSUME NEW i \in 1..n
      PROVE  /\ hist'[i] \in Found
             /\ hist'[i].at = hist[i].at
             /\ hist'[i].marks = hist[i].marks \ WrittenMarks
  <2>1. hist[i] \in Found
    BY <1>0, <1>1 DEF JournalTypeOK
  <2>2. hist'[i] = [hist[i] EXCEPT !.marks = @ \ WrittenMarks]
    BY <1>2
  <2> QED
    BY <2>1, <2>2 DEF Found
<1>5. diff' \in Seq(Difference) /\ Len(diff') = L /\ diff' # << >>
  <2>1. diff' = [j \in 1..L |-> diff'[j]]
    BY <1>2
  <2>2. diff' \in Seq(Difference) /\ Len(diff') = L
    BY <1>3, <2>1
  <2> QED
    BY <2>2, EmptySeq
<1>6. hist' \in Seq(Found) /\ Len(hist') = n
  <2>1. hist' = [i \in 1..n |-> hist'[i]]
    BY <1>2
  <2> QED
    BY <1>4, <2>1
<1>7. ASSUME NEW S, Closed(S)
      PROVE  Closed(S \ WrittenMarks)
  BY <1>7 DEF Closed, WrittenMarks, Warm
<1>8. JournalTypeOK'
  BY <1>0, <1>2, <1>5, <1>6 DEF JournalTypeOK
<1>9. CallsOrdered'
  BY <1>0, <1>1, <1>4, <1>5, <1>6 DEF CallsOrdered
<1>10. Labelled'
  <2>1. ASSUME NEW i \in 1..n
        PROVE  LabelsAt(hist'[i], diff', HeightOf(i)')
    <3>1. HeightOf(i)' = HeightOf(i)
      BY <1>1, <1>2, <1>6 DEF HeightOf
    <3>2. LabelsAt(hist[i], diff, HeightOf(i))
      BY <1>0, <1>1 DEF Labelled
    <3>3. hist[i].at \in Nat /\ hist[i].at < L
      BY <1>0, <1>1, JournalShape DEF CallsOrdered
    <3> QED
      BY <1>1, <1>3, <1>4, <1>5, <3>1, <3>2, <3>3 DEF LabelsAt
  <2> QED
    BY <1>6, <2>1 DEF Labelled, LabelsAt
<1>11. DrainedLog'
  <2>1. L \in 1..L /\ Newest'.height = Newest.height
    BY <1>1, <1>3, <1>5 DEF Newest
  <2>2. CASE Drained'
    <3>1. /\ L = 1 /\ Newest.height > height /\ marks \subseteq Kept
          /\ \A i \in 1..n : hist[i].at = 0
      BY <1>0, <1>1, <1>2, <2>1, <2>2 DEF DrainedLog, Drained
    <3>2. \A i \in 1..n : hist'[i].at = 0
      BY <1>4, <3>1
    <3> QED
      BY <1>2, <1>5, <1>6, <2>1, <3>1, <3>2 DEF DrainedLog
  <2> QED
    BY <2>2 DEF DrainedLog
<1>12. Exact'
  <2>1. ASSUME NEW i \in 1..n
        PROVE  Remembered(hist'[i], diff', marks')
    <3>1. Remembered(hist[i], diff, marks)
      BY <1>0, <1>1 DEF Exact
    <3>2. ASSUME NEW m, m \notin WrittenMarks
          PROVE  AddedIn(diff', m, hist[i].at) <=> AddedIn(diff, m, hist[i].at)
      BY <1>1, <1>3, <1>5, <3>2 DEF AddedIn
    <3>3. Closed(hist'[i].marks)
      BY <1>4, <1>7, <3>1 DEF Remembered
    <3> QED
      BY <1>2, <1>4, <3>1, <3>2, <3>3 DEF Remembered
  <2> QED
    BY <1>6, <2>1 DEF Exact, Remembered, AddedIn, Closed
<1>13. Closed(marks')
  BY <1>0, <1>2, <1>7
<1> QED
  BY <1>8, <1>9, <1>10, <1>11, <1>12, <1>13 DEF JournalInv, Closed

\* The walk back of a revert stops where the innermost checkpoint was taken.
LEMMA WalkStops ==
    ASSUME JournalInv, hist # << >>
    PROVE  UndoAfter = hist[Len(hist)].at
<1>1. JournalTypeOK /\ CallsOrdered /\ Labelled /\ height \in Int
  BY DEF JournalInv, JournalTypeOK
<1>2. PICK n \in Nat \ {0}, L \in Nat \ {0} : n = Len(hist) /\ L = Len(diff)
  BY <1>1, JournalShape, EmptySeq DEF JournalTypeOK
<1>3. n \in 1..n /\ HeightOf(n) = height
  BY <1>1, <1>2 DEF HeightOf
<1>4. LabelsAt(hist[n], diff, height)
  BY <1>1, <1>2, <1>3 DEF Labelled
<1>5. PICK z \in Nat : z = hist[n].at /\ z < L
  BY <1>1, <1>2, <1>3, JournalShape DEF CallsOrdered
<1>6. \A j \in 1..L : diff[j].height \in Int
  BY <1>1, <1>2, JournalShape
<1>7. \A j \in Lower : j \in 1..L /\ j <= z
  BY <1>1, <1>2, <1>4, <1>5, <1>6 DEF Lower, LabelsAt
<1>8. CASE z = 0
  <2>1. Lower = {}
    BY <1>7, <1>8
  <2> QED
    BY <1>2, <1>5, <1>8, <2>1 DEF UndoAfter
<1>9. CASE z # 0
  <2>1. z \in Lower
    BY <1>1, <1>2, <1>4, <1>5, <1>6, <1>9 DEF Lower, LabelsAt
  <2>2. \E i \in Lower : \A j \in Lower : j <= i
    BY <1>7, <2>1
  <2>3. UndoAfter \in Lower /\ \A j \in Lower : j <= UndoAfter
    BY <2>1, <2>2 DEF UndoAfter
  <2> QED
    BY <1>2, <1>5, <1>7, <2>1, <2>3
<1> QED
  BY <1>8, <1>9

\* A revert gives back the marks its checkpoint found, and keeps the kept one.
LEMMA RevertRestores ==
    ASSUME JournalInv, Revert
    PROVE  marks' = hist[Len(hist)].marks \cup (marks \cap Kept)
<1> DEFINE f == hist[Len(hist)]
<1>1. /\ hist # << >>
      /\ marks' = (marks \ Deleted(AddedAfter(UndoAfter))) \cup (marks \cap Kept)
  BY DEF Revert
<1>2. UndoAfter = f.at
  BY <1>1, WalkStops
<1>3. JournalTypeOK /\ Exact /\ marks \subseteq Marks
  BY DEF JournalInv, JournalTypeOK
<1>4. Len(hist) \in 1..Len(hist)
  BY <1>1, <1>3, JournalShape, EmptySeq DEF JournalTypeOK
<1>5. Remembered(f, diff, marks) /\ f.marks \subseteq Marks /\ f.at \in Nat
  BY <1>3, <1>4, JournalShape DEF Exact
<1>6. ASSUME NEW m
      PROVE  m \in AddedAfter(f.at) <=> AddedIn(diff, m, f.at)
  BY <1>3, <1>5, JournalShape DEF AddedAfter, AddedIn
<1>7. ASSUME NEW m \in f.marks
      PROVE  Warm(m.addr) \notin Kept
  BY DEF Warm, Kept, Touched
<1> HIDE DEF f
<1>8. ASSUME NEW m \in Marks \ Kept
      PROVE  m \in f.marks <=> m \in marks /\ m \notin Deleted(AddedAfter(f.at))
  <2>1. m \in f.marks <=> m \in marks /\ m \notin AddedAfter(f.at)
    BY <1>5, <1>6 DEF Remembered
  <2>2. ASSUME m \in f.marks, m.kind = "slot", Warm(m.addr) \in AddedAfter(f.at)
        PROVE  FALSE
    <3>1. Warm(m.addr) \in f.marks
      BY <1>5, <2>2 DEF Remembered, Closed
    <3>2. Warm(m.addr) \in Marks \ Kept
      BY <1>5, <1>7, <2>2, <3>1
    <3> QED
      BY <1>5, <1>6, <2>2, <3>1, <3>2 DEF Remembered
  <2> QED
    BY <2>1, <2>2 DEF Deleted
<1>9. ASSUME NEW m \in Kept, m \in f.marks
      PROVE  m \in marks
  BY <1>5, <1>9 DEF Remembered
<1>10. marks' = f.marks \cup (marks \cap Kept)
  BY <1>1, <1>2, <1>3, <1>5, <1>8, <1>9
<1> QED
  BY <1>10 DEF f

\* A revert keeps what the checkpoints further out know.
LEMMA RevertStep ==
    ASSUME JournalInv, Revert
    PROVE  JournalInv'
<1>0. JournalTypeOK /\ CallsOrdered /\ Labelled /\ Exact /\ Closed(marks) /\ height \in Int
  BY DEF JournalInv, JournalTypeOK
<1>1. /\ hist # << >>
      /\ diff' = SubSeq(diff, 1, LogAfterRevert)
      /\ height' = height - 1
      /\ hist' = SubSeq(hist, 1, Len(hist) - 1)
  BY DEF Revert
<1>2. PICK p \in Nat : /\ Len(hist) = p + 1
                       /\ hist' \in Seq(Found)
                       /\ Len(hist') = p
                       /\ \A i \in 1..p : hist'[i] = hist[i]
  BY <1>0, <1>1, MarksPopped
<1>3. PICK L \in Nat \ {0} : L = Len(diff)
  BY <1>0, JournalShape
<1>4. PICK f : f = hist[p + 1]
  OBVIOUS
<1>5. /\ \A j \in 1..L : diff[j].height \in Int
      /\ \A i \in 1..(p + 1) : hist[i].at \in Nat /\ hist[i].at < L
      /\ \A i \in 1..(p + 1) : hist[i].marks \subseteq Marks
  BY <1>0, <1>2, <1>3, JournalShape DEF CallsOrdered
<1>6. p + 1 \in 1..(p + 1) /\ \A i \in 1..p : i \in 1..(p + 1) /\ i < p + 1
  OBVIOUS
<1>7. f.at \in Nat /\ f.at < L /\ f.marks \subseteq Marks
  BY <1>4, <1>5, <1>6
<1>8. /\ Remembered(f, diff, marks)
      /\ LabelsAt(f, diff, height)
  <2>1. HeightOf(p + 1) = height
    BY <1>0, <1>2 DEF HeightOf
  <2> QED
    BY <1>0, <1>2, <1>4, <1>6, <2>1 DEF Exact, Labelled
<1>9. marks' = f.marks \cup (marks \cap Kept)
  BY <1>2, <1>4, RevertRestores
<1>10. PICK k \in 1..L : /\ diff' = SubSeq(diff, 1, k)
                         /\ f.at = 0 => k = 1
                         /\ f.at # 0 => k = f.at
  <2>1. UndoAfter = f.at
    BY <1>1, <1>2, <1>4, WalkStops
  <2> QED
    BY <1>1, <1>7, <2>1 DEF LogAfterRevert
<1>11. /\ diff' \in Seq(Difference)
       /\ Len(diff') = k
       /\ \A j \in 1..k : j \in 1..L /\ diff'[j] = diff[j]
  <2>1. diff \in Seq(Difference) /\ k \in 0..Len(diff)
    BY <1>0, <1>3 DEF JournalTypeOK
  <2> QED
    BY <1>3, <1>10, <2>1, Prefix
<1>12. ASSUME NEW i \in 1..p
       PROVE  /\ hist[i].at \in Nat
              /\ hist[i].at < k
              /\ f.at = 0 => hist[i].at = 0
              /\ f.at # 0 => hist[i].at < f.at
  <2>1. hist[i].at < f.at \/ (hist[i].at = 0 /\ f.at = 0)
    BY <1>0, <1>2, <1>4, <1>6 DEF CallsOrdered
  <2> QED
    BY <1>5, <1>6, <1>7, <1>10, <2>1
<1>13. JournalTypeOK'
  <2>1. diff' # << >>
    BY <1>11, EmptySeq
  <2>2. marks' \subseteq Marks
    BY <1>0, <1>7, <1>9 DEF JournalTypeOK
  <2> QED
    BY <1>0, <1>1, <1>2, <1>11, <2>1, <2>2 DEF JournalTypeOK
<1>14. CallsOrdered'
  BY <1>0, <1>2, <1>6, <1>11, <1>12 DEF CallsOrdered
<1>15. Labelled'
  <2>1. ASSUME NEW i \in 1..p
        PROVE  LabelsAt(hist'[i], diff', HeightOf(i)')
    <3>1. HeightOf(i)' = HeightOf(i)
      BY <1>0, <1>1, <1>2 DEF HeightOf
    <3>2. LabelsAt(hist[i], diff, HeightOf(i))
      BY <1>0, <1>2, <1>6 DEF Labelled
    <3>3. LabelsAt(hist[i], diff', HeightOf(i))
      BY <1>3, <1>11, <1>12, <3>2 DEF LabelsAt
    <3> QED
      BY <1>2, <3>1, <3>3
  <2> QED
    BY <1>2, <2>1 DEF Labelled, LabelsAt
<1>16. DrainedLog'
  <2>1. CASE f.at = 0
    <3>1. Len(diff') = 1 /\ diff'[1].height > height'
      <4>1. k = 1 /\ Len(diff') = 1 /\ diff'[1] = diff[1] /\ 1 \in 1..L
        BY <1>10, <1>11, <2>1
      <4>2. diff[1].height \in Int /\ diff[1].height >= height
        BY <1>3, <1>5, <1>8, <2>1, <4>1 DEF LabelsAt
      <4>3. height \in Int /\ height' = height - 1
        BY <1>0, <1>1
      <4> QED
        BY <4>1, <4>2, <4>3
    <3>2. marks' \subseteq Kept
      BY <1>8, <1>9, <2>1 DEF Remembered
    <3>3. \A i \in 1..p : hist'[i].at = 0
      BY <1>2, <1>12, <2>1
    <3> QED
      BY <1>2, <3>1, <3>2, <3>3 DEF DrainedLog, Newest
  <2>2. CASE f.at # 0
    <3>1. diff'[Len(diff')].height = height'
      BY <1>0, <1>1, <1>7, <1>8, <1>10, <1>11, <2>2 DEF LabelsAt
    <3> QED
      BY <3>1 DEF DrainedLog, Drained, Newest
  <2> QED
    BY <2>1, <2>2
<1>17. Exact'
  <2>1. ASSUME NEW i \in 1..p
        PROVE  Remembered(hist[i], diff', marks')
    <3>1. Remembered(hist[i], diff, marks)
      BY <1>0, <1>2, <1>6 DEF Exact
    <3>2. CASE f.at = 0
      <4>1. hist[i].marks \subseteq Kept /\ marks' \subseteq Kept
        BY <1>8, <1>9, <1>12, <3>1, <3>2 DEF Remembered
      <4> QED
        BY <1>9, <3>1, <4>1 DEF Remembered
    <3>3. CASE f.at # 0
      <4>1. ASSUME NEW m
            PROVE  AddedIn(diff, m, hist[i].at)
                       <=> AddedIn(diff', m, hist[i].at) \/ AddedIn(diff, m, f.at)
        <5>1. k = f.at /\ hist[i].at \in Nat /\ hist[i].at < k
          BY <1>10, <1>12, <3>3
        <5>2. ASSUME NEW j \in 1..L, hist[i].at < j, m \in diff[j].added
              PROVE  AddedIn(diff', m, hist[i].at) \/ AddedIn(diff, m, f.at)
          <6>1. CASE j <= k
            <7>1. j \in 1..k
              BY <6>1
            <7> QED
              BY <1>11, <5>2, <7>1 DEF AddedIn
          <6>2. CASE k < j
            BY <1>3, <5>1, <5>2, <6>2 DEF AddedIn
          <6> QED
            BY <6>1, <6>2
        <5>3. ASSUME AddedIn(diff', m, hist[i].at)
              PROVE  AddedIn(diff, m, hist[i].at)
          BY <1>3, <1>11, <5>3 DEF AddedIn
        <5>4. ASSUME AddedIn(diff, m, f.at)
              PROVE  AddedIn(diff, m, hist[i].at)
          BY <1>3, <5>1, <5>4 DEF AddedIn
        <5>5. ASSUME AddedIn(diff, m, hist[i].at)
              PROVE  AddedIn(diff', m, hist[i].at) \/ AddedIn(diff, m, f.at)
          BY <1>3, <5>2, <5>5 DEF AddedIn
        <5> QED
          BY <5>3, <5>4, <5>5
      <4>2. hist[i].at = 0 => hist[i].marks \subseteq Kept
        BY <3>1 DEF Remembered
      <4> QED
        BY <1>8, <1>9, <3>1, <4>1, <4>2 DEF Remembered
    <3> QED
      BY <3>2, <3>3
  <2>2. ASSUME NEW i \in 1..p
        PROVE  Remembered(hist'[i], diff', marks')
    BY <1>2, <2>1
  <2> QED
    BY <1>2, <2>2 DEF Exact, Remembered, AddedIn, Closed
<1>18. Closed(marks')
  <2>1. ASSUME NEW m \in marks', m.kind = "slot"
        PROVE  Warm(m.addr) \in marks'
    <3>1. m \notin Kept
      BY <2>1 DEF Kept, Touched
    <3> QED
      BY <1>8, <1>9, <2>1, <3>1 DEF Remembered, Closed
  <2> QED
    BY <2>1 DEF Closed
<1> QED
  BY <1>13, <1>14, <1>15, <1>16, <1>17, <1>18 DEF JournalInv, Closed
-----------------------------------------------------------------------------
\* The invariant is inductive.
LEMMA Preserved ==
    ASSUME JournalInv, [JournalNext]_journalVars
    PROVE  JournalInv'
<1>1. ASSUME NEW a \in Addrs, AddWarmedAddress(a) \/ TouchAccount(a)
      PROVE  JournalInv'
  <2>1. {Warm(a)} \in SUBSET Marks /\ {Touched(a)} \in SUBSET Marks
    BY DEF Warm, Touched, Marks
  <2>2. Closed({Warm(a)}) /\ Closed({Touched(a)})
    BY DEF Closed, Warm, Touched
  <2> QED
    BY <1>1, <2>1, <2>2, NoteStep DEF AddWarmedAddress, TouchAccount
<1>2. ASSUME NEW a \in Addrs, NEW s \in Slots,
             AddWarmedStorage(a, s) \/ RecordStorageWrite(a, s)
      PROVE  JournalInv'
  <2>1. {Warm(a), WarmSlot(a, s)} \in SUBSET Marks /\ {Written(a, s)} \in SUBSET Marks
    BY DEF Warm, WarmSlot, Written, Marks
  <2>2. Closed({Warm(a), WarmSlot(a, s)}) /\ Closed({Written(a, s)})
    BY DEF Closed, Warm, WarmSlot, Written
  <2> QED
    BY <1>2, <2>1, <2>2, NoteStep DEF AddWarmedStorage, RecordStorageWrite
<1>3. CASE CheckpointRejected \/ StateManagerRejects \/ UNCHANGED journalVars
  BY <1>3 DEF CheckpointRejected, StateManagerRejects, journalVars, JournalInv, JournalTypeOK, CallsOrdered, Labelled,
              LabelsAt, HeightOf, DrainedLog, Drained, Newest, Exact, Remembered, AddedIn, Closed
<1> QED
  BY <1>1, <1>2, <1>3, CheckpointStep, JournalCommitStep, RevertStep, CleanStep, ClearStep DEF JournalNext

\* The labels of the log delimit the message calls, whatever the order of
\* checkpoints, commits, reverts, rejections and cleanups.
THEOREM JournalLabels == JournalSpec => []JournalSound
<1>1. JournalInit => JournalInv
  BY JournalStarts
<1>2. JournalInv /\ [JournalNext]_journalVars => JournalInv'
  BY Preserved
<1>3. ASSUME JournalInv
      PROVE  JournalSound
  <2>1. JournalTypeOK /\ CallsOrdered /\ Labelled /\ height \in Int
    BY <1>3 DEF JournalInv, JournalTypeOK
  <2>2. ASSUME NEW i \in 1..Len(hist)
        PROVE  /\ hist[i].at <= Len(diff)
               /\ \A j \in (hist[i].at + 1)..Len(diff) : diff[j].height >= HeightOf(i)
               /\ hist[i].at > 0 => diff[hist[i].at].height < HeightOf(i)
    <3>1. LabelsAt(hist[i], diff, HeightOf(i)) /\ hist[i].at < Len(diff)
      BY <2>1 DEF Labelled, CallsOrdered
    <3>2. hist[i].at \in Nat /\ Len(diff) \in Nat /\ HeightOf(i) \in Int
      BY <2>1, JournalShape DEF HeightOf
    <3> QED
      BY <3>1, <3>2 DEF LabelsAt
  <2> QED
    BY <2>1, <2>2 DEF LabelsDelimit, JournalSound
<1> QED
  BY <1>1, <1>2, <1>3, PTL DEF JournalSpec

\* A reverted message call leaves no mark of its own and takes none of the
\* enclosing calls', for every nesting of committed and reverted calls.
THEOREM JournalRevertExact == JournalSpec => RevertExact
<1>1. JournalInit => JournalInv
  BY JournalStarts
<1>2. JournalInv /\ [JournalNext]_journalVars => JournalInv'
  BY Preserved
<1>3. JournalInv /\ [JournalNext]_journalVars
          => [Revert => marks' = hist[Len(hist)].marks \cup (marks \cap Kept)]_journalVars
  BY RevertRestores
<1> QED
  BY <1>1, <1>2, <1>3, PTL DEF JournalSpec, RevertExact

-----------------------------------------------------------------------------
(***************************************************************************)
(* Frames.                                                                 *)
(***************************************************************************)

OpenedCheckpoint == [state : SUBSET Write, owner : Ids, layer : {"own", "exec"}]
FrameRecord == [id : 1..Len(log), pc : Pcs, outer : BOOLEAN, exec : BOOLEAN]

\* Blocks and builders are called by the user; the frames around a frame are
\* older and form a chain.
Lineage ==
    \A f \in 1..Len(log) :
       /\ log[f].path \subseteq 1..(f - 1)
       /\ \A p \in log[f].path : log[p].path \subseteq log[f].path
       /\ log[f].kind \in {"block", "builder"} => log[f].path = {}

\* The frames that run are the path of the innermost one.
Nested ==
    \A i \in Running : log[frames[i].id].path = {frames[j].id : j \in 1..(i - 1)}

\* The places of each kind of frame, the checkpoints it then holds and how it
\* may have been judged already.
Suits(k, v, x) ==
    \/ /\ k = "call" /\ x.outer
       /\ \/ x.pc = "init" /\ ~x.exec /\ v = "open"
          \/ x.pc = "exec" /\ x.exec /\ v = "open"
          \/ x.pc = "after" /\ ~x.exec /\ v \in {"open", "fail"}
          \/ x.pc = "unwind" /\ v \in {"open", "fail"}
          \/ x.pc = "torn" /\ ~x.exec /\ v \in {"kept", "fail"}
    \/ /\ k = "tx" /\ x.outer /\ ~x.exec
       /\ \/ x.pc \in {"setup", "charged", "called", "settle", "unwind"} /\ v = "open"
          \/ x.pc = "torn" /\ v = "kept"
    \/ k = "block" /\ x.outer /\ ~x.exec /\ x.pc \in {"body", "unwind"} /\ v = "open"
    \/ k = "code" /\ ~x.outer /\ ~x.exec /\ x.pc \in {"exec", "unwind"} /\ v = "open"
    \/ /\ k = "builder" /\ ~x.exec
       /\ \/ x.pc = "pending" /\ v = "open"
          \/ x.pc = "build" /\ x.outer /\ v = "open"
          \/ x.pc = "build" /\ ~x.outer /\ v = "ok"
          \/ x.pc = "reverted" /\ ~x.outer /\ v \in {"throw", "ok"}
          \/ x.pc = "torn" /\ x.outer /\ v = "kept"

\* Only a frame at one of these places has a frame running inside it.
Waits(x) == x.pc \in {"exec", "called", "body"} \/ (x.pc = "pending" /\ x.outer)

Shaped ==
    \A i \in Running : /\ Suits(log[frames[i].id].kind, log[frames[i].id].verdict, frames[i])
                       /\ i < Len(frames) => Waits(frames[i])

\* A block whose commit failed ended before any frame that runs now began.
Gone ==
    \A f \in 1..Len(log) : log[f].verdict = "left" => \A i \in Running : f < frames[i].id

\* The writes that the checkpoint of frame f for layer l takes back.
Inside(w, f, l) ==
    \/ f \in log[w.frame].path
    \/ w.frame = f /\ w.layer \in (IF l = "own" THEN {"own", "exec"} ELSE {"exec"})

\* A checkpoint that will be closed holds every surviving write made outside
\* its owner; the outer one is the state its owner found.
Holding(c) ==
    /\ log[c.owner].verdict # "left"
         => c.state = {w \in written : ~Undone(w) /\ ~Inside(w, c.owner, c.layer)}
    /\ c.layer = "own" /\ log[c.owner].kind # "builder" => c.state = log[c.owner].found
Snapshots == \A k \in 1..Len(cps) : Holding(cps[k])

\* Every write has a frame, and a frame that is about to open a checkpoint has
\* written nothing that the checkpoint would have to take back.
Authors == \A w \in written : w.frame \in 1..Len(log)
Uncovered ==
    /\ At("builder", "pending") /\ ~Top.outer => \A w \in written : ~Inside(w, Top.id, "own")
    /\ At("call", "init") => \A w \in written : ~Inside(w, Top.id, "exec")

FramesInv == TypeOK /\ Lineage /\ Nested /\ Shaped /\ Gone
WritesInv == Surviving /\ Snapshots /\ Authors /\ Uncovered
IInv == FramesInv /\ Accounted /\ WritesInv
-----------------------------------------------------------------------------
(* Sequences, and the stack of checkpoints as the names it holds *)

\* Dropping the last element of a sequence keeps the others.
LEMMA PopFacts ==
    ASSUME NEW S, NEW s \in Seq(S), NEW n \in 0..Len(s)
    PROVE  /\ SubSeq(s, 1, Len(s) - n) \in Seq(S)
           /\ Len(SubSeq(s, 1, Len(s) - n)) = Len(s) - n
           /\ \A i \in 1..(Len(s) - n) : SubSeq(s, 1, Len(s) - n)[i] = s[i]
<1>1. Len(s) \in Nat
  BY LenProperties
<1>2. PICK m \in 0..Len(s) : m = Len(s) - n
  <2>1. \A k \in Nat : n \in 0..k => k - n \in 0..k
    OBVIOUS
  <2> QED
    BY <1>1, <2>1
<1>3. \A i \in 1..m : s[i] \in S
  BY <1>1
<1>4. /\ SubSeq(s, 1, m) \in Seq(S)
      /\ Len(SubSeq(s, 1, m)) = IF 1 <= m THEN m - 1 + 1 ELSE 0
      /\ \A i \in 1..m - 1 + 1 : SubSeq(s, 1, m)[i] = s[1 + i - 1]
  BY <1>1, <1>3, SubSeqProperties
<1>5. \A i \in 1..m : SubSeq(s, 1, m)[i] = s[i]
  BY <1>1, <1>4
<1> QED
  BY <1>1, <1>2, <1>4, <1>5

Name(c) == <<c.owner, c.layer>>
Names(q) == {Name(q[k]) : k \in 1..Len(q)}
Before(x, y) == x[1] < y[1] \/ (x[1] = y[1] /\ x[2] = "own" /\ y[2] = "exec")
Ordered(q) == \A j, k \in 1..Len(q) : j < k => Outside(q[j], q[k])
Titles == Ids \X {"own", "exec"}

\* Accounted in terms of the names on the stack.
LEMMA AccountedNames == Accounted <=> Names(cps) = Owned \cup Abandoned /\ Ordered(cps)
BY DEF Accounted, Names, Name, Ordered

LEMMA AccountedNamesPrime ==
    Accounted' <=> Names(cps') = Owned' \cup Abandoned' /\ Ordered(cps')
BY DEF Accounted, Names, Name, Ordered, Outside

\* A checkpoint with a later name than all others goes on top.
LEMMA PushOrdered ==
    ASSUME NEW q \in Seq(OpenedCheckpoint), Ordered(q), NEW c \in OpenedCheckpoint,
           \A y \in Names(q) : Before(y, Name(c))
    PROVE  /\ Append(q, c) \in Seq(OpenedCheckpoint)
           /\ Len(Append(q, c)) = Len(q) + 1
           /\ \A k \in 1..Len(q) : Append(q, c)[k] = q[k]
           /\ Append(q, c)[Len(q) + 1] = c
           /\ Names(Append(q, c)) = Names(q) \cup {Name(c)}
           /\ Ordered(Append(q, c))
<1> DEFINE r == Append(q, c)
<1>1. /\ Len(q) \in Nat
      /\ r \in Seq(OpenedCheckpoint)
      /\ Len(r) = Len(q) + 1
      /\ \A k \in 1..Len(q) : r[k] = q[k]
      /\ r[Len(q) + 1] = c
  BY AppendProperties
<1> HIDE DEF r
<1>2. 1..Len(r) = 1..Len(q) \cup {Len(q) + 1}
  BY <1>1
<1>3. Names(r) = Names(q) \cup {Name(c)}
  <2>1. ASSUME NEW k \in 1..Len(r)
        PROVE  Name(r[k]) \in Names(q) \cup {Name(c)}
    BY <1>1, <1>2 DEF Names
  <2>2. ASSUME NEW k \in 1..Len(q)
        PROVE  Name(q[k]) \in Names(r)
    BY <1>1, <1>2 DEF Names
  <2>3. Name(c) \in Names(r)
    BY <1>1, <1>2 DEF Names
  <2> QED
    BY <2>1, <2>2, <2>3 DEF Names
<1>4. Ordered(r)
  <2> SUFFICES ASSUME NEW j \in 1..Len(r), NEW k \in 1..Len(r), j < k
               PROVE  Outside(r[j], r[k])
    BY DEF Ordered
  <2>1. j \in 1..Len(q)
    BY <1>1, <1>2
  <2>2. CASE k \in 1..Len(q)
    BY <1>1, <2>1, <2>2 DEF Ordered
  <2>3. CASE k = Len(q) + 1
    <3>1. Before(Name(q[j]), Name(c))
      BY <2>1 DEF Names
    <3> QED
      BY <1>1, <2>1, <2>3, <3>1 DEF Before, Name, Outside
  <2> QED
    BY <1>2, <2>2, <2>3
<1> QED
  BY <1>1, <1>3, <1>4 DEF r

\* The latest name is that of the top checkpoint, and popping takes it away.
LEMMA PopOrdered ==
    ASSUME NEW q \in Seq(OpenedCheckpoint), Ordered(q), NEW x \in Names(q),
           \A y \in Names(q) \ {x} : Before(y, x)
    PROVE  /\ Len(q) \in Nat \ {0}
           /\ Name(q[Len(q)]) = x
           /\ SubSeq(q, 1, Len(q) - 1) \in Seq(OpenedCheckpoint)
           /\ Len(SubSeq(q, 1, Len(q) - 1)) = Len(q) - 1
           /\ \A k \in 1..(Len(q) - 1) : SubSeq(q, 1, Len(q) - 1)[k] = q[k]
           /\ Names(SubSeq(q, 1, Len(q) - 1)) = Names(q) \ {x}
           /\ Ordered(SubSeq(q, 1, Len(q) - 1))
<1> DEFINE n == Len(q)
           r == SubSeq(q, 1, n - 1)
<1>1. PICK i \in 1..n : Name(q[i]) = x
  BY DEF Names
<1>2. n \in Nat \ {0}
  BY <1>1
<1>3. \A k \in 1..n : q[k].owner \in Nat /\ q[k].layer \in {"own", "exec"}
  <2>1. \A k \in 1..n : q[k] \in OpenedCheckpoint
    BY ElementOfSeq
  <2> QED
    BY <2>1, ExecutionAssumption DEF OpenedCheckpoint, Ids
<1>4. \A j, k \in 1..n : j < k => Before(Name(q[j]), Name(q[k])) /\ Name(q[j]) # Name(q[k])
  <2> SUFFICES ASSUME NEW j \in 1..n, NEW k \in 1..n, j < k
               PROVE  Before(Name(q[j]), Name(q[k])) /\ Name(q[j]) # Name(q[k])
    OBVIOUS
  <2>1. Outside(q[j], q[k])
    BY DEF Ordered
  <2> QED
    BY <1>3, <2>1 DEF Outside, Before, Name
<1>5. i = n
  <2>1. SUFFICES ASSUME i < n PROVE FALSE
    BY <1>2
  <2>2. Before(x, Name(q[n])) /\ Name(q[n]) # x
    BY <1>1, <1>2, <1>4, <2>1
  <2>3. Before(Name(q[n]), x)
    BY <1>2, <2>2 DEF Names
  <2> QED
    BY <1>1, <1>2, <1>3, <2>2, <2>3 DEF Before, Name
<1>6. /\ r \in Seq(OpenedCheckpoint)
      /\ Len(r) = n - 1
      /\ \A k \in 1..(n - 1) : r[k] = q[k]
  <2>1. 1 \in 0..n
    BY <1>2
  <2> QED
    BY <2>1, PopFacts
<1> HIDE DEF r
<1>7. Names(r) = Names(q) \ {x}
  <2>1. ASSUME NEW k \in 1..Len(r)
        PROVE  Name(r[k]) \in Names(q) \ {x}
    BY <1>1, <1>2, <1>4, <1>5, <1>6 DEF Names
  <2>2. ASSUME NEW k \in 1..n, Name(q[k]) # x
        PROVE  Name(q[k]) \in Names(r)
    BY <1>1, <1>2, <1>5, <1>6, <2>2 DEF Names
  <2> QED
    BY <2>1, <2>2 DEF Names
<1>8. Ordered(r)
  BY <1>2, <1>6 DEF Ordered
<1> QED
  BY <1>1, <1>2, <1>5, <1>6, <1>7, <1>8 DEF r
-----------------------------------------------------------------------------
(* Frames, and what they hold *)

Holds(x) == (IF x.outer /\ x.pc # "torn" THEN {<<x.id, "own">>} ELSE {})
               \cup (IF x.exec THEN {<<x.id, "exec">>} ELSE {})
HoldsOf(s) == UNION {Holds(s[i]) : i \in 1..Len(s)}
HoldsBelow == UNION {Holds(frames[i]) : i \in 1..(Len(frames) - 1)}

LEMMA OwnedIsHeld == Owned = HoldsOf(frames)
<1>1. ASSUME NEW y \in Owned PROVE y \in HoldsOf(frames)
  BY <1>1 DEF Owned, HoldsOf, Holds, Running
<1>2. ASSUME NEW i \in 1..Len(frames), NEW y \in Holds(frames[i]) PROVE y \in Owned
  BY <1>2 DEF Owned, Holds, Running
<1> QED
  BY <1>1, <1>2 DEF HoldsOf

LEMMA OwnedIsHeldPrime == Owned' = HoldsOf(frames')
<1>1. ASSUME NEW y \in Owned' PROVE y \in HoldsOf(frames')
  BY <1>1 DEF Owned, HoldsOf, Holds, Running
<1>2. ASSUME NEW i \in 1..Len(frames'), NEW y \in Holds(frames'[i]) PROVE y \in Owned'
  BY <1>2 DEF Owned, Holds, Running
<1> QED
  BY <1>1, <1>2 DEF HoldsOf

\* What the invariant says of each frame and of each entry of the history.
LEMMA FrameFacts ==
    ASSUME FramesInv
    PROVE  /\ Len(log) \in Nat /\ Len(frames) \in Nat /\ Len(cps) \in Nat
           /\ \A f \in 1..Len(log) : log[f] \in Entry /\ f \in Ids
           /\ \A i \in Running : frames[i] \in FrameRecord
           /\ \A i \in Running, j \in Running :
                 j < i => /\ frames[j].id < frames[i].id
                          /\ frames[j].id \in log[frames[i].id].path
           /\ \A k \in 1..Len(cps) : cps[k] \in OpenedCheckpoint
<1>1. /\ Len(log) \in Nat /\ Len(frames) \in Nat /\ Len(cps) \in Nat
      /\ \A f \in 1..Len(log) : log[f] \in Entry
      /\ \A i \in Running : frames[i] \in FrameRecord
      /\ \A k \in 1..Len(cps) : cps[k] \in OpenedCheckpoint
  <2>1. log \in Seq(Entry) /\ frames \in Seq(FrameRecord) /\ cps \in Seq(OpenedCheckpoint)
    BY DEF FramesInv, TypeOK, FrameRecord, OpenedCheckpoint
  <2> QED
    BY <2>1, LenProperties, ElementOfSeq DEF Running
<1>2. \A f \in 1..Len(log) : f \in Ids
  BY <1>1, ExecutionAssumption DEF FramesInv, TypeOK, Ids
<1>3. ASSUME NEW i \in Running, NEW j \in Running, j < i
      PROVE  /\ frames[j].id < frames[i].id
             /\ frames[j].id \in log[frames[i].id].path
  <2>1. frames[i].id \in 1..Len(log)
    BY <1>1 DEF FrameRecord
  <2>2. frames[j].id \in log[frames[i].id].path
    BY <1>1, <1>3 DEF FramesInv, Nested, Running
  <2>3. log[frames[i].id].path \subseteq 1..(frames[i].id - 1)
    BY <2>1 DEF FramesInv, Lineage
  <2> QED
    BY <1>1, <2>1, <2>2, <2>3
<1> QED
  BY <1>1, <1>2, <1>3

LEMMA TopFacts ==
    ASSUME FramesInv, frames # << >>
    PROVE  /\ Len(frames) \in Running
           /\ Top \in FrameRecord
           /\ Top.id \in 1..Len(log)
           /\ \A i \in Running : i < Len(frames) => /\ frames[i].id < Top.id
                                                    /\ frames[i].id \in log[Top.id].path
           /\ \A i \in Running : frames[i].id = Top.id => i = Len(frames)
           /\ log[Top.id].path = {frames[i].id : i \in 1..(Len(frames) - 1)}
           /\ Suits(Kind, log[Top.id].verdict, Top)
<1>1. Len(frames) \in Nat /\ Len(frames) # 0 /\ Len(frames) \in Running
  <2>1. frames \in Seq(FrameRecord)
    BY DEF FramesInv, TypeOK, FrameRecord
  <2> QED
    BY <2>1, EmptySeq DEF Running
<1>2. Top \in FrameRecord
  BY <1>1, FrameFacts DEF Top
<1>3. \A i \in Running : i < Len(frames) => /\ frames[i].id < Top.id
                                           /\ frames[i].id \in log[Top.id].path
  BY <1>1, FrameFacts DEF Top
<1>4. ASSUME NEW i \in Running, frames[i].id = Top.id
      PROVE  i = Len(frames)
  <2>1. ~(i < Len(frames))
    <3>1. frames[i].id \in 1..Len(log)
      BY FrameFacts DEF FrameRecord
    <3> QED
      BY <1>3, <1>4, <3>1, FrameFacts
  <2> QED
    BY <1>1, <2>1 DEF Running
<1>5. Suits(Kind, log[Top.id].verdict, Top)
  BY <1>1 DEF FramesInv, Shaped, Top, Kind
<1>6. log[Top.id].path = {frames[i].id : i \in 1..(Len(frames) - 1)}
  BY <1>1 DEF FramesInv, Nested, Top
<1> QED
  BY <1>1, <1>2, <1>3, <1>4, <1>5, <1>6 DEF FrameRecord

\* Judging the innermost frame changes nothing but its verdict.
LEMMA JudgedFacts ==
    ASSUME FramesInv, frames # << >>, NEW v \in Verdicts
    PROVE  /\ Judged(v) \in Seq(Entry)
           /\ Len(Judged(v)) = Len(log)
           /\ \A f \in 1..Len(log) :
                 /\ Judged(v)[f].kind = log[f].kind
                 /\ Judged(v)[f].path = log[f].path
                 /\ Judged(v)[f].found = log[f].found
                 /\ Judged(v)[f].verdict = IF f = Top.id THEN v ELSE log[f].verdict
<1>1. Top.id \in 1..Len(log) /\ log \in Seq(Entry) /\ log[Top.id] \in Entry
  BY TopFacts, FrameFacts DEF FramesInv, TypeOK
<1> DEFINE e == [log[Top.id] EXCEPT !.verdict = v]
<1>2. /\ e \in Entry /\ e.kind = log[Top.id].kind /\ e.path = log[Top.id].path
      /\ e.found = log[Top.id].found /\ e.verdict = v
  BY <1>1 DEF Entry
<1>3. Judged(v) = [log EXCEPT ![Top.id] = e]
  BY DEF Judged
<1> HIDE DEF e
<1>4. /\ Judged(v) \in Seq(Entry)
      /\ Len(Judged(v)) = Len(log)
      /\ \A f \in 1..Len(log) : Judged(v)[f] = IF f = Top.id THEN e ELSE log[f]
  BY <1>1, <1>2, <1>3, ExceptSeq
<1> QED
  BY <1>2, <1>4

\* A history that keeps its verdicts is judged as it was.
LEMMA JudgedSame ==
    ASSUME FramesInv, frames # << >>
    PROVE  log = Judged(log[Top.id].verdict) /\ log[Top.id].verdict \in Verdicts
<1>1. log[Top.id] \in Entry /\ log \in Seq(Entry) /\ Top.id \in 1..Len(log)
  BY TopFacts, FrameFacts DEF FramesInv, TypeOK
<1>2. log[Top.id].verdict \in Verdicts
  BY <1>1 DEF Entry
<1>3. [log[Top.id] EXCEPT !.verdict = log[Top.id].verdict] = log[Top.id]
  BY <1>1 DEF Entry
<1>4. Judged(log[Top.id].verdict) = log
  BY <1>1, <1>3 DEF Judged
<1> QED
  BY <1>2, <1>4

WithTop(x) == [frames EXCEPT ![Len(frames)] = x]

LEMMA WithTopFacts ==
    ASSUME FramesInv, frames # << >>, NEW x \in FrameRecord
    PROVE  /\ WithTop(x) \in Seq(FrameRecord)
           /\ Len(WithTop(x)) = Len(frames)
           /\ \A i \in Running : WithTop(x)[i] = IF i = Len(frames) THEN x ELSE frames[i]
           /\ HoldsOf(WithTop(x)) = HoldsBelow \cup Holds(x)
<1>1. frames \in Seq(FrameRecord) /\ Len(frames) \in 1..Len(frames) /\ Len(frames) \in Nat
  BY TopFacts DEF FramesInv, TypeOK, FrameRecord, Running
<1>2. /\ WithTop(x) \in Seq(FrameRecord)
      /\ Len(WithTop(x)) = Len(frames)
      /\ \A i \in 1..Len(frames) : WithTop(x)[i] = IF i = Len(frames) THEN x ELSE frames[i]
  BY <1>1, ExceptSeq DEF WithTop
<1>3. HoldsOf(WithTop(x)) = HoldsBelow \cup Holds(x)
  BY <1>1, <1>2 DEF HoldsOf, HoldsBelow
<1> QED
  BY <1>2, <1>3 DEF Running
-----------------------------------------------------------------------------
(* The three ways in which frames and history change *)

\* The innermost frame moves to another place, judged or not.
LEMMA TopMoves ==
    ASSUME FramesInv, frames # << >>,
           NEW x \in FrameRecord, x.id = Top.id, x.exec => x.pc \in {"exec", "unwind"},
           NEW v \in Verdicts \ {"left"}, Suits(Kind, v, x),
           frames' = WithTop(x), log' = Judged(v)
    PROVE  /\ Len(log') = Len(log)
           /\ log' \in Seq(Entry)
           /\ frames' \in Seq(FrameRecord')
           /\ \A i \in 1..Len(frames') : frames'[i].exec => frames'[i].pc \in {"exec", "unwind"}
           /\ (Lineage /\ Nested /\ Shaped /\ Gone)'
           /\ Owned' = HoldsBelow \cup Holds(x)
           /\ Abandoned' = Abandoned
           /\ frames' # << >> /\ Top' = x /\ Kind' = Kind
<1>1. /\ log' \in Seq(Entry)
      /\ Len(log') = Len(log)
      /\ \A f \in 1..Len(log) :
            /\ log'[f].kind = log[f].kind
            /\ log'[f].path = log[f].path
            /\ log'[f].verdict = IF f = Top.id THEN v ELSE log[f].verdict
  BY JudgedFacts
<1>2. /\ frames' \in Seq(FrameRecord)
      /\ Len(frames') = Len(frames)
      /\ \A i \in Running : frames'[i] = IF i = Len(frames) THEN x ELSE frames[i]
      /\ HoldsOf(frames') = HoldsBelow \cup Holds(x)
  BY WithTopFacts
<1>3. /\ Len(log) \in Nat /\ Len(frames) \in Nat
      /\ Len(frames) \in Running /\ Top.id \in 1..Len(log)
      /\ \A i \in Running : frames[i].id = Top.id => i = Len(frames)
      /\ \A i \in Running : frames[i].id \in 1..Len(log)
      /\ Running' = Running
  BY <1>2, TopFacts, FrameFacts DEF FrameRecord, Running
<1>4. \A i \in Running : frames'[i].id = frames[i].id
  BY <1>2, <1>3 DEF Top
<1>5. FrameRecord' = FrameRecord
  BY <1>1 DEF FrameRecord
<1>6. \A i \in 1..Len(frames') : frames'[i].exec => frames'[i].pc \in {"exec", "unwind"}
  BY <1>2 DEF FramesInv, TypeOK, Running
<1>7. Lineage'
  BY <1>1 DEF FramesInv, Lineage
<1>8. Nested'
  <2> SUFFICES ASSUME NEW i \in Running
               PROVE  log'[frames'[i].id].path = {frames'[j].id : j \in 1..(i - 1)}
    BY <1>3 DEF Nested
  <2>1. \A j \in 1..(i - 1) : j \in Running
    BY <1>3 DEF Running
  <2>2. log'[frames'[i].id].path = log[frames[i].id].path
    BY <1>1, <1>3, <1>4
  <2>3. {frames'[j].id : j \in 1..(i - 1)} = {frames[j].id : j \in 1..(i - 1)}
    BY <1>4, <2>1
  <2> QED
    BY <2>2, <2>3 DEF FramesInv, Nested
<1>9. Shaped'
  <2> SUFFICES ASSUME NEW i \in Running
               PROVE  /\ Suits(log'[frames'[i].id].kind, log'[frames'[i].id].verdict, frames'[i])
                      /\ i < Len(frames') => Waits(frames'[i])
    BY <1>3 DEF Shaped
  <2>1. CASE i = Len(frames)
    <3>1. frames'[i] = x /\ log'[x.id].kind = Kind /\ log'[x.id].verdict = v
      BY <1>1, <1>2, <1>3, <2>1 DEF Kind
    <3> QED
      BY <1>2, <1>3, <2>1, <3>1
  <2>2. CASE i # Len(frames)
    <3>1. frames'[i] = frames[i] /\ frames[i].id # Top.id /\ frames[i].id \in 1..Len(log)
      BY <1>2, <1>3, <2>2
    <3>2. /\ log'[frames[i].id].kind = log[frames[i].id].kind
          /\ log'[frames[i].id].verdict = log[frames[i].id].verdict
      BY <1>1, <3>1
    <3> QED
      BY <1>2, <3>1, <3>2 DEF FramesInv, Shaped
  <2> QED
    BY <2>1, <2>2
<1>10. Gone'
  <2> SUFFICES ASSUME NEW f \in 1..Len(log), log'[f].verdict = "left", NEW i \in Running
               PROVE  f < frames'[i].id
    BY <1>1, <1>3 DEF Gone
  <2>1. log[f].verdict = "left"
    BY <1>1
  <2> QED
    BY <1>4, <2>1 DEF FramesInv, Gone
<1>11. Owned' = HoldsBelow \cup Holds(x)
  BY <1>2, OwnedIsHeldPrime
<1>12. Abandoned' = Abandoned
  <2>1. log[Top.id].verdict # "left"
    <3>1. ~(Top.id < Top.id)
      BY <1>3
    <3> QED
      BY <1>3, <3>1 DEF FramesInv, Gone, Top
  <2>2. \A g \in 1..Len(log) : log'[g].verdict = "left" <=> log[g].verdict = "left"
    BY <1>1, <2>1
  <2>3. {g \in 1..Len(log') : log'[g].verdict = "left"} = {g \in 1..Len(log) : log[g].verdict = "left"}
    BY <1>1, <2>2
  <2> QED
    BY <2>3, Zenon DEF Abandoned
<1>13. frames' # << >> /\ Top' = x /\ Kind' = Kind
  <2>1. frames' # << >>
    BY <1>2, <1>3, EmptySeq DEF Running
  <2>2. Top' = x
    BY <1>2, <1>3 DEF Top
  <2>3. Kind' = Kind
    BY <1>1, <1>3, <2>2 DEF Kind
  <2> QED
    BY <2>1, <2>2, <2>3
<1> QED
  BY <1>1, <1>2, <1>5, <1>6, <1>7, <1>8, <1>9, <1>10, <1>11, <1>12, <1>13

\* A frame of kind k starts inside frames that wait for it.
LEMMA Enters ==
    ASSUME FramesInv, NEW s \in Seq(FrameRecord), Len(s) = Len(frames),
           \A i \in Running : /\ s[i].id = frames[i].id
                              /\ Suits(log[s[i].id].kind, log[s[i].id].verdict, s[i])
                              /\ Waits(s[i])
                              /\ s[i].exec => s[i].pc \in {"exec", "unwind"},
           NEW k \in Kinds, k \in {"block", "builder"} => frames = << >>,
           NEW present \in SUBSET Write, NEW pc \in Pcs, NEW outer \in BOOLEAN,
           Suits(k, "open", Frame(pc, outer)), Enter(k, s, Frame(pc, outer), present)
    PROVE  /\ Fresh \in Ids /\ Fresh = Len(log) + 1 /\ Len(log') = Len(log) + 1
           /\ log' \in Seq(Entry) /\ Len(log') <= MaxFrames
           /\ frames' \in Seq(FrameRecord')
           /\ \A i \in 1..Len(frames') : frames'[i].exec => frames'[i].pc \in {"exec", "unwind"}
           /\ (Lineage /\ Nested /\ Shaped /\ Gone)'
           /\ Owned' = HoldsOf(s) \cup Holds(Frame(pc, outer))
           /\ Abandoned' = Abandoned
           /\ \A f \in 1..Len(log) : log'[f] = log[f]
           /\ log'[Fresh] = [kind |-> k, path |-> {frames[i].id : i \in Running},
                             found |-> present, verdict |-> "open"]
           /\ frames' # << >> /\ Top' = Frame(pc, outer) /\ Kind' = k
<1> DEFINE e == [kind |-> k, path |-> {frames[i].id : i \in Running}, found |-> present,
                 verdict |-> "open"]
           x == Frame(pc, outer)
           n == Len(frames)
           m == Len(log)
<1>1. /\ m \in Nat /\ n \in Nat /\ Fresh = m + 1 /\ Fresh \in Ids
      /\ m + 1 <= MaxFrames
      /\ Running = 1..n
      /\ \A i \in Running : frames[i].id \in 1..m
      /\ \A f \in 1..m : f \in Ids
  BY FrameFacts, ExecutionAssumption DEF Enter, Fresh, Ids, Running, FrameRecord
<1>2. e \in Entry
  <2>1. {frames[i].id : i \in Running} \in SUBSET Ids
    BY <1>1
  <2> QED
    BY <2>1 DEF Entry, Verdicts
<1>3. log' = Append(log, e) /\ frames' = Append(s, x)
  BY DEF Enter, Logged, Running
<1>4. /\ log' \in Seq(Entry)
      /\ Len(log') = m + 1
      /\ \A f \in 1..m : log'[f] = log[f]
      /\ log'[m + 1] = e
  <2>1. log \in Seq(Entry)
    BY DEF FramesInv, TypeOK
  <2> HIDE DEF e
  <2> QED
    BY <1>1, <1>2, <1>3, <2>1, AppendProperties
<1>5. x.id = m + 1 /\ x.pc = pc /\ x.outer = outer /\ x.exec = FALSE /\ x \in FrameRecord'
  BY <1>1, <1>4 DEF Frame, FrameRecord
<1>6. /\ frames' \in Seq(FrameRecord')
      /\ Len(frames') = n + 1
      /\ \A i \in 1..n : frames'[i] = s[i]
      /\ frames'[n + 1] = x
  <2>1. FrameRecord \subseteq FrameRecord'
    BY <1>1, <1>4 DEF FrameRecord
  <2>2. s \in Seq(FrameRecord')
    BY <2>1, SeqMonotonic
  <2> HIDE DEF x
  <2> QED
    BY <1>1, <1>3, <1>5, <2>2, AppendProperties
<1> HIDE DEF e, x
<1>7. 1..Len(frames') = Running \cup {n + 1} /\ 1..Len(log') = 1..m \cup {m + 1}
  BY <1>1, <1>4, <1>6
<1>8. e.kind = k /\ e.path = {frames[i].id : i \in Running} /\ e.found = present /\ e.verdict = "open"
  BY DEF e
<1>9. \A i \in 1..Len(frames') : frames'[i].exec => frames'[i].pc \in {"exec", "unwind"}
  BY <1>1, <1>5, <1>6, <1>7
<1>10. Lineage'
  <2> SUFFICES ASSUME NEW f \in 1..Len(log')
               PROVE  /\ log'[f].path \subseteq 1..(f - 1)
                      /\ \A p \in log'[f].path : log'[p].path \subseteq log'[f].path
                      /\ log'[f].kind \in {"block", "builder"} => log'[f].path = {}
    BY DEF Lineage
  <2>1. CASE f \in 1..m
    <3>1. log'[f] = log[f] /\ log[f].path \subseteq 1..(f - 1)
      BY <1>4, <2>1 DEF FramesInv, Lineage
    <3>2. \A p \in log[f].path : p \in 1..m
      BY <1>1, <2>1, <3>1
    <3> QED
      BY <1>4, <2>1, <3>1, <3>2 DEF FramesInv, Lineage
  <2>2. CASE f = m + 1
    <3>1. \A p \in e.path : p \in 1..m
      BY <1>1, <1>8
    <3>2. ASSUME NEW p \in e.path PROVE log'[p].path \subseteq e.path
      <4>1. PICK i \in Running : p = frames[i].id
        BY <1>8
      <4>2. log'[p].path = {frames[j].id : j \in 1..(i - 1)}
        BY <1>1, <1>4, <4>1 DEF FramesInv, Nested
      <4>3. \A j \in 1..(i - 1) : j \in Running
        BY <1>1
      <4> QED
        BY <1>8, <4>2, <4>3
    <3>3. k \in {"block", "builder"} => e.path = {}
      <4>1. frames = << >> => n = 0
        BY EmptySeq
      <4> QED
        BY <1>1, <1>8, <4>1
    <3> QED
      BY <1>1, <1>4, <1>8, <2>2, <3>1, <3>2, <3>3
  <2> QED
    BY <1>7, <2>1, <2>2
<1>11. \A i \in Running : frames'[i].id = frames[i].id
  BY <1>1, <1>6
<1>12. Nested'
  <2> SUFFICES ASSUME NEW i \in 1..Len(frames')
               PROVE  log'[frames'[i].id].path = {frames'[j].id : j \in 1..(i - 1)}
    BY DEF Nested, Running
  <2>1. CASE i \in Running
    <3>1. \A j \in 1..(i - 1) : j \in Running
      BY <1>1, <2>1
    <3>2. {frames'[j].id : j \in 1..(i - 1)} = {frames[j].id : j \in 1..(i - 1)}
      BY <1>11, <3>1
    <3>3. log'[frames'[i].id] = log[frames[i].id]
      BY <1>1, <1>4, <1>11, <2>1
    <3>4. log[frames[i].id].path = {frames[j].id : j \in 1..(i - 1)}
      BY <2>1 DEF FramesInv, Nested
    <3> QED
      BY <3>2, <3>3, <3>4
  <2>2. CASE i = n + 1
    <3>1. 1..(i - 1) = Running
      BY <1>1, <2>2
    <3>2. {frames'[j].id : j \in Running} = {frames[j].id : j \in Running}
      BY <1>11
    <3> QED
      BY <1>4, <1>5, <1>6, <1>8, <2>2, <3>1, <3>2
  <2> QED
    BY <1>7, <2>1, <2>2
<1>13. Shaped'
  <2> SUFFICES ASSUME NEW i \in 1..Len(frames')
               PROVE  /\ Suits(log'[frames'[i].id].kind, log'[frames'[i].id].verdict, frames'[i])
                      /\ i < Len(frames') => Waits(frames'[i])
    BY DEF Shaped, Running
  <2>1. CASE i \in Running
    BY <1>1, <1>4, <1>6, <2>1
  <2>2. CASE i = n + 1
    <3>1. Suits(k, "open", x)
      BY DEF x
    <3> QED
      BY <1>1, <1>4, <1>5, <1>6, <1>8, <2>2, <3>1
  <2> QED
    BY <1>7, <2>1, <2>2
<1>14. Gone'
  <2> SUFFICES ASSUME NEW f \in 1..Len(log'), log'[f].verdict = "left", NEW i \in 1..Len(frames')
               PROVE  f < frames'[i].id
    BY DEF Gone, Running
  <2>1. f \in 1..m /\ log[f].verdict = "left"
    BY <1>4, <1>7, <1>8
  <2>2. CASE i \in Running
    BY <1>11, <2>1, <2>2 DEF FramesInv, Gone
  <2>3. CASE i = n + 1
    BY <1>1, <1>5, <1>6, <2>1, <2>3
  <2> QED
    BY <1>7, <2>2, <2>3
<1>15. Owned' = HoldsOf(s) \cup Holds(x)
  <2>1. HoldsOf(frames') = HoldsOf(s) \cup Holds(x)
    <3>1. ASSUME NEW i \in Running PROVE Holds(frames'[i]) = Holds(s[i])
      BY <1>1, <1>6
    <3> QED
      BY <1>1, <1>6, <1>7, <3>1 DEF HoldsOf
  <2> QED
    BY <2>1, OwnedIsHeldPrime
<1>16. Abandoned' = Abandoned
  BY <1>4, <1>7, <1>8 DEF Abandoned
<1>17. frames' # << >> /\ Top' = x /\ Kind' = k
  <2>1. frames' # << >>
    BY <1>1, <1>6, EmptySeq
  <2>2. Top' = x
    BY <1>6 DEF Top
  <2> QED
    BY <1>4, <1>5, <1>8, <2>1, <2>2 DEF Kind
<1> QED
  BY <1>1, <1>4, <1>6, <1>9, <1>10, <1>12, <1>13, <1>14, <1>15, <1>16, <1>17 DEF e, x

\* The innermost frame ends; an error may go on to the frame below.
LEMMA Leaves ==
    ASSUME FramesInv, frames # << >>, NEW v \in Verdicts \ {"left"},
           log' = Judged(v), frames' = Below \/ frames' = Propagated(Below)
    PROVE  /\ Len(log') = Len(log) /\ log' \in Seq(Entry)
           /\ frames' \in Seq(FrameRecord')
           /\ \A i \in 1..Len(frames') : frames'[i].exec => frames'[i].pc \in {"exec", "unwind"}
           /\ (Lineage /\ Nested /\ Shaped /\ Gone)'
           /\ Owned' = HoldsBelow
           /\ Abandoned' = Abandoned
           /\ frames' # << >> => Top'.pc = "unwind" \/ Waits(Top')
<1> DEFINE n == Len(frames) - 1
<1>1. /\ log' \in Seq(Entry)
      /\ Len(log') = Len(log)
      /\ \A f \in 1..Len(log) :
            /\ log'[f].kind = log[f].kind
            /\ log'[f].path = log[f].path
            /\ log'[f].verdict = IF f = Top.id THEN v ELSE log[f].verdict
  BY JudgedFacts
<1>2. /\ Len(log) \in Nat /\ Len(frames) \in Nat \ {0} /\ n \in Nat
      /\ Len(frames) \in Running /\ Top.id \in 1..Len(log) /\ Running = 1..Len(frames)
      /\ \A i \in 1..n : i \in Running /\ i < Len(frames) /\ frames[i].id < Top.id
      /\ \A i \in Running : frames[i] \in FrameRecord /\ frames[i].id \in 1..Len(log)
      /\ FrameRecord' = FrameRecord
  <2>1. Len(frames) \in Nat \ {0} /\ Running = 1..Len(frames)
    BY TopFacts, FrameFacts DEF Running
  <2> QED
    BY <1>1, <2>1, TopFacts, FrameFacts DEF FrameRecord
<1>3. /\ Below \in Seq(FrameRecord)
      /\ Len(Below) = n
      /\ \A i \in 1..n : Below[i] = frames[i]
  <2>1. 1 \in 0..Len(frames) /\ frames \in Seq(FrameRecord)
    BY <1>2 DEF FramesInv, TypeOK, FrameRecord
  <2> QED
    BY <2>1, PopFacts DEF Below
<1>4. \A i \in 1..n : /\ Waits(frames[i])
                      /\ Suits(log[frames[i].id].kind, log[frames[i].id].verdict, frames[i])
                      /\ frames[i].exec => frames[i].pc \in {"exec", "unwind"}
  BY <1>2 DEF FramesInv, TypeOK, Shaped
<1>5. /\ frames' \in Seq(FrameRecord)
      /\ Len(frames') = n
      /\ \A i \in 1..n :
            /\ frames'[i].id = frames[i].id
            /\ frames'[i].exec = frames[i].exec
            /\ frames'[i].outer = frames[i].outer
            /\ \/ frames'[i] = frames[i]
               \/ /\ i = n
                  /\ frames'[i].pc = "unwind"
                  /\ log[frames[i].id].kind # "builder"
  <2>1. CASE frames' = Below
    BY <1>2, <1>3, <2>1
  <2>2. CASE frames' = Propagated(Below) /\ frames' # Below
    <3>1. Below # << >> /\ log[Below[n].id].kind # "builder"
      BY <1>3, <2>2 DEF Propagated
    <3>2. n \in 1..n
      BY <1>2, <1>3, <3>1, EmptySeq
    <3> DEFINE x == [Below[n] EXCEPT !.pc = "unwind"]
    <3>3. frames' = [Below EXCEPT ![n] = x]
      BY <1>3, <2>2, <3>1 DEF Propagated
    <3>4. /\ x \in FrameRecord /\ x.id = Below[n].id /\ x.exec = Below[n].exec
          /\ x.outer = Below[n].outer /\ x.pc = "unwind"
      BY <1>2, <1>3, <3>2 DEF FrameRecord, Pcs
    <3> HIDE DEF x
    <3>5. /\ frames' \in Seq(FrameRecord)
          /\ Len(frames') = n
          /\ \A i \in 1..n : frames'[i] = IF i = n THEN x ELSE Below[i]
      BY <1>3, <3>2, <3>3, <3>4, ExceptSeq
    <3> QED
      BY <1>2, <1>3, <3>1, <3>4, <3>5
  <2> QED
    BY <2>1, <2>2
<1>6. \A i \in 1..n : /\ log'[frames'[i].id].kind = log[frames[i].id].kind
                      /\ log'[frames'[i].id].verdict = log[frames[i].id].verdict
                      /\ log'[frames'[i].id].path = log[frames[i].id].path
  <2> SUFFICES ASSUME NEW i \in 1..n
               PROVE  /\ log'[frames[i].id].kind = log[frames[i].id].kind
                      /\ log'[frames[i].id].verdict = log[frames[i].id].verdict
                      /\ log'[frames[i].id].path = log[frames[i].id].path
    BY <1>5
  <2>1. frames[i].id \in 1..Len(log) /\ frames[i].id < Top.id
    BY <1>2
  <2>2. frames[i].id # Top.id
    BY <1>2, <2>1
  <2> QED
    BY <1>1, <2>1, <2>2
<1>7. ASSUME NEW i \in 1..n
      PROVE  /\ Suits(log'[frames'[i].id].kind, log'[frames'[i].id].verdict, frames'[i])
             /\ Holds(frames'[i]) = Holds(frames[i])
             /\ frames'[i].exec => frames'[i].pc \in {"exec", "unwind"}
             /\ i < n => frames'[i] = frames[i]
             /\ frames'[i].pc = "unwind" \/ Waits(frames'[i])
  <2>1. CASE frames'[i] = frames[i]
    BY <1>4, <1>6, <2>1
  <2>2. CASE i = n /\ frames'[i].pc = "unwind" /\ log[frames[i].id].kind # "builder"
    <3>1. Suits(log[frames[i].id].kind, log[frames[i].id].verdict, frames'[i])
      BY <1>4, <1>5, <2>2 DEF Suits, Waits
    <3>2. frames[i].pc # "torn"
      BY <1>4 DEF Waits
    <3> QED
      BY <1>4, <1>5, <1>6, <2>2, <3>1, <3>2 DEF Holds
  <2> QED
    BY <1>5, <2>1, <2>2
<1>8. Lineage'
  BY <1>1 DEF FramesInv, Lineage
<1>9. Nested'
  <2> SUFFICES ASSUME NEW i \in 1..n
               PROVE  log'[frames'[i].id].path = {frames'[j].id : j \in 1..(i - 1)}
    BY <1>5 DEF Nested, Running
  <2>1. \A j \in 1..(i - 1) : j \in 1..n
    BY <1>2
  <2>2. {frames'[j].id : j \in 1..(i - 1)} = {frames[j].id : j \in 1..(i - 1)}
    BY <1>5, <2>1
  <2>3. i \in Running
    BY <1>2
  <2> QED
    BY <1>6, <2>2, <2>3 DEF FramesInv, Nested
<1>10. Shaped'
  BY <1>2, <1>4, <1>5, <1>7 DEF Shaped, Running
<1>11. Gone'
  <2> SUFFICES ASSUME NEW f \in 1..Len(log), log'[f].verdict = "left", NEW i \in 1..n
               PROVE  f < frames'[i].id
    BY <1>1, <1>5 DEF Gone, Running
  <2>1. log[f].verdict = "left" /\ i \in Running
    BY <1>1, <1>2
  <2> QED
    BY <1>5, <2>1 DEF FramesInv, Gone
<1>12. Owned' = HoldsBelow
  <2>1. HoldsOf(frames') = HoldsBelow
    BY <1>5, <1>7 DEF HoldsOf, HoldsBelow
  <2> QED
    BY <2>1, OwnedIsHeldPrime
<1>13. Abandoned' = Abandoned
  <2>1. log[Top.id].verdict # "left"
    <3>1. ~(Top.id < Top.id)
      BY <1>2
    <3> QED
      BY <1>2, <3>1 DEF FramesInv, Gone, Top
  <2> QED
    BY <1>1, <2>1 DEF Abandoned
<1>14. frames' # << >> => Top'.pc = "unwind" \/ Waits(Top')
  <2>1. frames' # << >> => n \in 1..n
    BY <1>2, <1>5, EmptySeq
  <2> QED
    BY <1>5, <1>7, <2>1 DEF Top
<1> QED
  BY <1>1, <1>2, <1>5, <1>7, <1>8, <1>9, <1>10, <1>11, <1>12, <1>13, <1>14
-----------------------------------------------------------------------------
(* Writes, what takes them back, and what the checkpoints hold *)

\* Around a frame that is not judged yet, none is.
LEMMA AroundOpen ==
    ASSUME FramesInv, frames # << >>, log[Top.id].verdict = "open"
    PROVE  /\ \A i \in Running : log[frames[i].id].verdict = "open"
           /\ \A p \in log[Top.id].path : log[p].verdict = "open"
<1>1. ASSUME NEW i \in Running PROVE log[frames[i].id].verdict = "open"
  <2>1. CASE i = Len(frames)
    BY <2>1 DEF Top
  <2>2. CASE i # Len(frames)
    <3>1. i < Len(frames)
      BY <2>2, FrameFacts DEF Running
    <3> QED
      BY <3>1 DEF FramesInv, Shaped, Waits, Suits
  <2> QED
    BY <2>1, <2>2
<1>2. \A i \in 1..(Len(frames) - 1) : i \in Running
  BY FrameFacts DEF Running
<1> QED
  BY <1>1, <1>2, TopFacts

\* A frame that is not judged yet has lost no write.
LEMMA OpenNotUndone ==
    ASSUME FramesInv, frames # << >>, log[Top.id].verdict = "open",
           NEW w \in Write, w.frame = Top.id
    PROVE  ~Undone(w)
BY AroundOpen DEF Undone

\* Whoever owns a checkpoint that will be closed is the innermost frame or
\* around it.
LEMMA OwnersAround ==
    ASSUME FramesInv, NEW x \in Owned \cup Abandoned
    PROVE  /\ x[1] \in 1..Len(log) /\ x[2] \in {"own", "exec"}
           /\ \/ log[x[1]].verdict = "left" /\ \A i \in Running : x[1] < frames[i].id
              \/ \E i \in Running : x[1] = frames[i].id /\ x \in Holds(frames[i])
           /\ log[x[1]].verdict # "left" =>
                 /\ frames # << >>
                 /\ \/ x[1] = Top.id /\ x \in Holds(Top)
                    \/ x[1] \in log[Top.id].path /\ x[1] < Top.id
<1>1. CASE x \in Abandoned
  BY <1>1 DEF Abandoned, FramesInv, Gone
<1>2. CASE x \in Owned
  <2>1. PICK i \in Running : x \in Holds(frames[i])
    BY <1>2, OwnedIsHeld DEF HoldsOf, Running
  <2>2. x[1] = frames[i].id /\ x[2] \in {"own", "exec"}
    BY <2>1 DEF Holds
  <2>3. frames[i].id \in 1..Len(log)
    BY FrameFacts DEF FrameRecord
  <2>4. frames # << >>
    BY FrameFacts, EmptySeq DEF Running
  <2>5. i = Len(frames) \/ i < Len(frames)
    BY FrameFacts DEF Running
  <2>6. CASE i = Len(frames)
    BY <2>1, <2>2, <2>3, <2>4, <2>6 DEF Top
  <2>7. CASE i < Len(frames)
    BY <2>1, <2>2, <2>3, <2>4, <2>7, TopFacts
  <2> QED
    BY <2>5, <2>6, <2>7
<1> QED
  BY <1>1, <1>2

\* What a step that writes W in layer l of the innermost frame keeps.
WritesKept(l, W) ==
    /\ Surviving' /\ Authors'
    /\ \A c \in OpenedCheckpoint :
          /\ Name(c) \in Owned \cup Abandoned
          /\ W # {} /\ c.owner = Top.id => l # "bare" /\ (c.layer = "exec" => l = "exec")
          /\ Holding(c)
          => Holding(c)'
    /\ \A w \in written : \A f \in Ids : \A k \in {"own", "exec"} :
          Inside(w, f, k)' <=> Inside(w, f, k)
    /\ \A w \in W : w.frame = Top.id /\ w.layer = l /\ Top.id \notin log'[w.frame].path

\* The innermost frame writes what its checkpoints, and those around it, will
\* take back, or is judged in a way that takes nothing back.
LEMMA TopWrites ==
    ASSUME FramesInv, Surviving, Authors, frames # << >>,
           NEW v \in Verdicts, log' = Judged(v), log[Top.id].verdict # "left",
           \/ v = log[Top.id].verdict
           \/ v \notin {"fail", "throw"} /\ log[Top.id].verdict \notin {"fail", "throw"},
           NEW l \in {"own", "exec", "bare"}, NEW W \in SUBSET {By(Top.id, l)},
           W # {} => log[Top.id].verdict = "open",
           written' = written \cup W, st' = st \cup W
    PROVE  WritesKept(l, W)
<1>1. /\ Len(log') = Len(log)
      /\ Top.id \in 1..Len(log)
      /\ \A f \in 1..Len(log) :
            /\ log'[f].kind = log[f].kind
            /\ log'[f].path = log[f].path
            /\ log'[f].found = log[f].found
            /\ log'[f].verdict = IF f = Top.id THEN v ELSE log[f].verdict
  BY JudgedFacts, TopFacts
<1>2. \A f \in 1..Len(log) : log[f].path \subseteq 1..Len(log) /\ f \notin log[f].path
  BY FrameFacts DEF FramesInv, Lineage
<1>3. \A w \in W : w \in Write /\ w.frame = Top.id /\ w.layer = l
  BY <1>1, FrameFacts DEF By, Write
<1>4. ASSUME NEW w, w.frame \in 1..Len(log) PROVE Undone(w)' <=> Undone(w)
  <2>1. \A f \in 1..Len(log) : /\ log'[f].verdict = "throw" <=> log[f].verdict = "throw"
                               /\ log'[f].verdict = "fail" <=> log[f].verdict = "fail"
    BY <1>1
  <2> QED
    BY <1>1, <1>2, <1>4, <2>1 DEF Undone
<1>5. ASSUME NEW w \in written \cup W
      PROVE  /\ w.frame \in 1..Len(log)
             /\ \A f, k : Inside(w, f, k)' <=> Inside(w, f, k)
  <2>1. w.frame \in 1..Len(log)
    BY <1>1, <1>3 DEF Authors
  <2> QED
    BY <1>1, <2>1 DEF Inside
<1>6. \A w \in W : ~Undone(w)
  BY <1>3, OpenNotUndone
<1>7. Surviving'
  BY <1>4, <1>5, <1>6 DEF Surviving
<1>8. Authors'
  BY <1>1, <1>5 DEF Authors
<1>9. ASSUME NEW c \in OpenedCheckpoint, Name(c) \in Owned \cup Abandoned,
             W # {} /\ c.owner = Top.id => l # "bare" /\ (c.layer = "exec" => l = "exec"),
             Holding(c)
      PROVE  Holding(c)'
  <2>1. /\ c.owner = Name(c)[1] /\ c.layer \in {"own", "exec"} /\ c.owner \in Ids
        /\ c.owner \in 1..Len(log)
    BY <1>9, OwnersAround DEF Name, OpenedCheckpoint
  <2>2. ASSUME log[c.owner].verdict # "left", NEW w \in W
        PROVE  Inside(w, c.owner, c.layer)
    <3>1. c.owner = Top.id \/ c.owner \in log[Top.id].path
      BY <1>9, <2>1, <2>2, OwnersAround
    <3> QED
      BY <1>3, <1>9, <2>1, <3>1 DEF Inside
  <2>3. log'[c.owner].verdict # "left" => log[c.owner].verdict # "left"
    BY <1>1, <2>1
  <2>4. log'[c.owner].kind = log[c.owner].kind /\ log'[c.owner].found = log[c.owner].found
    BY <1>1, <2>1
  <2>5. log[c.owner].verdict # "left" =>
          {w \in written' : ~Undone(w)' /\ ~Inside(w, c.owner, c.layer)'}
            = {w \in written : ~Undone(w) /\ ~Inside(w, c.owner, c.layer)}
    BY <1>4, <1>5, <2>2
  <2> QED
    BY <1>9, <2>3, <2>4, <2>5 DEF Holding
<1>10. \A w \in W : w.frame = Top.id /\ w.layer = l /\ Top.id \notin log'[w.frame].path
  BY <1>1, <1>2, <1>3
<1> QED
  BY <1>5, <1>7, <1>8, <1>9, <1>10 DEF WritesKept

\* The innermost frame fails or throws: the checkpoint it reverts to holds just
\* what survives, and those around still hold what survives outside of them.
LEMMA RevertingVerdict ==
    ASSUME FramesInv, Authors, frames # << >>, written \subseteq Write,
           NEW v \in {"fail", "throw"}, log' = Judged(v),
           log[Top.id].verdict = "open" \/ (log[Top.id].verdict = "fail" /\ v = "throw"),
           written' = written,
           NEW c0 \in OpenedCheckpoint, c0.owner = Top.id,
           c0.layer = IF v = "throw" THEN "own" ELSE "exec",
           Holding(c0), st' = c0.state
    PROVE  /\ Surviving' /\ Authors'
           /\ \A c \in OpenedCheckpoint :
                 /\ Name(c) \in Owned \cup Abandoned
                 /\ Name(c) # Name(c0)
                 /\ v = "throw" => c.owner # Top.id
                 /\ Holding(c)
                 => Holding(c)'
<1> DEFINE l0 == IF v = "throw" THEN "own" ELSE "exec"
           t == Top.id
<1>1. /\ Len(log') = Len(log)
      /\ t \in 1..Len(log)
      /\ \A f \in 1..Len(log) :
            /\ log'[f].kind = log[f].kind
            /\ log'[f].path = log[f].path
            /\ log'[f].found = log[f].found
            /\ log'[f].verdict = IF f = t THEN v ELSE log[f].verdict
  BY JudgedFacts, TopFacts DEF Verdicts
<1>2. \A f \in 1..Len(log) : log[f].path \subseteq 1..Len(log)
  BY FrameFacts DEF FramesInv, Lineage
<1>3. ASSUME NEW w \in written PROVE Undone(w)' <=> Undone(w) \/ Inside(w, t, l0)
  <2>1. w.frame \in 1..Len(log) /\ w.layer \in {"own", "exec", "bare"}
    BY DEF Authors, Write
  <2>2. (\E f \in log'[w.frame].path : log'[f].verdict \in {"fail", "throw"})
          <=> \/ \E f \in log[w.frame].path : log[f].verdict \in {"fail", "throw"}
              \/ t \in log[w.frame].path
    <3>1. log'[w.frame].path = log[w.frame].path
      BY <1>1, <2>1
    <3>2. \A f \in log[w.frame].path : f \in 1..Len(log)
      BY <1>2, <2>1
    <3> QED
      BY <1>1, <3>1, <3>2
  <2>3. CASE w.frame = t
    <3>1. t \notin log[t].path
      <4>1. log[t].path \subseteq 1..(t - 1)
        BY <1>1 DEF FramesInv, Lineage
      <4> QED
        BY <1>1, <4>1, FrameFacts
    <3>2. log'[t].verdict = v
      BY <1>1
    <3> QED
      BY <2>1, <2>2, <2>3, <3>1, <3>2 DEF Undone, Inside
  <2>4. CASE w.frame # t
    <3>1. log'[w.frame].verdict = log[w.frame].verdict
      BY <1>1, <2>1, <2>4
    <3> QED
      BY <2>2, <2>4, <3>1 DEF Undone, Inside
  <2> QED
    BY <2>3, <2>4
<1>4. \A w \in written : \A f : \A l : Inside(w, f, l)' <=> Inside(w, f, l)
  BY <1>1 DEF Authors, Inside
<1>5. c0.state = {w \in written : ~Undone(w) /\ ~Inside(w, t, l0)}
  BY DEF Holding
<1> HIDE DEF l0
<1>6. Surviving'
  BY <1>3, <1>5 DEF Surviving
<1>7. Authors'
  BY <1>1 DEF Authors
<1>8. ASSUME NEW c \in OpenedCheckpoint, Name(c) \in Owned \cup Abandoned, Name(c) # Name(c0),
             v = "throw" => c.owner # t, Holding(c)
      PROVE  Holding(c)'
  <2>1. /\ c.owner = Name(c)[1] /\ c.layer = Name(c)[2]
        /\ c.owner \in 1..Len(log) /\ c.layer \in {"own", "exec"}
    BY <1>8, OwnersAround DEF Name
  <2>2. log'[c.owner].verdict # "left" => log[c.owner].verdict # "left"
    BY <1>1, <2>1
  <2>3. log'[c.owner].kind = log[c.owner].kind /\ log'[c.owner].found = log[c.owner].found
    BY <1>1, <2>1
  <2>4. ASSUME log[c.owner].verdict # "left", NEW w \in written, Inside(w, t, l0)
        PROVE  Inside(w, c.owner, c.layer)
    <3>1. \/ c.owner = t
          \/ c.owner \in log[t].path
      BY <1>8, <2>1, <2>4, OwnersAround
    <3>2. CASE c.owner = t
      <4>1. v = "fail" /\ l0 = "exec" /\ c.layer = "own"
        <5>1. v = "fail"
          BY <1>8, <3>2
        <5>2. c.layer # "exec"
          BY <1>8, <3>2, <5>1 DEF Name
        <5> QED
          BY <2>1, <5>1, <5>2 DEF l0
      <4> QED
        BY <2>4, <3>2, <4>1 DEF Inside
    <3>3. CASE c.owner \in log[t].path
      <4>1. CASE t \in log[w.frame].path
        <5>1. w.frame \in 1..Len(log)
          BY DEF Authors
        <5> QED
          BY <3>3, <4>1, <5>1 DEF FramesInv, Lineage, Inside
      <4>2. CASE w.frame = t
        BY <3>3, <4>2 DEF Inside
      <4> QED
        BY <2>4, <4>1, <4>2 DEF Inside
    <3> QED
      BY <3>1, <3>2, <3>3
  <2>5. log[c.owner].verdict # "left" =>
          {w \in written' : ~Undone(w)' /\ ~Inside(w, c.owner, c.layer)'}
            = {w \in written : ~Undone(w) /\ ~Inside(w, c.owner, c.layer)}
    BY <1>3, <1>4, <2>4
  <2> QED
    BY <1>8, <2>2, <2>3, <2>5 DEF Holding
<1> QED
  BY <1>6, <1>7, <1>8

Around(c) ==
    /\ c.owner \in 1..Len(log)
    /\ log[c.owner].verdict # "left" => \E i \in Running : c.owner = frames[i].id

\* A frame starts: what it writes, and what its creator writes for it, is
\* inside every checkpoint that will be closed, and its own holds the rest.
LEMMA EnteringWrites ==
    ASSUME FramesInv, Surviving, Authors, st \subseteq written,
           NEW k \in Kinds, NEW present, NEW g \in Ids, g = Fresh, Len(log') = Len(log) + 1,
           \A f \in 1..Len(log) : log'[f] = log[f],
           log'[g] = [kind |-> k, path |-> {frames[i].id : i \in Running},
                          found |-> present, verdict |-> "open"],
           frames # << >> => log[Top.id].verdict = "open",
           NEW N \in SUBSET Write, \A w \in N : frames # << >> /\ w.frame = Top.id,
           NEW W \in SUBSET {By(g, "own")},
           \A w : w \in present <=> w \in st \/ w \in N, st' = present \cup W, written' = written \cup N \cup W
    PROVE  /\ Surviving' /\ Authors'
           /\ Holding(Saved(present, g, "own"))'
           /\ \A c \in OpenedCheckpoint :
                 /\ Around(c)
                 /\ \A w \in N : c.owner = Top.id =>
                       w.layer # "bare" /\ (c.layer = "exec" => w.layer = "exec")
                 /\ Holding(c)
                 => Holding(c)'
           /\ \A w \in written' : /\ w.frame = g => w \in W
                                  /\ g \notin log'[w.frame].path
<1> DEFINE m == Len(log)
           r == {frames[i].id : i \in Running}
<1>1. /\ m \in Nat /\ g = m + 1 /\ 1..Len(log') = 1..m \cup {g}
      /\ r \subseteq 1..m
      /\ \A f \in 1..m : log[f].path \subseteq 1..m
      /\ \A w \in written : w.frame \in 1..m
      /\ log'[g].path = r /\ log'[g].verdict = "open" /\ log'[g].found = present
  <2>1. m \in Nat
    BY FrameFacts
  <2>2. r \subseteq 1..m
    BY FrameFacts DEF FrameRecord
  <2>3. \A f \in 1..m : log[f].path \subseteq 1..m
    BY <2>1 DEF FramesInv, Lineage
  <2> QED
    BY <2>1, <2>2, <2>3 DEF Fresh, Authors
<1>2. /\ \A p \in r : log[p].verdict = "open"
      /\ \A w \in N : w.frame \in 1..m /\ log[w.frame].path \subseteq r /\ w.frame \in r
  <2>1. CASE frames = << >>
    <3>1. Running = {}
      BY <2>1, EmptySeq DEF Running
    <3> QED
      BY <2>1, <3>1
  <2>2. CASE frames # << >>
    <3>1. \A i \in Running : log[frames[i].id].verdict = "open"
      BY <2>2, AroundOpen
    <3>2. log[Top.id].path \subseteq r /\ Top.id \in r /\ Top.id \in 1..m
      <4>1. \A i \in 1..(Len(frames) - 1) : i \in Running
        BY FrameFacts DEF Running
      <4> QED
        BY <2>2, <4>1, TopFacts DEF Top
    <3> QED
      BY <3>1, <3>2
  <2> QED
    BY <2>1, <2>2
<1>3. \A w \in W : w.frame = g /\ w.layer = "own" /\ w = By(g, "own")
  BY DEF By
<1> HIDE DEF r, m
<1>4. ASSUME NEW w \in written PROVE Undone(w)' <=> Undone(w)
  <2>1. w.frame \in 1..Len(log)
    BY <1>1, <1>4 DEF m
  <2>2. log'[w.frame] = log[w.frame]
    BY <2>1
  <2>3. \A p \in log[w.frame].path : log'[p] = log[p]
    BY <1>1, <2>1 DEF m
  <2> QED
    BY <2>2, <2>3 DEF Undone
<1>5. ASSUME NEW w \in N PROVE ~Undone(w)' /\ w.frame \in 1..m
  <2>1. log'[w.frame] = log[w.frame] /\ log[w.frame].verdict = "open"
    BY <1>1, <1>2 DEF m
  <2>2. \A p \in log[w.frame].path : p \in 1..m /\ log'[p].verdict = "open"
    BY <1>1, <1>2 DEF m
  <2> QED
    BY <1>2, <2>1, <2>2 DEF Undone
<1>6. ASSUME NEW w \in W PROVE ~Undone(w)'
  <2>1. \A p \in r : log'[p].verdict = "open"
    BY <1>1, <1>2 DEF m
  <2> QED
    BY <1>1, <1>3, <2>1 DEF Undone
<1>7. Surviving'
  BY <1>4, <1>5, <1>6 DEF Surviving
<1>8. Authors'
  BY <1>1, <1>3, <1>5 DEF Authors
<1>9. \A w \in written' : /\ w.frame = g => w \in W
                          /\ g \notin log'[w.frame].path
  <2>1. ASSUME NEW w \in written \cup N PROVE w.frame # g /\ g \notin log'[w.frame].path
    <3>1. w.frame \in 1..m
      BY <1>1, <1>5, <2>1
    <3>2. log'[w.frame].path \subseteq 1..m
      BY <1>1, <3>1 DEF m
    <3> QED
      BY <1>1, <3>1, <3>2
  <2>2. g \notin r
    BY <1>1
  <2> QED
    BY <1>1, <1>3, <2>1, <2>2
<1>10. Holding(Saved(present, g, "own"))'
  <2>1. ASSUME NEW w \in written'
        PROVE  w \in present <=> ~Undone(w)' /\ ~Inside(w, g, "own")'
    <3>1. CASE w \in W /\ w \notin written \cup N
      BY <1>3, <1>6, <1>9, <3>1 DEF Inside, Surviving
    <3>2. CASE w \in N
      <4>1. ~Inside(w, g, "own")'
        BY <1>1, <1>5, <1>9, <3>2 DEF Inside
      <4> QED
        BY <1>5, <3>2, <4>1
    <3>3. CASE w \in written /\ w \notin N
      <4>1. ~Inside(w, g, "own")'
        BY <1>1, <1>9, <3>3 DEF Inside
      <4> QED
        BY <1>4, <3>3, <4>1 DEF Surviving
    <3> QED
      BY <3>1, <3>2, <3>3
  <2>2. present = {w \in written' : ~Undone(w)' /\ ~Inside(w, g, "own")'}
    BY <2>1 DEF Surviving
  <2> QED
    BY <1>1, <2>2 DEF Holding, Saved
<1>11. ASSUME NEW c \in OpenedCheckpoint, Around(c),
              \A w \in N : c.owner = Top.id =>
                 w.layer # "bare" /\ (c.layer = "exec" => w.layer = "exec"),
              Holding(c)
       PROVE  Holding(c)'
  <2>1. c.owner \in 1..m /\ c.layer \in {"own", "exec"}
    BY <1>11 DEF Around, m, OpenedCheckpoint
  <2>2. log'[c.owner] = log[c.owner]
    BY <1>1, <2>1 DEF m
  <2>3. ASSUME log[c.owner].verdict # "left"
        PROVE  c.owner \in r
    BY <1>11, <2>3 DEF Around, r
  <2>4. ASSUME NEW w \in written PROVE Inside(w, c.owner, c.layer)' <=> Inside(w, c.owner, c.layer)
    BY <1>1, <2>4 DEF Inside, m
  <2>5. ASSUME log[c.owner].verdict # "left", NEW w \in W
        PROVE  Inside(w, c.owner, c.layer)'
    BY <1>1, <1>3, <2>3, <2>5 DEF Inside
  <2>6. ASSUME log[c.owner].verdict # "left", NEW w \in N
        PROVE  Inside(w, c.owner, c.layer)'
    <3>1. c.owner = Top.id \/ c.owner \in log[Top.id].path
      <4>1. PICK i \in Running : c.owner = frames[i].id
        BY <1>11, <2>6 DEF Around
      <4>2. i = Len(frames) \/ i < Len(frames)
        BY FrameFacts DEF Running
      <4> QED
        BY <2>6, <4>1, <4>2, TopFacts DEF Top
    <3>2. w.frame = Top.id /\ log'[w.frame].path = log[Top.id].path
      BY <1>1, <1>5, <2>6 DEF m
    <3>3. w.layer \in {"own", "exec", "bare"}
      BY DEF Write
    <3> QED
      BY <1>11, <2>1, <3>1, <3>2, <3>3 DEF Inside
  <2>7. log[c.owner].verdict # "left" =>
          {w \in written' : ~Undone(w)' /\ ~Inside(w, c.owner, c.layer)'}
            = {w \in written : ~Undone(w) /\ ~Inside(w, c.owner, c.layer)}
    BY <1>4, <2>4, <2>5, <2>6
  <2> QED
    BY <1>11, <2>2, <2>7 DEF Holding
<1> QED
  BY <1>7, <1>8, <1>9, <1>10, <1>11
-----------------------------------------------------------------------------
(* The innermost frame closes its innermost checkpoint *)

LEMMA OwnedSplit ==
    ASSUME FramesInv, frames # << >>
    PROVE  /\ Owned = HoldsBelow \cup Holds(Top)
           /\ \A y \in HoldsBelow \cup Abandoned : y[1] # Top.id
<1>1. Len(frames) \in Nat /\ Len(frames) # 0
  BY TopFacts, FrameFacts DEF Running
<1>2. Owned = HoldsBelow \cup Holds(Top)
  <2>1. 1..Len(frames) = 1..(Len(frames) - 1) \cup {Len(frames)}
    BY <1>1
  <2> QED
    BY <2>1, OwnedIsHeld DEF HoldsOf, HoldsBelow, Top
<1>3. ASSUME NEW y \in HoldsBelow PROVE y[1] # Top.id
  <2>1. PICK i \in 1..(Len(frames) - 1) : y \in Holds(frames[i])
    BY DEF HoldsBelow
  <2>2. i \in Running /\ i < Len(frames) /\ y[1] = frames[i].id
    BY <1>1, <2>1 DEF Holds, Running
  <2> QED
    BY <1>1, <2>2, TopFacts
<1>4. ASSUME NEW y \in Abandoned PROVE y[1] # Top.id
  <2>1. y[1] \in 1..Len(log) /\ log[y[1]].verdict = "left"
    BY DEF Abandoned
  <2>2. y[1] < Top.id
    BY <2>1, TopFacts DEF FramesInv, Gone, Top
  <2> QED
    BY <2>1, <2>2, FrameFacts
<1> QED
  BY <1>2, <1>3, <1>4

LEMMA TopCheckpoint ==
    ASSUME FramesInv, Accounted, frames # << >>, NEW x \in Holds(Top),
           x[2] = "own" => ~Top.exec
    PROVE  /\ Len(cps) \in Nat \ {0}
           /\ cps[Len(cps)] \in OpenedCheckpoint /\ Name(cps[Len(cps)]) = x
           /\ Popped(1) \in Seq(OpenedCheckpoint)
           /\ Len(Popped(1)) = Len(cps) - 1
           /\ \A k \in 1..(Len(cps) - 1) : Popped(1)[k] = cps[k]
           /\ Names(Popped(1)) = HoldsBelow \cup (Holds(Top) \ {x}) \cup Abandoned
           /\ Ordered(Popped(1))
<1>1. cps \in Seq(OpenedCheckpoint) /\ Ordered(cps) /\ Names(cps) = Owned \cup Abandoned
  BY AccountedNames DEF FramesInv, TypeOK, OpenedCheckpoint
<1>2. x \in Names(cps) /\ x[1] = Top.id
  BY <1>1, OwnedSplit DEF Holds
<1>3. ASSUME NEW y \in Names(cps) \ {x} PROVE Before(y, x)
  <2>1. y \in Owned \cup Abandoned
    BY <1>1
  <2>2. CASE log[y[1]].verdict = "left" /\ y[1] < Top.id
    BY <1>2, <2>2 DEF Before
  <2>3. CASE y[1] < Top.id
    BY <1>2, <2>3 DEF Before
  <2>4. CASE y[1] = Top.id /\ y \in Holds(Top)
    <3>1. y = <<Top.id, "own">> /\ x = <<Top.id, "exec">>
      BY <2>4 DEF Holds
    <3> QED
      BY <3>1 DEF Before
  <2>5. log[y[1]].verdict = "left" => y[1] < Top.id
    <3>1. log[y[1]].verdict = "left" /\ (\E i \in Running : y[1] = frames[i].id) => FALSE
      BY FrameFacts DEF FramesInv, Gone, FrameRecord
    <3> QED
      BY <2>1, <3>1, OwnersAround, TopFacts DEF Top
  <2> QED
    BY <2>1, <2>2, <2>3, <2>4, <2>5, OwnersAround
<1>4. /\ Len(cps) \in Nat \ {0}
      /\ Name(cps[Len(cps)]) = x
      /\ Popped(1) \in Seq(OpenedCheckpoint)
      /\ Len(Popped(1)) = Len(cps) - 1
      /\ \A k \in 1..(Len(cps) - 1) : Popped(1)[k] = cps[k]
      /\ Names(Popped(1)) = Names(cps) \ {x}
      /\ Ordered(Popped(1))
  BY <1>1, <1>2, <1>3, PopOrdered DEF Popped
<1>5. Names(cps) \ {x} = HoldsBelow \cup (Holds(Top) \ {x}) \cup Abandoned
  BY <1>1, <1>2, OwnedSplit
<1>6. cps[Len(cps)] \in OpenedCheckpoint
  BY <1>4, FrameFacts
<1> QED
  BY <1>4, <1>5, <1>6
-----------------------------------------------------------------------------
(* Kinds of steps *)

Held(q) == {q[k] : k \in 1..Len(q)}

\* What a throw of this step restores.
Restores ==
    \A f \in 1..Len(log) :
       (log[f].verdict # "throw" /\ log'[f].verdict = "throw" /\ log[f].kind # "builder")
          => st' = log[f].found

LEMMA Assembled ==
    ASSUME log' \in Seq(Entry), Len(log') <= MaxFrames, frames' \in Seq(FrameRecord'),
           \A i \in 1..Len(frames') : frames'[i].exec => frames'[i].pc \in {"exec", "unwind"},
           (Lineage /\ Nested /\ Shaped /\ Gone)',
           cps' \in Seq(OpenedCheckpoint), Names(cps') = Owned' \cup Abandoned', Ordered(cps'),
           \A c \in Held(cps') : Holding(c)',
           Surviving', Authors', Uncovered', written' \subseteq Write
    PROVE  IInv'
<1>1. st' \subseteq written'
  BY DEF Surviving
<1>2. TypeOK'
  BY <1>1 DEF TypeOK, FrameRecord, OpenedCheckpoint
<1>3. Accounted'
  BY AccountedNamesPrime
<1>4. Snapshots'
  <2> SUFFICES ASSUME NEW k \in 1..Len(cps') PROVE Holding(cps[k])'
    BY DEF Snapshots
  <2>1. PICK c : c = cps'[k]
    OBVIOUS
  <2>2. Holding(c)'
    BY <2>1 DEF Held
  <2> QED
    BY <2>1, <2>2 DEF Holding, Undone, Inside
<1> QED
  BY <1>2, <1>3, <1>4 DEF IInv, FramesInv, WritesInv

LEMMA StackFacts ==
    ASSUME IInv
    PROVE  /\ cps \in Seq(OpenedCheckpoint) /\ Ordered(cps) /\ Names(cps) = Owned \cup Abandoned
           /\ Len(cps) \in Nat
           /\ \A k \in 1..Len(cps) : /\ cps[k] \in OpenedCheckpoint /\ Holding(cps[k])
                                     /\ Name(cps[k]) \in Owned \cup Abandoned
           /\ written \subseteq Write /\ st \subseteq written /\ Len(log) <= MaxFrames
<1>1. cps \in Seq(OpenedCheckpoint) /\ Ordered(cps) /\ Names(cps) = Owned \cup Abandoned
  BY AccountedNames DEF IInv, FramesInv, TypeOK, OpenedCheckpoint
<1>2. \A k \in 1..Len(cps) : cps[k] \in OpenedCheckpoint /\ Holding(cps[k])
  BY <1>1, ElementOfSeq DEF IInv, WritesInv, Snapshots
<1>3. \A k \in 1..Len(cps) : Name(cps[k]) \in Owned \cup Abandoned
  BY <1>1 DEF Names
<1> QED
  BY <1>1, <1>2, <1>3, LenProperties DEF IInv, FramesInv, TypeOK

\* Nothing thrown before is thrown by a verdict other than "throw".
LEMMA NothingThrown ==
    ASSUME FramesInv, frames # << >>, NEW v \in Verdicts, log' = Judged(v),
           v # "throw" \/ v = log[Top.id].verdict
    PROVE  Restores
<1>1. \A f \in 1..Len(log) :
         log'[f].verdict = IF f = Top.id THEN v ELSE log[f].verdict
  BY JudgedFacts
<1> QED
  BY <1>1 DEF Restores

\* The innermost frame stays, moves, writes, or gives up one checkpoint whose
\* changes it keeps.
LEMMA StepsOn ==
    ASSUME IInv, frames # << >>,
           NEW x \in FrameRecord, x.id = Top.id, x.exec => x.pc \in {"exec", "unwind"},
           NEW v \in Verdicts \ {"left"}, Suits(Kind, v, x),
           frames' = WithTop(x), log' = Judged(v),
           \/ v = log[Top.id].verdict
           \/ v \notin {"fail", "throw"} /\ log[Top.id].verdict \notin {"fail", "throw"},
           NEW l \in {"own", "exec", "bare"}, NEW W \in SUBSET {By(Top.id, l)},
           W # {} => /\ log[Top.id].verdict = "open"
                     /\ l = "bare" => Holds(Top) = {}
                     /\ Top.exec => l = "exec",
           written' = written \cup W, st' = st \cup W,
           \/ cps' = cps /\ Holds(x) = Holds(Top)
           \/ \E y \in Holds(Top) : /\ y[2] = "own" => ~Top.exec
                                    /\ cps' = Popped(1) /\ Holds(x) = Holds(Top) \ {y},
           x.pc # "init",
           x.pc = "pending" /\ ~x.outer => x = Top /\ Kind = "builder" /\ (W # {} => l = "bare")
    PROVE  IInv' /\ Restores
<1> USE DEF IInv, WritesInv
<1>1. log[Top.id].verdict # "left"
  BY TopFacts DEF Suits
<1>2. /\ Surviving' /\ Authors'
      /\ \A c \in OpenedCheckpoint :
            /\ Name(c) \in Owned \cup Abandoned
            /\ W # {} /\ c.owner = Top.id => l # "bare" /\ (c.layer = "exec" => l = "exec")
            /\ Holding(c)
            => Holding(c)'
      /\ \A w \in written : \A f \in Ids : \A k \in {"own", "exec"} :
            Inside(w, f, k)' <=> Inside(w, f, k)
      /\ \A w \in W : w.frame = Top.id /\ w.layer = l /\ Top.id \notin log'[w.frame].path
  <2>1. FramesInv /\ Surviving /\ Authors /\ (W # {} => log[Top.id].verdict = "open")
    OBVIOUS
  <2> HIDE DEF IInv, WritesInv
  <2>2. WritesKept(l, W)
    BY <1>1, <2>1, TopWrites
  <2> QED
    BY <2>2 DEF WritesKept
<1>3. /\ Len(log') = Len(log) /\ log' \in Seq(Entry)
      /\ frames' \in Seq(FrameRecord')
      /\ \A i \in 1..Len(frames') : frames'[i].exec => frames'[i].pc \in {"exec", "unwind"}
      /\ (Lineage /\ Nested /\ Shaped /\ Gone)'
      /\ Owned' = HoldsBelow \cup Holds(x)
      /\ Abandoned' = Abandoned
      /\ Top' = x /\ Kind' = Kind
  BY TopMoves
<1>4. \A c \in Held(cps) : Holding(c)'
  <2> TAKE c \in Held(cps)
  <2>1. c \in OpenedCheckpoint /\ Holding(c) /\ Name(c) \in Owned \cup Abandoned
    BY StackFacts DEF Held
  <2>2. ASSUME W # {}, c.owner = Top.id
        PROVE  l # "bare" /\ (c.layer = "exec" => l = "exec")
    <3>1. Name(c)[1] = Top.id
      BY <2>2 DEF Name
    <3>2. Name(c) \in Holds(Top)
      BY <2>1, <3>1, OwnedSplit
    <3> QED
      BY <2>2, <3>2 DEF Holds, Name
  <2> QED
    BY <1>2, <2>1, <2>2
<1>5. /\ cps' \in Seq(OpenedCheckpoint) /\ Ordered(cps')
      /\ Names(cps') = Owned' \cup Abandoned'
      /\ \A c \in Held(cps') : Holding(c)'
  <2>1. CASE cps' = cps /\ Holds(x) = Holds(Top)
    BY <1>3, <1>4, <2>1, StackFacts, OwnedSplit
  <2>2. CASE \E y \in Holds(Top) : /\ y[2] = "own" => ~Top.exec
                                   /\ cps' = Popped(1) /\ Holds(x) = Holds(Top) \ {y}
    <3>1. PICK y \in Holds(Top) : /\ y[2] = "own" => ~Top.exec
                                  /\ cps' = Popped(1) /\ Holds(x) = Holds(Top) \ {y}
      BY <2>2
    <3>2. /\ Popped(1) \in Seq(OpenedCheckpoint) /\ Ordered(Popped(1))
          /\ Len(cps) \in Nat \ {0} /\ Len(Popped(1)) = Len(cps) - 1
          /\ \A k \in 1..(Len(cps) - 1) : Popped(1)[k] = cps[k]
          /\ Names(Popped(1)) = HoldsBelow \cup (Holds(Top) \ {y}) \cup Abandoned
      BY <3>1, TopCheckpoint
    <3>3. Held(Popped(1)) \subseteq Held(cps)
      BY <3>2 DEF Held
    <3> QED
      BY <1>3, <1>4, <3>1, <3>2, <3>3
  <2> QED
    BY <2>1, <2>2
<1>6. Uncovered'
  <2>1. ~At("call", "init")'
    BY <1>3 DEF At
  <2>2. ASSUME At("builder", "pending")', ~x.outer, NEW w \in written \cup W
        PROVE  ~Inside(w, x.id, "own")'
    <3>1. x = Top /\ Kind = "builder" /\ x.pc = "pending"
      BY <1>3, <2>2 DEF At
    <3>2. CASE w \in written
      <4>1. ~Inside(w, Top.id, "own")
        BY <2>2, <3>1, <3>2 DEF Uncovered, At
      <4>2. Top.id \in Ids
        BY TopFacts, FrameFacts
      <4> QED
        BY <1>2, <3>1, <3>2, <4>1, <4>2
    <3>3. CASE w \in W
      <4>1. l = "bare"
        BY <2>2, <3>1, <3>3
      <4> QED
        BY <1>2, <3>1, <3>3, <4>1 DEF Inside
    <3> QED
      BY <2>2, <3>2, <3>3
  <2> QED
    BY <1>3, <2>1, <2>2 DEF Uncovered
<1>7. written' \subseteq Write
  BY TopFacts, FrameFacts, StackFacts DEF By, Write
<1>8. Restores
  BY NothingThrown
<1> QED
  BY <1>2, <1>3, <1>5, <1>6, <1>7, <1>8, StackFacts, Assembled

\* The innermost frame ends and keeps its changes.
LEMMA StepsOut ==
    ASSUME IInv, frames # << >>, NEW v \in Verdicts \ {"left"}, log' = Judged(v),
           \/ v = log[Top.id].verdict
           \/ v \notin {"fail", "throw"} /\ log[Top.id].verdict \notin {"fail", "throw"},
           frames' = Below \/ frames' = Propagated(Below),
           st' = st, written' = written,
           \/ cps' = cps /\ Holds(Top) = {}
           \/ \E y : Holds(Top) = {y} /\ (y[2] = "own" => ~Top.exec) /\ cps' = Popped(1)
    PROVE  IInv' /\ Restores
<1>1. FramesInv /\ Surviving /\ Authors /\ Accounted
  BY DEF IInv, WritesInv
<1>2. log[Top.id].verdict # "left"
  BY <1>1, TopFacts DEF Suits
<1>3. /\ Surviving' /\ Authors'
      /\ \A c \in OpenedCheckpoint : Name(c) \in Owned \cup Abandoned /\ Holding(c) => Holding(c)'
  <2> DEFINE W == {}
  <2>1. W \in SUBSET {By(Top.id, "own")} /\ written' = written \cup W /\ st' = st \cup W /\ W = {}
    OBVIOUS
  <2> HIDE DEF W
  <2>2. WritesKept("own", W)
    BY <1>1, <1>2, <2>1, TopWrites
  <2> QED
    BY <2>1, <2>2 DEF WritesKept
<1>4. /\ Len(log') = Len(log) /\ log' \in Seq(Entry)
      /\ frames' \in Seq(FrameRecord')
      /\ \A i \in 1..Len(frames') : frames'[i].exec => frames'[i].pc \in {"exec", "unwind"}
      /\ (Lineage /\ Nested /\ Shaped /\ Gone)'
      /\ Owned' = HoldsBelow
      /\ Abandoned' = Abandoned
      /\ frames' # << >> => Top'.pc = "unwind" \/ Waits(Top')
  BY <1>1, Leaves
<1>5. \A c \in Held(cps) : Holding(c)'
  BY <1>3, StackFacts DEF Held
<1>6. /\ cps' \in Seq(OpenedCheckpoint) /\ Ordered(cps')
      /\ Names(cps') = Owned' \cup Abandoned'
      /\ \A c \in Held(cps') : Holding(c)'
  <2>1. CASE cps' = cps /\ Holds(Top) = {}
    BY <1>1, <1>4, <1>5, <2>1, StackFacts, OwnedSplit
  <2>2. CASE \E y : Holds(Top) = {y} /\ (y[2] = "own" => ~Top.exec) /\ cps' = Popped(1)
    <3>1. PICK y : Holds(Top) = {y} /\ (y[2] = "own" => ~Top.exec) /\ cps' = Popped(1)
      BY <2>2
    <3>2. /\ Popped(1) \in Seq(OpenedCheckpoint) /\ Ordered(Popped(1))
          /\ Len(cps) \in Nat \ {0} /\ Len(Popped(1)) = Len(cps) - 1
          /\ \A k \in 1..(Len(cps) - 1) : Popped(1)[k] = cps[k]
          /\ Names(Popped(1)) = HoldsBelow \cup (Holds(Top) \ {y}) \cup Abandoned
      BY <1>1, <3>1, TopCheckpoint
    <3>3. Held(Popped(1)) \subseteq Held(cps)
      BY <3>2 DEF Held
    <3> QED
      BY <1>4, <1>5, <3>1, <3>2, <3>3
  <2> QED
    BY <2>1, <2>2
<1>7. Uncovered'
  BY <1>4 DEF Uncovered, At, Waits
<1>8. Restores
  BY <1>1, NothingThrown
<1> QED
  BY <1>3, <1>4, <1>6, <1>7, <1>8, StackFacts, Assembled

\* The innermost frame takes its changes back, and stays or ends.
LEMMA StepsBack ==
    ASSUME IInv, frames # << >>, NEW v \in {"fail", "throw"}, log' = Judged(v),
           log[Top.id].verdict = "open" \/ (log[Top.id].verdict = "fail" /\ v = "throw"),
           written' = written,
           NEW c0 \in Held(cps), Name(c0) = <<Top.id, IF v = "throw" THEN "own" ELSE "exec">>,
           st' = c0.state,
           cps' \in Seq(OpenedCheckpoint), Ordered(cps'), Held(cps') \subseteq Held(cps),
           \/ /\ frames' = Propagated(Below)
              /\ Names(cps') = HoldsBelow \cup Abandoned
           \/ \E x \in FrameRecord :
                 /\ x.id = Top.id /\ ~x.exec /\ Suits(Kind, v, x) /\ x.pc \in {"after", "reverted"}
                 /\ frames' = WithTop(x)
                 /\ v = "throw" => Holds(x) = {}
                 /\ Names(cps') = HoldsBelow \cup Holds(x) \cup Abandoned
    PROVE  IInv' /\ Restores
<1>1. FramesInv /\ Surviving /\ Authors /\ Accounted /\ v \in Verdicts \ {"left"}
  BY DEF IInv, WritesInv, Verdicts
<1>2. c0 \in OpenedCheckpoint /\ Holding(c0) /\ c0.owner = Top.id
      /\ c0.layer = IF v = "throw" THEN "own" ELSE "exec"
  BY StackFacts DEF Held, Name
<1>3. /\ Surviving' /\ Authors'
      /\ \A c \in OpenedCheckpoint :
            /\ Name(c) \in Owned \cup Abandoned
            /\ Name(c) # Name(c0)
            /\ v = "throw" => c.owner # Top.id
            /\ Holding(c)
            => Holding(c)'
  BY <1>1, <1>2, StackFacts, RevertingVerdict
<1>4. /\ Len(log') = Len(log) /\ log' \in Seq(Entry)
      /\ frames' \in Seq(FrameRecord')
      /\ \A i \in 1..Len(frames') : frames'[i].exec => frames'[i].pc \in {"exec", "unwind"}
      /\ (Lineage /\ Nested /\ Shaped /\ Gone)'
      /\ Names(cps') = Owned' \cup Abandoned'
      /\ Uncovered'
      /\ \A y \in Names(cps') : y # Name(c0) /\ (v = "throw" => y[1] # Top.id)
  <2>1. CASE frames' = Propagated(Below) /\ Names(cps') = HoldsBelow \cup Abandoned
    <3>1. /\ Len(log') = Len(log) /\ log' \in Seq(Entry)
          /\ frames' \in Seq(FrameRecord')
          /\ \A i \in 1..Len(frames') : frames'[i].exec => frames'[i].pc \in {"exec", "unwind"}
          /\ (Lineage /\ Nested /\ Shaped /\ Gone)'
          /\ Owned' = HoldsBelow
          /\ Abandoned' = Abandoned
          /\ frames' # << >> => Top'.pc = "unwind" \/ Waits(Top')
      BY <1>1, <2>1, Leaves
    <3>2. Uncovered'
      BY <3>1 DEF Uncovered, At, Waits
    <3>3. \A y \in HoldsBelow \cup Abandoned : y[1] # Top.id /\ y # Name(c0)
      BY <1>1, OwnedSplit
    <3>4. \A y \in Names(cps') : y # Name(c0) /\ (v = "throw" => y[1] # Top.id)
      BY <2>1, <3>3
    <3>5. Names(cps') = Owned' \cup Abandoned'
      BY <2>1, <3>1
    <3> QED
      BY <3>1, <3>2, <3>4, <3>5
  <2>2. CASE \E x \in FrameRecord :
                 /\ x.id = Top.id /\ ~x.exec /\ Suits(Kind, v, x) /\ x.pc \in {"after", "reverted"}
                 /\ frames' = WithTop(x)
                 /\ v = "throw" => Holds(x) = {}
                 /\ Names(cps') = HoldsBelow \cup Holds(x) \cup Abandoned
    <3>1. PICK x \in FrameRecord :
                 /\ x.id = Top.id /\ ~x.exec /\ Suits(Kind, v, x) /\ x.pc \in {"after", "reverted"}
                 /\ frames' = WithTop(x)
                 /\ v = "throw" => Holds(x) = {}
                 /\ Names(cps') = HoldsBelow \cup Holds(x) \cup Abandoned
      BY <2>2
    <3>2. /\ Len(log') = Len(log) /\ log' \in Seq(Entry)
          /\ frames' \in Seq(FrameRecord')
          /\ \A i \in 1..Len(frames') : frames'[i].exec => frames'[i].pc \in {"exec", "unwind"}
          /\ (Lineage /\ Nested /\ Shaped /\ Gone)'
          /\ Owned' = HoldsBelow \cup Holds(x)
          /\ Abandoned' = Abandoned
          /\ Top' = x
      BY <1>1, <3>1, TopMoves
    <3>3. Uncovered'
      BY <3>1, <3>2 DEF Uncovered, At
    <3>4. \A y \in Holds(x) : y # Name(c0) /\ v # "throw"
      BY <3>1 DEF Holds
    <3>5. \A y \in HoldsBelow \cup Abandoned : y[1] # Top.id /\ y # Name(c0)
      BY <1>1, OwnedSplit
    <3>6. \A y \in Names(cps') : y # Name(c0) /\ (v = "throw" => y[1] # Top.id)
      BY <3>1, <3>4, <3>5
    <3>7. Names(cps') = Owned' \cup Abandoned'
      BY <3>1, <3>2
    <3> QED
      BY <3>2, <3>3, <3>6, <3>7
  <2> QED
    BY <2>1, <2>2
<1>5. \A c \in Held(cps') : Holding(c)'
  <2> TAKE c \in Held(cps')
  <2>1. c \in OpenedCheckpoint /\ Holding(c) /\ Name(c) \in Owned \cup Abandoned
    BY StackFacts DEF Held
  <2>2. Name(c) \in Names(cps') /\ Name(c)[1] = c.owner
    BY DEF Names, Held, Name
  <2> QED
    BY <1>3, <1>4, <2>1, <2>2
<1>6. Restores
  <2>1. \A f \in 1..Len(log) :
           log'[f].verdict = IF f = Top.id THEN v ELSE log[f].verdict
    BY <1>1, JudgedFacts
  <2>2. v = "throw" /\ Kind # "builder" => st' = log[Top.id].found
    BY <1>2 DEF Holding, Kind
  <2> QED
    BY <2>1, <2>2 DEF Restores, Kind
<1> QED
  BY <1>3, <1>4, <1>5, <1>6, StackFacts, Assembled

\* What the frames below hold, and what was left open, is older than the
\* innermost frame.
LEMMA BelowEarlier ==
    ASSUME FramesInv, frames # << >>
    PROVE  \A y \in HoldsBelow \cup Abandoned : y[1] < Top.id
<1>1. Len(frames) \in Nat /\ Len(frames) # 0
  BY TopFacts, FrameFacts DEF Running
<1>2. ASSUME NEW y \in HoldsBelow PROVE y[1] < Top.id
  <2>1. PICK i \in 1..(Len(frames) - 1) : y \in Holds(frames[i])
    BY DEF HoldsBelow
  <2>2. i \in Running /\ i < Len(frames) /\ y[1] = frames[i].id
    BY <1>1, <2>1 DEF Holds, Running
  <2> QED
    BY <1>1, <2>2, TopFacts
<1>3. ASSUME NEW y \in Abandoned PROVE y[1] < Top.id
  <2>1. y[1] \in 1..Len(log) /\ log[y[1]].verdict = "left"
    BY DEF Abandoned
  <2> QED
    BY <2>1, TopFacts DEF FramesInv, Gone, Top
<1> QED
  BY <1>2, <1>3

\* The checkpoints that a thrown frame reverts: its execution checkpoint, if it
\* is open, and then its own.
LEMMA RevertsTo ==
    ASSUME IInv, frames # << >>, Top.outer, Top.pc # "torn", NEW n, n = ActiveIn(Top)
    PROVE  /\ n \in Nat \ {0}
           /\ Popped(n) \in Seq(OpenedCheckpoint) /\ Ordered(Popped(n))
           /\ Held(Popped(n)) \subseteq Held(cps)
           /\ Names(Popped(n)) = HoldsBelow \cup Abandoned
           /\ cps[Len(cps) - n + 1] \in Held(cps)
           /\ Name(cps[Len(cps) - n + 1]) = <<Top.id, "own">>
<1>1. FramesInv /\ Accounted
  BY DEF IInv
<1> DEFINE x == <<Top.id, "own">>
<1>2. CASE ~Top.exec
  <2>1. n = 1 /\ Holds(Top) = {x}
    BY <1>2 DEF ActiveIn, Active, Holds
  <2>2. x \in Holds(Top) /\ Holds(Top) \ {x} = {}
    BY <2>1
  <2>3. /\ Len(cps) \in Nat \ {0} /\ Name(cps[Len(cps)]) = x
        /\ Popped(1) \in Seq(OpenedCheckpoint) /\ Ordered(Popped(1))
        /\ Len(Popped(1)) = Len(cps) - 1
        /\ \A k \in 1..(Len(cps) - 1) : Popped(1)[k] = cps[k]
        /\ Names(Popped(1)) = HoldsBelow \cup (Holds(Top) \ {x}) \cup Abandoned
    BY <1>1, <1>2, <2>2, TopCheckpoint
  <2>4. Held(Popped(1)) \subseteq Held(cps)
    BY <2>3 DEF Held
  <2>5. cps[Len(cps)] \in Held(cps) /\ Len(cps) - n + 1 = Len(cps)
    BY <2>1, <2>3 DEF Held
  <2> QED
    BY <2>1, <2>2, <2>3, <2>4, <2>5
<1>3. CASE Top.exec
  <2> DEFINE e == <<Top.id, "exec">>
             q == Popped(1)
  <2>1. n = 2 /\ Holds(Top) = {x, e} /\ x # e
    BY <1>3 DEF ActiveIn, Active, Holds
  <2>2. e \in Holds(Top) /\ Holds(Top) \ {e} = {x} /\ e[2] = "exec"
    BY <2>1
  <2>3. /\ Len(cps) \in Nat \ {0}
        /\ q \in Seq(OpenedCheckpoint) /\ Ordered(q)
        /\ Len(q) = Len(cps) - 1
        /\ \A k \in 1..(Len(cps) - 1) : q[k] = cps[k]
        /\ Names(q) = HoldsBelow \cup {x} \cup Abandoned
    BY <1>1, <2>2, TopCheckpoint
  <2> HIDE DEF q
  <2>4. ASSUME NEW y \in Names(q) \ {x} PROVE Before(y, x)
    BY <1>1, <2>3, BelowEarlier DEF Before
  <2>5. \A y \in HoldsBelow \cup Abandoned : y # x
    BY <1>1, OwnedSplit
  <2> DEFINE r == SubSeq(q, 1, Len(q) - 1)
  <2>6. /\ Len(q) \in Nat \ {0}
        /\ Name(q[Len(q)]) = x
        /\ Len(r) = Len(q) - 1
        /\ \A k \in 1..(Len(q) - 1) : r[k] = q[k]
        /\ Names(r) = Names(q) \ {x}
        /\ Ordered(r)
    BY <2>3, <2>4, PopOrdered
  <2> HIDE DEF r
  <2>7. 2 \in 0..Len(cps)
    BY <2>3, <2>6
  <2>8. /\ Popped(2) \in Seq(OpenedCheckpoint)
        /\ Len(Popped(2)) = Len(cps) - 2
        /\ \A k \in 1..(Len(cps) - 2) : Popped(2)[k] = cps[k]
    BY <2>7, <1>1, StackFacts, PopFacts DEF Popped
  <2>9. Len(r) = Len(cps) - 2 /\ \A k \in 1..(Len(cps) - 2) : r[k] = cps[k]
    BY <2>3, <2>6
  <2>10. Names(Popped(2)) = Names(r) /\ Ordered(Popped(2))
    <3> DEFINE p == Popped(2)
    <3> HIDE DEF p
    <3>1. Len(p) = Len(r) /\ \A k \in 1..Len(r) : p[k] = r[k]
      BY <2>8, <2>9 DEF p
    <3>2. Names(p) = Names(r)
      BY <3>1 DEF Names
    <3>3. Ordered(p)
      BY <2>6, <3>1 DEF Ordered
    <3> QED
      BY <3>2, <3>3 DEF p
  <2>11. Held(Popped(2)) \subseteq Held(cps)
    BY <2>3, <2>8 DEF Held
  <2>12. Names(Popped(2)) = HoldsBelow \cup Abandoned
    BY <2>3, <2>5, <2>6, <2>10
  <2>13. /\ Len(cps) - n + 1 = Len(q) /\ Len(q) \in 1..Len(cps)
         /\ q[Len(q)] = cps[Len(q)]
    BY <2>1, <2>3, <2>6
  <2> QED
    BY <2>1, <2>6, <2>8, <2>10, <2>11, <2>12, <2>13 DEF Held
<1> QED
  BY <1>2, <1>3

\* The frames s are those that run, and all of them wait.
Ready(s) ==
    /\ s \in Seq(FrameRecord) /\ Len(s) = Len(frames)
    /\ \A i \in Running : /\ s[i].id = frames[i].id
                          /\ Suits(log[s[i].id].kind, log[s[i].id].verdict, s[i])
                          /\ Waits(s[i])
                          /\ s[i].exec => s[i].pc \in {"exec", "unwind"}

\* A frame of kind k starts at pc inside the frames s.
Starting(k, s, pc, outer, present) ==
    /\ Ready(s)
    /\ k \in Kinds /\ (k \in {"block", "builder"} => frames = << >>)
    /\ present \in SUBSET Write /\ pc \in Pcs /\ outer \in BOOLEAN
    /\ Suits(k, "open", Frame(pc, outer)) /\ Enter(k, s, Frame(pc, outer), present)

LEMMA Started ==
    ASSUME FramesInv, NEW s, NEW k, NEW present, NEW pc, NEW outer, Starting(k, s, pc, outer, present)
    PROVE  /\ Fresh \in Ids /\ Fresh = Len(log) + 1 /\ Len(log') = Len(log) + 1
           /\ log' \in Seq(Entry) /\ Len(log') <= MaxFrames
           /\ frames' \in Seq(FrameRecord')
           /\ \A i \in 1..Len(frames') : frames'[i].exec => frames'[i].pc \in {"exec", "unwind"}
           /\ (Lineage /\ Nested /\ Shaped /\ Gone)'
           /\ Owned' = HoldsOf(s) \cup Holds(Frame(pc, outer))
           /\ Abandoned' = Abandoned
           /\ \A f \in 1..Len(log) : log'[f] = log[f]
           /\ log'[Fresh] = [kind |-> k, path |-> {frames[i].id : i \in Running},
                             found |-> present, verdict |-> "open"]
           /\ frames' # << >> /\ Top' = Frame(pc, outer) /\ Kind' = k
<1>1. /\ s \in Seq(FrameRecord) /\ Len(s) = Len(frames)
      /\ \A i \in Running : /\ s[i].id = frames[i].id
                            /\ Suits(log[s[i].id].kind, log[s[i].id].verdict, s[i])
                            /\ Waits(s[i])
                            /\ s[i].exec => s[i].pc \in {"exec", "unwind"}
      /\ k \in Kinds /\ (k \in {"block", "builder"} => frames = << >>)
      /\ present \in SUBSET Write /\ pc \in Pcs /\ outer \in BOOLEAN
      /\ Suits(k, "open", Frame(pc, outer)) /\ Enter(k, s, Frame(pc, outer), present)
  BY DEF Starting, Ready
<1> QED
  BY <1>1, Enters

\* The creator writes N and the new frame g writes W.
Writing(N, W, g, present) ==
    /\ N \in SUBSET Write /\ \A w \in N : frames # << >> /\ w.frame = Top.id
    /\ g = Fresh /\ W \in SUBSET {By(g, "own")}
    /\ \A w : w \in present <=> w \in st \/ w \in N
    /\ st' = present \cup W /\ written' = written \cup N \cup W

\* The checkpoints of base belong to the frames s, and take N back.
Based(base, s, N) ==
    /\ base \in Seq(OpenedCheckpoint) /\ Ordered(base)
    /\ Names(base) = HoldsOf(s) \cup Abandoned
    /\ \A c \in Held(base) :
          /\ Holding(c) /\ Around(c)
          /\ \A w \in N : c.owner = Top.id =>
                w.layer # "bare" /\ (c.layer = "exec" => w.layer = "exec")

\* The new frame opens its checkpoint, or has none and writes nothing.
Pushing(outer, base, present, g, W) ==
    \/ outer /\ cps' = Append(base, Saved(present, g, "own"))
    \/ ~outer /\ cps' = base /\ W = {}

\* A frame starts inside frames that wait for it, on the checkpoints of base.
LEMMA StepsIn ==
    ASSUME IInv, frames # << >> => log[Top.id].verdict = "open",
           NEW s, NEW k, NEW pc, NEW outer, NEW present, Starting(k, s, pc, outer, present),
           NEW N, NEW W, NEW g, Writing(N, W, g, present),
           NEW base, Based(base, s, N), Pushing(outer, base, present, g, W)
    PROVE  IInv' /\ Restores
<1> DEFINE c0 == Saved(present, g, "own")
<1>0. /\ N \in SUBSET Write /\ \A w \in N : frames # << >> /\ w.frame = Top.id
      /\ g = Fresh /\ W \in SUBSET {By(g, "own")}
      /\ \A w : w \in present <=> w \in st \/ w \in N
      /\ st' = present \cup W /\ written' = written \cup N \cup W
      /\ base \in Seq(OpenedCheckpoint) /\ Ordered(base)
      /\ Names(base) = HoldsOf(s) \cup Abandoned
      /\ \A c \in Held(base) :
            /\ Holding(c) /\ Around(c)
            /\ \A w \in N : c.owner = Top.id =>
                  w.layer # "bare" /\ (c.layer = "exec" => w.layer = "exec")
      /\ \/ outer /\ cps' = Append(base, Saved(present, g, "own"))
         \/ ~outer /\ cps' = base /\ W = {}
  BY DEF Writing, Based, Pushing
<1> USE <1>0
<1>1. FramesInv /\ Surviving /\ Authors /\ Accounted
  BY DEF IInv, WritesInv
<1>2. st \subseteq written /\ written \subseteq Write /\ present \in SUBSET Write
      /\ k \in Kinds /\ outer \in BOOLEAN
  BY StackFacts DEF Starting
<1>3. /\ g \in Ids /\ g = Len(log) + 1 /\ Len(log') = Len(log) + 1
      /\ log' \in Seq(Entry) /\ Len(log') <= MaxFrames
      /\ frames' \in Seq(FrameRecord')
      /\ \A i \in 1..Len(frames') : frames'[i].exec => frames'[i].pc \in {"exec", "unwind"}
      /\ (Lineage /\ Nested /\ Shaped /\ Gone)'
      /\ Owned' = HoldsOf(s) \cup Holds(Frame(pc, outer))
      /\ Abandoned' = Abandoned
      /\ \A f \in 1..Len(log) : log'[f] = log[f]
      /\ log'[g] = [kind |-> k, path |-> {frames[i].id : i \in Running},
                    found |-> present, verdict |-> "open"]
      /\ frames' # << >> /\ Top' = Frame(pc, outer) /\ Kind' = k
  <2>1. /\ Fresh \in Ids /\ Fresh = Len(log) + 1 /\ Len(log') = Len(log) + 1
        /\ log' \in Seq(Entry) /\ Len(log') <= MaxFrames
        /\ frames' \in Seq(FrameRecord')
        /\ \A i \in 1..Len(frames') : frames'[i].exec => frames'[i].pc \in {"exec", "unwind"}
        /\ (Lineage /\ Nested /\ Shaped /\ Gone)'
        /\ Owned' = HoldsOf(s) \cup Holds(Frame(pc, outer))
        /\ Abandoned' = Abandoned
        /\ \A f \in 1..Len(log) : log'[f] = log[f]
        /\ log'[Fresh] = [kind |-> k, path |-> {frames[i].id : i \in Running},
                          found |-> present, verdict |-> "open"]
        /\ frames' # << >> /\ Top' = Frame(pc, outer) /\ Kind' = k
    BY <1>1, Started
  <2> QED
    BY <2>1
<1>4. /\ Surviving' /\ Authors'
      /\ Holding(c0)'
      /\ \A c \in OpenedCheckpoint :
            /\ Around(c)
            /\ \A w \in N : c.owner = Top.id =>
                  w.layer # "bare" /\ (c.layer = "exec" => w.layer = "exec")
            /\ Holding(c)
            => Holding(c)'
      /\ \A w \in written' : /\ w.frame = g => w \in W
                             /\ g \notin log'[w.frame].path
  <2>1. FramesInv /\ Surviving /\ Authors /\ st \subseteq written
    BY <1>1, <1>2
  <2> QED
    BY <1>2, <1>3, <2>1, EnteringWrites
<1>5. c0 \in OpenedCheckpoint /\ Name(c0) = <<g, "own">>
  BY <1>2, <1>3 DEF Saved, OpenedCheckpoint, Name
<1>6. \A c \in Held(base) : c \in OpenedCheckpoint /\ c.owner \in 1..Len(log)
  BY ElementOfSeq DEF Held, Around
<1>7. \A c \in Held(base) : Holding(c)'
  BY <1>4, <1>6
<1>8. Holds(Frame(pc, outer)) = IF outer THEN {<<g, "own">>} ELSE {}
  BY <1>2 DEF Holds, Frame, Starting, Suits
<1>9. /\ cps' \in Seq(OpenedCheckpoint) /\ Ordered(cps')
      /\ Names(cps') = Owned' \cup Abandoned'
      /\ \A c \in Held(cps') : Holding(c)'
  <2>1. CASE outer /\ cps' = Append(base, c0)
    <3>1. ASSUME NEW y \in Names(base) PROVE Before(y, <<g, "own">>)
      <4>1. PICK j \in 1..Len(base) : y = Name(base[j])
        BY DEF Names
      <4>2. base[j].owner \in 1..Len(log)
        BY <1>6 DEF Held
      <4>3. Len(log) \in Nat
        BY <1>1, FrameFacts
      <4> QED
        BY <1>3, <4>1, <4>2, <4>3 DEF Before, Name
    <3> HIDE DEF c0
    <3>2. /\ Append(base, c0) \in Seq(OpenedCheckpoint)
          /\ Len(Append(base, c0)) = Len(base) + 1
          /\ \A j \in 1..Len(base) : Append(base, c0)[j] = base[j]
          /\ Append(base, c0)[Len(base) + 1] = c0
          /\ Names(Append(base, c0)) = Names(base) \cup {Name(c0)}
          /\ Ordered(Append(base, c0))
      BY <1>5, <3>1, PushOrdered
    <3>3. Len(base) \in Nat
      OBVIOUS
    <3>4. Held(cps') \subseteq Held(base) \cup {c0}
      <4> DEFINE q == Append(base, c0)
      <4> HIDE DEF q
      <4>1. \A j \in 1..Len(q) : q[j] \in Held(base) \cup {c0}
        BY <3>2, <3>3 DEF q, Held
      <4> QED
        BY <2>1, <4>1 DEF q, Held
    <3>5. Names(cps') = Owned' \cup Abandoned'
      BY <1>3, <1>5, <1>8, <2>1, <3>2
    <3> QED
      BY <1>4, <1>7, <2>1, <3>2, <3>4, <3>5
  <2>2. CASE ~outer /\ cps' = base
    BY <1>3, <1>7, <1>8, <2>2
  <2> QED
    BY <2>1, <2>2
<1>10. Uncovered'
  <2>1. Top'.id = g /\ Top'.pc = pc /\ Top'.outer = outer
    BY <1>3 DEF Frame
  <2>2. \A w \in written' : w.frame = g => w.layer = "own"
    BY <1>4 DEF By
  <2>3. ASSUME NEW w \in written' PROVE ~Inside(w, g, "exec")'
    BY <1>4, <2>2 DEF Inside
  <2>4. ASSUME ~outer, NEW w \in written' PROVE ~Inside(w, g, "own")'
    <3>1. W = {}
      BY <2>4
    <3> QED
      BY <1>4, <3>1 DEF Inside
  <2> QED
    BY <2>1, <2>3, <2>4 DEF Uncovered
<1>11. written' \subseteq Write
  BY <1>2, <1>3 DEF By, Write
<1>12. Restores
  BY <1>3 DEF Restores
<1> QED
  BY <1>3, <1>4, <1>9, <1>10, <1>11, <1>12, Assembled

\* Whoever holds a checkpoint is a running frame, or a block that left it open.
LEMMA HeldAround ==
    ASSUME IInv
    PROVE  \A c \in Held(cps) : c \in OpenedCheckpoint /\ Holding(c) /\ Around(c)
<1> TAKE c \in Held(cps)
<1>1. c \in OpenedCheckpoint /\ Holding(c) /\ Name(c) \in Owned \cup Abandoned
  BY StackFacts DEF Held
<1>2. Name(c)[1] = c.owner
  BY DEF Name
<1>3. FramesInv
  BY DEF IInv
<1>4. /\ c.owner \in 1..Len(log)
      /\ log[c.owner].verdict = "left" \/ \E i \in Running : c.owner = frames[i].id
  BY <1>1, <1>2, <1>3, OwnersAround
<1> QED
  BY <1>1, <1>4 DEF Around

\* The innermost frame opens a checkpoint that takes back nothing written yet.
LEMMA Opens ==
    ASSUME IInv, frames # << >>, log[Top.id].verdict = "open", NEW l \in {"own", "exec"},
           Holds(Top) = IF l = "own" THEN {} ELSE {<<Top.id, "own">>},
           l = "own" => Kind = "builder",
           \A w \in written : ~Inside(w, Top.id, l)
    PROVE  /\ Opened(Top.id, l) \in Seq(OpenedCheckpoint) /\ Ordered(Opened(Top.id, l))
           /\ Names(Opened(Top.id, l)) = Owned \cup {<<Top.id, l>>} \cup Abandoned
           /\ Held(Opened(Top.id, l)) \subseteq Held(cps) \cup {Saved(st, Top.id, l)}
           /\ Holding(Saved(st, Top.id, l)) /\ Around(Saved(st, Top.id, l))
           /\ Saved(st, Top.id, l) \in OpenedCheckpoint
<1> DEFINE c0 == Saved(st, Top.id, l)
<1>1. FramesInv /\ Surviving
  BY DEF IInv, WritesInv
<1>2. c0 \in OpenedCheckpoint /\ Name(c0) = <<Top.id, l>> /\ c0.owner = Top.id /\ c0.layer = l
      /\ c0.state = st
  BY <1>1, TopFacts, FrameFacts, StackFacts DEF Saved, OpenedCheckpoint, Name
<1> HIDE DEF c0
<1>3. ASSUME NEW y \in Names(cps) PROVE Before(y, Name(c0))
  <2>1. y \in HoldsBelow \cup Holds(Top) \cup Abandoned
    BY <1>1, StackFacts, OwnedSplit
  <2>2. CASE y \in HoldsBelow \cup Abandoned
    BY <1>1, <1>2, <2>2, BelowEarlier DEF Before
  <2>3. CASE y \in Holds(Top)
    BY <1>2, <2>3 DEF Before
  <2> QED
    BY <2>1, <2>2, <2>3
<1> DEFINE q == Append(cps, c0)
<1>4. /\ q \in Seq(OpenedCheckpoint) /\ Len(q) = Len(cps) + 1
      /\ \A k \in 1..Len(cps) : q[k] = cps[k]
      /\ q[Len(cps) + 1] = c0
      /\ Names(q) = Names(cps) \cup {Name(c0)}
      /\ Ordered(q)
  BY <1>2, <1>3, StackFacts, PushOrdered
<1> HIDE DEF q
<1>5. \A k \in 1..Len(q) : q[k] \in Held(cps) \cup {c0}
  BY <1>4, StackFacts DEF Held
<1>6. Held(q) \subseteq Held(cps) \cup {c0}
  BY <1>5 DEF Held
<1>7. Holding(c0)
  <2>1. st = {w \in written : ~Undone(w) /\ ~Inside(w, Top.id, l)}
    BY <1>1 DEF Surviving
  <2> QED
    BY <1>2, <2>1 DEF Holding, Kind
<1>8. Around(c0)
  <2>1. Top.id \in 1..Len(log) /\ Len(frames) \in Running
    BY <1>1, TopFacts
  <2> QED
    BY <1>2, <2>1 DEF Around, Top
<1>9. q = Opened(Top.id, l)
  BY DEF q, c0, Opened
<1>10. Names(q) = Owned \cup {<<Top.id, l>>} \cup Abandoned
  BY <1>2, <1>4, StackFacts
<1> QED
  BY <1>2, <1>4, <1>6, <1>7, <1>8, <1>9, <1>10 DEF c0

\* The innermost frame opens a checkpoint and goes on.
LEMMA StepsOpening ==
    ASSUME IInv, frames # << >>, log[Top.id].verdict = "open", NEW l \in {"own", "exec"},
           Holds(Top) = IF l = "own" THEN {} ELSE {<<Top.id, "own">>},
           l = "own" => Kind = "builder",
           \A w \in written : ~Inside(w, Top.id, l),
           NEW x \in FrameRecord, x.id = Top.id, x.exec => x.pc = "exec", x.pc # "init",
           x.pc = "pending" => x.outer,
           Suits(Kind, "open", x), Holds(x) = Holds(Top) \cup {<<Top.id, l>>},
           frames' = WithTop(x), cps' = Opened(Top.id, l), UNCHANGED <<st, log, written>>
    PROVE  IInv' /\ Restores
<1>1. FramesInv /\ Surviving /\ Authors
  BY DEF IInv, WritesInv
<1>2. log' = Judged("open") /\ "open" \in Verdicts \ {"left"}
  BY <1>1, JudgedSame DEF Verdicts
<1>3. /\ Len(log') = Len(log) /\ log' \in Seq(Entry)
      /\ frames' \in Seq(FrameRecord')
      /\ \A i \in 1..Len(frames') : frames'[i].exec => frames'[i].pc \in {"exec", "unwind"}
      /\ (Lineage /\ Nested /\ Shaped /\ Gone)'
      /\ Owned' = HoldsBelow \cup Holds(x)
      /\ Abandoned' = Abandoned
      /\ Top' = x
  BY <1>1, <1>2, TopMoves
<1>4. Surviving' /\ Authors'
  BY <1>1 DEF Surviving, Authors, Undone
<1>5. \A c \in Held(cps) \cup {Saved(st, Top.id, l)} : Holding(c)'
  <2> TAKE c \in Held(cps) \cup {Saved(st, Top.id, l)}
  <2>1. Holding(c)
    BY HeldAround, Opens
  <2> QED
    BY <2>1 DEF Holding, Undone, Inside
<1>6. /\ cps' \in Seq(OpenedCheckpoint) /\ Ordered(cps')
      /\ \A c \in Held(cps') : Holding(c)'
      /\ Names(cps') = Owned \cup {<<Top.id, l>>} \cup Abandoned
  BY <1>5, Opens
<1>7. Names(cps') = Owned' \cup Abandoned'
  BY <1>1, <1>3, <1>6, OwnedSplit
<1>8. Uncovered'
  BY <1>3 DEF Uncovered, At
<1>9. Restores
  BY DEF Restores
<1> QED
  BY <1>3, <1>4, <1>6, <1>7, <1>8, <1>9, StackFacts, Assembled
-----------------------------------------------------------------------------
(* What the handlers do to the innermost frame *)

At2(pc, outer, exec) == [id |-> Top.id, pc |-> pc, outer |-> outer, exec |-> exec]

\* The innermost frame with other fields.
WithPc(r, pc) == [r EXCEPT !.pc = pc]
WithOuter(r, o) == [r EXCEPT !.outer = o]
WithExec(r, b) == [r EXCEPT !.exec = b]
WithBoth(r, pc, o) == [r EXCEPT !.pc = pc, !.outer = o]
WithCode(r, pc, b) == [r EXCEPT !.pc = pc, !.exec = b]

LEMMA Fields ==
    ASSUME NEW r, NEW pc, NEW o, NEW b, r = At2(pc, o, b)
    PROVE  /\ \A p : WithPc(r, p) = At2(p, o, b)
           /\ \A q : WithOuter(r, q) = At2(pc, q, b)
           /\ \A p, q : WithBoth(r, p, q) = At2(p, q, b)
           /\ \A p, q : WithCode(r, p, q) = At2(p, o, q)
<1>1. \A p : WithPc(r, p) = At2(p, o, b)
  BY DEF WithPc, At2
<1>2. \A q : WithOuter(r, q) = At2(pc, q, b)
  BY DEF WithOuter, At2
<1>3. ASSUME NEW p, NEW q PROVE WithBoth(r, p, q) = At2(p, q, b)
  <2>1. WithBoth(r, p, q) = WithOuter(WithPc(r, p), q)
    BY DEF WithBoth, WithPc, WithOuter
  <2>2. WithOuter(At2(p, o, b), q) = At2(p, q, b)
    BY DEF WithOuter, At2
  <2> QED
    BY <1>1, <2>1, <2>2
<1>4. ASSUME NEW p, NEW q PROVE WithCode(r, p, q) = At2(p, o, q)
  <2>1. WithCode(r, p, q) = WithExec(WithPc(r, p), q)
    BY DEF WithCode, WithPc, WithExec
  <2>2. WithExec(At2(p, o, b), q) = At2(p, o, q)
    BY DEF WithExec, At2
  <2> QED
    BY <1>1, <2>1, <2>2
<1> QED
  BY <1>1, <1>2, <1>3, <1>4

LEMMA Moves ==
    ASSUME FramesInv, frames # << >>
    PROVE  /\ Top = At2(Top.pc, Top.outer, Top.exec)
           /\ frames = WithTop(Top)
           /\ \A pc : To(pc) = WithTop(At2(pc, Top.outer, Top.exec))
           /\ Left = WithTop(At2("after", Top.outer, FALSE))
           /\ [frames EXCEPT ![Len(frames)].pc = "exec", ![Len(frames)].exec = TRUE]
                = WithTop(At2("exec", Top.outer, TRUE))
           /\ WithCheckpoint = WithTop(At2(Top.pc, TRUE, Top.exec))
           /\ \A o : Built(o) = WithTop(At2("build", o, Top.exec))
           /\ [frames EXCEPT ![Len(frames)].pc = "reverted", ![Len(frames)].outer = FALSE]
                = WithTop(At2("reverted", FALSE, Top.exec))
<1>1. Top \in FrameRecord /\ Len(frames) \in 1..Len(frames) /\ frames \in Seq(FrameRecord)
  BY TopFacts DEF Running, FramesInv, TypeOK, FrameRecord
<1>2. Top = At2(Top.pc, Top.outer, Top.exec)
  BY <1>1 DEF FrameRecord, At2
<1>3. frames = WithTop(Top)
  BY <1>1 DEF WithTop, Top
<1>4. \A pc : To(pc) = WithTop(WithPc(Top, pc))
  BY DEF To, WithTop, WithPc, Top
<1>5. ASSUME NEW o, NEW p
      PROVE  [frames EXCEPT ![Len(frames)].pc = p, ![Len(frames)].exec = o]
               = WithTop(WithCode(Top, p, o))
  <2>1. [frames EXCEPT ![Len(frames)].pc = p, ![Len(frames)].exec = o]
          = [frames EXCEPT ![Len(frames)] = [@ EXCEPT !.pc = p, !.exec = o]]
    OBVIOUS
  <2> QED
    BY <2>1 DEF WithTop, WithCode, Top
<1>6. \A o, p : [frames EXCEPT ![Len(frames)].pc = p, ![Len(frames)].outer = o]
                  = WithTop(WithBoth(Top, p, o))
  BY DEF WithTop, WithBoth, Top
<1>7. \A o : [frames EXCEPT ![Len(frames)].outer = o] = WithTop(WithOuter(Top, o))
  BY DEF WithTop, WithOuter, Top
<1>8. /\ \A p : WithPc(Top, p) = At2(p, Top.outer, Top.exec)
      /\ \A q : WithOuter(Top, q) = At2(Top.pc, q, Top.exec)
      /\ \A p, q : WithBoth(Top, p, q) = At2(p, q, Top.exec)
      /\ \A p, q : WithCode(Top, p, q) = At2(p, Top.outer, q)
  BY <1>2, Fields
<1>9. ASSUME NEW o, NEW p
      PROVE  [frames EXCEPT ![Len(frames)].pc = p, ![Len(frames)].exec = o]
               = WithTop(At2(p, Top.outer, o))
  <2>1. WithCode(Top, p, o) = At2(p, Top.outer, o)
    BY <1>8
  <2> QED
    BY <1>5, <2>1
<1>10. \A o, p : [frames EXCEPT ![Len(frames)].pc = p, ![Len(frames)].outer = o]
                  = WithTop(At2(p, o, Top.exec))
  BY <1>6, <1>8
<1>11. \A o : [frames EXCEPT ![Len(frames)].outer = o] = WithTop(At2(Top.pc, o, Top.exec))
  BY <1>7, <1>8
<1>12. Left = WithTop(At2("after", Top.outer, FALSE))
  BY <1>9 DEF Left
<1>13. [frames EXCEPT ![Len(frames)].pc = "exec", ![Len(frames)].exec = TRUE]
        = WithTop(At2("exec", Top.outer, TRUE))
  BY <1>9
<1>14. WithCheckpoint = WithTop(At2(Top.pc, TRUE, Top.exec))
  BY <1>11 DEF WithCheckpoint
<1>15. \A o : Built(o) = WithTop(At2("build", o, Top.exec))
  BY <1>10 DEF Built
<1>16. [frames EXCEPT ![Len(frames)].pc = "reverted", ![Len(frames)].outer = FALSE]
         = WithTop(At2("reverted", FALSE, Top.exec))
  BY <1>10
<1>17. \A pc : To(pc) = WithTop(At2(pc, Top.outer, Top.exec))
  BY <1>4, <1>8
<1> QED
  BY <1>2, <1>3, <1>12, <1>13, <1>14, <1>15, <1>16, <1>17

Shape(x, pc, o, b) ==
    /\ x \in FrameRecord /\ x.id = Top.id
    /\ x.pc = pc /\ x.outer = o /\ x.exec = b

LEMMA At2Facts ==
    ASSUME FramesInv, frames # << >>
    PROVE  \A pc \in Pcs, o \in BOOLEAN, b \in BOOLEAN : Shape(At2(pc, o, b), pc, o, b)
<1>1. Top.id \in 1..Len(log)
  BY TopFacts
<1> QED
  BY <1>1 DEF At2, FrameRecord, Shape

\* What a frame may be at the places of its kind.
LEMMA Places ==
    ASSUME FramesInv, frames # << >>
    PROVE  /\ Top.pc \in Pcs /\ Top.outer \in BOOLEAN /\ Top.exec \in BOOLEAN
           /\ Kind \in Kinds /\ log[Top.id].verdict \in Verdicts \ {"left"}
           /\ Kind \in {"call", "tx", "block"} => Top.outer
           /\ Kind = "code" => ~Top.outer
           /\ Top.exec => Kind = "call" /\ Top.pc \in {"exec", "unwind"}
           /\ Kind = "call" /\ Top.pc = "exec" => Top.exec
           /\ Top.exec /\ Top.pc = "exec" => log[Top.id].verdict = "open"
           /\ Kind \in {"block", "code"} => log[Top.id].verdict = "open"
           /\ Kind = "tx" /\ Top.pc # "torn" => log[Top.id].verdict = "open"
           /\ Kind = "call" /\ Top.pc # "torn" => log[Top.id].verdict \in {"open", "fail"}
           /\ Kind = "builder" /\ Top.pc = "pending" => log[Top.id].verdict = "open"
           /\ Kind = "builder" => log[Top.id].verdict # "fail"
<1>1. Top \in FrameRecord /\ Suits(Kind, log[Top.id].verdict, Top) /\ Top.id \in 1..Len(log)
  BY TopFacts
<1>2. Top.pc \in Pcs /\ Top.outer \in BOOLEAN /\ Top.exec \in BOOLEAN
  BY <1>1 DEF FrameRecord
<1>3. log[Top.id] \in Entry
  BY <1>1, FrameFacts
<1>4. Kind \in Kinds /\ log[Top.id].verdict \in Verdicts
  BY <1>3 DEF Entry, Kind
<1> QED
  BY <1>1, <1>2, <1>4 DEF Suits

\* The innermost frame writes and stays where it is.
LEMMA StepsWriting ==
    ASSUME IInv, frames # << >>, log[Top.id].verdict = "open", Top.pc # "init",
           NEW l \in {"own", "exec", "bare"}, NEW W \in SUBSET {By(Top.id, l)},
           W # {} => /\ l = "bare" => Holds(Top) = {}
                     /\ Top.exec => l = "exec",
           Top.pc = "pending" /\ ~Top.outer => Kind = "builder" /\ l = "bare",
           frames' = frames, log' = log, cps' = cps, Writes(W)
    PROVE  IInv' /\ Restores
<1>1. FramesInv
  BY DEF IInv
<1>2. /\ frames' = WithTop(Top) /\ log' = Judged(log[Top.id].verdict)
      /\ Top \in FrameRecord /\ Suits(Kind, log[Top.id].verdict, Top)
      /\ log[Top.id].verdict \in Verdicts \ {"left"}
  BY <1>1, Moves, JudgedSame, TopFacts, Places
<1>3. Top.exec => Top.pc \in {"exec", "unwind"}
  BY <1>1, Places
<1> QED
  BY <1>2, <1>3, StepsOn DEF Writes

LEMMA ExecuteStep == ASSUME IInv, Execute PROVE IInv' /\ Restores
<1>1. FramesInv /\ frames # << >> /\ Top.pc = "exec" /\ Kind \in {"call", "code"}
  BY DEF IInv, Execute, Executing, At
<1>2. log[Top.id].verdict = "open" /\ (Kind = "call" => Top.exec)
      /\ (Kind = "code" => ~Top.outer /\ ~Top.exec)
  BY <1>1, Places
<1> DEFINE l == IF Kind = "call" THEN "exec" ELSE "bare"
<1>3. l \in {"own", "exec", "bare"} /\ ExecWrite = By(Top.id, l)
  BY DEF ExecWrite
<1>4. (l = "bare" => Holds(Top) = {}) /\ (Top.exec => l = "exec")
  BY <1>1, <1>2 DEF Holds
<1> DEFINE W == {By(Top.id, l)}
<1>5. W \in SUBSET {By(Top.id, l)} /\ Writes(W) /\ frames' = frames /\ log' = log /\ cps' = cps
  BY <1>3 DEF Execute
<1> HIDE DEF l, W
<1> QED
  BY <1>1, <1>2, <1>3, <1>4, <1>5, StepsWriting

LEMMA ApplyBlockStep == ASSUME IInv, ApplyBlock PROVE IInv' /\ Restores
<1>1. FramesInv /\ frames # << >> /\ Top.pc = "body" /\ Kind = "block"
  BY DEF IInv, ApplyBlock, At
<1>2. log[Top.id].verdict = "open" /\ ~Top.exec
  BY <1>1, Places
<1> DEFINE W == {By(Top.id, "own")}
<1>3. W \in SUBSET {By(Top.id, "own")} /\ Writes(W) /\ frames' = frames /\ log' = log /\ cps' = cps
  BY DEF ApplyBlock
<1> HIDE DEF W
<1> QED
  BY <1>1, <1>2, <1>3, StepsWriting

LEMMA BuildRefusedStep == ASSUME IInv, BuildRefused PROVE IInv' /\ Restores
<1>1. FramesInv /\ frames # << >> /\ Top.pc = "pending" /\ Kind = "builder"
  BY DEF IInv, BuildRefused, At
<1>2. log[Top.id].verdict = "open" /\ ~Top.exec /\ Top.outer \in BOOLEAN
  BY <1>1, Places
<1> DEFINE l == IF Top.outer THEN "own" ELSE "bare"
<1>3. l \in {"own", "exec", "bare"} /\ Rewards = {By(Top.id, l)}
  BY DEF Rewards
<1>4. (l = "bare" => Holds(Top) = {}) /\ (~Top.outer => l = "bare")
  BY <1>2 DEF Holds
<1> HIDE DEF l
<1>5. PICK W \in SUBSET {By(Top.id, l)} : Writes(W)
  BY <1>3 DEF BuildRefused, Reward
<1>6. frames' = frames /\ log' = log /\ cps' = cps
  BY DEF BuildRefused
<1> QED
  BY <1>1, <1>2, <1>3, <1>4, <1>5, <1>6, StepsWriting

\* A transaction writes for itself and goes on.
LEMMA TxWrites ==
    ASSUME IInv, frames # << >>, Kind = "tx", Top.pc \in {"setup", "called"},
           NEW pc \in {"charged", "settle"}, Writes({By(Top.id, "own")}),
           frames' = To(pc), UNCHANGED <<cps, log>>
    PROVE  IInv' /\ Restores
<1>1. FramesInv
  BY DEF IInv
<1>2. /\ log[Top.id].verdict = "open" /\ Top.outer \in BOOLEAN /\ Top.exec \in BOOLEAN
      /\ Top.outer /\ ~Top.exec
      /\ log[Top.id].verdict \in Verdicts \ {"left"}
  BY <1>1, Places
<1> DEFINE x == At2(pc, Top.outer, Top.exec)
           W == {By(Top.id, "own")}
<1>3. Shape(x, pc, Top.outer, Top.exec)
  BY <1>1, <1>2, At2Facts DEF Pcs
<1>4. frames' = WithTop(x) /\ log' = Judged(log[Top.id].verdict)
  BY <1>1, Moves, JudgedSame
<1> HIDE DEF x
<1>5. Suits(Kind, log[Top.id].verdict, x) /\ Holds(x) = Holds(Top)
  BY <1>2, <1>3 DEF Shape, Suits, Holds
<1>6. W \in SUBSET {By(Top.id, "own")} /\ written' = written \cup W /\ st' = st \cup W
      /\ cps' = cps
  BY DEF Writes
<1> HIDE DEF W
<1> QED
  BY <1>2, <1>3, <1>4, <1>5, <1>6, StepsOn DEF Shape

LEMMA ChargeStep == ASSUME IInv, Charge PROVE IInv' /\ Restores
BY TxWrites DEF Charge, At

LEMMA SettleStep == ASSUME IInv, Settle PROVE IInv' /\ Restores
BY TxWrites DEF Settle, At

\* The innermost frame moves, writes nothing, and keeps its checkpoints or gives
\* up the last one.
LEMMA StepsMoving ==
    ASSUME IInv, frames # << >>, NEW x \in FrameRecord, x.id = Top.id,
           x.exec => x.pc \in {"exec", "unwind"}, x.pc \notin {"init", "pending"},
           NEW v \in Verdicts \ {"left"}, Suits(Kind, v, x),
           frames' = WithTop(x), log' = Judged(v),
           \/ v = log[Top.id].verdict
           \/ v \notin {"fail", "throw"} /\ log[Top.id].verdict \notin {"fail", "throw"},
           st' = st, written' = written,
           \/ cps' = cps /\ Holds(x) = Holds(Top)
           \/ \E y \in Holds(Top) : /\ y[2] = "own" => ~Top.exec
                                    /\ cps' = Popped(1) /\ Holds(x) = Holds(Top) \ {y}
    PROVE  IInv' /\ Restores
<1> DEFINE W == {}
<1>1. /\ W \in SUBSET {By(Top.id, "own")} /\ W = {}
      /\ written' = written \cup W /\ st' = st \cup W
  OBVIOUS
<1> HIDE DEF W
<1> QED
  BY <1>1, StepsOn

LEMMA SucceedStep == ASSUME IInv, Succeed PROVE IInv' /\ Restores
<1>1. FramesInv /\ frames # << >> /\ Kind = "call" /\ Top.pc = "exec"
  BY DEF IInv, Succeed, At
<1>2. /\ log[Top.id].verdict = "open" /\ Top.outer \in BOOLEAN /\ Top.outer /\ Top.exec
      /\ log[Top.id].verdict \in Verdicts \ {"left"}
  BY <1>1, Places
<1> DEFINE x == At2("after", Top.outer, FALSE)
           y == <<Top.id, "exec">>
<1>3. Shape(x, "after", Top.outer, FALSE)
  BY <1>1, <1>2, At2Facts DEF Pcs
<1>4. frames' = WithTop(x) /\ log' = Judged(log[Top.id].verdict)
  BY <1>1, Moves, JudgedSame DEF Succeed
<1> HIDE DEF x
<1>5. Suits(Kind, log[Top.id].verdict, x)
  BY <1>1, <1>2, <1>3 DEF Shape, Suits
<1>6. y \in Holds(Top) /\ y[2] # "own" /\ Holds(x) = Holds(Top) \ {y}
  BY <1>1, <1>2, <1>3 DEF Shape, Holds
<1>7. st' = st /\ written' = written /\ cps' = Popped(1)
  BY DEF Succeed
<1> HIDE DEF y
<1> QED
  BY <1>1, <1>2, <1>3, <1>4, <1>5, <1>6, <1>7, StepsMoving DEF Shape

LEMMA ThrowStep == ASSUME IInv, Throw PROVE IInv' /\ Restores
<1>1. FramesInv /\ frames # << >> /\ Kind # "builder" /\ Top.pc \notin {"unwind", "torn"}
  BY DEF IInv, Throw
<1>2. /\ Top.outer \in BOOLEAN /\ Top.exec \in BOOLEAN
      /\ log[Top.id].verdict \in Verdicts \ {"left"}
      /\ Suits(Kind, log[Top.id].verdict, Top)
  BY <1>1, Places, TopFacts
<1> DEFINE x == At2("unwind", Top.outer, Top.exec)
<1>3. Shape(x, "unwind", Top.outer, Top.exec)
  BY <1>1, <1>2, At2Facts DEF Pcs
<1>4. frames' = WithTop(x) /\ log' = Judged(log[Top.id].verdict)
  BY <1>1, Moves, JudgedSame DEF Throw
<1> HIDE DEF x
<1>5. Suits(Kind, log[Top.id].verdict, x)
  BY <1>1, <1>2, <1>3 DEF Shape, Suits
<1>6. Holds(x) = Holds(Top)
  BY <1>1, <1>3 DEF Shape, Holds
<1>7. st' = st /\ written' = written /\ cps' = cps
  BY DEF Throw
<1> QED
  BY <1>1, <1>2, <1>3, <1>4, <1>5, <1>6, <1>7, StepsMoving DEF Shape
-----------------------------------------------------------------------------
(* How a call, a transaction or a block ends *)

\* A frame that is finished holds its own checkpoint and no other.
LEMMA FinishedFacts ==
    ASSUME FramesInv, Finished
    PROVE  /\ frames # << >> /\ Kind \in {"call", "tx", "block"}
           /\ Top.pc \notin {"torn", "unwind"}
           /\ Top.outer \in BOOLEAN /\ Top.outer /\ Top.exec \in BOOLEAN /\ ~Top.exec
           /\ Holds(Top) = {<<Top.id, "own">>}
           /\ log[Top.id].verdict \in {"open", "fail"}
           /\ Kind \in {"tx", "block"} => log[Top.id].verdict = "open"
           /\ Suits(Kind, log[Top.id].verdict, Top)
<1>1. frames # << >> /\ Kind \in {"call", "tx", "block"} /\ Top.pc \in {"after", "settle", "body"}
      /\ (Kind = "tx" => Top.pc = "settle")
  BY DEF Finished, At
<1>2. /\ Top.outer \in BOOLEAN /\ Top.outer /\ Top.exec \in BOOLEAN /\ ~Top.exec
      /\ log[Top.id].verdict \in {"open", "fail"}
      /\ Kind \in {"tx", "block"} => log[Top.id].verdict = "open"
      /\ Suits(Kind, log[Top.id].verdict, Top)
  BY <1>1, Places, TopFacts
<1> QED
  BY <1>1, <1>2 DEF Holds

LEMMA CommitStep == ASSUME IInv, Commit PROVE IInv' /\ Restores
<1>1. FramesInv /\ Finished
  BY DEF IInv, Commit
<1> DEFINE v == Verdict("ok")
<1>2. /\ v \in Verdicts \ {"left"}
      /\ \/ v = log[Top.id].verdict
         \/ v \notin {"fail", "throw"} /\ log[Top.id].verdict \notin {"fail", "throw"}
  BY <1>1, FinishedFacts DEF Verdict, Verdicts
<1>3. /\ log' = Judged(v) /\ frames' = Below /\ st' = st /\ written' = written
      /\ cps' = Popped(1)
  BY DEF Commit
<1>4. frames # << >> /\ ~Top.exec /\ Holds(Top) = {<<Top.id, "own">>}
  BY <1>1, FinishedFacts
<1> HIDE DEF v
<1> QED
  BY <1>2, <1>3, <1>4, StepsOut

LEMMA CommitTornStep == ASSUME IInv, CommitTorn PROVE IInv' /\ Restores
<1>1. FramesInv /\ Finished
  BY DEF IInv, CommitTorn
<1> DEFINE v == Verdict("kept")
           y == <<Top.id, "own">>
<1>2. /\ v \in Verdicts \ {"left"} /\ v \in {"kept", "fail"}
      /\ v = "fail" => log[Top.id].verdict = "fail"
      /\ \/ v = log[Top.id].verdict
         \/ v \notin {"fail", "throw"} /\ log[Top.id].verdict \notin {"fail", "throw"}
  BY <1>1, FinishedFacts DEF Verdict, Verdicts
<1>3. /\ log' = Judged(v) /\ st' = st /\ written' = written /\ cps' = Popped(1)
      /\ frames' = IF Kind = "block" THEN Below ELSE To("torn")
  BY DEF CommitTorn
<1>4. frames # << >> /\ ~Top.exec /\ Holds(Top) = {y}
  BY <1>1, FinishedFacts
<1> HIDE DEF v
<1>5. CASE Kind = "block"
  BY <1>2, <1>3, <1>4, <1>5, StepsOut
<1>6. CASE Kind # "block"
  <2> DEFINE x == At2("torn", Top.outer, Top.exec)
  <2>1. Top.outer \in BOOLEAN /\ Top.exec \in BOOLEAN
    BY <1>1, FinishedFacts
  <2>2. Shape(x, "torn", Top.outer, Top.exec)
    BY <1>1, <1>4, <2>1, At2Facts DEF Pcs
  <2>3. frames' = WithTop(x)
    BY <1>1, <1>3, <1>4, <1>6, Moves
  <2> HIDE DEF x
  <2>4. Suits(Kind, v, x)
    BY <1>1, <1>2, <1>6, <2>2, FinishedFacts DEF Shape, Suits
  <2>5. y \in Holds(Top) /\ Holds(x) = Holds(Top) \ {y}
    BY <1>4, <2>2 DEF Shape, Holds
  <2> HIDE DEF y
  <2> QED
    BY <1>2, <1>3, <1>4, <2>2, <2>3, <2>4, <2>5, StepsMoving DEF Shape
<1> QED
  BY <1>5, <1>6

LEMMA ReturnFromCodeStep == ASSUME IInv, ReturnFromCode PROVE IInv' /\ Restores
<1>1. FramesInv /\ frames # << >> /\ Kind = "code"
  BY DEF IInv, ReturnFromCode, At
<1>2. log[Top.id].verdict = "open" /\ ~Top.outer /\ ~Top.exec
  BY <1>1, Places
<1>3. Holds(Top) = {}
  BY <1>2 DEF Holds
<1>4. log' = Judged("ok") /\ frames' = Below /\ st' = st /\ written' = written /\ cps' = cps
  BY DEF ReturnFromCode
<1> QED
  BY <1>1, <1>2, <1>3, <1>4, StepsOut DEF Verdicts

LEMMA UnwindTornStep == ASSUME IInv, UnwindTorn PROVE IInv' /\ Restores
<1>1. FramesInv /\ frames # << >> /\ Top.pc = "torn"
  BY DEF IInv, UnwindTorn, At
<1>2. log[Top.id].verdict \in Verdicts \ {"left"} /\ ~Top.exec
  BY <1>1, Places
<1>3. Holds(Top) = {}
  BY <1>1, <1>2 DEF Holds
<1>4. log' = Judged(log[Top.id].verdict)
  BY <1>1, JudgedSame DEF UnwindTorn
<1>5. frames' = Propagated(Below) /\ st' = st /\ written' = written /\ cps' = cps
  BY DEF UnwindTorn
<1> QED
  BY <1>1, <1>2, <1>3, <1>4, <1>5, StepsOut

\* The user calls blocks and builders: there is nothing below them.
LEMMA Alone ==
    ASSUME FramesInv, frames # << >>, Kind \in {"block", "builder"}
    PROVE  Len(frames) = 1 /\ Below = << >> /\ HoldsBelow = {}
<1>1. frames \in Seq(FrameRecord) /\ Len(frames) \in Nat \ {0} /\ Top.id \in 1..Len(log)
  BY TopFacts, FrameFacts DEF Running, FramesInv, TypeOK, FrameRecord
<1>2. log[Top.id].path = {}
  BY <1>1 DEF FramesInv, Lineage, Kind
<1>3. {frames[i].id : i \in 1..(Len(frames) - 1)} = {}
  BY <1>2, TopFacts
<1>4. Len(frames) = 1
  <2>1. SUFFICES ASSUME Len(frames) # 1 PROVE FALSE
    OBVIOUS
  <2>2. \A n \in Nat \ {0} : n # 1 => 1 \in 1..(n - 1)
    OBVIOUS
  <2>3. 1 \in 1..(Len(frames) - 1)
    BY <1>1, <2>1, <2>2
  <2> QED
    BY <1>3, <2>3
<1>5. Below = << >>
  <2>1. 1 \in 0..Len(frames) /\ Len(frames) - 1 = 0
    BY <1>4
  <2>2. Below \in Seq(FrameRecord) /\ Len(Below) = 0
    BY <1>1, <2>1, PopFacts DEF Below
  <2> QED
    BY <2>2, EmptySeq
<1>6. HoldsBelow = {}
  BY <1>4 DEF HoldsBelow
<1> QED
  BY <1>4, <1>5, <1>6

\* A block's only checkpoint stays when its commit fails, and nobody owns it.
LEMMA BlockLeft ==
    ASSUME IInv, Finished, Kind = "block",
           frames' = Below, log' = Judged("left"), UNCHANGED <<st, cps, written>>
    PROVE  IInv' /\ Restores
<1>1. FramesInv /\ Surviving /\ Authors /\ "left" \in Verdicts
  BY DEF IInv, WritesInv, Verdicts
<1>2. frames # << >> /\ log[Top.id].verdict = "open" /\ Holds(Top) = {<<Top.id, "own">>}
  BY <1>1, FinishedFacts
<1>3. frames' = << >> /\ HoldsBelow = {} /\ Len(frames') = 0
  BY <1>1, <1>2, Alone
<1>4. /\ log' \in Seq(Entry) /\ Len(log') = Len(log)
      /\ \A f \in 1..Len(log) :
            /\ log'[f].kind = log[f].kind
            /\ log'[f].path = log[f].path
            /\ log'[f].verdict = IF f = Top.id THEN "left" ELSE log[f].verdict
  BY <1>1, <1>2, JudgedFacts
<1>5. frames' \in Seq(FrameRecord')
  BY <1>3
<1>6. Running' = {}
  BY <1>3 DEF Running
<1>7. Lineage'
  <2> SUFFICES ASSUME NEW f \in 1..Len(log)
               PROVE  /\ log'[f].path \subseteq 1..(f - 1)
                      /\ \A p \in log'[f].path : log'[p].path \subseteq log'[f].path
                      /\ log'[f].kind \in {"block", "builder"} => log'[f].path = {}
    BY <1>4 DEF Lineage
  <2>1. /\ log[f].path \subseteq 1..(f - 1)
        /\ \A p \in log[f].path : log[p].path \subseteq log[f].path
        /\ log[f].kind \in {"block", "builder"} => log[f].path = {}
    BY <1>1 DEF FramesInv, Lineage
  <2>2. \A p \in log[f].path : p \in 1..Len(log)
    BY <1>1, <2>1, FrameFacts
  <2> QED
    BY <1>4, <2>1, <2>2
<1>8. Nested' /\ Shaped' /\ Gone'
  BY <1>6 DEF Nested, Shaped, Gone
<1>9. Owned' = {}
  BY <1>6 DEF Owned
<1>10. Abandoned' = Abandoned \cup {<<Top.id, "own">>}
  <2>1. Top.id \in 1..Len(log)
    BY <1>1, <1>2, TopFacts
  <2> QED
    BY <1>4, <2>1 DEF Abandoned
<1>11. /\ Surviving' /\ Authors'
       /\ \A c \in OpenedCheckpoint : Name(c) \in Owned \cup Abandoned /\ Holding(c) => Holding(c)'
  <2> DEFINE W == {}
  <2>1. W \in SUBSET {By(Top.id, "own")} /\ written' = written \cup W /\ st' = st \cup W /\ W = {}
    OBVIOUS
  <2> HIDE DEF W
  <2>2. WritesKept("own", W)
    BY <1>1, <1>2, <2>1, TopWrites
  <2> QED
    BY <2>1, <2>2 DEF WritesKept
<1>12. /\ cps' \in Seq(OpenedCheckpoint) /\ Ordered(cps')
       /\ \A c \in Held(cps') : Holding(c)'
       /\ Names(cps') = Owned' \cup Abandoned'
  <2>1. \A c \in Held(cps) : Holding(c)'
    BY <1>11, StackFacts DEF Held
  <2>2. Names(cps) = Abandoned \cup {<<Top.id, "own">>}
    BY <1>1, <1>2, <1>3, StackFacts, OwnedSplit
  <2>3. cps' = cps
    OBVIOUS
  <2> QED
    BY <1>9, <1>10, <2>1, <2>2, <2>3, StackFacts
<1>13. Uncovered'
  BY <1>3 DEF Uncovered, At
<1>14. Restores
  BY <1>4 DEF Restores
<1>15. \A i \in 1..Len(frames') : frames'[i].exec => frames'[i].pc \in {"exec", "unwind"}
  BY <1>3
<1> QED
  BY <1>4, <1>5, <1>7, <1>8, <1>11, <1>12, <1>13, <1>14, <1>15, StackFacts, Assembled

LEMMA CommitKeptStep == ASSUME IInv, CommitKept PROVE IInv' /\ Restores
<1>1. FramesInv /\ Finished
  BY DEF IInv, CommitKept
<1>2. CASE Kind = "block"
  BY <1>1, <1>2, BlockLeft DEF CommitKept
<1>3. CASE Kind # "block"
  <2> DEFINE x == At2("unwind", Top.outer, Top.exec)
  <2>1. /\ Top.outer \in BOOLEAN /\ Top.exec \in BOOLEAN /\ frames # << >> /\ ~Top.exec
        /\ Top.pc # "torn" /\ log[Top.id].verdict \in Verdicts \ {"left"}
    BY <1>1, FinishedFacts DEF Verdicts
  <2>2. Shape(x, "unwind", Top.outer, Top.exec)
    BY <1>1, <2>1, At2Facts DEF Pcs
  <2>3. /\ frames' = WithTop(x) /\ log' = Judged(log[Top.id].verdict)
        /\ st' = st /\ written' = written /\ cps' = cps
    BY <1>1, <1>3, <2>1, Moves, JudgedSame DEF CommitKept
  <2> HIDE DEF x
  <2>4. Suits(Kind, log[Top.id].verdict, x)
    BY <1>1, <1>3, <2>2, FinishedFacts DEF Shape, Suits
  <2>5. Holds(x) = Holds(Top)
    BY <2>1, <2>2 DEF Shape, Holds
  <2> QED
    BY <2>1, <2>2, <2>3, <2>4, <2>5, StepsMoving DEF Shape
<1> QED
  BY <1>2, <1>3

LEMMA FailStep == ASSUME IInv, Fail PROVE IInv' /\ Restores
<1>1. FramesInv /\ Accounted /\ frames # << >> /\ Kind = "call" /\ Top.pc = "exec"
  BY DEF IInv, Fail, At
<1>2. log[Top.id].verdict = "open" /\ Top.outer \in BOOLEAN /\ Top.outer /\ Top.exec
  BY <1>1, Places
<1> DEFINE x == At2("after", Top.outer, FALSE)
           y == <<Top.id, "exec">>
           c0 == cps[Len(cps)]
<1>3. Shape(x, "after", Top.outer, FALSE)
  BY <1>1, <1>2, At2Facts DEF Pcs
<1>4. frames' = WithTop(x)
  BY <1>1, Moves DEF Fail
<1> HIDE DEF x
<1>5. Suits(Kind, "fail", x)
  BY <1>1, <1>2, <1>3 DEF Shape, Suits
<1>6. y \in Holds(Top) /\ y[2] # "own" /\ Holds(x) = Holds(Top) \ {y}
  BY <1>1, <1>2, <1>3 DEF Shape, Holds
<1>7. /\ Len(cps) \in Nat \ {0}
      /\ c0 \in OpenedCheckpoint /\ Name(c0) = y
      /\ Popped(1) \in Seq(OpenedCheckpoint) /\ Ordered(Popped(1))
      /\ Len(Popped(1)) = Len(cps) - 1
      /\ \A k \in 1..(Len(cps) - 1) : Popped(1)[k] = cps[k]
      /\ Names(Popped(1)) = HoldsBelow \cup (Holds(Top) \ {y}) \cup Abandoned
  BY <1>1, <1>6, TopCheckpoint
<1>8. c0 \in Held(cps) /\ Held(Popped(1)) \subseteq Held(cps) /\ Len(cps) - 1 + 1 = Len(cps)
  BY <1>7 DEF Held
<1>9. log' = Judged("fail") /\ st' = c0.state /\ written' = written /\ cps' = Popped(1)
  BY <1>8 DEF Fail, Reverted
<1> HIDE DEF c0
<1>10. Names(cps') = HoldsBelow \cup Holds(x) \cup Abandoned
  BY <1>6, <1>7, <1>9
<1> QED
  BY <1>1, <1>2, <1>3, <1>4, <1>5, <1>7, <1>8, <1>9, <1>10, StepsBack DEF Shape

LEMMA UnwindStep == ASSUME IInv, Unwind PROVE IInv' /\ Restores
<1> DEFINE n == ActiveIn(Top)
<1>1. FramesInv /\ frames # << >> /\ Top.pc = "unwind"
  BY DEF IInv, Unwind
<1>2. /\ frames' = Propagated(Below) /\ written' = written
      /\ st' = (IF n = 0 THEN st ELSE cps[Len(cps) - n + 1].state) /\ cps' = Popped(n)
      /\ log' = Judged(IF Kind = "code" THEN "kept" ELSE "throw")
  BY DEF Unwind, Reverted
<1>3. CASE Kind = "code"
  <2>1. log[Top.id].verdict = "open" /\ ~Top.outer /\ ~Top.exec
    BY <1>1, <1>3, Places
  <2>2. Holds(Top) = {} /\ n = 0
    BY <2>1 DEF Holds, ActiveIn, Active
  <2>3. Popped(0) = cps
    <3>1. cps \in Seq(OpenedCheckpoint) /\ Len(cps) - 0 = Len(cps)
      BY StackFacts
    <3> QED
      BY <3>1, SubSeqFull DEF Popped
  <2>4. st' = st /\ cps' = cps /\ log' = Judged("kept")
    BY <1>2, <1>3, <2>2, <2>3
  <2> QED
    BY <1>1, <1>2, <2>1, <2>2, <2>4, StepsOut DEF Verdicts
<1>4. CASE Kind # "code"
  <2>1. Suits(Kind, log[Top.id].verdict, Top)
    BY <1>1, TopFacts
  <2>2. Top.outer /\ log[Top.id].verdict \in {"open", "fail"}
    BY <1>1, <1>4, <2>1 DEF Suits
  <2> DEFINE c0 == cps[Len(cps) - n + 1]
  <2> HIDE DEF n
  <2>3. n = ActiveIn(Top)
    BY DEF n
  <2>4. /\ n \in Nat \ {0}
        /\ Popped(n) \in Seq(OpenedCheckpoint) /\ Ordered(Popped(n))
        /\ Held(Popped(n)) \subseteq Held(cps)
        /\ Names(Popped(n)) = HoldsBelow \cup Abandoned
        /\ c0 \in Held(cps) /\ Name(c0) = <<Top.id, "own">>
    BY <1>1, <2>2, <2>3, RevertsTo
  <2>5. st' = c0.state /\ cps' = Popped(n) /\ log' = Judged("throw")
    BY <1>2, <1>4, <2>4
  <2> HIDE DEF c0
  <2> QED
    BY <1>1, <1>2, <2>2, <2>4, <2>5, StepsBack
<1> QED
  BY <1>3, <1>4
-----------------------------------------------------------------------------
(* BlockBuilder *)

LEMMA BuildStep == ASSUME IInv, Build PROVE IInv' /\ Restores
<1>1. FramesInv /\ frames # << >> /\ Top.pc = "pending" /\ Kind = "builder"
  BY DEF IInv, Build, At
<1>2. /\ log[Top.id].verdict = "open" /\ Top.exec \in BOOLEAN /\ ~Top.exec /\ Top.outer \in BOOLEAN
  BY <1>1, Places
<1> DEFINE l == IF Top.outer THEN "own" ELSE "bare"
           y == <<Top.id, "own">>
<1>3. l \in {"own", "exec", "bare"} /\ Rewards = {By(Top.id, l)}
  BY DEF Rewards
<1>4. (l = "bare" => Holds(Top) = {}) /\ (~Top.outer => Holds(Top) = {})
      /\ (Top.outer => Holds(Top) = {y})
  BY <1>1, <1>2 DEF Holds
<1> HIDE DEF l
<1>5. PICK W \in SUBSET {By(Top.id, l)} : st' = st \cup W /\ written' = written \cup W
  BY <1>3 DEF Build, Reward, Writes
<1>6. ASSUME NEW x \in FrameRecord, NEW v \in Verdicts \ {"left", "fail", "throw"},
             NEW o \in BOOLEAN, NEW p \in {"build", "torn"},
             Shape(x, p, o, Top.exec), Suits(Kind, v, x), frames' = WithTop(x), log' = Judged(v),
             \/ cps' = cps /\ Holds(x) = Holds(Top)
             \/ cps' = Popped(1) /\ Holds(x) = {} /\ Top.outer
      PROVE  IInv' /\ Restores
  <2>1. \/ cps' = cps /\ Holds(x) = Holds(Top)
        \/ \E z \in Holds(Top) : /\ z[2] = "own" => ~Top.exec
                                 /\ cps' = Popped(1) /\ Holds(x) = Holds(Top) \ {z}
    BY <1>2, <1>4, <1>6
  <2>2. v \notin {"fail", "throw"} /\ v \in Verdicts \ {"left"}
    OBVIOUS
  <2>3. x.id = Top.id /\ x.pc = p /\ ~x.exec
    BY <1>2, <1>6 DEF Shape
  <2> QED
    BY <1>1, <1>2, <1>3, <1>4, <1>5, <1>6, <2>1, <2>2, <2>3, StepsOn
<1>7. CASE /\ cps' = Popped(Active(Top.outer))
           /\ frames' = Built(FALSE)
           /\ log' = Judged("ok")
  <2> DEFINE x == At2("build", FALSE, Top.exec)
  <2>1. Shape(x, "build", FALSE, Top.exec)
    BY <1>1, <1>2, At2Facts DEF Pcs
  <2>2. frames' = WithTop(x)
    BY <1>1, <1>7, Moves
  <2> HIDE DEF x
  <2>3. Suits(Kind, "ok", x) /\ Holds(x) = {} /\ x \in FrameRecord
    BY <1>1, <1>2, <2>1 DEF Shape, Suits, Holds
  <2>4. Popped(0) = cps
    <3>1. cps \in Seq(OpenedCheckpoint) /\ Len(cps) - 0 = Len(cps)
      BY StackFacts
    <3> QED
      BY <3>1, SubSeqFull DEF Popped
  <2>5. \/ cps' = cps /\ Holds(x) = Holds(Top)
        \/ cps' = Popped(1) /\ Holds(x) = {} /\ Top.outer
    BY <1>4, <1>7, <2>3, <2>4 DEF Active
  <2>6. "ok" \in Verdicts \ {"left", "fail", "throw"}
    BY DEF Verdicts
  <2> QED
    BY <1>6, <1>7, <2>1, <2>2, <2>3, <2>5, <2>6
<1>8. CASE /\ Top.outer
           /\ frames' = Built(TRUE)
           /\ UNCHANGED <<cps, log>>
  <2> DEFINE x == At2("build", TRUE, Top.exec)
  <2>1. Shape(x, "build", TRUE, Top.exec)
    BY <1>1, <1>2, At2Facts DEF Pcs
  <2>2. frames' = WithTop(x) /\ log' = Judged("open") /\ cps' = cps
    BY <1>1, <1>2, <1>8, Moves, JudgedSame
  <2> HIDE DEF x
  <2>3. Suits(Kind, "open", x) /\ Holds(x) = Holds(Top) /\ x \in FrameRecord
    BY <1>1, <1>2, <1>8, <2>1 DEF Shape, Suits, Holds
  <2>4. "open" \in Verdicts \ {"left", "fail", "throw"}
    BY DEF Verdicts
  <2> QED
    BY <1>6, <2>1, <2>2, <2>3, <2>4
<1>9. CASE /\ Top.outer
           /\ cps' = Popped(1)
           /\ frames' = To("torn")
           /\ log' = Judged("kept")
  <2> DEFINE x == At2("torn", Top.outer, Top.exec)
  <2>1. Shape(x, "torn", Top.outer, Top.exec)
    BY <1>1, <1>2, At2Facts DEF Pcs
  <2>2. frames' = WithTop(x)
    BY <1>1, <1>9, Moves
  <2> HIDE DEF x
  <2>3. Suits(Kind, "kept", x) /\ Holds(x) = {} /\ x \in FrameRecord
    BY <1>1, <1>2, <1>9, <2>1 DEF Shape, Suits, Holds
  <2>4. "kept" \in Verdicts \ {"left", "fail", "throw"}
    BY DEF Verdicts
  <2> QED
    BY <1>2, <1>6, <1>9, <2>1, <2>2, <2>3, <2>4
<1> QED
  BY <1>7, <1>8, <1>9 DEF Build

\* A builder that never opened a checkpoint is reverted: there is nothing to
\* take back.
LEMMA VoidRevert ==
    ASSUME IInv, frames # << >>, Kind = "builder", Top.pc = "pending", ~Top.outer,
           NEW x \in FrameRecord, Shape(x, "reverted", FALSE, FALSE),
           frames' = WithTop(x), log' = Judged("throw"), UNCHANGED <<st, cps, written>>
    PROVE  IInv' /\ Restores
<1>1. FramesInv /\ Surviving /\ Authors /\ "throw" \in Verdicts \ {"left"}
  BY DEF IInv, WritesInv, Verdicts
<1>2. log[Top.id].verdict = "open" /\ ~Top.exec /\ Top.id \in 1..Len(log)
  BY <1>1, Places, TopFacts
<1>3. Holds(Top) = {} /\ Holds(x) = {} /\ Suits(Kind, "throw", x)
  BY <1>2 DEF Holds, Shape, Suits
<1>4. x.id = Top.id /\ x.pc = "reverted" /\ ~x.exec
  BY DEF Shape
<1>5. /\ Len(log') = Len(log) /\ log' \in Seq(Entry)
      /\ frames' \in Seq(FrameRecord')
      /\ \A i \in 1..Len(frames') : frames'[i].exec => frames'[i].pc \in {"exec", "unwind"}
      /\ (Lineage /\ Nested /\ Shaped /\ Gone)'
      /\ Owned' = HoldsBelow \cup Holds(x)
      /\ Abandoned' = Abandoned
      /\ Top' = x /\ Kind' = Kind
  BY <1>1, <1>3, <1>4, TopMoves
<1>6. \A f \in 1..Len(log) :
         /\ log'[f].kind = log[f].kind
         /\ log'[f].path = log[f].path
         /\ log'[f].found = log[f].found
         /\ log'[f].verdict = IF f = Top.id THEN "throw" ELSE log[f].verdict
  BY <1>1, JudgedFacts
<1>7. ASSUME NEW w \in written PROVE Undone(w)' <=> Undone(w)
  <2>1. ~Inside(w, Top.id, "own")
    BY DEF IInv, WritesInv, Uncovered, At
  <2>2. /\ w.frame \in 1..Len(log) /\ Top.id \notin log[w.frame].path
        /\ w.frame = Top.id => w.layer \notin {"own", "exec"}
    BY <1>1, <2>1 DEF Authors, Inside
  <2>3. w.layer \in {"own", "exec", "bare"}
    BY StackFacts DEF Write
  <2>4. \A f \in log[w.frame].path : f \in 1..Len(log) /\ f # Top.id
    BY <1>1, <2>2, FrameFacts DEF FramesInv, Lineage
  <2> QED
    BY <1>2, <1>6, <2>2, <2>3, <2>4 DEF Undone
<1>8. Surviving' /\ Authors'
  BY <1>1, <1>5, <1>7 DEF Surviving, Authors
<1>9. ASSUME NEW c \in Held(cps) PROVE Holding(c)'
  <2>1. Holding(c) /\ c.owner \in 1..Len(log)
    BY HeldAround DEF Around
  <2>2. log'[c.owner].verdict = "left" <=> log[c.owner].verdict = "left"
    BY <1>2, <1>6, <2>1
  <2>3. \A w \in written : Inside(w, c.owner, c.layer)' <=> Inside(w, c.owner, c.layer)
    BY <1>1, <1>6 DEF Inside, Authors
  <2>4. {w \in written' : ~Undone(w)' /\ ~Inside(w, c.owner, c.layer)'}
          = {w \in written : ~Undone(w) /\ ~Inside(w, c.owner, c.layer)}
    BY <1>7, <2>3
  <2> QED
    BY <1>6, <2>1, <2>2, <2>4 DEF Holding
<1>10. /\ cps' \in Seq(OpenedCheckpoint) /\ Ordered(cps')
       /\ \A c \in Held(cps') : Holding(c)'
       /\ Names(cps') = Owned' \cup Abandoned'
  BY <1>1, <1>3, <1>5, <1>9, StackFacts, OwnedSplit
<1>11. Uncovered'
  BY <1>4, <1>5 DEF Uncovered, At
<1>12. Restores
  BY <1>6 DEF Restores, Kind
<1> QED
  BY <1>5, <1>8, <1>10, <1>11, <1>12, StackFacts, Assembled

LEMMA BuilderRevertStep == ASSUME IInv, BuilderRevert PROVE IInv' /\ Restores
<1> DEFINE x == At2("reverted", FALSE, Top.exec)
           v == log[Top.id].verdict
           u == IF v = "open" THEN "throw" ELSE v
<1>1. FramesInv /\ frames # << >> /\ Kind = "builder" /\ Top.pc # "torn"
  BY DEF IInv, BuilderRevert
<1>2. /\ Top.exec \in BOOLEAN /\ ~Top.exec /\ Top.outer \in BOOLEAN /\ Suits(Kind, v, Top)
      /\ v \in Verdicts \ {"left"}
  BY <1>1, Places, TopFacts
<1>3. Shape(x, "reverted", FALSE, Top.exec)
  BY <1>1, <1>2, At2Facts DEF Pcs
<1>4. frames' = WithTop(x)
  BY <1>1, Moves DEF BuilderRevert
<1>5. /\ written' = written /\ log' = Judged(u)
      /\ st' = (IF Active(Top.outer) = 0 THEN st ELSE cps[Len(cps) - Active(Top.outer) + 1].state)
      /\ cps' = Popped(Active(Top.outer))
  BY DEF BuilderRevert, Reverted
<1> HIDE DEF x
<1>6. x \in FrameRecord /\ x.id = Top.id /\ x.pc = "reverted" /\ ~x.exec /\ Holds(x) = {}
  BY <1>2, <1>3 DEF Shape, Holds
<1>7. CASE Top.outer
  <2>1. v = "open" /\ u = "throw"
    BY <1>1, <1>2, <1>7 DEF Suits
  <2>2. Active(Top.outer) = 1 /\ ActiveIn(Top) = 1
    BY <1>2, <1>7 DEF Active, ActiveIn
  <2> DEFINE c0 == cps[Len(cps) - 1 + 1]
  <2>3. /\ Popped(1) \in Seq(OpenedCheckpoint) /\ Ordered(Popped(1))
        /\ Held(Popped(1)) \subseteq Held(cps)
        /\ Names(Popped(1)) = HoldsBelow \cup Abandoned
        /\ c0 \in Held(cps) /\ Name(c0) = <<Top.id, "own">>
    BY <1>1, <1>7, <2>2, RevertsTo
  <2>4. st' = c0.state /\ cps' = Popped(1) /\ log' = Judged("throw")
    BY <1>5, <2>1, <2>2
  <2>5. Suits(Kind, "throw", x)
    BY <1>1, <1>2, <1>3 DEF Shape, Suits
  <2>6. Names(cps') = HoldsBelow \cup Holds(x) \cup Abandoned
    BY <1>6, <2>3, <2>4
  <2> HIDE DEF c0
  <2> QED
    BY <1>1, <1>4, <1>5, <1>6, <2>1, <2>3, <2>4, <2>5, <2>6, StepsBack
<1>8. CASE ~Top.outer
  <2>1. Popped(0) = cps
    <3>1. cps \in Seq(OpenedCheckpoint) /\ Len(cps) - 0 = Len(cps)
      BY StackFacts
    <3> QED
      BY <3>1, SubSeqFull DEF Popped
  <2>2. st' = st /\ cps' = cps
    BY <1>5, <1>8, <2>1 DEF Active
  <2>3. CASE Top.pc = "pending"
    <3>1. u = "throw" /\ Shape(x, "reverted", FALSE, FALSE)
      BY <1>1, <1>2, <1>3, <2>3 DEF Suits, Shape
    <3> QED
      BY <1>1, <1>4, <1>5, <1>6, <1>8, <2>2, <2>3, <3>1, VoidRevert
  <2>4. CASE Top.pc # "pending"
    <3>1. u = v /\ Suits(Kind, v, x) /\ Holds(Top) = {}
      BY <1>1, <1>2, <1>3, <1>8, <2>4 DEF Suits, Shape, Holds
    <3> QED
      BY <1>1, <1>2, <1>4, <1>5, <1>6, <2>2, <3>1, StepsMoving
  <2> QED
    BY <2>3, <2>4
<1> QED
  BY <1>2, <1>7, <1>8

LEMMA DropBuilderStep == ASSUME IInv, DropBuilder PROVE IInv' /\ Restores
<1>1. FramesInv /\ frames # << >> /\ Kind = "builder" /\ (~Top.outer \/ Top.pc = "torn")
  BY DEF IInv, DropBuilder
<1>2. ~Top.exec /\ log[Top.id].verdict \in Verdicts \ {"left"}
  BY <1>1, Places
<1>3. Holds(Top) = {} /\ Below = << >>
  BY <1>1, <1>2, Alone DEF Holds
<1>4. log' = Judged(log[Top.id].verdict)
  BY <1>1, JudgedSame DEF DropBuilder
<1>5. frames' = Below /\ st' = st /\ written' = written /\ cps' = cps
  BY <1>3 DEF DropBuilder
<1> QED
  BY <1>1, <1>2, <1>3, <1>4, <1>5, StepsOut

LEMMA BeforeMessageStep == ASSUME IInv, BeforeMessage PROVE IInv' /\ Restores
<1>1. FramesInv /\ frames # << >> /\ Kind = "call" /\ Top.pc = "init"
  BY DEF IInv, BeforeMessage, At
<1>2. log[Top.id].verdict = "open" /\ Top.outer \in BOOLEAN /\ Top.outer /\ ~Top.exec
  BY <1>1, Places, TopFacts DEF Suits
<1> DEFINE x == At2("exec", Top.outer, TRUE)
<1>3. Shape(x, "exec", Top.outer, TRUE)
  BY <1>1, <1>2, At2Facts DEF Pcs
<1>4. frames' = WithTop(x)
  BY <1>1, Moves DEF BeforeMessage
<1> HIDE DEF x
<1>5. Suits(Kind, "open", x) /\ Holds(x) = Holds(Top) \cup {<<Top.id, "exec">>}
      /\ Holds(Top) = {<<Top.id, "own">>}
  BY <1>1, <1>2, <1>3 DEF Shape, Suits, Holds
<1>6. \A w \in written : ~Inside(w, Top.id, "exec")
  BY <1>1 DEF IInv, WritesInv, Uncovered, At
<1>7. x \in FrameRecord /\ x.id = Top.id /\ x.pc = "exec"
  BY <1>3 DEF Shape
<1>8. cps' = Opened(Top.id, "exec") /\ UNCHANGED <<st, log, written>>
  BY DEF BeforeMessage
<1> QED
  BY <1>1, <1>2, <1>4, <1>5, <1>6, <1>7, <1>8, StepsOpening

LEMMA RejectTransactionStep == ASSUME IInv, RejectTransaction PROVE IInv' /\ Restores
<1> DEFINE x == At2(Top.pc, TRUE, Top.exec)
<1>1. FramesInv /\ frames # << >> /\ Kind = "builder" /\ Top.pc = "pending"
  BY DEF IInv, RejectTransaction, At
<1>2. /\ log[Top.id].verdict = "open" /\ Top.outer \in BOOLEAN /\ Top.exec \in BOOLEAN /\ ~Top.exec
      /\ "open" \in Verdicts \ {"left"}
  BY <1>1, Places DEF Verdicts
<1>3. Shape(x, "pending", TRUE, Top.exec)
  BY <1>1, <1>2, At2Facts DEF Pcs
<1>4. frames' = WithTop(x) /\ cps' = Checkpointed /\ UNCHANGED <<st, log, written>>
  BY <1>1, Moves DEF RejectTransaction
<1> HIDE DEF x
<1>5. Suits(Kind, "open", x) /\ Holds(x) = {<<Top.id, "own">>}
  BY <1>1, <1>2, <1>3 DEF Shape, Suits, Holds
<1>6. x \in FrameRecord /\ x.id = Top.id /\ x.pc = "pending" /\ x.outer /\ ~x.exec
  BY <1>2, <1>3 DEF Shape
<1>7. CASE ~Top.outer
  <2>1. cps' = Opened(Top.id, "own") /\ Holds(Top) = {}
    BY <1>2, <1>4, <1>7 DEF Checkpointed, Holds
  <2>2. \A w \in written : ~Inside(w, Top.id, "own")
    BY <1>1, <1>7 DEF IInv, WritesInv, Uncovered, At
  <2> QED
    BY <1>1, <1>2, <1>4, <1>5, <1>6, <2>1, <2>2, StepsOpening
<1>8. CASE Top.outer
  <2>1. cps' = cps /\ Holds(Top) = {<<Top.id, "own">>}
    BY <1>1, <1>2, <1>4, <1>8 DEF Checkpointed, Holds
  <2>2. log' = Judged("open")
    BY <1>1, <1>2, <1>4, JudgedSame
  <2> DEFINE W == {}
  <2>3. /\ W \in SUBSET {By(Top.id, "own")} /\ W = {}
        /\ written' = written \cup W /\ st' = st \cup W
    BY <1>4
  <2> HIDE DEF W
  <2> QED
    BY <1>1, <1>2, <1>4, <1>5, <1>6, <2>1, <2>2, <2>3, StepsOn
<1> QED
  BY <1>7, <1>8
-----------------------------------------------------------------------------
(* How frames start *)

LEMMA NobodyWaits == ASSUME FramesInv, frames = << >> PROVE Ready(frames) /\ HoldsOf(frames) = Owned
<1>1. Running = {} /\ frames \in Seq(FrameRecord)
  BY DEF Running, FramesInv, TypeOK, FrameRecord
<1> QED
  BY <1>1, OwnedIsHeld DEF Ready

LEMMA TopWaits ==
    ASSUME FramesInv, frames # << >>, NEW x \in FrameRecord, x.id = Top.id, Waits(x),
           Suits(Kind, log[Top.id].verdict, x), x.exec => x.pc \in {"exec", "unwind"}
    PROVE  Ready(WithTop(x)) /\ HoldsOf(WithTop(x)) = HoldsBelow \cup Holds(x)
<1>1. /\ WithTop(x) \in Seq(FrameRecord)
      /\ Len(WithTop(x)) = Len(frames)
      /\ \A i \in Running : WithTop(x)[i] = IF i = Len(frames) THEN x ELSE frames[i]
      /\ HoldsOf(WithTop(x)) = HoldsBelow \cup Holds(x)
  BY WithTopFacts
<1>2. \A i \in Running : i # Len(frames) => i < Len(frames)
  BY FrameFacts DEF Running
<1>3. ASSUME NEW i \in Running
      PROVE  LET y == WithTop(x)[i]
             IN  /\ y.id = frames[i].id
                 /\ Suits(log[y.id].kind, log[y.id].verdict, y)
                 /\ Waits(y)
                 /\ y.exec => y.pc \in {"exec", "unwind"}
  <2>1. CASE i = Len(frames)
    <3>1. WithTop(x)[i] = x /\ frames[i].id = x.id
      BY <1>1, <2>1 DEF Top
    <3> QED
      BY <3>1 DEF Kind
  <2>2. CASE i # Len(frames)
    <3>1. WithTop(x)[i] = frames[i] /\ i < Len(frames)
      BY <1>1, <1>2, <2>2
    <3> QED
      BY <3>1 DEF FramesInv, Shaped, TypeOK, Running
  <2> QED
    BY <2>1, <2>2
<1> QED
  BY <1>1, <1>3 DEF Ready

\* A frame starts on the checkpoints that are open, and its creator may have
\* written for it under a checkpoint that takes it back.
LEMMA StepsStarting ==
    ASSUME IInv, frames # << >> => log[Top.id].verdict = "open",
           NEW s, NEW k, NEW pc, NEW outer, NEW present, Starting(k, s, pc, outer, present),
           HoldsOf(s) = Owned,
           NEW N, NEW W, NEW g, Writing(N, W, g, present),
           \A w \in N : Holds(Top) = {} \/ w.layer = "exec",
           Pushing(outer, cps, present, g, W)
    PROVE  IInv' /\ Restores
<1>1. FramesInv /\ \A w \in N : frames # << >>
  BY DEF IInv, Writing
<1>2. cps \in Seq(OpenedCheckpoint) /\ Ordered(cps) /\ Names(cps) = HoldsOf(s) \cup Abandoned
  BY StackFacts
<1>3. ASSUME NEW c \in Held(cps)
      PROVE  /\ Holding(c) /\ Around(c)
             /\ \A w \in N : c.owner = Top.id =>
                   w.layer # "bare" /\ (c.layer = "exec" => w.layer = "exec")
  <2>1. Holding(c) /\ Around(c) /\ Name(c) \in Owned \cup Abandoned
    BY HeldAround, StackFacts DEF Held
  <2>2. ASSUME NEW w \in N, c.owner = Top.id PROVE w.layer = "exec"
    <3>1. SUFFICES ASSUME Holds(Top) = {} PROVE FALSE
      OBVIOUS
    <3>2. Name(c)[1] = Top.id
      BY <2>2 DEF Name
    <3> QED
      BY <1>1, <2>1, <2>2, <3>1, <3>2, OwnedSplit
  <2> QED
    BY <2>1, <2>2
<1>4. Based(cps, s, N)
  BY <1>2, <1>3 DEF Based
<1> QED
  BY <1>4, StepsIn

\* A frame of the user, under no other.
LEMMA StepsFromUser ==
    ASSUME IInv, frames = << >>, NEW k \in Kinds, NEW pc \in Pcs, NEW outer \in BOOLEAN,
           Suits(k, "open", Frame(pc, outer)), Enter(k, frames, Frame(pc, outer), st),
           NEW W, W \in SUBSET {By(Fresh, "own")},
           st' = st \cup W, written' = written \cup W,
           \/ outer /\ cps' = Append(cps, Saved(st, Fresh, "own"))
           \/ ~outer /\ cps' = cps /\ W = {}
    PROVE  IInv' /\ Restores
<1> DEFINE N == {}
<1>1. FramesInv /\ st \in SUBSET Write
  BY StackFacts DEF IInv
<1>2. Ready(frames) /\ HoldsOf(frames) = Owned
  BY <1>1, NobodyWaits
<1>3. Starting(k, frames, pc, outer, st)
  BY <1>1, <1>2 DEF Starting
<1>4. Writing(N, W, Fresh, st)
  BY DEF Writing
<1>5. Pushing(outer, cps, st, Fresh, W)
  BY DEF Pushing
<1>6. \A w \in N : Holds(Top) = {} \/ w.layer = "exec"
  OBVIOUS
<1> HIDE DEF N
<1> QED
  BY <1>2, <1>3, <1>4, <1>5, <1>6, StepsStarting

\* A frame inside the innermost one, which waits as x.
LEMMA StepsFromTop ==
    ASSUME IInv, frames # << >>, log[Top.id].verdict = "open",
           NEW x \in FrameRecord, x.id = Top.id, Waits(x), Suits(Kind, "open", x),
           x.exec => x.pc \in {"exec", "unwind"}, Holds(x) = Holds(Top),
           NEW k \in {"call", "tx"}, NEW pc \in {"init", "setup"}, pc = IF k = "tx" THEN "setup" ELSE "init",
           NEW N, N \in SUBSET Write,
           \A w \in N : w.frame = Top.id /\ (Holds(Top) = {} \/ w.layer = "exec"),
           NEW W, W \in SUBSET {By(Fresh, "own")},
           NEW present, \A w : w \in present <=> w \in st \/ w \in N,
           Enter(k, WithTop(x), Frame(pc, TRUE), present),
           st' = present \cup W, written' = written \cup N \cup W,
           cps' = Append(cps, Saved(present, Fresh, "own"))
    PROVE  IInv' /\ Restores
<1>1. FramesInv /\ present \in SUBSET Write
  BY StackFacts DEF IInv
<1>2. Ready(WithTop(x)) /\ HoldsOf(WithTop(x)) = Owned
  BY <1>1, TopWaits, OwnedSplit
<1>3. Suits(k, "open", Frame(pc, TRUE))
  BY DEF Suits, Frame
<1>4. k \in Kinds /\ k \notin {"block", "builder"} /\ pc \in Pcs
  BY DEF Kinds, Pcs
<1>5. Starting(k, WithTop(x), pc, TRUE, present)
  BY <1>1, <1>2, <1>3, <1>4 DEF Starting
<1>6. Writing(N, W, Fresh, present)
  BY DEF Writing
<1>7. Pushing(TRUE, cps, present, Fresh, W)
  BY DEF Pushing
<1> QED
  BY <1>2, <1>5, <1>6, <1>7, StepsStarting

LEMMA RunCallStep == ASSUME IInv, RunCall PROVE IInv' /\ Restores
<1>1. FramesInv /\ st \subseteq written
  BY StackFacts DEF IInv
<1> DEFINE W == {By(Fresh, "own")}
<1>2. CASE Starts("call") /\ OpenCall(frames, st, W)
  <2>1. /\ frames = << >>
        /\ Enter("call", frames, Frame("init", TRUE), st)
        /\ cps' = Append(cps, Saved(st, Fresh, "own"))
        /\ st' = st \cup W /\ written' = written \cup (st \ st) \cup W
    BY <1>2 DEF Starts, OpenCall
  <2>2. written' = written \cup W /\ W \in SUBSET {By(Fresh, "own")}
    BY <2>1
  <2>3. Suits("call", "open", Frame("init", TRUE)) /\ "call" \in Kinds /\ "init" \in Pcs
    BY DEF Suits, Frame, Kinds, Pcs
  <2> HIDE DEF W
  <2> QED
    BY <2>1, <2>2, <2>3, StepsFromUser
<1>3. CASE At("tx", "charged") /\ OpenCall(To("called"), st, W)
  <2> DEFINE x == At2("called", Top.outer, Top.exec)
             N == {}
  <2>1. frames # << >> /\ Kind = "tx" /\ Top.pc = "charged"
    BY <1>3 DEF At
  <2>2. log[Top.id].verdict = "open" /\ Top.outer \in BOOLEAN /\ Top.outer
        /\ Top.exec \in BOOLEAN /\ ~Top.exec
    BY <1>1, <2>1, Places
  <2>3. Shape(x, "called", Top.outer, Top.exec)
    BY <1>1, <2>1, <2>2, At2Facts DEF Pcs
  <2>4. To("called") = WithTop(x)
    BY <1>1, <2>1, Moves
  <2>5. /\ Enter("call", WithTop(x), Frame("init", TRUE), st)
        /\ cps' = Append(cps, Saved(st, Fresh, "own"))
        /\ st' = st \cup W /\ written' = written \cup (st \ st) \cup W
    BY <1>3, <2>4 DEF OpenCall
  <2> HIDE DEF x
  <2>6. /\ x \in FrameRecord /\ x.id = Top.id /\ Waits(x) /\ Suits(Kind, "open", x)
        /\ ~x.exec /\ Holds(x) = Holds(Top)
    BY <2>1, <2>2, <2>3 DEF Shape, Waits, Suits, Holds
  <2>7. /\ W \in SUBSET {By(Fresh, "own")} /\ N = {} /\ N \in SUBSET Write
        /\ written' = written \cup N \cup W /\ \A w : w \in st <=> w \in st \/ w \in N
    BY <2>5
  <2> HIDE DEF W, N
  <2> QED
    BY <2>1, <2>2, <2>5, <2>6, <2>7, StepsFromTop
<1> QED
  BY <1>2, <1>3 DEF RunCall

LEMMA CallFromInterpreterStep == ASSUME IInv, CallFromInterpreter PROVE IInv' /\ Restores
<1>1. FramesInv /\ st \subseteq written
  BY StackFacts DEF IInv
<1>2. frames # << >> /\ Top.pc = "exec" /\ Kind \in {"call", "code"}
  BY DEF CallFromInterpreter, Executing, At
<1>3. /\ log[Top.id].verdict = "open" /\ (Kind = "call" => Top.exec)
      /\ (Kind = "code" => ~Top.outer /\ ~Top.exec)
      /\ Top \in FrameRecord /\ Suits(Kind, "open", Top)
      /\ frames = WithTop(Top) /\ Top.id \in Ids
  BY <1>1, <1>2, Places, TopFacts, Moves, FrameFacts
<1>4. /\ ExecWrite \in Write /\ ExecWrite.frame = Top.id
      /\ Holds(Top) = {} \/ ExecWrite.layer = "exec"
  BY <1>2, <1>3 DEF ExecWrite, By, Write, Holds
<1>5. PICK N \in {{}, {ExecWrite}} : OpenCall(frames, st \cup N, {})
  <2>1. st \cup {} = st
    OBVIOUS
  <2> QED
    BY <2>1 DEF CallFromInterpreter
<1> DEFINE present == st \cup N
           W == {}
<1>6. /\ Enter("call", frames, Frame("init", TRUE), present)
      /\ cps' = Append(cps, Saved(present, Fresh, "own"))
      /\ st' = present \cup W
      /\ written' = written \cup (present \ st) \cup W
  BY <1>5 DEF OpenCall
<1>7. /\ N \in SUBSET Write
      /\ \A w \in N : w.frame = Top.id /\ (Holds(Top) = {} \/ w.layer = "exec")
  BY <1>4
<1>8. /\ W \in SUBSET {By(Fresh, "own")}
      /\ \A w : w \in present <=> w \in st \/ w \in N
  OBVIOUS
<1>9. written' = written \cup N \cup W
  BY <1>1, <1>6
<1>10. Enter("call", WithTop(Top), Frame("init", TRUE), present)
  BY <1>3, <1>6
<1> HIDE DEF present, W
<1> QED
  BY <1>2, <1>3, <1>6, <1>7, <1>8, <1>9, <1>10, StepsFromTop DEF Waits

LEMMA RunTxStep == ASSUME IInv, RunTx PROVE IInv' /\ Restores
<1> DEFINE W == {}
<1>1. FramesInv
  BY DEF IInv
<1>2. /\ Enter("tx", frames, Frame("setup", TRUE), st)
      /\ cps' = Append(cps, Saved(st, Fresh, "own"))
      /\ st' = st \cup W /\ written' = written \cup W
      /\ W \in SUBSET {By(Fresh, "own")} /\ W = {}
  BY DEF RunTx, Opened
<1> HIDE DEF W
<1>3. CASE frames = << >>
  <2>1. Suits("tx", "open", Frame("setup", TRUE)) /\ "tx" \in Kinds /\ "setup" \in Pcs
    BY DEF Suits, Frame, Kinds, Pcs
  <2> QED
    BY <1>2, <1>3, <2>1, StepsFromUser
<1>4. CASE frames # << >>
  <2>1. Kind = "block" /\ Top.pc = "body"
    BY <1>4 DEF RunTx, Starts, At
  <2>2. /\ log[Top.id].verdict = "open" /\ ~Top.exec
        /\ Top \in FrameRecord /\ Suits(Kind, "open", Top) /\ frames = WithTop(Top)
    BY <1>1, <1>4, <2>1, Places, TopFacts, Moves
  <2>3. Enter("tx", WithTop(Top), Frame("setup", TRUE), st)
    BY <1>2, <2>2
  <2> DEFINE N == {}
  <2>4. /\ N = {} /\ N \in SUBSET Write /\ written' = written \cup N \cup W
        /\ \A w : w \in st <=> w \in st \/ w \in N
    BY <1>2
  <2> HIDE DEF N
  <2> QED
    BY <1>2, <1>4, <2>1, <2>2, <2>3, <2>4, StepsFromTop DEF Waits
<1> QED
  BY <1>3, <1>4

LEMMA RunBlockStep == ASSUME IInv, RunBlock PROVE IInv' /\ Restores
<1> DEFINE W == {}
<1>1. /\ Enter("block", frames, Frame("body", TRUE), st) /\ frames = << >>
      /\ cps' = Append(cps, Saved(st, Fresh, "own"))
      /\ st' = st \cup W /\ written' = written \cup W
      /\ W \in SUBSET {By(Fresh, "own")}
  BY DEF RunBlock, Opened, Starts
<1> HIDE DEF W
<1>2. Suits("block", "open", Frame("body", TRUE)) /\ "block" \in Kinds /\ "body" \in Pcs
  BY DEF Suits, Frame, Kinds, Pcs
<1> QED
  BY <1>1, <1>2, StepsFromUser

LEMMA RunCodeStep == ASSUME IInv, RunCode PROVE IInv' /\ Restores
<1> DEFINE W == {}
<1>1. /\ Enter("code", frames, Frame("exec", FALSE), st) /\ frames = << >>
      /\ cps' = cps /\ W = {}
      /\ st' = st \cup W /\ written' = written \cup W
      /\ W \in SUBSET {By(Fresh, "own")}
  BY DEF RunCode, Starts
<1> HIDE DEF W
<1>2. Suits("code", "open", Frame("exec", FALSE)) /\ "code" \in Kinds /\ "exec" \in Pcs
  BY DEF Suits, Frame, Kinds, Pcs
<1> QED
  BY <1>1, <1>2, StepsFromUser

LEMMA BuildBlockStep == ASSUME IInv, BuildBlock PROVE IInv' /\ Restores
<1>1. frames = << >> /\ "builder" \in Kinds /\ "pending" \in Pcs
  BY DEF BuildBlock, Starts, Kinds, Pcs
<1>2. \A o \in BOOLEAN : Suits("builder", "open", Frame("pending", o))
  BY DEF Suits, Frame
<1>3. CASE /\ Enter("builder", frames, Frame("pending", FALSE), st)
           /\ UNCHANGED <<st, cps, written>>
  <2> DEFINE W == {}
  <2>1. /\ cps' = cps /\ W = {} /\ st' = st \cup W /\ written' = written \cup W
        /\ W \in SUBSET {By(Fresh, "own")}
    BY <1>3
  <2> HIDE DEF W
  <2> QED
    BY <1>1, <1>2, <1>3, <2>1, StepsFromUser
<1>4. CASE /\ Enter("builder", frames, Frame("pending", TRUE), st)
           /\ cps' = Opened(Fresh, "own")
           /\ \E W \in SUBSET {By(Fresh, "own")} : Writes(W)
  <2>1. PICK W \in SUBSET {By(Fresh, "own")} : st' = st \cup W /\ written' = written \cup W
    BY <1>4 DEF Writes
  <2>2. cps' = Append(cps, Saved(st, Fresh, "own"))
    BY <1>4 DEF Opened
  <2> QED
    BY <1>1, <1>2, <1>4, <2>1, <2>2, StepsFromUser
<1> QED
  BY <1>3, <1>4 DEF BuildBlock

LEMMA AddTransactionStep == ASSUME IInv, AddTransaction PROVE IInv' /\ Restores
<1> DEFINE x == At2(Top.pc, TRUE, Top.exec)
           N == {}
           W == {}
<1>1. FramesInv /\ frames # << >> /\ Kind = "builder" /\ Top.pc = "pending"
  BY DEF IInv, AddTransaction, At
<1>2. /\ log[Top.id].verdict = "open" /\ Top.outer \in BOOLEAN /\ Top.exec \in BOOLEAN /\ ~Top.exec
  BY <1>1, Places
<1>3. Shape(x, "pending", TRUE, Top.exec) /\ WithCheckpoint = WithTop(x)
  BY <1>1, <1>2, At2Facts, Moves DEF Pcs
<1>4. /\ Enter("tx", WithTop(x), Frame("setup", TRUE), st)
      /\ cps' = Append(Checkpointed, Saved(st, Fresh, "own"))
      /\ UNCHANGED <<st, written>>
  BY <1>3 DEF AddTransaction
<1> HIDE DEF x
<1>5. /\ x \in FrameRecord /\ x.id = Top.id /\ Waits(x) /\ ~x.exec
      /\ Suits(Kind, log[Top.id].verdict, x) /\ Holds(x) = {<<Top.id, "own">>}
  BY <1>1, <1>2, <1>3 DEF Shape, Suits, Holds, Waits
<1>6. Ready(WithTop(x)) /\ HoldsOf(WithTop(x)) = HoldsBelow \cup {<<Top.id, "own">>}
  BY <1>1, <1>5, TopWaits
<1>7. Starting("tx", WithTop(x), "setup", TRUE, st)
  <2>1. Suits("tx", "open", Frame("setup", TRUE)) /\ "tx" \in Kinds /\ "setup" \in Pcs
    BY DEF Suits, Frame, Kinds, Pcs
  <2>2. st \in SUBSET Write
    BY StackFacts
  <2> QED
    BY <1>4, <1>6, <2>1, <2>2 DEF Starting
<1>8. Writing(N, W, Fresh, st)
  BY <1>4 DEF Writing
<1>9. Pushing(TRUE, Checkpointed, st, Fresh, W)
  BY <1>4 DEF Pushing
<1>10. /\ Checkpointed \in Seq(OpenedCheckpoint) /\ Ordered(Checkpointed)
       /\ Names(Checkpointed) = HoldsBelow \cup {<<Top.id, "own">>} \cup Abandoned
       /\ \A c \in Held(Checkpointed) : Holding(c) /\ Around(c)
  <2>1. CASE Top.outer
    <3>1. Checkpointed = cps /\ Holds(Top) = {<<Top.id, "own">>}
      BY <1>1, <1>2, <2>1 DEF Checkpointed, Holds
    <3> QED
      BY <1>1, <3>1, StackFacts, HeldAround, OwnedSplit
  <2>2. CASE ~Top.outer
    <3>1. Checkpointed = Opened(Top.id, "own") /\ Holds(Top) = {}
      BY <1>1, <1>2, <2>2 DEF Checkpointed, Holds
    <3>2. \A w \in written : ~Inside(w, Top.id, "own")
      BY <1>1, <2>2 DEF IInv, WritesInv, Uncovered, At
    <3> DEFINE c0 == Saved(st, Top.id, "own")
               q == Opened(Top.id, "own")
    <3>3. /\ q \in Seq(OpenedCheckpoint) /\ Ordered(q)
          /\ Names(q) = Owned \cup {<<Top.id, "own">>} \cup Abandoned
          /\ Held(q) \subseteq Held(cps) \cup {c0}
          /\ Holding(c0) /\ Around(c0)
      BY <1>1, <1>2, <3>1, <3>2, Opens
    <3> HIDE DEF c0, q
    <3>4. \A c \in Held(q) : Holding(c) /\ Around(c)
      BY <3>3, HeldAround
    <3>5. Names(q) = HoldsBelow \cup {<<Top.id, "own">>} \cup Abandoned
      BY <1>1, <3>1, <3>3, OwnedSplit
    <3> QED
      BY <3>1, <3>3, <3>4, <3>5 DEF q
  <2> QED
    BY <2>1, <2>2
<1>11. Based(Checkpointed, WithTop(x), N)
  BY <1>6, <1>10 DEF Based
<1> HIDE DEF N, W
<1> QED
  BY <1>2, <1>7, <1>8, <1>9, <1>11, StepsIn
-----------------------------------------------------------------------------
(* The theorems *)

\* Nothing runs, nothing is written and no checkpoint is open.
LEMMA InitIInv == Init => IInv
<1> SUFFICES ASSUME Init PROVE IInv
  OBVIOUS
<1>1. st = {} /\ written = {} /\ cps = << >> /\ frames = << >> /\ log = << >>
  BY DEF Init
<1>2. Len(cps) = 0 /\ Len(frames) = 0 /\ Len(log) = 0
  BY <1>1, EmptySeq
<1>3. TypeOK
  <2>1. cps \in Seq([state : SUBSET Write, owner : Ids, layer : {"own", "exec"}])
    BY <1>1
  <2>2. log \in Seq(Entry) /\ frames \in Seq([id : 1..Len(log), pc : Pcs, outer : BOOLEAN, exec : BOOLEAN])
    BY <1>1
  <2> QED
    BY <1>1, <1>2, <2>1, <2>2, ExecutionAssumption DEF TypeOK
<1>4. Running = {}
  BY <1>2 DEF Running
<1>5. Lineage /\ Nested /\ Shaped /\ Gone
  BY <1>2, <1>4 DEF Lineage, Nested, Shaped, Gone
<1>6. Accounted
  <2>1. Owned = {} /\ Abandoned = {}
    BY <1>2, <1>4 DEF Owned, Abandoned
  <2> QED
    BY <1>2, <2>1 DEF Accounted
<1>7. Surviving /\ Snapshots /\ Authors /\ Uncovered
  BY <1>1, <1>2 DEF Surviving, Snapshots, Authors, Uncovered, At
<1> QED
  BY <1>3, <1>5, <1>6, <1>7 DEF IInv, FramesInv, WritesInv

\* Every step keeps the invariant, and what it throws is restored.
LEMMA NextIInv == ASSUME IInv, [Next]_vars PROVE IInv' /\ Restores
<1>1. CASE UNCHANGED vars
  <2> USE <1>1 DEF vars
  <2>1. Top' = Top /\ Kind' = Kind /\ Running' = Running
    BY DEF Top, Kind, Running
  <2>2. TypeOK' /\ Lineage' /\ Nested' /\ Shaped' /\ Gone'
    <3>1. TypeOK'
      BY DEF IInv, FramesInv, TypeOK
    <3>2. Lineage'
      BY DEF IInv, FramesInv, Lineage
    <3>4. Nested'
      BY <2>1 DEF IInv, FramesInv, Nested
    <3>3. Shaped' /\ Gone'
      BY DEF IInv, FramesInv, Shaped, Gone, Running
    <3> QED
      BY <3>1, <3>2, <3>3, <3>4
  <2>3. Accounted'
    BY DEF IInv, Accounted, Owned, Abandoned, Running
  <2>4. Surviving' /\ Snapshots' /\ Authors' /\ Uncovered'
    BY <2>1 DEF IInv, WritesInv, Surviving, Snapshots, Holding, Authors, Uncovered, Undone,
                Inside, At
  <2>5. Restores
    BY DEF Restores
  <2> QED
    BY <2>2, <2>3, <2>4, <2>5 DEF IInv, FramesInv, WritesInv
<1>2. CASE Idle
  BY <1>1, <1>2 DEF Idle
<1>3. CASE RunCall
  BY <1>3, RunCallStep
<1>4. CASE BeforeMessage
  BY <1>4, BeforeMessageStep
<1>5. CASE Execute
  BY <1>5, ExecuteStep
<1>6. CASE CallFromInterpreter
  BY <1>6, CallFromInterpreterStep
<1>7. CASE RunCode
  BY <1>7, RunCodeStep
<1>8. CASE ReturnFromCode
  BY <1>8, ReturnFromCodeStep
<1>9. CASE Succeed
  BY <1>9, SucceedStep
<1>10. CASE Fail
  BY <1>10, FailStep
<1>11. CASE RunTx
  BY <1>11, RunTxStep
<1>12. CASE Charge
  BY <1>12, ChargeStep
<1>13. CASE Settle
  BY <1>13, SettleStep
<1>14. CASE RunBlock
  BY <1>14, RunBlockStep
<1>15. CASE ApplyBlock
  BY <1>15, ApplyBlockStep
<1>16. CASE Commit
  BY <1>16, CommitStep
<1>17. CASE CommitKept
  BY <1>17, CommitKeptStep
<1>18. CASE CommitTorn
  BY <1>18, CommitTornStep
<1>19. CASE UnwindTorn
  BY <1>19, UnwindTornStep
<1>20. CASE Throw
  BY <1>20, ThrowStep
<1>21. CASE Unwind
  BY <1>21, UnwindStep
<1>22. CASE BuildBlock
  BY <1>22, BuildBlockStep
<1>23. CASE AddTransaction
  BY <1>23, AddTransactionStep
<1>24. CASE RejectTransaction
  BY <1>24, RejectTransactionStep
<1>25. CASE BuildRefused
  BY <1>25, BuildRefusedStep
<1>26. CASE Build
  BY <1>26, BuildStep
<1>27. CASE BuilderRevert
  BY <1>27, BuilderRevertStep
<1>28. CASE DropBuilder
  BY <1>28, DropBuilderStep
<1> QED
  BY <1>1, <1>2, <1>3, <1>4, <1>5, <1>6, <1>7, <1>8, <1>9, <1>10, <1>11, <1>12, <1>13,
     <1>14, <1>15, <1>16, <1>17, <1>18, <1>19, <1>20, <1>21, <1>22, <1>23, <1>24, <1>25,
     <1>26, <1>27, <1>28 DEF Next

\* However calls, transactions, blocks and builders are nested and end, the
\* visible state is what their fates say and every open checkpoint has an owner
\* who closes it (the checkpoint, commit and revert pairs of runBlock, runTx,
\* BlockBuilder and the message calls of the TVM).
THEOREM FramesSafe == Spec => []FramesSound
<1>1. Init => IInv
  BY InitIInv
<1>2. IInv /\ [Next]_vars => IInv'
  BY NextIInv
<1>3. IInv => FramesSound
  BY DEF IInv, FramesInv, WritesInv, FramesSound
<1> QED
  BY <1>1, <1>2, <1>3, PTL DEF Spec

\* What throws out of runTx, runBlock or a message call leaves exactly the state
\* it found.
THEOREM ThrowsLeaveNothing == Spec => ThrowRestores
<1>1. Init => IInv
  BY InitIInv
<1>2. IInv /\ [Next]_vars => IInv'
  BY NextIInv
<1> DEFINE A == \A f \in 1..Len(log) :
                   (log[f].verdict # "throw" /\ log'[f].verdict = "throw"
                      /\ log[f].kind # "builder") => st' = log[f].found
<1>3. IInv /\ [Next]_vars => [A]_vars
  BY NextIInv DEF Restores
<1>4. Spec => [][A]_vars
  BY <1>1, <1>2, <1>3, PTL DEF Spec
<1> QED
  BY <1>4 DEF ThrowRestores
-----------------------------------------------------------------------------
(***************************************************************************)
(* Blocks.                                                                 *)
(***************************************************************************)

\* What is done to the world.
Entries == [id : {t.id : t \in TxPool} \cup {"reward"}, fee : Nat, at : Nat]

\* A sequence, of whatever.
Listing(s) == s \in Seq({s[i] : i \in DOMAIN s})

\* A header has its fields, and a gas limit below the cap.
HeaderOf(h) ==
    /\ h \in [number : Nat, parentHash : {h.parentHash}, gasLimit : Nat, gasUsed : Nat, timestamp : Nat,
             baseFee : Nat, difficulty : Nat, stateRoot : Seq(Entries), txTrie : {h.txTrie},
             receiptTrie : {h.receiptTrie}, bloom : {h.bloom}, seal : {h.seal}]
    /\ h.gasLimit < gasLimitCap

\* A block has a header that its constructor accepts, and transactions.
BlockOf(b) == /\ b \in [header : {b.header}, txs : Seq(TxPool)]
              /\ HeaderOf(b.header) /\ b.header.gasUsed <= b.header.gasLimit

\* It follows the head of the chain.
Follows(h) == h.parentHash = {Tip} /\ h.number = Tip.number + 1

\* Under the consensus c, the header h may come after p.
ValidAfter(c, h, p) ==
    /\ h.number = p.number + 1
    /\ h.timestamp > p.timestamp
    /\ c = "pow" => h.difficulty = ethashCanonicalDifficulty(h, p)
    /\ validateGasLimit(h, p)
    /\ h.baseFee = calcNextBaseFee(p)

\* Every block of the chain has room for its gas target, and was valid after
\* the block before it.
ChainIs ==
    /\ Listing(blocks) /\ Len(blocks) \in 1..MaxBlocks
    /\ \A i \in 1..Len(blocks) : BlockOf(blocks[i]) /\ blocks[i].header.gasLimit >= elasticityMultiplier
    /\ \A i \in 2..Len(blocks) : /\ blocks[i].header.parentHash = {blocks[i - 1].header}
                                 /\ ValidAfter(consensus, blocks[i].header, blocks[i - 1].header)

\* The world and its checkpoint are sequences of what was done.
WorldIs ==
    /\ consensus \in Consensuses /\ now \in 0..MaxNow /\ astray \in BOOLEAN
    /\ world \in Seq(Entries) /\ saves \in Seq(Seq(Entries))
    /\ Len(saves) = (IF bld.checkpointed THEN 1 ELSE 0)

BuilderOf(b) ==
    b \in [status : Statuses, header : {b.header}, txs : {b.txs}, receipts : {b.receipts}, bloom : {b.bloom},
          gasUsed : Nat, checkpointed : BOOLEAN, put : BOOLEAN, paid : Nat]

\* The builder, and what it has while it is pending.
BuilderIs ==
    /\ BuilderOf(bld)
    /\ bld.status = "pending" =>
          /\ HeaderOf(bld.header) /\ Follows(bld.header)
          /\ bld.txs \in Seq(TxPool)
          /\ held = << >> /\ Len(blocks) < MaxBlocks

\* The world after the miner's reward.
Rewarded(c, w, h) == IF c = "pow" THEN Append(w, RewardEntry(h)) ELSE w

\* What the body of b makes of w is what its header says.
Honest(c, w, b) ==
    LET r == applyTransactions(w, b.header, b.txs)
    IN  /\ r.ok /\ r.receipts = b.header.receiptTrie /\ r.bloom = b.header.bloom
        /\ r.gasUsed = b.header.gasUsed /\ Rewarded(c, r.world, b.header) = b.header.stateRoot

\* A block that waits to be put follows the head, and the world is its own.
HeldIs ==
    /\ Listing(held) /\ Len(held) <= 1
    /\ held # << >> => /\ BlockOf(held[1]) /\ Follows(held[1].header)
                       /\ bld.status # "pending" /\ Len(blocks) < MaxBlocks
                       /\ ~astray => /\ Honest(consensus, Tip.stateRoot, held[1])
                                     /\ world = held[1].header.stateRoot

\* The world a builder started from.
Base == IF bld.checkpointed THEN saves[1] ELSE world

\* A builder started from the head, and until it pays a reward the world is
\* what its transactions made of it.
Building ==
    (bld.status = "pending" /\ ~astray) =>
        /\ Base = Tip.stateRoot
        /\ consensus # "pow" => bld.paid = 0
        /\ bld.paid = 0 => LET r == applyTransactions(Base, bld.header, bld.txs)
                           IN  /\ r.ok /\ r.world = world /\ r.gasUsed = bld.gasUsed
                               /\ r.receipts = bld.receipts /\ r.bloom = bld.bloom

\* With no builder the world is the head's.
Resting ==
    (bld.status # "pending" /\ ~astray) =>
        ~bld.checkpointed /\ (held = << >> => world = Tip.stateRoot)

\* Every block is what its body makes of the state of the block before.
Accepted ==
    ~astray => \A i \in 2..Len(blocks) : /\ Honest(consensus, blocks[i - 1].header.stateRoot, blocks[i])
                                         /\ validateData(blocks[i])

BlocksInv == /\ WorldIs
             /\ ChainIs
             /\ BuilderIs
             /\ HeldIs
             /\ Building
             /\ Resting
             /\ Accepted
-----------------------------------------------------------------------------
(* Running transactions *)

\* A nonempty set of naturals has a least element.
LEMMA Least ==
    ASSUME NEW H \in SUBSET Nat, H # {}
    PROVE  \E i \in H : \A j \in H : i <= j
<1> DEFINE R == OpToRel(<, Nat)
<1>1. IsWellFoundedOn(R, Nat)
  BY NatLessThanWellFounded
<1> HIDE DEF R
<1>2. PICK i \in H : \A j \in H : ~(<<j, i>> \in R)
  BY <1>1, WFMin
<1>3. ASSUME NEW j \in H
      PROVE  i <= j
  <2>1. i \in Nat /\ j \in Nat
    OBVIOUS
  <2>2. ~(<<j, i>> \in R)
    BY <1>2
  <2>3. ~(j < i)
    BY <2>1, <2>2 DEF R, OpToRel
  <2> QED
    BY <2>1, <2>3
<1> QED
  BY <1>3

Pick(s) == CHOOSE x \in s : TRUE

\* A finite set of integers that is not empty has a maximum.
LEMMA MaxIn ==
    ASSUME NEW n \in Nat, NEW t \in SUBSET (1..n), t # {}
    PROVE  Max(t) \in t
<1> DEFINE H == {n - i : i \in t}
<1>1. H \in SUBSET Nat /\ H # {}
  <2>1. PICK i \in t : TRUE
    OBVIOUS
  <2>2. n - i \in H
    BY <2>1
  <2>3. \A j \in t : j \in 1..n
    OBVIOUS
  <2>4. \A j \in 1..n : n - j \in Nat
    OBVIOUS
  <2> QED
    BY <2>2, <2>3, <2>4
<1>2. PICK k \in H : \A j \in H : k <= j
  <2> HIDE DEF H
  <2> QED
    BY <1>1, Least
<1>3. PICK m \in t : k = n - m
  OBVIOUS
<1>4. ASSUME NEW j \in t PROVE m >= j
  <2>1. n - j \in H
    OBVIOUS
  <2>2. n - m <= n - j
    BY <1>2, <1>3, <2>1
  <2> QED
    BY <2>2
<1> QED
  BY <1>4 DEF Max

\* The maximum of a prefix is its length.
LEMMA MaxPrefix ==
    ASSUME NEW k \in Nat \ {0}
    PROVE  Max(1..k) = k /\ (1..k) \ {k} = 1..(k - 1)
<1>1. Max(1..k) \in 1..k /\ Max(1..k) >= k
  <2>1. k \in 1..k /\ \A j \in 1..k : k >= j
    OBVIOUS
  <2> QED
    BY <2>1 DEF Max
<1> QED
  BY <1>1

\* What one transaction of a block under the header h makes of the result r.
RunOne(h, r, t) ==
    IF r.ok /\ h.gasLimit >= t.gasLimit + r.gasUsed /\ Runs(r.world, t, h) THEN Ran(r, t, h) ELSE Refused(r)

\* What is left when the transactions whose indices are in a set have run, one
\* by one.
ApplyStep(w, h, s, g) ==
    [t \in SUBSET DOMAIN s |-> IF t = {} THEN NoResult(w) ELSE RunOne(h, g[t \ {Max(t)}], s[Max(t)])]

Applied(w, h, s) == CHOOSE g : g = ApplyStep(w, h, s, g)

\* applyTransactions is that fold, over all indices.
LEMMA ApplyIs ==
    ASSUME NEW w, NEW h, NEW s
    PROVE  applyTransactions(w, h, s) = Applied(w, h, s)[DOMAIN s]
BY DEF applyTransactions, FoldLeft, MapThenFoldSet, Applied, ApplyStep, RunOne

\* The fold has a solution, built up one cardinality at a time.
LEMMA ApplyExists ==
    ASSUME NEW w, NEW h, NEW E, NEW s \in Seq(E)
    PROVE  \E g : g = ApplyStep(w, h, s, g)
<1> DEFINE D == DOMAIN s
           T(g, t) == RunOne(h, g[t \ {Max(t)}], s[Max(t)])
           Right(g, t) == g[t] = IF t = {} THEN NoResult(w) ELSE T(g, t)
           Upto(k) == \E g : DOMAIN g = SUBSET D /\ g = [t \in SUBSET D |-> g[t]]
                                /\ \A t \in SUBSET D : Cardinality(t) <= k => Right(g, t)
           Bad == {k \in Nat : ~Upto(k)}
<1>0. D = 1..Len(s) /\ Len(s) \in Nat /\ IsFiniteSet(D)
  BY FS_Interval
<1>1. \A t \in SUBSET D : IsFiniteSet(t) /\ Cardinality(t) \in Nat /\ Cardinality(t) <= Cardinality(D)
  BY <1>0, FS_Subset, FS_CardinalityType
<1>2. Upto(0)
  <2> DEFINE g == [t \in SUBSET D |-> NoResult(w)]
  <2>1. ASSUME NEW t \in SUBSET D, Cardinality(t) <= 0 PROVE Right(g, t)
    <3>1. t = {}
      BY <1>1, <2>1, FS_EmptySet
    <3> QED
      BY <3>1
  <2>2. DOMAIN g = SUBSET D /\ g = [t \in SUBSET D |-> g[t]]
    OBVIOUS
  <2> HIDE DEF g, Right
  <2> QED
    BY <2>1, <2>2
<1>3. ASSUME NEW k \in Nat, Upto(k) PROVE Upto(k + 1)
  <2>1. PICK g : DOMAIN g = SUBSET D /\ g = [t \in SUBSET D |-> g[t]]
                                /\ \A t \in SUBSET D : Cardinality(t) <= k => Right(g, t)
    BY <1>3
  <2> DEFINE f == [t \in SUBSET D |-> IF Cardinality(t) = k + 1 THEN T(g, t) ELSE g[t]]
  <2>2. ASSUME NEW t \in SUBSET D, t # {}
        PROVE  /\ t \ {Max(t)} \in SUBSET D
               /\ Cardinality(t \ {Max(t)}) = Cardinality(t) - 1 /\ Cardinality(t) \in Nat
    <3>1. Max(t) \in t
      BY <1>0, <2>2, MaxIn
    <3> QED
      BY <1>1, <3>1, FS_RemoveElement
  <2>5. ASSUME NEW t \in SUBSET D, Cardinality(t) <= k + 1 PROVE Right(f, t)
    <3>1. CASE t = {}
      <4>2. Cardinality(t) = 0 /\ Cardinality(t) <= k
        BY <3>1, FS_EmptySet
      <4>1. Cardinality(t) = 0 /\ g[t] = NoResult(w)
        BY <3>1, <4>2, <2>1
      <4> QED
        BY <3>1, <4>1
    <3>2. CASE t # {} /\ Cardinality(t) = k + 1
      <4>1. t \ {Max(t)} \in SUBSET D /\ Cardinality(t \ {Max(t)}) # k + 1
        BY <3>2, <2>2
      <4>2. f[t \ {Max(t)}] = g[t \ {Max(t)}]
        BY <4>1
      <4>3. f[t] = T(g, t)
        BY <3>2
      <4> HIDE DEF f
      <4> QED
        BY <3>2, <4>2, <4>3
    <3>3. CASE t # {} /\ Cardinality(t) # k + 1
      <4>1. /\ t \ {Max(t)} \in SUBSET D
            /\ Cardinality(t \ {Max(t)}) = Cardinality(t) - 1 /\ Cardinality(t) \in Nat
        BY <3>3, <2>2
      <4>3. Cardinality(t \ {Max(t)}) # k + 1 /\ Cardinality(t) <= k
        BY <3>3, <2>5, <4>1
      <4>2. f[t \ {Max(t)}] = g[t \ {Max(t)}] /\ f[t] = g[t] /\ Right(g, t)
        BY <4>1, <4>3, <3>3, <2>1
      <4> HIDE DEF f
      <4> QED
        BY <3>3, <4>2
    <3> QED
      BY <3>1, <3>2, <3>3
  <2>6. DOMAIN f = SUBSET D /\ f = [t \in SUBSET D |-> f[t]]
    OBVIOUS
  <2> HIDE DEF f, Right
  <2> QED
    BY <2>5, <2>6
<1> HIDE DEF Upto
<1>4. Bad = {}
  <2> SUFFICES ASSUME Bad # {} PROVE FALSE
    OBVIOUS
  <2>1. PICK k \in Bad : \A j \in Bad : k <= j
    BY Least
  <2>2. k # 0
    BY <1>2
  <2>3. k - 1 \in Nat /\ k - 1 \notin Bad
    BY <2>1, <2>2
  <2>4. Upto(k - 1) /\ (k - 1) + 1 = k
    BY <2>3
  <2>5. Upto(k)
    BY <2>3, <2>4, <1>3
  <2> QED
    BY <2>5
<1>5. Upto(Cardinality(D))
  BY <1>0, <1>1, <1>4, FS_CardinalityType
<1>6. PICK g : g = [t \in SUBSET D |-> g[t]] /\ \A t \in SUBSET D : Right(g, t)
  BY <1>1, <1>5 DEF Upto
<1>8. g = ApplyStep(w, h, s, g)
  BY <1>6 DEF ApplyStep
<1> QED
  BY <1>8

\* The list as it is after each index.
LEMMA ApplySteps ==
    ASSUME NEW w, NEW h, NEW E, NEW s \in Seq(E)
    PROVE  \E f : /\ f[0] = NoResult(w) /\ applyTransactions(w, h, s) = f[Len(s)]
                  /\ \A k \in 1..Len(s) :
                        f[k] = RunOne(h, f[k - 1], s[k])
<1> DEFINE g == Applied(w, h, s)
           f == [k \in 0..Len(s) |-> g[1..k]]
<1>1. g = ApplyStep(w, h, s, g)
  BY ApplyExists DEF Applied
<1>2. applyTransactions(w, h, s) = g[DOMAIN s]
  BY ApplyIs
<1> HIDE DEF g
<1>3. \A t \in SUBSET DOMAIN s :
         g[t] = IF t = {} THEN NoResult(w)
                ELSE RunOne(h, g[t \ {Max(t)}], s[Max(t)])
  BY <1>1 DEF ApplyStep
<1>4. f[0] = NoResult(w)
  <2>1. 1..0 = {} /\ f[0] = g[1..0]
    OBVIOUS
  <2> QED
    BY <1>3, <2>1
<1>5. applyTransactions(w, h, s) = f[Len(s)]
  BY <1>2
<1>6. ASSUME NEW k \in 1..Len(s)
      PROVE  f[k] = RunOne(h, f[k - 1], s[k])
  <2>4. DOMAIN s = 1..Len(s) /\ Len(s) \in Nat /\ k \in Nat \ {0} /\ k <= Len(s)
    OBVIOUS
  <2>5. k \in 1..k /\ \A i \in 1..k : i \in 1..Len(s)
    BY <2>4
  <2>1. 1..k \in SUBSET DOMAIN s /\ 1..k # {} /\ k \in Nat \ {0}
    BY <2>4, <2>5
  <2>2. Max(1..k) = k /\ (1..k) \ {k} = 1..(k - 1)
    BY <2>1, MaxPrefix
  <2>3. f[k] = g[1..k] /\ f[k - 1] = g[1..(k - 1)]
    OBVIOUS
  <2> HIDE DEF f
  <2> QED
    BY <1>3, <2>1, <2>2, <2>3
<1> HIDE DEF f
<1> QED
  BY <1>4, <1>5, <1>6

\* What holds of 0, and of each number up to n if of the one before, holds of
\* all of them.
LEMMA Upward ==
    ASSUME NEW n \in Nat, NEW G, 0 \in G, \A k \in 1..n : k - 1 \in G => k \in G
    PROVE  \A k \in 0..n : k \in G
<1> DEFINE Bad == {k \in 0..n : k \notin G}
<1> SUFFICES ASSUME Bad # {} PROVE FALSE
  OBVIOUS
<1>1. Bad \in SUBSET Nat
  OBVIOUS
<1>2. PICK k \in Bad : \A j \in Bad : k <= j
  <2> HIDE DEF Bad
  <2> QED
    BY <1>1, Least
<1>3. k \in 1..n /\ k - 1 \in 0..n
  OBVIOUS
<1>4. k - 1 \notin Bad
  <2> HIDE DEF Bad
  <2> QED
    BY <1>1, <1>2, <1>3
<1> QED
  BY <1>3, <1>4

\* Headers that tell a transaction the same.
Alike(h, i) == h.gasLimit = i.gasLimit /\ h.baseFee = i.baseFee /\ h.timestamp = i.timestamp

\* The body does the same under them.
LEMMA ApplySame ==
    ASSUME NEW w, NEW h, NEW i, Alike(h, i), NEW E, NEW s \in Seq(E)
    PROVE  applyTransactions(w, h, s) = applyTransactions(w, i, s)
<1>1. PICK f : /\ f[0] = NoResult(w) /\ applyTransactions(w, h, s) = f[Len(s)]
               /\ \A k \in 1..Len(s) : f[k] = RunOne(h, f[k - 1], s[k])
  BY ApplySteps
<1>2. PICK g : /\ g[0] = NoResult(w) /\ applyTransactions(w, i, s) = g[Len(s)]
               /\ \A k \in 1..Len(s) : g[k] = RunOne(i, g[k - 1], s[k])
  BY ApplySteps
<1>3. \A r, t : RunOne(h, r, t) = RunOne(i, r, t)
  BY DEF Alike, RunOne, Runs, Ran, Effect
<1> DEFINE G == {k \in 0..Len(s) : f[k] = g[k]}
<1>4. 0 \in G
  BY <1>1, <1>2
<1>5. ASSUME NEW k \in 1..Len(s), k - 1 \in G PROVE k \in G
  BY <1>1, <1>2, <1>3, <1>5
<1>6. Len(s) \in Nat /\ Len(s) \in 0..Len(s)
  OBVIOUS
<1>7. \A k \in 0..Len(s) : k \in G
  <2> HIDE DEF G
  <2> QED
    BY <1>4, <1>5, <1>6, Upward
<1> QED
  BY <1>1, <1>2, <1>6, <1>7

\* Nothing runs in an empty block.
LEMMA ApplyEmpty ==
    ASSUME NEW w, NEW h
    PROVE  applyTransactions(w, h, << >>) = NoResult(w)
<1>1. DOMAIN << >> = {}
  OBVIOUS
<1>2. applyTransactions(w, h, << >>) = Applied(w, h, << >>)[{}]
  BY <1>1, ApplyIs
<1>3. Applied(w, h, << >>) = ApplyStep(w, h, << >>, Applied(w, h, << >>))
  BY ApplyExists DEF Applied
<1> QED
  BY <1>1, <1>2, <1>3 DEF ApplyStep

\* One more transaction runs after the others.
LEMMA ApplyAppend ==
    ASSUME NEW w, NEW h, NEW E, NEW s \in Seq(E), NEW t \in E
    PROVE  applyTransactions(w, h, Append(s, t)) = RunOne(h, applyTransactions(w, h, s), t)
<1> DEFINE z == Append(s, t)
<1>0. z \in Seq(E) /\ Len(z) = Len(s) + 1 /\ z[Len(s) + 1] = t /\ Len(s) \in Nat
      /\ \A k \in 1..Len(s) : z[k] = s[k]
  OBVIOUS
<1> HIDE DEF z
<1>1. PICK f : /\ f[0] = NoResult(w) /\ applyTransactions(w, h, s) = f[Len(s)]
               /\ \A k \in 1..Len(s) : f[k] = RunOne(h, f[k - 1], s[k])
  BY ApplySteps
<1>2. PICK g : /\ g[0] = NoResult(w) /\ applyTransactions(w, h, z) = g[Len(z)]
               /\ \A k \in 1..Len(z) : g[k] = RunOne(h, g[k - 1], z[k])
  BY <1>0, ApplySteps
<1> DEFINE G == {k \in 0..Len(s) : f[k] = g[k]}
<1>4. 0 \in G
  BY <1>1, <1>2
<1>5. ASSUME NEW k \in 1..Len(s), k - 1 \in G PROVE k \in G
  <2>1. k \in 1..Len(z) /\ f[k - 1] = g[k - 1] /\ z[k] = s[k] /\ k \in 0..Len(s)
    BY <1>0, <1>5
  <2> QED
    BY <1>1, <1>2, <2>1
<1>7. \A k \in 0..Len(s) : k \in G
  <2> HIDE DEF G
  <2> QED
    BY <1>0, <1>4, <1>5, Upward
<1>8. f[Len(s)] = g[Len(s)]
  BY <1>0, <1>7
<1>9. Len(s) + 1 \in 1..Len(z) /\ (Len(s) + 1) - 1 = Len(s)
  BY <1>0
<1>10. g[Len(z)] = RunOne(h, g[Len(s)], t)
  BY <1>0, <1>2, <1>9
<1> QED
  BY <1>1, <1>2, <1>8, <1>10 DEF z

\* A result, and what is needed to go on from it.
ResultOf(r) ==
    r \in [ok : BOOLEAN, world : Seq(Entries), gasUsed : Nat, receipts : {r.receipts}, bloom : {r.bloom}]

\* The world has the first k transactions of s on top of w, in their order.
Carries(r, w, s, k) ==
    r.ok => /\ Len(r.world) = Len(w) + k
            /\ \A i \in 1..k : r.world[Len(w) + i].id = s[i].id

\* A transaction leaves an entry.
LEMMA EffectIs ==
    ASSUME NEW h, HeaderOf(h), NEW t \in TxPool
    PROVE  Effect(t, h) \in Entries /\ Effect(t, h).id = t.id
BY DEF Effect, Entries, HeaderOf

\* So does one step from a result.
LEMMA RunResult ==
    ASSUME NEW w \in Seq(Entries), NEW h, HeaderOf(h), NEW s \in Seq(TxPool), NEW r,
           NEW k \in 1..Len(s), ResultOf(r), Carries(r, w, s, k - 1)
    PROVE  ResultOf(RunOne(h, r, s[k])) /\ Carries(RunOne(h, r, s[k]), w, s, k)
<1> DEFINE t == s[k]
<1>1. t \in TxPool /\ Len(s) \in Nat /\ k \in Nat /\ Len(w) \in Nat
  OBVIOUS
<1>2. t.spent \in Nat
  BY <1>1, BlocksAssumption
<1>3. Effect(t, h) \in Entries /\ Effect(t, h).id = t.id
  BY <1>1, EffectIs
<1> DEFINE e == Effect(t, h)
<1>4. CASE RunOne(h, r, t) = Ran(r, t, h) /\ r.ok
  <2> DEFINE q == Ran(r, t, h)
  <2>1. q.ok = TRUE /\ q.world = Append(r.world, e) /\ q.gasUsed = r.gasUsed + t.spent
        /\ q \in [ok : BOOLEAN, world : {q.world}, gasUsed : {q.gasUsed}, receipts : {q.receipts}, bloom : {q.bloom}]
    BY DEF Ran
  <2> HIDE DEF q, e
  <2>2. r.world \in Seq(Entries) /\ e \in Entries /\ r.gasUsed \in Nat
    BY <1>3 DEF ResultOf, e
  <2>3. ResultOf(q)
    <3>1. Append(r.world, e) \in Seq(Entries) /\ r.gasUsed + t.spent \in Nat
      BY <1>2, <2>2
    <3>2. q.world \in Seq(Entries) /\ q.gasUsed \in Nat /\ q.ok \in BOOLEAN
      BY <2>1, <3>1
    <3> QED
      BY <2>1, <3>2 DEF ResultOf
  <2>4. Len(r.world) = Len(w) + (k - 1) /\ \A i \in 1..(k - 1) : r.world[Len(w) + i].id = s[i].id
    BY <1>4 DEF Carries
  <2>5. Len(q.world) = Len(w) + k
    BY <1>1, <2>1, <2>2, <2>4
  <2>6. ASSUME NEW i \in 1..k PROVE q.world[Len(w) + i].id = s[i].id
    <3>1. CASE i = k
      <4>1. q.world[Len(r.world) + 1] = e /\ Len(w) + k = Len(r.world) + 1
        BY <1>1, <2>1, <2>2, <2>4
      <4> QED
        BY <1>3, <3>1, <4>1 DEF e
    <3>2. CASE i # k
      <4>1. i \in 1..(k - 1) /\ Len(w) + i \in 1..Len(r.world)
        BY <1>1, <2>4, <3>2
      <4>2. q.world[Len(w) + i] = r.world[Len(w) + i]
        BY <2>1, <2>2, <4>1
      <4> QED
        BY <2>4, <4>1, <4>2
    <3> QED
      BY <3>1, <3>2
  <2> QED
    BY <1>4, <2>3, <2>5, <2>6 DEF Carries, q
<1>5. CASE RunOne(h, r, t) = Refused(r)
  <2>1. ResultOf(Refused(r)) /\ Refused(r).ok = FALSE
    BY DEF ResultOf, Refused
  <2> QED
    BY <1>5, <2>1 DEF Carries
<1> QED
  BY <1>4, <1>5 DEF RunOne

\* What running a block gives, and which transactions its world shows.
LEMMA ApplyResult ==
    ASSUME NEW w \in Seq(Entries), NEW h, HeaderOf(h), NEW s \in Seq(TxPool)
    PROVE  LET r == applyTransactions(w, h, s) IN ResultOf(r) /\ Carries(r, w, s, Len(s))
<1>1. PICK f : /\ f[0] = NoResult(w) /\ applyTransactions(w, h, s) = f[Len(s)]
               /\ \A k \in 1..Len(s) : f[k] = RunOne(h, f[k - 1], s[k])
  BY ApplySteps
<1> DEFINE G == {k \in 0..Len(s) : ResultOf(f[k]) /\ Carries(f[k], w, s, k)}
<1>2. Len(s) \in Nat /\ Len(w) \in Nat
  OBVIOUS
<1>3. 0 \in G
  <2>1. ResultOf(NoResult(w))
    BY DEF ResultOf, NoResult
  <2>2. Carries(NoResult(w), w, s, 0)
    BY <1>2 DEF Carries, NoResult
  <2> QED
    BY <1>1, <1>2, <2>1, <2>2
<1>4. ASSUME NEW k \in 1..Len(s), k - 1 \in G PROVE k \in G
  <2>1. ResultOf(f[k - 1]) /\ Carries(f[k - 1], w, s, k - 1) /\ f[k] = RunOne(h, f[k - 1], s[k]) /\ k \in 0..Len(s)
    BY <1>1, <1>2, <1>4
  <2> QED
    BY <2>1, RunResult
<1>5. \A k \in 0..Len(s) : k \in G
  <2> HIDE DEF G
  <2> QED
    BY <1>2, <1>3, <1>4, Upward
<1> QED
  BY <1>1, <1>2, <1>5

-----------------------------------------------------------------------------
(* Headers and lists *)

\* One more item on a list.
LEMMA ListAppend ==
    ASSUME NEW s, Listing(s), NEW x
    PROVE  /\ Listing(Append(s, x)) /\ Len(s) \in Nat /\ Len(Append(s, x)) = Len(s) + 1
           /\ Append(s, x)[Len(s) + 1] = x
           /\ \A i \in 1..Len(s) : Append(s, x)[i] = s[i]
<1> DEFINE S == {s[i] : i \in DOMAIN s} \cup {x}
<1>1. s \in Seq({s[i] : i \in DOMAIN s})
  BY DEF Listing
<1>2. s \in Seq(S) /\ x \in S
  BY <1>1
<1> HIDE DEF S
<1>3. /\ Append(s, x) \in Seq(S) /\ Len(s) \in Nat /\ Len(Append(s, x)) = Len(s) + 1
      /\ Append(s, x)[Len(s) + 1] = x
      /\ \A i \in 1..Len(s) : Append(s, x)[i] = s[i]
  BY <1>2
<1>4. \A z \in Seq(S) : z \in Seq({z[i] : i \in DOMAIN z})
  OBVIOUS
<1> QED
  BY <1>3, <1>4 DEF Listing

\* A list of nothing, and of one.
LEMMA ListSmall ==
    /\ Listing(<< >>) /\ Len(<< >>) = 0
    /\ \A x : Listing(<<x>>) /\ Len(<<x>>) = 1 /\ <<x>>[1] = x /\ <<x>> # << >>
<1>1. Listing(<< >>) /\ Len(<< >>) = 0
  BY DEF Listing
<1>2. ASSUME NEW x PROVE Listing(<<x>>) /\ Len(<<x>>) = 1 /\ <<x>>[1] = x /\ <<x>> # << >>
  <2>1. <<x>> \in Seq({x}) /\ Len(<<x>>) = 1 /\ <<x>>[1] = x /\ <<x>> # << >> /\ DOMAIN <<x>> = 1..1
    OBVIOUS
  <2> QED
    BY <2>1 DEF Listing
<1> QED
  BY <1>1, <1>2

\* Quotients of naturals.
LEMMA Quotient ==
    ASSUME NEW a \in Nat, NEW d \in Nat \ {0}
    PROVE  /\ a \div d \in Nat /\ a \div d <= a
           /\ d * (a \div d) <= a /\ a < d * (a \div d) + d
           /\ a >= d => a \div d >= 1
OBVIOUS

\* A larger dividend has no smaller quotient.
LEMMA QuotientRises ==
    ASSUME NEW a \in Nat, NEW b \in Nat, a <= b, NEW d \in Nat \ {0}
    PROVE  a \div d <= b \div d
OBVIOUS

\* So much a header with gas d above or below its target changes the fee.
FeeDelta(h, d) == ((h.baseFee * d) \div (h.gasLimit \div elasticityMultiplier)) \div baseFeeMaxChangeDenominator

\* A header whose limit has room for the target has one, and fees are naturals.
LEMMA TargetIs ==
    ASSUME NEW h, HeaderOf(h), h.gasLimit >= elasticityMultiplier
    PROVE  /\ h.gasLimit \div elasticityMultiplier \in Nat \ {0}
           /\ \A d \in Nat : FeeDelta(h, d) \in Nat
<1>1. elasticityMultiplier \in Nat \ {0} /\ baseFeeMaxChangeDenominator \in Nat \ {0}
  BY BlocksAssumption
<1>2. h.gasLimit \in Nat /\ h.baseFee \in Nat
  BY DEF HeaderOf
<1>3. h.gasLimit \div elasticityMultiplier \in Nat \ {0}
  BY <1>1, <1>2, Quotient
<1>4. ASSUME NEW d \in Nat PROVE FeeDelta(h, d) \in Nat
  <2>1. h.baseFee * d \in Nat
    BY <1>2
  <2>2. (h.baseFee * d) \div (h.gasLimit \div elasticityMultiplier) \in Nat
    BY <1>3, <2>1, Quotient
  <2> QED
    BY <1>1, <2>2, Quotient DEF FeeDelta
<1> QED
  BY <1>3, <1>4

\* calcNextBaseFee, in its three cases.
LEMMA FeeIs ==
    ASSUME NEW h, HeaderOf(h), h.gasLimit >= elasticityMultiplier
    PROVE  LET t == h.gasLimit \div elasticityMultiplier
               fee == calcNextBaseFee(h)
           IN  /\ fee \in Nat
               /\ h.gasUsed = t => fee = h.baseFee
               /\ h.gasUsed > t => \/ fee = h.baseFee + 1
                                   \/ fee = h.baseFee + FeeDelta(h, h.gasUsed - t) /\ fee > h.baseFee
               /\ h.gasUsed < t => /\ fee <= h.baseFee
                                   /\ fee >= h.baseFee - FeeDelta(h, t - h.gasUsed)
<1> DEFINE t == h.gasLimit \div elasticityMultiplier
<1>1. t \in Nat /\ \A d \in Nat : FeeDelta(h, d) \in Nat
  BY TargetIs
<1>2. h.gasUsed \in Nat /\ h.baseFee \in Nat
  BY DEF HeaderOf
<1>3. calcNextBaseFee(h) =
         IF h.gasUsed = t THEN h.baseFee
         ELSE IF h.gasUsed > t
              THEN h.baseFee + (IF FeeDelta(h, h.gasUsed - t) > 1 THEN FeeDelta(h, h.gasUsed - t) ELSE 1)
              ELSE IF h.baseFee - FeeDelta(h, t - h.gasUsed) > 0 THEN h.baseFee - FeeDelta(h, t - h.gasUsed) ELSE 0
  BY DEF calcNextBaseFee, FeeDelta
<1> HIDE DEF t
<1>4. CASE h.gasUsed = t
  BY <1>1, <1>2, <1>3, <1>4 DEF t
<1>5. CASE h.gasUsed > t
  <2>1. h.gasUsed - t \in Nat
    BY <1>1, <1>2, <1>5
  <2>2. FeeDelta(h, h.gasUsed - t) \in Nat
    BY <1>1, <2>1
  <2> QED
    BY <1>1, <1>2, <1>3, <1>5, <2>2 DEF t
<1>6. CASE h.gasUsed < t
  <2>1. t - h.gasUsed \in Nat
    BY <1>1, <1>2, <1>6
  <2>2. FeeDelta(h, t - h.gasUsed) \in Nat
    BY <1>1, <2>1
  <2> QED
    BY <1>1, <1>2, <1>3, <1>6, <2>2 DEF t
<1> QED
  BY <1>1, <1>2, <1>4, <1>5, <1>6

\* The product with what a dividend is short of a multiple.
LEMMA Shares ==
    ASSUME NEW f \in Nat, NEW d \in Nat, NEW t \in Nat \ {0}, NEW e \in Nat, d <= e * (t + 1)
    PROVE  (f * d) \div t <= f * e + (f * e) \div t
<1> DEFINE m == f * e
           q == m \div t
<1>1. f * d \in Nat /\ m \in Nat
  OBVIOUS
<1>2. f * d <= f * (e * (t + 1))
  <2>1. e * (t + 1) \in Nat
    OBVIOUS
  <2>2. \A x, y \in Nat : x <= y => f * x <= f * y
    OBVIOUS
  <2> QED
    BY <2>1, <2>2
<1>3. f * (e * (t + 1)) = m * t + m
  OBVIOUS
<1>4. q \in Nat /\ m < t * q + t
  BY <1>1, Quotient
<1> HIDE DEF m, q
<1>5. m * t \in Nat /\ t * q \in Nat /\ t * (m + q) = m * t + t * q
  BY <1>1, <1>4
<1>6. f * d < t * (m + q) + t
  BY <1>1, <1>2, <1>3, <1>4, <1>5
<1> DEFINE z == (f * d) \div t
<1>7. z \in Nat /\ t * z <= f * d
  BY <1>1, Quotient
<1> HIDE DEF z
<1>8. t * z < t * (m + q) + t
  <2>1. t * z \in Nat /\ t * (m + q) \in Nat
    BY <1>1, <1>4, <1>7
  <2> QED
    BY <1>1, <1>6, <1>7, <2>1
<1>9. z <= m + q
  <2> SUFFICES ASSUME z >= m + q + 1 PROVE FALSE
    BY <1>1, <1>4, <1>7
  <2>1. t * z >= t * (m + q + 1)
    BY <1>1, <1>4, <1>7
  <2>2. t * (m + q + 1) = t * (m + q) + t
    BY <1>1, <1>4
  <2>3. t * z \in Nat /\ t * (m + q) \in Nat
    BY <1>1, <1>4, <1>7
  <2> QED
    BY <1>8, <2>1, <2>2, <2>3
<1> QED
  BY <1>9 DEF z, q, m

\* The fee after a header keeps to the bounds of FeeSteady.
LEMMA FeeBounds ==
    ASSUME NEW p, HeaderOf(p), p.gasLimit >= elasticityMultiplier, p.gasUsed <= p.gasLimit
    PROVE  LET fee == calcNextBaseFee(p)
               target == p.gasLimit \div elasticityMultiplier
               most == p.baseFee * (elasticityMultiplier - 1)
               step(x) == x \div baseFeeMaxChangeDenominator + 1
           IN  /\ p.gasUsed > target => fee \in (p.baseFee + 1)..(p.baseFee + step(most + most \div target))
               /\ p.gasUsed = target => fee = p.baseFee
               /\ p.gasUsed < target => fee \in (p.baseFee - step(p.baseFee))..p.baseFee /\ fee >= 0
<1> DEFINE E == elasticityMultiplier
           D == baseFeeMaxChangeDenominator
           t == p.gasLimit \div E
           fee == calcNextBaseFee(p)
           f == p.baseFee
           most == f * (E - 1)
<1>1. E \in Nat \ {0} /\ D \in Nat \ {0} /\ E - 1 \in Nat
  BY BlocksAssumption
<1>2. p.gasLimit \in Nat /\ f \in Nat /\ p.gasUsed \in Nat
  BY DEF HeaderOf
<1>3. t \in Nat \ {0} /\ \A d \in Nat : FeeDelta(p, d) \in Nat
  BY TargetIs
<1>4. /\ fee \in Nat
      /\ p.gasUsed = t => fee = f
      /\ p.gasUsed > t => fee = f + 1 \/ (fee = f + FeeDelta(p, p.gasUsed - t) /\ fee > f)
      /\ p.gasUsed < t => fee <= f /\ fee >= f - FeeDelta(p, t - p.gasUsed)
  BY FeeIs
<1>5. \A d : FeeDelta(p, d) = ((f * d) \div t) \div D
  BY DEF FeeDelta
<1>6. E * t <= p.gasLimit /\ p.gasLimit < E * t + E
  BY <1>1, <1>2, Quotient
<1> HIDE DEF E, D, t, fee, f
<1>7. most \in Nat /\ most \div t \in Nat /\ (most + most \div t) \div D \in Nat /\ f \div D \in Nat
  <2>1. most \in Nat
    BY <1>1, <1>2
  <2> HIDE DEF most
  <2>2. most \div t \in Nat
    BY <1>3, <2>1, Quotient
  <2> QED
    BY <1>1, <1>2, <2>1, <2>2, Quotient
<1>8. ASSUME p.gasUsed > t PROVE fee \in (f + 1)..(f + ((most + most \div t) \div D + 1))
  <2> DEFINE d == p.gasUsed - t
  <2>1. d \in Nat /\ d <= (E - 1) * (t + 1)
    <3>1. d \in Nat /\ E * t \in Nat /\ d < E * t + E - t
      BY <1>1, <1>2, <1>3, <1>6, <1>8
    <3>2. (E - 1) * (t + 1) = E * t + E - t - 1
      BY <1>1, <1>3
    <3> HIDE DEF d
    <3> QED
      BY <1>1, <1>3, <3>1, <3>2
  <2>2. FeeDelta(p, d) \in Nat
    BY <1>3, <2>1
  <2>3. fee = f + 1 \/ (fee = f + FeeDelta(p, d) /\ fee > f)
    BY <1>4, <1>8
  <2> HIDE DEF d
  <2>4. (f * d) \div t <= most + most \div t
    BY <1>1, <1>2, <1>3, <2>1, Shares
  <2>5. (f * d) \div t \in Nat
    <3>1. f * d \in Nat
      BY <1>2, <2>1
    <3> QED
      BY <1>3, <3>1, Quotient
  <2> HIDE DEF most
  <2>6. FeeDelta(p, d) <= (most + most \div t) \div D
    <3>1. most + most \div t \in Nat
      BY <1>7
    <3> QED
      BY <1>1, <1>5, <2>4, <2>5, <3>1, QuotientRises
  <2> QED
    BY <1>2, <1>4, <1>7, <2>2, <2>3, <2>6
<1>9. ASSUME p.gasUsed < t PROVE fee \in (f - (f \div D + 1))..f /\ fee >= 0
  <2> DEFINE d == t - p.gasUsed
  <2>1. d \in Nat /\ d <= t
    BY <1>2, <1>3, <1>9
  <2>2. FeeDelta(p, d) \in Nat
    BY <1>3, <2>1
  <2>3. fee <= f /\ fee >= f - FeeDelta(p, d)
    BY <1>4, <1>9
  <2> HIDE DEF d
  <2>4. f * d \in Nat /\ f * d <= t * f
    <3>1. \A x, y \in Nat : x <= y => f * x <= f * y
      BY <1>2
    <3>2. f * t = t * f
      BY <1>2, <1>3
    <3> QED
      BY <1>2, <1>3, <2>1, <3>1, <3>2
  <2>5. (f * d) \div t \in Nat /\ (f * d) \div t <= f
    <3> DEFINE z == (f * d) \div t
    <3>1. z \in Nat /\ t * z <= f * d
      BY <1>3, <2>4, Quotient
    <3> HIDE DEF z
    <3>2. t * z <= t * f
      BY <1>2, <1>3, <2>4, <3>1
    <3>3. z <= f
      BY <1>2, <1>3, <3>1, <3>2
    <3> QED
      BY <3>1, <3>3 DEF z
  <2>6. FeeDelta(p, d) <= f \div D
    BY <1>1, <1>2, <1>5, <2>5, QuotientRises
  <2> QED
    BY <1>2, <1>4, <1>7, <2>2, <2>3, <2>6
<1> QED
  BY <1>4, <1>8, <1>9 DEF E, D, t, fee, f

\* A difficulty is a natural, at least the minimum, and the smaller the later.
LEMMA DifficultyIs ==
    ASSUME NEW p, HeaderOf(p), NEW h, h.number \in Nat, h.timestamp \in Nat
    PROVE  /\ ethashCanonicalDifficulty(h, p) \in Nat
           /\ ethashCanonicalDifficulty(h, p) >= minimumDifficulty
           /\ \A k : (k.number = h.number /\ k.timestamp \in Nat /\ h.timestamp <= k.timestamp)
                        => ethashCanonicalDifficulty(k, p) <= ethashCanonicalDifficulty(h, p)
<1> DEFINE offset == p.difficulty \div difficultyBoundDivisor
           bomb == IF h.number \div bombPeriod - 2 >= 0 THEN 2 ^ (h.number \div bombPeriod - 2) ELSE 0
           Dif(x) == (IF p.timestamp + durationLimit > x THEN p.difficulty + offset ELSE p.difficulty - offset) + bomb
           Whole(x) == IF Dif(x) < minimumDifficulty THEN minimumDifficulty ELSE Dif(x)
<1>1. minimumDifficulty \in Nat /\ durationLimit \in Nat /\ difficultyBoundDivisor \in Nat \ {0} /\ bombPeriod \in Nat \ {0}
  BY BlocksAssumption
<1>2. p.difficulty \in Nat /\ p.timestamp \in Nat
  BY DEF HeaderOf
<1>3. \A k : k.number = h.number => ethashCanonicalDifficulty(k, p) = Whole(k.timestamp)
  BY DEF ethashCanonicalDifficulty
<1>4. offset \in Nat
  BY <1>1, <1>2, Quotient
<1>5. bomb \in Int
  <2>1. h.number \div bombPeriod - 2 \in Int
    BY <1>1, Quotient
  <2> DEFINE n == h.number \div bombPeriod - 2
  <2> HIDE DEF n
  <2>2. 2 ^ n \in Int
    BY <2>1 DEF n
  <2> QED
    BY <2>2 DEF n
<1> HIDE DEF offset, bomb
<1>6. \A x \in Nat : Whole(x) \in Nat /\ Whole(x) >= minimumDifficulty
  BY <1>1, <1>2, <1>4, <1>5
<1>7. \A x, y \in Nat : x <= y => Whole(y) <= Whole(x)
  BY <1>1, <1>2, <1>4, <1>5
<1> HIDE DEF Whole
<1> QED
  BY <1>3, <1>6, <1>7

\* The header at the end of the chain.
LEMMA TipIs ==
    ASSUME ChainIs
    PROVE  /\ Len(blocks) \in Nat \ {0} /\ Len(blocks) \in 1..Len(blocks)
           /\ HeaderOf(Tip) /\ Tip.gasLimit >= elasticityMultiplier
           /\ Tip.gasUsed <= Tip.gasLimit
<1>1. Len(blocks) \in 1..Len(blocks) /\ Len(blocks) \in Nat \ {0}
  BY BlocksAssumption DEF ChainIs
<1> QED
  BY <1>1 DEF ChainIs, Tip, BlockOf

\* The header a user asks for follows the head.
LEMMA AskedIs ==
    ASSUME ChainIs, now \in Nat, NEW g \in Nat, g < gasLimitCap, NEW f \in Nat
    PROVE  /\ HeaderOf(HeaderData(g, f)) /\ Follows(HeaderData(g, f))
           /\ HeaderData(g, f).gasUsed = 0 /\ HeaderData(g, f).gasLimit = g
<1>1. HeaderOf(Tip) /\ Tip.number \in Nat
  BY TipIs DEF HeaderOf
<1> DEFINE o == GenesisBlock(f).header
           k == HeaderData(g, f)
<1>2. o \in [number : Nat, parentHash : {{}}, gasLimit : {GenesisGasLimit}, gasUsed : {0}, timestamp : Nat,
             baseFee : {f}, difficulty : Nat, stateRoot : {<< >>}, txTrie : {<< >>},
             receiptTrie : {<< >>}, bloom : {{}}, seal : {"none"}]
  BY BlocksAssumption DEF GenesisBlock
<1>3. k = [o EXCEPT !.number = Tip.number + 1, !.parentHash = {Tip}, !.gasLimit = g,
                    !.timestamp = now, !.difficulty = 0]
  BY DEF HeaderData
<1> HIDE DEF o, k
<1>4. k \in [number : {Tip.number + 1}, parentHash : {{Tip}}, gasLimit : {g}, gasUsed : {0}, timestamp : {now},
             baseFee : {f}, difficulty : {0}, stateRoot : {<< >>}, txTrie : {<< >>},
             receiptTrie : {<< >>}, bloom : {{}}, seal : {"none"}]
  BY <1>2, <1>3
<1>5. << >> \in Seq(Entries)
  OBVIOUS
<1>6. /\ k.number = Tip.number + 1 /\ k.parentHash = {Tip} /\ k.gasLimit = g /\ k.gasUsed = 0
      /\ k.timestamp = now /\ k.baseFee = f /\ k.difficulty = 0
  BY <1>4
<1>7. HeaderOf(k)
  <2>1. k \in [number : {k.number}, parentHash : {k.parentHash}, gasLimit : {k.gasLimit}, gasUsed : {k.gasUsed},
               timestamp : {k.timestamp}, baseFee : {k.baseFee}, difficulty : {k.difficulty},
               stateRoot : {k.stateRoot}, txTrie : {k.txTrie}, receiptTrie : {k.receiptTrie},
               bloom : {k.bloom}, seal : {k.seal}]
    BY <1>4
  <2>2. k.stateRoot = << >>
    BY <1>4
  <2>3. /\ k.number \in Nat /\ k.gasLimit \in Nat /\ k.gasUsed \in Nat /\ k.timestamp \in Nat
        /\ k.baseFee \in Nat /\ k.difficulty \in Nat /\ k.stateRoot \in Seq(Entries) /\ k.gasLimit < gasLimitCap
    BY <1>1, <1>5, <1>6, <2>2
  <2> QED
    BY <2>1, <2>3 DEF HeaderOf
<1> QED
  BY <1>6, <1>7 DEF Follows, k

WithDifficulty(h, d) == [h EXCEPT !.difficulty = d]

\* Another difficulty leaves the rest.
LEMMA DifficultySet ==
    ASSUME NEW h, HeaderOf(h), NEW d \in Nat
    PROVE  LET k == WithDifficulty(h, d)
           IN  /\ HeaderOf(k) /\ (Follows(h) => Follows(k))
               /\ Alike(h, k) /\ k.gasUsed = h.gasUsed /\ k.difficulty = d /\ k.number = h.number
BY DEF HeaderOf, Follows, Alike, WithDifficulty

-----------------------------------------------------------------------------
(* Blocks that follow one another *)

\* runBlock, taken apart.
LEMMA RunBlockIs ==
    ASSUME NEW w \in Seq(Entries), NEW b, HeaderOf(b.header), b.txs \in Seq(TxPool), NEW known
    PROVE  runBlock(w, b, known) <=> /\ validateHeader(b.header, known)
                                     /\ validateData(b)
                                     /\ Honest(consensus, w, b)
<1> DEFINE r == applyTransactions(w, b.header, b.txs)
           valid == b.header.gasLimit < gasLimitCap /\ validateHeader(b.header, known) /\ validateData(b)
           q == applyBlock(w, b, known, FALSE)
<1>1. ResultOf(r)
  BY ApplyResult
<1>2. b.header.gasLimit < gasLimitCap
  BY DEF HeaderOf
<1>3. q = IF valid THEN [r EXCEPT !.world = Rewarded(consensus, r.world, b.header)] ELSE Refused(NoResult(w))
  BY DEF applyBlock, Rewarded, assignBlockRewards
<1>4. runBlock(w, b, known) <=> /\ q.ok /\ q.receipts = b.header.receiptTrie /\ q.bloom = b.header.bloom
                                /\ q.gasUsed = b.header.gasUsed /\ q.world = b.header.stateRoot
  BY DEF runBlock
<1>5. Honest(consensus, w, b) <=> /\ r.ok /\ r.receipts = b.header.receiptTrie /\ r.bloom = b.header.bloom
                                  /\ r.gasUsed = b.header.gasUsed
                                  /\ Rewarded(consensus, r.world, b.header) = b.header.stateRoot
  BY DEF Honest
<1> HIDE DEF r, q
<1>6. CASE valid
  <2>1. q = [r EXCEPT !.world = Rewarded(consensus, r.world, b.header)]
    BY <1>3, <1>6
  <2>2. /\ q.ok = r.ok /\ q.receipts = r.receipts /\ q.bloom = r.bloom /\ q.gasUsed = r.gasUsed
        /\ q.world = Rewarded(consensus, r.world, b.header)
    BY <1>1, <2>1 DEF ResultOf
  <2> QED
    BY <1>4, <1>5, <1>6, <2>2
<1>7. CASE ~valid
  <2>1. q.ok = FALSE
    BY <1>3, <1>7 DEF Refused, NoResult
  <2> QED
    BY <1>2, <1>4, <1>7, <2>1
<1> QED
  BY <1>6, <1>7

\* A step that touches neither the chain nor the consensus keeps it.
LEMMA ChainSame ==
    ASSUME ChainIs, Accepted, UNCHANGED <<blocks, consensus>>, astray => astray'
    PROVE  ChainIs' /\ Accepted' /\ Tip' = Tip
<1>1. ChainIs'
  BY DEF ChainIs
<1>2. Accepted'
  BY DEF Accepted
<1> QED
  BY <1>1, <1>2 DEF Tip

\* A block that may follow the head is valid after it.
LEMMA PutIsValid ==
    ASSUME ChainIs, NEW b, BlockOf(b), Follows(b.header), putBlock(b)
    PROVE  /\ ValidAfter(consensus, b.header, Tip) /\ b.header.gasLimit >= elasticityMultiplier
           /\ validateData(b)
<1>1. HeaderOf(Tip) /\ HeaderOf(b.header) /\ Tip.number \in Nat
  BY TipIs DEF BlockOf, HeaderOf
<1>2. b.header.number # 0
  BY <1>1 DEF Follows
<1>3. validateHeader(b.header, Headers(Len(blocks))) /\ validateData(b)
  BY DEF putBlock
<1>4. PICK p \in b.header.parentHash :
         /\ b.header.number = p.number + 1 /\ b.header.timestamp > p.timestamp
         /\ validateDifficulty(b.header, p) /\ validateGasLimit(b.header, p)
         /\ b.header.baseFee = calcNextBaseFee(p)
  BY <1>2, <1>3 DEF validateHeader
<1>5. p = Tip
  BY DEF Follows
<1>6. ValidAfter(consensus, b.header, Tip)
  BY <1>4, <1>5 DEF ValidAfter, validateDifficulty
<1>7. b.header.gasLimit >= elasticityMultiplier
  <2>1. b.header.gasLimit >= minGasLimit
    BY <1>4 DEF validateGasLimit
  <2>2. minGasLimit \in Nat /\ elasticityMultiplier \in Nat /\ elasticityMultiplier <= minGasLimit
    BY BlocksAssumption
  <2>3. b.header.gasLimit \in Nat
    BY <1>1 DEF HeaderOf
  <2> QED
    BY <2>1, <2>2, <2>3
<1> QED
  BY <1>3, <1>6, <1>7

\* A block that is put after the head, and is what its body makes of it.
LEMMA ChainGrows ==
    ASSUME ChainIs, Accepted, Len(blocks) < MaxBlocks, consensus' = consensus,
           NEW b, BlockOf(b), Follows(b.header), putBlock(b), blocks' = Append(blocks, b),
           ~astray' => ~astray /\ Honest(consensus, Tip.stateRoot, b)
    PROVE  ChainIs' /\ Accepted' /\ Tip' = b.header
<1> DEFINE n == Len(blocks)
<1>1. n \in Nat \ {0} /\ n \in 1..n
  BY TipIs
<1>2. ValidAfter(consensus, b.header, Tip) /\ b.header.gasLimit >= elasticityMultiplier /\ validateData(b)
  BY PutIsValid
<1>3. b.header.parentHash = {Tip} /\ Tip = blocks[n].header
  BY DEF Follows, Tip
<1>4. /\ Listing(blocks') /\ Len(blocks') = n + 1 /\ blocks'[n + 1] = b
      /\ \A i \in 1..n : blocks'[i] = blocks[i]
  BY ListAppend DEF ChainIs
<1>5. MaxBlocks \in Nat
  BY BlocksAssumption
<1> HIDE DEF n
<1>6. ASSUME NEW i \in 1..Len(blocks')
      PROVE  BlockOf(blocks'[i]) /\ blocks'[i].header.gasLimit >= elasticityMultiplier
  <2>1. CASE i = n + 1
    BY <1>2, <1>4, <2>1
  <2>2. CASE i # n + 1
    <3>1. i \in 1..n
      BY <1>1, <1>4, <2>2
    <3> QED
      BY <1>4, <3>1 DEF ChainIs, n
  <2> QED
    BY <2>1, <2>2
<1>7. ASSUME NEW i \in 2..Len(blocks')
      PROVE  /\ blocks'[i].header.parentHash = {blocks'[i - 1].header}
             /\ ValidAfter(consensus, blocks'[i].header, blocks'[i - 1].header)
             /\ ~astray' => /\ Honest(consensus, blocks'[i - 1].header.stateRoot, blocks'[i])
                            /\ validateData(blocks'[i])
  <2>1. CASE i = n + 1
    <3>1. i - 1 = n /\ blocks'[i - 1] = blocks[n] /\ blocks'[i] = b
      BY <1>1, <1>4, <2>1
    <3> QED
      BY <1>2, <1>3, <3>1
  <2>2. CASE i # n + 1
    <3>1. i \in 2..n /\ i \in 1..n /\ i - 1 \in 1..n
      BY <1>1, <1>4, <2>2
    <3>2. blocks'[i] = blocks[i] /\ blocks'[i - 1] = blocks[i - 1]
      BY <1>4, <3>1
    <3>3. i \in 2..Len(blocks)
      BY <3>1 DEF n
    <3>4. /\ blocks[i].header.parentHash = {blocks[i - 1].header}
          /\ ValidAfter(consensus, blocks[i].header, blocks[i - 1].header)
      BY <3>3 DEF ChainIs
    <3>5. ~astray => /\ Honest(consensus, blocks[i - 1].header.stateRoot, blocks[i])
                     /\ validateData(blocks[i])
      BY <3>3 DEF Accepted
    <3> QED
      BY <3>2, <3>4, <3>5
  <2> QED
    BY <2>1, <2>2
<1>8. Len(blocks') \in 1..MaxBlocks
  BY <1>1, <1>4, <1>5 DEF n
<1>9. ChainIs'
  BY <1>4, <1>6, <1>7, <1>8 DEF ChainIs
<1>10. Accepted'
  BY <1>7 DEF Accepted
<1>11. Tip' = b.header
  BY <1>4 DEF Tip
<1> QED
  BY <1>9, <1>10, <1>11

\* The first block.
LEMMA BlocksInit ==
    ASSUME BlkInit
    PROVE  BlocksInv
<1>1. PICK fee \in GenesisFees : blocks = <<GenesisBlock(fee)>>
  BY DEF BlkInit
<1>2. /\ consensus \in Consensuses /\ world = << >> /\ saves = << >> /\ bld = NoBuilder /\ held = << >>
      /\ now = 0 /\ astray = FALSE
  BY DEF BlkInit
<1>3. /\ bld.status = "none" /\ bld.checkpointed = FALSE /\ bld.paid = 0
      /\ BuilderOf(bld)
  BY <1>2 DEF NoBuilder, Statuses, BuilderOf
<1> DEFINE b == GenesisBlock(fee)
           h == b.header
<1>4. /\ fee \in Nat /\ GenesisGasLimit \in Nat /\ GenesisGasLimit < gasLimitCap
      /\ GenesisGasLimit >= elasticityMultiplier /\ minimumDifficulty \in Nat
      /\ MaxBlocks \in Nat \ {0} /\ MaxNow \in Nat /\ elasticityMultiplier \in Nat
  BY BlocksAssumption
<1>5. << >> \in Seq(Entries) /\ << >> \in Seq(Seq(Entries)) /\ << >> \in Seq(TxPool) /\ Len(<< >>) = 0
  OBVIOUS
<1>6. h \in [number : {0}, parentHash : {{}}, gasLimit : {GenesisGasLimit}, gasUsed : {0}, timestamp : {0},
             baseFee : {fee}, difficulty : {minimumDifficulty}, stateRoot : {<< >>}, txTrie : {<< >>},
             receiptTrie : {<< >>}, bloom : {{}}, seal : {"none"}]
      /\ b.txs = << >> /\ b \in [header : {b.header}, txs : {b.txs}]
  BY DEF GenesisBlock
<1> HIDE DEF b
<1>7. HeaderOf(h)
  <2>1. h \in [number : {h.number}, parentHash : {h.parentHash}, gasLimit : {h.gasLimit}, gasUsed : {h.gasUsed},
               timestamp : {h.timestamp}, baseFee : {h.baseFee}, difficulty : {h.difficulty},
               stateRoot : {h.stateRoot}, txTrie : {h.txTrie}, receiptTrie : {h.receiptTrie},
               bloom : {h.bloom}, seal : {h.seal}]
    BY <1>6
  <2>2. /\ h.stateRoot = << >> /\ h.number = 0 /\ h.gasLimit = GenesisGasLimit /\ h.gasUsed = 0
        /\ h.timestamp = 0 /\ h.baseFee = fee /\ h.difficulty = minimumDifficulty
    BY <1>6
  <2>3. /\ h.number \in Nat /\ h.gasLimit \in Nat /\ h.gasUsed \in Nat /\ h.timestamp \in Nat
        /\ h.baseFee \in Nat /\ h.difficulty \in Nat /\ h.stateRoot \in Seq(Entries) /\ h.gasLimit < gasLimitCap
    BY <1>4, <1>5, <2>2
  <2> QED
    BY <2>1, <2>3 DEF HeaderOf
<1>8. h.gasLimit = GenesisGasLimit /\ h.gasUsed = 0 /\ h.stateRoot = << >>
  BY <1>6
<1>9. BlockOf(b)
  <2>1. b.txs \in Seq(TxPool) /\ b \in [header : {b.header}, txs : {b.txs}]
    BY <1>5, <1>6
  <2>2. b \in [header : {b.header}, txs : Seq(TxPool)]
    BY <2>1
  <2>3. h.gasUsed <= h.gasLimit
    BY <1>4, <1>8
  <2> QED
    BY <1>7, <2>2, <2>3 DEF BlockOf
<1>10. Listing(blocks) /\ Len(blocks) = 1 /\ blocks[1] = b
  BY <1>1, ListSmall DEF b
<1>11. ChainIs
  BY <1>4, <1>8, <1>9, <1>10 DEF ChainIs
<1>12. Tip.stateRoot = << >>
  BY <1>8, <1>10 DEF Tip
<1>13. WorldIs
  <2>3. now \in 0..MaxNow
    BY <1>2, <1>4
  <2>1. now \in 0..MaxNow /\ astray \in BOOLEAN /\ consensus \in Consensuses
    BY <1>2, <2>3, Zenon
  <2>2. world \in Seq(Entries) /\ saves \in Seq(Seq(Entries)) /\ Len(saves) = 0
    BY <1>2, <1>5
  <2> QED
    BY <1>3, <2>1, <2>2 DEF WorldIs
<1>14. BuilderIs /\ Building /\ Resting /\ Accepted
  BY <1>2, <1>3, <1>10, <1>12 DEF BuilderIs, Building, Resting, Accepted
<1>15. HeldIs
  BY <1>2, ListSmall DEF HeldIs
<1> QED
  BY <1>11, <1>13, <1>14, <1>15 DEF BlocksInv

-----------------------------------------------------------------------------
(* The steps *)

\* The clock ticks.
LEMMA TickStep ==
    ASSUME BlocksInv, Tick
    PROVE  BlocksInv'
<1>1. /\ now < MaxNow /\ now' = now + 1
      /\ UNCHANGED <<consensus, blocks, world, saves, bld, held, astray>>
  BY DEF Tick
<1>2. ChainIs' /\ Accepted' /\ Tip' = Tip
  BY <1>1, ChainSame DEF BlocksInv
<1>3. WorldIs'
  <2>1. now \in 0..MaxNow /\ MaxNow \in Nat
    BY BlocksAssumption DEF BlocksInv, WorldIs
  <2>2. now' \in 0..MaxNow
    BY <1>1, <2>1
  <2> QED
    BY <1>1, <2>2 DEF BlocksInv, WorldIs
<1>4. BuilderIs'
  BY <1>1, <1>2 DEF BlocksInv, BuilderIs, Follows
<1>5. HeldIs'
  BY <1>1, <1>2 DEF BlocksInv, HeldIs, Follows
<1>6. Building' /\ Resting'
  BY <1>1, <1>2 DEF BlocksInv, Building, Resting, Base
<1> QED
  BY <1>2, <1>3, <1>4, <1>5, <1>6 DEF BlocksInv

\* A record with a builder's fields, which are of their types.
LEMMA BuilderShape ==
    ASSUME NEW b, b \in [status : {b.status}, header : {b.header}, txs : {b.txs}, receipts : {b.receipts},
                         bloom : {b.bloom}, gasUsed : {b.gasUsed}, checkpointed : {b.checkpointed},
                         put : {b.put}, paid : {b.paid}],
           b.status \in Statuses, b.gasUsed \in Nat, b.checkpointed \in BOOLEAN, b.put \in BOOLEAN, b.paid \in Nat
    PROVE  BuilderOf(b)
BY DEF BuilderOf

NewBuilder(h, p) == [NoBuilder EXCEPT !.status = "pending", !.put = p, !.header = h]

\* A new builder.
LEMMA NewBuilderIs ==
    ASSUME NEW h, NEW p \in BOOLEAN
    PROVE  LET b == NewBuilder(h, p)
           IN  /\ BuilderOf(b) /\ b.status = "pending" /\ b.header = h /\ b.txs = << >> /\ b.receipts = << >>
               /\ b.bloom = {} /\ b.gasUsed = 0 /\ b.checkpointed = FALSE /\ b.paid = 0
<1> DEFINE b == NewBuilder(h, p)
<1>1. b \in [status : {"pending"}, header : {h}, txs : {<< >>}, receipts : {<< >>}, bloom : {{}}, gasUsed : {0},
             checkpointed : {FALSE}, put : {p}, paid : {0}]
  BY DEF NewBuilder, NoBuilder
<1> HIDE DEF b
<1>2. /\ b.status = "pending" /\ b.header = h /\ b.txs = << >> /\ b.receipts = << >> /\ b.bloom = {}
      /\ b.gasUsed = 0 /\ b.checkpointed = FALSE /\ b.put = p /\ b.paid = 0
  BY <1>1
<1>3. b \in [status : {b.status}, header : {b.header}, txs : {b.txs}, receipts : {b.receipts},
             bloom : {b.bloom}, gasUsed : {b.gasUsed}, checkpointed : {b.checkpointed},
             put : {b.put}, paid : {b.paid}]
  BY <1>1, <1>2
<1>4. b.checkpointed \in BOOLEAN /\ b.put \in BOOLEAN
  BY <1>2, Zenon
<1>5. b.status \in Statuses
  BY <1>2 DEF Statuses
<1>6. BuilderOf(b)
  BY <1>2, <1>3, <1>4, <1>5, BuilderShape
<1> QED
  BY <1>2, <1>6 DEF b

\* A builder that has ended.
LEMMA EndedIs ==
    ASSUME NEW s \in Statuses
    PROVE  LET b == Ended(s)
           IN  /\ BuilderOf(b) /\ b.status = s /\ b.checkpointed = FALSE /\ b.paid = 0
<1> DEFINE b == Ended(s)
<1>1. b \in [status : {s}, header : {NoBuilder.header}, txs : {<< >>}, receipts : {<< >>}, bloom : {{}}, gasUsed : {0},
             checkpointed : {FALSE}, put : {FALSE}, paid : {0}]
  BY DEF Ended, NoBuilder
<1> HIDE DEF b
<1>2. /\ b.status = s /\ b.header = NoBuilder.header /\ b.txs = << >> /\ b.receipts = << >> /\ b.bloom = {}
      /\ b.gasUsed = 0 /\ b.checkpointed = FALSE /\ b.put = FALSE /\ b.paid = 0
  BY <1>1
<1>3. b \in [status : {b.status}, header : {b.header}, txs : {b.txs}, receipts : {b.receipts},
             bloom : {b.bloom}, gasUsed : {b.gasUsed}, checkpointed : {b.checkpointed},
             put : {b.put}, paid : {b.paid}]
  BY <1>1, <1>2
<1>4. b.checkpointed \in BOOLEAN /\ b.put \in BOOLEAN
  BY <1>2, Zenon
<1>6. BuilderOf(b)
  BY <1>2, <1>3, <1>4, BuilderShape
<1> QED
  BY <1>2, <1>6 DEF b

Advance(b, s, g, r, m) == [b EXCEPT !.checkpointed = TRUE, !.txs = s, !.gasUsed = g, !.receipts = r, !.bloom = m]
Opening(b) == [b EXCEPT !.checkpointed = TRUE]
Paying(b, n) == [b EXCEPT !.paid = n]
Stalled(b) == [b EXCEPT !.status = "build"]

\* A builder with other fields.
LEMMA BuilderMoves ==
    ASSUME NEW b, BuilderOf(b)
    PROVE  /\ LET n == Opening(b)
              IN  /\ BuilderOf(n) /\ n.status = b.status /\ n.header = b.header /\ n.txs = b.txs
                  /\ n.receipts = b.receipts /\ n.bloom = b.bloom /\ n.gasUsed = b.gasUsed
                  /\ n.checkpointed = TRUE /\ n.paid = b.paid
           /\ \A p \in Nat :
                  LET n == Paying(b, p)
                  IN  /\ BuilderOf(n) /\ n.status = b.status /\ n.header = b.header /\ n.txs = b.txs
                      /\ n.receipts = b.receipts /\ n.bloom = b.bloom /\ n.gasUsed = b.gasUsed
                      /\ n.checkpointed = b.checkpointed /\ n.paid = p
           /\ LET n == Stalled(b)
              IN  BuilderOf(n) /\ n.status = "build" /\ n.checkpointed = b.checkpointed
<1>2. LET n == Opening(b)
      IN  /\ BuilderOf(n) /\ n.status = b.status /\ n.header = b.header /\ n.txs = b.txs
          /\ n.receipts = b.receipts /\ n.bloom = b.bloom /\ n.gasUsed = b.gasUsed
          /\ n.checkpointed = TRUE /\ n.paid = b.paid
  BY DEF Opening, BuilderOf
<1>3. ASSUME NEW p \in Nat
      PROVE  LET n == Paying(b, p)
             IN  /\ BuilderOf(n) /\ n.status = b.status /\ n.header = b.header /\ n.txs = b.txs
                 /\ n.receipts = b.receipts /\ n.bloom = b.bloom /\ n.gasUsed = b.gasUsed
                 /\ n.checkpointed = b.checkpointed /\ n.paid = p
  BY DEF Paying, BuilderOf
<1>4. LET n == Stalled(b)
      IN  BuilderOf(n) /\ n.status = "build" /\ n.checkpointed = b.checkpointed
  BY DEF Stalled, BuilderOf, Statuses
<1> QED
  BY <1>2, <1>3, <1>4

\* A new builder starts from the head.
LEMMA ConstructorStep ==
    ASSUME BlocksInv, NEW g \in Nat, g < gasLimitCap, NEW f \in Nat, NEW d, NEW p \in BOOLEAN,
           constructor(g, f, d, p)
    PROVE  BlocksInv'
<1> DEFINE k == [HeaderData(g, f) EXCEPT !.difficulty = IF d = "given" THEN 1 ELSE 0]
           h == IF d = "calculated" THEN Calculated(k) ELSE k
<1>1. /\ Free /\ bld' = [NoBuilder EXCEPT !.status = "pending", !.put = p, !.header = h]
      /\ UNCHANGED <<consensus, blocks, world, saves, held, now, astray>>
  BY DEF constructor
<1>2. ChainIs' /\ Accepted' /\ Tip' = Tip
  BY <1>1, ChainSame DEF BlocksInv
<1>3. now \in Nat
  BY BlocksAssumption DEF BlocksInv, WorldIs
<1>4. HeaderOf(HeaderData(g, f)) /\ Follows(HeaderData(g, f))
  BY <1>3, AskedIs DEF BlocksInv
<1>5. HeaderOf(k) /\ Follows(k)
  <2> DEFINE e == IF d = "given" THEN 1 ELSE 0
  <2>1. k = WithDifficulty(HeaderData(g, f), e)
    BY DEF WithDifficulty
  <2>2. e \in Nat
    OBVIOUS
  <2> HIDE DEF e, k
  <2> QED
    BY <1>4, <2>1, <2>2, DifficultySet
<1> HIDE DEF k
<1>6. HeaderOf(h) /\ Follows(h)
  <2>1. ethashCanonicalDifficulty(k, Tip) \in Nat
    <3>1. k.number \in Nat /\ k.timestamp \in Nat
      BY <1>5 DEF HeaderOf
    <3> QED
      BY <3>1, TipIs, DifficultyIs DEF BlocksInv
  <2>2. HeaderOf(Calculated(k)) /\ Follows(Calculated(k))
    <3>1. Calculated(k) = WithDifficulty(k, ethashCanonicalDifficulty(k, Tip))
      BY DEF Calculated, WithDifficulty
    <3> QED
      BY <1>5, <2>1, <3>1, DifficultySet
  <2> QED
    BY <1>5, <2>2
<1> HIDE DEF h
<1>7. /\ BuilderOf(bld')
      /\ bld'.status = "pending" /\ bld'.header = h /\ bld'.txs = << >> /\ bld'.receipts = << >> /\ bld'.bloom = {}
      /\ bld'.gasUsed = 0 /\ bld'.checkpointed = FALSE /\ bld'.paid = 0
  <2>1. bld' = NewBuilder(h, p)
    BY <1>1 DEF NewBuilder
  <2> QED
    BY <2>1, NewBuilderIs
<1>8. ~bld.checkpointed /\ held = << >> /\ Len(blocks) < MaxBlocks /\ bld.status # "pending"
  BY <1>1 DEF Free
<1>9. WorldIs'
  BY <1>1, <1>7, <1>8 DEF BlocksInv, WorldIs
<1>10. BuilderIs'
  <2>1. Follows(bld.header)'
    BY <1>2, <1>6, <1>7 DEF Follows
  <2>2. << >> \in Seq(TxPool)
    OBVIOUS
  <2> QED
    BY <1>1, <1>6, <1>7, <1>8, <1>2, <2>1, <2>2 DEF BuilderIs, Follows
<1>11. HeldIs'
  BY <1>1, <1>8 DEF BlocksInv, HeldIs
<1>12. Building'
  <2> SUFFICES ASSUME ~astray' PROVE
         /\ Base' = Tip'.stateRoot
         /\ LET r == applyTransactions(Base', bld'.header, bld'.txs)
            IN  /\ r.ok /\ r.world = world' /\ r.gasUsed = bld'.gasUsed
                /\ r.receipts = bld'.receipts /\ r.bloom = bld'.bloom
    BY <1>7 DEF Building
  <2>1. Base' = world /\ world' = world
    BY <1>1, <1>7 DEF Base
  <2>2. world = Tip.stateRoot
    BY <1>1, <1>8 DEF BlocksInv, Resting
  <2>3. applyTransactions(world, h, << >>) = NoResult(world)
    BY ApplyEmpty
  <2> QED
    BY <1>2, <1>7, <2>1, <2>2, <2>3 DEF NoResult
<1>13. Resting'
  BY <1>7 DEF Resting
<1> QED
  BY <1>2, <1>9, <1>10, <1>11, <1>12, <1>13 DEF BlocksInv

InPlaceOf(h, g) == [h EXCEPT !.gasUsed = g]

\* The header a transaction sees tells it what the builder's does.
LEMMA InPlaceIs ==
    ASSUME NEW h, HeaderOf(h), NEW g \in Nat
    PROVE  LET k == InPlaceOf(h, g) IN HeaderOf(k) /\ Alike(k, h) /\ k.gasUsed = g
BY DEF InPlaceOf, HeaderOf, Alike

\* A transaction is added, or left out.
LEMMA AddStep ==
    ASSUME BlocksInv, NEW t \in TxPool, addTransaction(t)
    PROVE  BlocksInv'
<1> DEFINE h == bld.header
           i == InPlace
           w == Append(world, Effect(t, i))
           receipts == Append(bld.receipts, Receipt(t, i.gasUsed))
<1>1. /\ bld.status = "pending" /\ saves' = Lazily
      /\ UNCHANGED <<consensus, blocks, held, now, astray>>
  BY DEF addTransaction
<1>16. \/ /\ Fits(t) /\ Runs(world, t, i) /\ world' = w
          /\ bld' = Advance(bld, Append(bld.txs, t), bld.gasUsed + t.spent, receipts, bld.bloom \cup t.logs)
       \/ bld' = Opening(bld) /\ world' = world
  BY DEF addTransaction, Advance, Opening
<1>2. ChainIs' /\ Accepted' /\ Tip' = Tip
  BY <1>1, ChainSame DEF BlocksInv
<1>3. /\ BuilderOf(bld) /\ HeaderOf(h) /\ Follows(h) /\ bld.txs \in Seq(TxPool)
      /\ held = << >> /\ Len(blocks) < MaxBlocks /\ bld.gasUsed \in Nat
  BY <1>1 DEF BlocksInv, BuilderIs, BuilderOf
<1>4. HeaderOf(i) /\ Alike(i, h) /\ i.gasUsed = bld.gasUsed
  <2>1. i = InPlaceOf(h, bld.gasUsed)
    BY DEF InPlace, InPlaceOf
  <2> QED
    BY <1>3, <2>1, InPlaceIs
<1> HIDE DEF i
<1>5. Effect(t, i) \in Entries /\ Effect(t, i) = Effect(t, h) /\ (Runs(world, t, i) <=> Runs(world, t, h))
  BY <1>4, EffectIs DEF Alike, Effect, Runs
<1>6. world \in Seq(Entries) /\ saves \in Seq(Seq(Entries)) /\ Len(saves) = (IF bld.checkpointed THEN 1 ELSE 0)
      /\ bld.checkpointed \in BOOLEAN
  BY <1>3 DEF BlocksInv, WorldIs, BuilderOf
<1>7. t.spent \in Nat /\ t.gasLimit \in Nat
  BY BlocksAssumption
<1> HIDE DEF receipts
<1>17. ASSUME NEW q, NEW n, q = Advance(n, Append(n.txs, t), n.gasUsed + t.spent, receipts, n.bloom \cup t.logs),
              BuilderOf(n)
       PROVE  /\ BuilderOf(q) /\ q.status = n.status /\ q.header = n.header /\ q.checkpointed = TRUE /\ q.paid = n.paid
              /\ q.txs = Append(n.txs, t) /\ q.gasUsed = n.gasUsed + t.spent
              /\ q.receipts = receipts /\ q.bloom = n.bloom \cup t.logs
  <2>1. n.gasUsed + t.spent \in Nat
    BY <1>7, <1>17 DEF BuilderOf
  <2> DEFINE s == Append(n.txs, t)
             g == n.gasUsed + t.spent
             m == n.bloom \cup t.logs
  <2>2. g \in Nat /\ q = Advance(n, s, g, receipts, m)
    BY <1>17, <2>1
  <2> HIDE DEF s, g, m
  <2>3. /\ BuilderOf(q) /\ q.status = n.status /\ q.header = n.header /\ q.txs = s /\ q.receipts = receipts
        /\ q.bloom = m /\ q.gasUsed = g /\ q.checkpointed = TRUE /\ q.paid = n.paid
    BY <1>17, <2>2 DEF Advance, BuilderOf
  <2> QED
    BY <2>2, <2>3, Zenon DEF s, g, m
<1>18. ASSUME NEW q, NEW n, q = Opening(n), BuilderOf(n)
       PROVE  /\ BuilderOf(q) /\ q.status = n.status /\ q.header = n.header /\ q.checkpointed = TRUE /\ q.paid = n.paid
              /\ q.txs = n.txs /\ q.gasUsed = n.gasUsed
              /\ q.receipts = n.receipts /\ q.bloom = n.bloom
  BY <1>18, BuilderMoves, Zenon
<1>8. BuilderOf(bld') /\ bld'.status = "pending" /\ bld'.header = h /\ bld'.checkpointed = TRUE /\ bld'.paid = bld.paid
  <2>1. CASE bld' = Opening(bld)
    BY <1>1, <1>3, <1>18, <2>1
  <2>2. CASE bld' = Advance(bld, Append(bld.txs, t), bld.gasUsed + t.spent, receipts, bld.bloom \cup t.logs)
    <3> DEFINE q == bld'
               g == bld.gasUsed + t.spent
    <3>2. q = Advance(bld, Append(bld.txs, t), g, receipts, bld.bloom \cup t.logs) /\ g \in Nat
      BY <1>3, <1>7, <2>2
    <3> HIDE DEF q, g
    <3>3. BuilderOf(q) /\ q.status = bld.status /\ q.header = bld.header /\ q.checkpointed = TRUE /\ q.paid = bld.paid
      BY <1>3, <3>2 DEF Advance, BuilderOf
    <3>1. BuilderOf(bld') /\ bld'.status = bld.status /\ bld'.header = bld.header /\ bld'.checkpointed = TRUE /\ bld'.paid = bld.paid
      BY <3>3 DEF q
    <3> QED
      BY <1>1, <3>1
  <2> QED
    BY <1>16, <2>1, <2>2
<1>19. \/ /\ Fits(t) /\ Runs(world, t, h) /\ world' = Append(world, Effect(t, h))
          /\ bld'.txs = Append(bld.txs, t) /\ bld'.gasUsed = bld.gasUsed + t.spent
          /\ bld'.receipts = Append(bld.receipts, Receipt(t, bld.gasUsed)) /\ bld'.bloom = bld.bloom \cup t.logs
       \/ /\ world' = world /\ bld'.txs = bld.txs /\ bld'.gasUsed = bld.gasUsed
          /\ bld'.receipts = bld.receipts /\ bld'.bloom = bld.bloom
  <2>1. CASE bld' = Opening(bld) /\ world' = world
    BY <1>3, <1>18, <2>1
  <2>2. CASE /\ Fits(t) /\ Runs(world, t, i) /\ world' = w
             /\ bld' = Advance(bld, Append(bld.txs, t), bld.gasUsed + t.spent, receipts, bld.bloom \cup t.logs)
    <3>1. receipts = Append(bld.receipts, Receipt(t, bld.gasUsed))
      BY <1>4 DEF receipts
    <3>2. Runs(world, t, h) /\ world' = Append(world, Effect(t, h))
      BY <1>5, <2>2
    <3> QED
      BY <1>3, <1>17, <2>2, <3>1, <3>2
  <2> QED
    BY <1>16, <2>1, <2>2
<1>9. saves' \in Seq(Seq(Entries)) /\ Len(saves') = 1 /\ saves'[1] = Base
  <2>1. CASE bld.checkpointed
    BY <1>1, <1>6, <2>1 DEF Lazily, Base
  <2>2. CASE ~bld.checkpointed
    <3>1. saves' = Append(saves, world) /\ Len(saves) = 0
      BY <1>1, <1>6, <2>2 DEF Lazily
    <3> QED
      BY <1>6, <2>2, <3>1 DEF Base
  <2> QED
    BY <2>1, <2>2
<1>10. world' \in Seq(Entries)
  <2>1. Effect(t, h) \in Entries
    BY <1>5
  <2>2. Append(world, Effect(t, h)) \in Seq(Entries)
    BY <1>6, <2>1
  <2>3. world' = world \/ world' = Append(world, Effect(t, h))
    BY <1>19
  <2> QED
    BY <1>6, <2>2, <2>3
<1>11. WorldIs'
  BY <1>1, <1>8, <1>9, <1>10 DEF BlocksInv, WorldIs
<1>12. BuilderIs'
  <2>3. Append(bld.txs, t) \in Seq(TxPool)
    BY <1>3
  <2>4. bld'.txs = bld.txs \/ bld'.txs = Append(bld.txs, t)
    BY <1>19
  <2>1. bld'.txs \in Seq(TxPool)
    BY <1>3, <2>3, <2>4
  <2>2. Follows(bld.header)'
    BY <1>2, <1>3, <1>8 DEF Follows
  <2> QED
    BY <1>1, <1>3, <1>8, <2>1, <2>2 DEF BuilderIs
<1>13. HeldIs'
  BY <1>1, <1>3 DEF BlocksInv, HeldIs
<1>14. Resting'
  BY <1>8 DEF Resting
<1>15. Building'
  <2> SUFFICES ASSUME ~astray' PROVE
         /\ Base' = Tip'.stateRoot
         /\ consensus' # "pow" => bld'.paid = 0
         /\ bld'.paid = 0 => LET r == applyTransactions(Base', bld'.header, bld'.txs)
                             IN  /\ r.ok /\ r.world = world' /\ r.gasUsed = bld'.gasUsed
                                 /\ r.receipts = bld'.receipts /\ r.bloom = bld'.bloom
    BY DEF Building
  <2>1. Base' = Base
    BY <1>8, <1>9 DEF Base
  <2>2. Base = Tip.stateRoot /\ (consensus # "pow" => bld.paid = 0)
    BY <1>1 DEF BlocksInv, Building
  <2>3. ASSUME bld.paid = 0
        PROVE  LET r == applyTransactions(Base, h, bld'.txs)
               IN  /\ r.ok /\ r.world = world' /\ r.gasUsed = bld'.gasUsed
                   /\ r.receipts = bld'.receipts /\ r.bloom = bld'.bloom
    <3> DEFINE r == applyTransactions(Base, h, bld.txs)
    <3>1. /\ r.ok /\ r.world = world /\ r.gasUsed = bld.gasUsed
          /\ r.receipts = bld.receipts /\ r.bloom = bld.bloom
      BY <1>1, <2>3 DEF BlocksInv, Building
    <3>2. CASE /\ world' = world /\ bld'.txs = bld.txs /\ bld'.gasUsed = bld.gasUsed
               /\ bld'.receipts = bld.receipts /\ bld'.bloom = bld.bloom
      BY <3>1, <3>2
    <3>3. CASE /\ Fits(t) /\ Runs(world, t, h) /\ world' = Append(world, Effect(t, h))
               /\ bld'.txs = Append(bld.txs, t) /\ bld'.gasUsed = bld.gasUsed + t.spent
               /\ bld'.receipts = Append(bld.receipts, Receipt(t, bld.gasUsed)) /\ bld'.bloom = bld.bloom \cup t.logs
      <4>1. applyTransactions(Base, h, Append(bld.txs, t)) = RunOne(h, r, t)
        BY <1>3, ApplyAppend
      <4> HIDE DEF r
      <4>3. h.gasLimit >= t.gasLimit + r.gasUsed
        <5>1. h.gasLimit \in Nat
          BY <1>3 DEF HeaderOf
        <5>2. t.gasLimit <= h.gasLimit - bld.gasUsed
          BY <3>3 DEF Fits
        <5>3. r.gasUsed = bld.gasUsed
          BY <3>1
        <5> QED
          BY <1>3, <1>7, <5>1, <5>2, <5>3
      <4>4. RunOne(h, r, t) = Ran(r, t, h)
        BY <3>1, <3>3, <4>3 DEF RunOne
      <4>5. /\ Ran(r, t, h).ok /\ Ran(r, t, h).world = Append(r.world, Effect(t, h))
            /\ Ran(r, t, h).gasUsed = r.gasUsed + t.spent
            /\ Ran(r, t, h).receipts = Append(r.receipts, Receipt(t, r.gasUsed))
            /\ Ran(r, t, h).bloom = r.bloom \cup t.logs
        BY DEF Ran
      <4> QED
        BY <3>1, <3>3, <4>1, <4>4, <4>5
    <3> QED
      BY <1>19, <3>2, <3>3
  <2> QED
    BY <1>1, <1>2, <1>8, <2>1, <2>2, <2>3
<1> QED
  BY <1>2, <1>11, <1>12, <1>13, <1>14, <1>15 DEF BlocksInv

\* The checkpoint, and what is left below it.
LEMMA SavesIs ==
    ASSUME BlocksInv
    PROVE  /\ bld.checkpointed => /\ Last(saves) = saves[1] /\ saves[1] \in Seq(Entries)
                                  /\ Front(saves) = << >>
           /\ ~bld.checkpointed => saves = << >>
           /\ << >> \in Seq(Seq(Entries)) /\ Len(<< >>) = 0
<1>1. saves \in Seq(Seq(Entries)) /\ Len(saves) = (IF bld.checkpointed THEN 1 ELSE 0)
  BY DEF BlocksInv, WorldIs
<1>2. ASSUME bld.checkpointed
      PROVE  Last(saves) = saves[1] /\ saves[1] \in Seq(Entries) /\ Front(saves) = << >>
  <2>1. Len(saves) = 1
    BY <1>1, <1>2
  <2>2. Front(saves) = SubSeq(saves, 1, 0)
    BY <2>1 DEF Front
  <2>3. Front(saves) = << >>
    BY <1>1, <2>1, <2>2
  <2> QED
    BY <1>1, <2>1, <2>3 DEF Last
<1> QED
  BY <1>1, <1>2

\* The builder gives up.
LEMMA GiveUpStep ==
    ASSUME BlocksInv, revert
    PROVE  BlocksInv'
<1>1. /\ bld.status \in {"pending", "build", "reverted"}
      /\ world' = IF bld.checkpointed THEN Last(saves) ELSE world
      /\ saves' = IF bld.checkpointed THEN Front(saves) ELSE saves
      /\ bld' = Ended("reverted")
      /\ UNCHANGED <<consensus, blocks, held, now, astray>>
  BY DEF revert
<1>2. ChainIs' /\ Accepted' /\ Tip' = Tip
  BY <1>1, ChainSame DEF BlocksInv
<1>3. BuilderOf(bld') /\ bld'.status = "reverted" /\ bld'.checkpointed = FALSE
  BY <1>1, EndedIs DEF Statuses
<1>4. saves' = << >> /\ world' = Base
  BY <1>1, SavesIs DEF Base
<1>5. WorldIs'
  <2>1. world' \in Seq(Entries)
    BY <1>1, SavesIs DEF BlocksInv, WorldIs
  <2> QED
    BY <1>1, <1>3, <1>4, <2>1, SavesIs DEF BlocksInv, WorldIs
<1>6. BuilderIs'
  BY <1>3 DEF BuilderIs
<1>7. bld.status = "pending" => held = << >>
  BY DEF BlocksInv, BuilderIs
<1>8. HeldIs'
  <2>1. Listing(held') /\ Len(held') <= 1
    BY <1>1 DEF BlocksInv, HeldIs
  <2>2. ASSUME held # << >>
        PROVE  /\ BlockOf(held'[1]) /\ Follows(held[1].header)' /\ bld'.status # "pending" /\ Len(blocks') < MaxBlocks
               /\ ~astray' => /\ Honest(consensus', Tip'.stateRoot, held'[1])
                              /\ world' = held'[1].header.stateRoot
    <3>1. /\ BlockOf(held[1]) /\ Follows(held[1].header) /\ Len(blocks) < MaxBlocks
          /\ ~astray => /\ Honest(consensus, Tip.stateRoot, held[1])
                        /\ world = held[1].header.stateRoot
      BY <2>2 DEF BlocksInv, HeldIs
    <3>2. ~astray => ~bld.checkpointed
      BY <1>7, <2>2 DEF BlocksInv, Resting
    <3> QED
      BY <1>1, <1>2, <1>3, <3>1, <3>2 DEF Follows
  <2> QED
    BY <1>1, <2>1, <2>2 DEF HeldIs
<1>9. Building'
  BY <1>3 DEF Building
<1>10. Resting'
  <2>1. ASSUME ~astray, held = << >> PROVE Base = Tip.stateRoot
    <3>1. CASE bld.status = "pending"
      BY <2>1, <3>1 DEF BlocksInv, Building
    <3>2. CASE bld.status # "pending"
      BY <2>1, <3>2 DEF BlocksInv, Resting, Base
    <3> QED
      BY <3>1, <3>2
  <2> QED
    BY <1>1, <1>2, <1>3, <1>4, <2>1 DEF Resting
<1> QED
  BY <1>2, <1>5, <1>6, <1>8, <1>9, <1>10 DEF BlocksInv

SealedHeader(h, w, n, r, m, g, s) ==
    [h EXCEPT !.stateRoot = w, !.txTrie = n, !.receiptTrie = r, !.bloom = m, !.gasUsed = g, !.seal = s]

\* A header that is given its results.
LEMMA SealedHeaderIs ==
    ASSUME NEW h, HeaderOf(h), NEW w \in Seq(Entries), NEW g \in Nat, NEW n, NEW r, NEW m, NEW s
    PROVE  LET k == SealedHeader(h, w, n, r, m, g, s)
           IN  /\ HeaderOf(k) /\ Alike(k, h) /\ k.number = h.number /\ k.parentHash = h.parentHash
               /\ k.stateRoot = w /\ k.receiptTrie = r /\ k.bloom = m /\ k.gasUsed = g
<1> DEFINE k == SealedHeader(h, w, n, r, m, g, s)
<1>1. /\ k.number = h.number /\ k.parentHash = h.parentHash /\ k.gasLimit = h.gasLimit /\ k.baseFee = h.baseFee
      /\ k.timestamp = h.timestamp /\ k.stateRoot = w /\ k.receiptTrie = r /\ k.bloom = m /\ k.gasUsed = g
      /\ HeaderOf(k)
  BY DEF SealedHeader, HeaderOf
<1> QED
  BY <1>1 DEF Alike

\* A header that takes what the body makes of w is honest about it.
LEMMA HonestIs ==
    ASSUME NEW c, NEW w, NEW h, NEW s \in Seq(TxPool), NEW b, b.txs = s,
           Alike(b.header, h), b.header.number = h.number,
           LET r == applyTransactions(w, h, s)
           IN  /\ r.ok /\ r.receipts = b.header.receiptTrie /\ r.bloom = b.header.bloom
               /\ r.gasUsed = b.header.gasUsed /\ Rewarded(c, r.world, h) = b.header.stateRoot
    PROVE  Honest(c, w, b)
<1>1. applyTransactions(w, b.header, s) = applyTransactions(w, h, s)
  BY ApplySame
<1>2. \A x : Rewarded(c, x, b.header) = Rewarded(c, x, h)
  BY DEF Rewarded, RewardEntry
<1> QED
  BY <1>1, <1>2 DEF Honest

\* A reward is an entry more.
LEMMA RewardedIs ==
    ASSUME NEW c, NEW w \in Seq(Entries), NEW h, HeaderOf(h)
    PROVE  /\ Rewarded(c, w, h) \in Seq(Entries)
           /\ c = "pow" => Rewarded(c, w, h) # w
           /\ c # "pow" => Rewarded(c, w, h) = w
<1>1. RewardEntry(h) \in Entries
  BY DEF RewardEntry, Entries, HeaderOf
<1>2. Append(w, RewardEntry(h)) \in Seq(Entries) /\ Len(Append(w, RewardEntry(h))) = Len(w) + 1 /\ Len(w) \in Nat
  BY <1>1
<1>3. Append(w, RewardEntry(h)) # w
  BY <1>2
<1> QED
  BY <1>2, <1>3 DEF Rewarded

\* The block a pending builder makes, of the state w.
LEMMA SealedIs ==
    ASSUME BlocksInv, bld.status = "pending", NEW seal, createBlock(Sealed(rewardMiner(world), seal).header)
    PROVE  LET w == rewardMiner(world)
               b == Sealed(w, seal)
           IN  /\ BlockOf(b) /\ Follows(b.header) /\ b.header.stateRoot = w
               /\ w \in Seq(Entries)
               /\ (~astray /\ bld.paid = 0) => Honest(consensus, Tip.stateRoot, b)
<1> DEFINE h == bld.header
           w == rewardMiner(world)
           b == Sealed(w, seal)
           k == SealedHeader(h, w, genTxTrie(bld.txs), bld.receipts, bld.bloom, bld.gasUsed, seal)
<1>1. HeaderOf(h) /\ Follows(h) /\ bld.txs \in Seq(TxPool) /\ bld.gasUsed \in Nat
  BY DEF BlocksInv, BuilderIs, BuilderOf
<1>2. w = Rewarded(consensus, world, h)
  BY DEF rewardMiner, Rewarded, assignBlockRewards
<1>3. world \in Seq(Entries)
  BY DEF BlocksInv, WorldIs
<1>4. w \in Seq(Entries)
  BY <1>1, <1>2, <1>3, RewardedIs
<1>5. b = [header |-> k, txs |-> bld.txs] /\ b.header = k /\ b.txs = bld.txs
  BY DEF Sealed, SealedHeader
<1>10. createBlock(b.header)
  OBVIOUS
<1> HIDE DEF w, b, k
<1>6. /\ HeaderOf(k) /\ Alike(k, h) /\ k.number = h.number /\ k.parentHash = h.parentHash
      /\ k.stateRoot = w /\ k.receiptTrie = bld.receipts /\ k.bloom = bld.bloom /\ k.gasUsed = bld.gasUsed
  BY <1>1, <1>4, SealedHeaderIs DEF k
<1>7. BlockOf(b)
  <2>1. b.header.gasUsed <= b.header.gasLimit
    BY <1>10 DEF createBlock, genericFormatValidation
  <2>2. b \in [header : {b.header}, txs : Seq(TxPool)]
    BY <1>1, <1>5
  <2> QED
    BY <1>5, <1>6, <2>1, <2>2 DEF BlockOf
<1>8. Follows(b.header)
  BY <1>1, <1>5, <1>6 DEF Follows
<1>9. ASSUME ~astray, bld.paid = 0 PROVE Honest(consensus, Tip.stateRoot, b)
  <2> DEFINE r == applyTransactions(Tip.stateRoot, h, bld.txs)
  <2>1. Base = Tip.stateRoot
    BY <1>9 DEF BlocksInv, Building
  <2>2. /\ r.ok /\ r.world = world /\ r.gasUsed = bld.gasUsed
        /\ r.receipts = bld.receipts /\ r.bloom = bld.bloom
    BY <1>9, <2>1 DEF BlocksInv, Building
  <2> HIDE DEF r
  <2>3. /\ r.ok /\ r.receipts = b.header.receiptTrie /\ r.bloom = b.header.bloom
        /\ r.gasUsed = b.header.gasUsed /\ Rewarded(consensus, r.world, h) = b.header.stateRoot
    BY <1>2, <1>5, <1>6, <2>2
  <2> QED
    BY <1>1, <1>5, <1>6, <2>3, HonestIs DEF r
<1> QED
  BY <1>4, <1>5, <1>6, <1>7, <1>8, <1>9 DEF w, b

\* The block of a builder is refused after the reward was paid.
LEMMA ThrowsStep ==
    ASSUME BlocksInv, bld.status = "pending", UNCHANGED <<consensus, now>>,
           world' = rewardMiner(world), BuildThrows(rewardMiner(world))
    PROVE  BlocksInv'
<1> DEFINE w == rewardMiner(world)
           p == IF w # world THEN bld.paid + 1 ELSE bld.paid
           h == bld.header
<1>1. /\ world' = w /\ bld' = Paying(bld, p)
      /\ astray' = (astray \/ (w # world /\ ~bld.checkpointed))
      /\ UNCHANGED <<consensus, now, blocks, saves, held>>
  BY DEF BuildThrows, Paying
<1>2. /\ BuilderOf(bld) /\ HeaderOf(h) /\ Follows(h) /\ bld.txs \in Seq(TxPool) /\ bld.paid \in Nat
      /\ held = << >> /\ Len(blocks) < MaxBlocks
  BY DEF BlocksInv, BuilderIs, BuilderOf
<1>3. w = Rewarded(consensus, world, h)
  BY DEF rewardMiner, Rewarded, assignBlockRewards
<1>4. w \in Seq(Entries) /\ (consensus # "pow" => w = world)
  BY <1>2, <1>3, RewardedIs DEF BlocksInv, WorldIs
<1> HIDE DEF w
<1>5. p \in Nat /\ (p = 0 => w = world /\ bld.paid = 0) /\ (w = world => p = bld.paid)
  BY <1>2
<1> HIDE DEF p
<1>6. astray' \in BOOLEAN /\ (astray => astray') /\ (~astray' => ~astray /\ (w = world \/ bld.checkpointed))
  BY <1>1, Zenon
<1>7. ChainIs' /\ Accepted' /\ Tip' = Tip
  BY <1>1, <1>6, ChainSame DEF BlocksInv
<1>8. /\ BuilderOf(bld') /\ bld'.status = "pending" /\ bld'.header = h /\ bld'.txs = bld.txs
      /\ bld'.receipts = bld.receipts /\ bld'.bloom = bld.bloom /\ bld'.gasUsed = bld.gasUsed
      /\ bld'.checkpointed = bld.checkpointed /\ bld'.paid = p
  BY <1>1, <1>2, <1>5, BuilderMoves
<1>9. WorldIs'
  BY <1>1, <1>4, <1>6, <1>8 DEF BlocksInv, WorldIs
<1>10. BuilderIs'
  <2>1. Follows(bld.header)'
    BY <1>2, <1>7, <1>8 DEF Follows
  <2> QED
    BY <1>1, <1>2, <1>8, <2>1 DEF BuilderIs
<1>11. HeldIs'
  BY <1>1, <1>2 DEF BlocksInv, HeldIs
<1>12. Resting'
  BY <1>8 DEF Resting
<1>13. Building'
  <2> SUFFICES ASSUME ~astray' PROVE
         /\ Base' = Tip'.stateRoot
         /\ consensus' # "pow" => bld'.paid = 0
         /\ bld'.paid = 0 => LET r == applyTransactions(Base', bld'.header, bld'.txs)
                             IN  /\ r.ok /\ r.world = world' /\ r.gasUsed = bld'.gasUsed
                                 /\ r.receipts = bld'.receipts /\ r.bloom = bld'.bloom
    BY DEF Building
  <2>1. ~astray /\ (w = world \/ bld.checkpointed)
    BY <1>6
  <2>2. Base' = Base
    BY <1>1, <1>8, <2>1 DEF Base
  <2>3. Base = Tip.stateRoot /\ (consensus # "pow" => bld.paid = 0)
    BY <2>1 DEF BlocksInv, Building
  <2>4. ASSUME p = 0
        PROVE  LET r == applyTransactions(Base, h, bld.txs)
               IN  /\ r.ok /\ r.world = world' /\ r.gasUsed = bld.gasUsed
                   /\ r.receipts = bld.receipts /\ r.bloom = bld.bloom
    BY <1>1, <1>5, <2>1, <2>4 DEF BlocksInv, Building
  <2> QED
    BY <1>1, <1>4, <1>5, <1>7, <1>8, <2>2, <2>3, <2>4
<1> QED
  BY <1>7, <1>9, <1>10, <1>11, <1>12, <1>13 DEF BlocksInv


\* The block of a builder enters the chain or waits to be put.
LEMMA ReturnsStep ==
    ASSUME BlocksInv, bld.status = "pending", UNCHANGED <<consensus, now>>, NEW seal,
           world' = rewardMiner(world), createBlock(Sealed(rewardMiner(world), seal).header),
           bld.put => putBlock(Sealed(rewardMiner(world), seal)),
           BuildReturns(rewardMiner(world), Sealed(rewardMiner(world), seal))
    PROVE  BlocksInv'
<1> DEFINE w == rewardMiner(world)
           b == Sealed(w, seal)
           h == bld.header
<1>1. /\ BlockOf(b) /\ Follows(b.header) /\ b.header.stateRoot = w /\ w \in Seq(Entries)
      /\ (~astray /\ bld.paid = 0) => Honest(consensus, Tip.stateRoot, b)
  BY SealedIs
<1>2. /\ world' = w /\ UNCHANGED <<consensus, now>>
      /\ blocks' = IF bld.put THEN Append(blocks, b) ELSE blocks
      /\ held' = IF bld.put THEN << >> ELSE <<b>>
      /\ bld.put => putBlock(b)
      /\ \/ /\ bld' = Ended("build")
            /\ saves' = IF bld.checkpointed THEN Front(saves) ELSE saves
            /\ astray' = (astray \/ (w # world /\ bld.paid > 0))
         \/ /\ bld.checkpointed /\ bld' = Stalled(bld) /\ astray' = TRUE /\ saves' = saves
  BY DEF BuildReturns, Stalled
<1>3. w = Rewarded(consensus, world, h)
  BY DEF rewardMiner, Rewarded, assignBlockRewards
<1> HIDE DEF w, b
<1>4. /\ BuilderOf(bld) /\ HeaderOf(h) /\ bld.paid \in Nat /\ bld.checkpointed \in BOOLEAN
      /\ held = << >> /\ Len(blocks) < MaxBlocks
  BY DEF BlocksInv, BuilderIs, BuilderOf
<1>5. astray' \in BOOLEAN /\ (astray => astray') /\ (~astray' => ~astray /\ ~(w # world /\ bld.paid > 0))
  BY <1>2, Zenon
<1>6. ~astray' => ~astray /\ bld.paid = 0
  <2> SUFFICES ASSUME ~astray' PROVE ~astray /\ bld.paid = 0
    OBVIOUS
  <2>1. ~astray /\ ~(w # world /\ bld.paid > 0)
    BY <1>5
  <2>2. world \in Seq(Entries)
    BY DEF BlocksInv, WorldIs
  <2>3. CASE consensus = "pow"
    <3>1. w # world
      BY <1>3, <1>4, <2>2, <2>3, RewardedIs
    <3> QED
      BY <1>4, <2>1, <3>1
  <2>4. CASE consensus # "pow"
    BY <2>1, <2>4 DEF BlocksInv, Building
  <2> QED
    BY <2>1, <2>3, <2>4
<1>7. /\ BuilderOf(bld') /\ bld'.status = "build"
      /\ saves' \in Seq(Seq(Entries)) /\ Len(saves') = (IF bld'.checkpointed THEN 1 ELSE 0)
      /\ ~astray' => ~bld'.checkpointed
  <2>1. CASE /\ bld' = Ended("build")
             /\ saves' = IF bld.checkpointed THEN Front(saves) ELSE saves
    <3>1. BuilderOf(bld') /\ bld'.status = "build" /\ bld'.checkpointed = FALSE
      BY <2>1, EndedIs DEF Statuses
    <3>2. saves' = << >>
      BY <2>1, SavesIs
    <3> QED
      BY <3>1, <3>2, SavesIs
  <2>2. CASE bld.checkpointed /\ bld' = Stalled(bld) /\ astray' = TRUE /\ saves' = saves
    <3>1. BuilderOf(bld') /\ bld'.status = "build" /\ bld'.checkpointed = bld.checkpointed
      BY <1>4, <2>2, BuilderMoves
    <3>2. saves \in Seq(Seq(Entries)) /\ Len(saves) = (IF bld.checkpointed THEN 1 ELSE 0)
      BY DEF BlocksInv, WorldIs
    <3> QED
      BY <2>2, <3>1, <3>2
  <2> QED
    BY <1>2, <2>1, <2>2
<1>8. WorldIs'
  BY <1>1, <1>2, <1>5, <1>7 DEF BlocksInv, WorldIs
<1>9. BuilderIs' /\ Building'
  BY <1>7 DEF BuilderIs, Building
<1>10. CASE bld.put
  <2>1. blocks' = Append(blocks, b) /\ held' = << >> /\ putBlock(b)
    BY <1>2, <1>10
  <2>2. ~astray' => ~astray /\ Honest(consensus, Tip.stateRoot, b)
    BY <1>1, <1>6
  <2>3. ChainIs' /\ Accepted' /\ Tip' = b.header
    BY <1>1, <1>2, <1>4, <2>1, <2>2, ChainGrows DEF BlocksInv
  <2>4. HeldIs'
    BY <2>1, ListSmall DEF HeldIs
  <2>5. Resting'
    BY <1>1, <1>2, <1>7, <2>3 DEF Resting
  <2> QED
    BY <1>8, <1>9, <2>3, <2>4, <2>5 DEF BlocksInv
<1>11. CASE ~bld.put
  <2>1. blocks' = blocks /\ held' = <<b>>
    BY <1>2, <1>11
  <2>2. ChainIs' /\ Accepted' /\ Tip' = Tip
    BY <1>2, <1>5, <2>1, ChainSame DEF BlocksInv
  <2>3. Listing(held') /\ Len(held') = 1 /\ held'[1] = b /\ held' # << >>
    BY <2>1, ListSmall
  <2>4. Follows(held[1].header)'
    BY <1>1, <2>2, <2>3 DEF Follows
  <2>5. ~astray' => Honest(consensus', Tip'.stateRoot, held'[1]) /\ world' = held'[1].header.stateRoot
    BY <1>1, <1>2, <1>6, <2>2, <2>3
  <2>6. HeldIs'
    BY <1>1, <1>4, <1>7, <2>1, <2>3, <2>4, <2>5 DEF HeldIs
  <2>7. Resting'
    BY <1>7, <2>3 DEF Resting
  <2> QED
    BY <1>8, <1>9, <2>2, <2>6, <2>7 DEF BlocksInv
<1> QED
  BY <1>10, <1>11

\* A builder makes its block.
LEMMA BuilderStep ==
    ASSUME BlocksInv, NEW seal, build(seal)
    PROVE  BlocksInv'
<1>1. /\ bld.status = "pending" /\ UNCHANGED <<consensus, now>>
      /\ \E w \in {rewardMiner(world)} : \E b \in {Sealed(w, seal)} :
            /\ world' = w
            /\ IF createBlock(b.header) /\ (bld.put => putBlock(b)) THEN BuildReturns(w, b) ELSE BuildThrows(w)
  BY DEF build
<1> DEFINE w == rewardMiner(world)
           b == Sealed(w, seal)
<1>2. /\ world' = w
      /\ IF createBlock(b.header) /\ (bld.put => putBlock(b)) THEN BuildReturns(w, b) ELSE BuildThrows(w)
  BY <1>1, Zenon
<1>3. CASE createBlock(b.header) /\ (bld.put => putBlock(b))
  BY <1>1, <1>2, <1>3, ReturnsStep
<1>4. CASE ~(createBlock(b.header) /\ (bld.put => putBlock(b)))
  BY <1>1, <1>2, <1>4, ThrowsStep
<1> QED
  BY <1>3, <1>4

\* The block that was built aside is put, or refused.
LEMMA PutBuiltStep ==
    ASSUME BlocksInv, putBuilt
    PROVE  BlocksInv'
<1> DEFINE b == held[1]
<1>1. /\ held # << >> /\ held' = << >> /\ UNCHANGED <<consensus, world, saves, bld, now>>
      /\ \/ putBlock(b) /\ blocks' = Append(blocks, b) /\ astray' = astray
         \/ astray' = TRUE /\ blocks' = blocks
  BY DEF putBuilt
<1>2. /\ BlockOf(b) /\ Follows(b.header) /\ bld.status # "pending" /\ Len(blocks) < MaxBlocks
      /\ ~astray => Honest(consensus, Tip.stateRoot, b) /\ world = b.header.stateRoot
  BY <1>1 DEF BlocksInv, HeldIs
<1> HIDE DEF b
<1>3. WorldIs'
  <2>1. astray' \in BOOLEAN
    BY <1>1, Zenon DEF BlocksInv, WorldIs
  <2> QED
    BY <1>1, <2>1 DEF BlocksInv, WorldIs
<1>4. BuilderIs' /\ Building'
  BY <1>1, <1>2 DEF BlocksInv, BuilderIs, Building
<1>5. HeldIs'
  BY <1>1, ListSmall DEF HeldIs
<1>6. CASE putBlock(b) /\ blocks' = Append(blocks, b) /\ astray' = astray
  <2>1. ChainIs' /\ Accepted' /\ Tip' = b.header
    BY <1>1, <1>2, <1>6, ChainGrows DEF BlocksInv
  <2>2. Resting'
    BY <1>1, <1>2, <1>6, <2>1 DEF BlocksInv, Resting
  <2> QED
    BY <1>3, <1>4, <1>5, <2>1, <2>2 DEF BlocksInv
<1>7. CASE astray' = TRUE /\ blocks' = blocks
  <2>1. ChainIs' /\ Accepted'
    BY <1>1, <1>7, ChainSame DEF BlocksInv
  <2>2. Resting'
    BY <1>7 DEF Resting
  <2> QED
    BY <1>3, <1>4, <1>5, <2>1, <2>2 DEF BlocksInv
<1> QED
  BY <1>1, <1>6, <1>7

SkeletonHeader(h, d, n) == [h EXCEPT !.seal = "good", !.difficulty = d, !.txTrie = n]
GeneratedHeader(h, w, m, g, r, n) ==
    [h EXCEPT !.stateRoot = w, !.bloom = m, !.gasUsed = g, !.receiptTrie = r, !.txTrie = n]

\* The headers of the generate option.
LEMMA SkeletonHeaderIs ==
    ASSUME NEW h, HeaderOf(h), NEW d \in Nat, NEW n
    PROVE  LET k == SkeletonHeader(h, d, n)
           IN  HeaderOf(k) /\ k.number = h.number /\ k.parentHash = h.parentHash
BY DEF SkeletonHeader, HeaderOf

\* A header that takes what the run of its body gave.
LEMMA GeneratedHeaderIs ==
    ASSUME NEW h, HeaderOf(h), NEW w \in Seq(Entries), NEW g \in Nat, NEW m, NEW r, NEW n
    PROVE  LET k == GeneratedHeader(h, w, m, g, r, n)
           IN  /\ HeaderOf(k) /\ Alike(k, h) /\ k.number = h.number /\ k.parentHash = h.parentHash
               /\ k.stateRoot = w /\ k.receiptTrie = r /\ k.bloom = m /\ k.gasUsed = g
<1> DEFINE k == GeneratedHeader(h, w, m, g, r, n)
<1>1. /\ k.number = h.number /\ k.parentHash = h.parentHash /\ k.gasLimit = h.gasLimit /\ k.baseFee = h.baseFee
      /\ k.timestamp = h.timestamp /\ k.stateRoot = w /\ k.receiptTrie = r /\ k.bloom = m /\ k.gasUsed = g
      /\ HeaderOf(k)
  BY DEF GeneratedHeader, HeaderOf
<1> QED
  BY <1>1 DEF Alike

\* A block without results follows the head.
LEMMA SkeletonIs ==
    ASSUME BlocksInv, NEW txs, NEW trie
    PROVE  LET b == Skeleton(txs, trie)
           IN  HeaderOf(b.header) /\ Follows(b.header) /\ b.txs = txs
<1> DEFINE k == HeaderData(Tip.gasLimit, calcNextBaseFee(Tip))
           c == Calculated(k)
           d == IF consensus = "pow" THEN c.difficulty ELSE 0
           n == IF trie THEN genTxTrie(txs) ELSE << >>
           b == Skeleton(txs, trie)
<1>1. HeaderOf(Tip) /\ Tip.gasLimit >= elasticityMultiplier /\ ChainIs
  BY TipIs DEF BlocksInv
<1>2. calcNextBaseFee(Tip) \in Nat /\ Tip.gasLimit \in Nat /\ Tip.gasLimit < gasLimitCap
  BY <1>1, FeeIs DEF HeaderOf
<1>3. now \in Nat
  BY BlocksAssumption DEF BlocksInv, WorldIs
<1>4. HeaderOf(k) /\ Follows(k)
  BY <1>1, <1>2, <1>3, AskedIs
<1>5. b.header = SkeletonHeader(c, d, n) /\ b.txs = txs
  BY DEF Skeleton, SkeletonHeader
<1>6. c = WithDifficulty(k, ethashCanonicalDifficulty(k, Tip))
  BY DEF Calculated, WithDifficulty
<1> HIDE DEF k, c, n, b
<1>7. HeaderOf(c) /\ Follows(c)
  <2>1. k.number \in Nat /\ k.timestamp \in Nat
    BY <1>4 DEF HeaderOf
  <2>2. ethashCanonicalDifficulty(k, Tip) \in Nat
    BY <1>1, <2>1, DifficultyIs
  <2> QED
    BY <1>4, <1>6, <2>2, DifficultySet
<1>8. d \in Nat
  BY <1>7 DEF HeaderOf
<1> HIDE DEF d
<1>9. /\ HeaderOf(SkeletonHeader(c, d, n)) /\ SkeletonHeader(c, d, n).number = c.number
      /\ SkeletonHeader(c, d, n).parentHash = c.parentHash
  BY <1>7, <1>8, SkeletonHeaderIs
<1> QED
  BY <1>5, <1>7, <1>9 DEF b, Follows

\* runBlock writes the header of the block it is given.
LEMMA GenerateStep ==
    ASSUME BlocksInv, NEW txs \in Seq(TxPool), NEW trie, NEW skip, generate(txs, trie, skip)
    PROVE  BlocksInv'
<1> DEFINE b == Skeleton(txs, trie)
           r == applyBlock(world, b, Headers(Len(blocks)), skip)
           g == generated(b, r)
           h == b.header
           o == applyTransactions(world, h, txs)
<1>1. /\ Free /\ UNCHANGED <<consensus, blocks, saves, bld, now, astray>>
      /\ r.ok /\ createBlock(g.header) /\ world' = r.world /\ held' = <<g>>
  BY Zenon DEF generate
<1>2. HeaderOf(h) /\ Follows(h) /\ b.txs = txs
  BY SkeletonIs
<1>3. world \in Seq(Entries)
  BY DEF BlocksInv, WorldIs
<1>4. ResultOf(o)
  BY <1>2, <1>3, ApplyResult
<1>5. r = [o EXCEPT !.world = Rewarded(consensus, o.world, h)] \/ r.ok = FALSE
  BY <1>2 DEF applyBlock, Rewarded, assignBlockRewards, Refused, NoResult
<1>6. g.header = GeneratedHeader(h, r.world, r.bloom, r.gasUsed, r.receipts, genTxTrie(b.txs)) /\ g.txs = txs
      /\ g \in [header : {g.header}, txs : {txs}]
  <2>1. b \in [header : {b.header}, txs : {txs}]
    BY DEF Skeleton
  <2>2. g = [b EXCEPT !.header = GeneratedHeader(h, r.world, r.bloom, r.gasUsed, r.receipts, genTxTrie(b.txs))]
    BY DEF generated, GeneratedHeader
  <2> HIDE DEF g, b, h
  <2> QED
    BY <2>1, <2>2
<1> HIDE DEF b, r, g, o, h
<1>7. r.ok = o.ok /\ r.world = Rewarded(consensus, o.world, h) /\ r.gasUsed = o.gasUsed
      /\ r.receipts = o.receipts /\ r.bloom = o.bloom
  BY <1>1, <1>4, <1>5 DEF ResultOf
<1>8. r.world \in Seq(Entries) /\ r.gasUsed \in Nat
  <2>1. o.world \in Seq(Entries) /\ o.gasUsed \in Nat
    BY <1>4 DEF ResultOf
  <2> QED
    BY <1>2, <1>7, <2>1, RewardedIs
<1>9. /\ HeaderOf(g.header) /\ Alike(g.header, h) /\ g.header.number = h.number /\ g.header.parentHash = h.parentHash
      /\ g.header.stateRoot = r.world /\ g.header.receiptTrie = r.receipts /\ g.header.bloom = r.bloom
      /\ g.header.gasUsed = r.gasUsed
  BY <1>2, <1>6, <1>8, GeneratedHeaderIs
<1>10. BlockOf(g)
  <2>1. g.header.gasUsed <= g.header.gasLimit
    BY <1>1 DEF createBlock, genericFormatValidation
  <2>2. g \in [header : {g.header}, txs : Seq(TxPool)]
    BY <1>6
  <2> QED
    BY <1>9, <2>1, <2>2 DEF BlockOf
<1>11. Follows(g.header)
  BY <1>2, <1>9 DEF Follows
<1>12. ChainIs' /\ Accepted' /\ Tip' = Tip
  BY <1>1, ChainSame DEF BlocksInv
<1>13. ~bld.checkpointed /\ held = << >> /\ Len(blocks) < MaxBlocks /\ bld.status # "pending"
  BY <1>1 DEF Free
<1>14. WorldIs'
  BY <1>1, <1>8 DEF BlocksInv, WorldIs
<1>15. BuilderIs' /\ Building'
  BY <1>1, <1>13 DEF BlocksInv, BuilderIs, Building
<1>16. Listing(held') /\ Len(held') = 1 /\ held'[1] = g /\ held' # << >>
  BY <1>1, ListSmall
<1>17. ASSUME ~astray PROVE Honest(consensus, Tip.stateRoot, g)
  <2>1. world = Tip.stateRoot
    BY <1>13, <1>17 DEF BlocksInv, Resting
  <2>2. /\ o.ok /\ o.receipts = g.header.receiptTrie /\ o.bloom = g.header.bloom
        /\ o.gasUsed = g.header.gasUsed /\ Rewarded(consensus, o.world, h) = g.header.stateRoot
    BY <1>1, <1>7, <1>9
  <2> QED
    BY <1>6, <1>9, <2>1, <2>2, HonestIs DEF o
<1>18. HeldIs'
  <2>1. Follows(held[1].header)'
    BY <1>11, <1>12, <1>16 DEF Follows
  <2>2. ~astray' => Honest(consensus', Tip'.stateRoot, held'[1]) /\ world' = held'[1].header.stateRoot
    BY <1>1, <1>9, <1>12, <1>16, <1>17
  <2> QED
    BY <1>1, <1>10, <1>13, <1>16, <2>1, <2>2 DEF HeldIs
<1>19. Resting'
  BY <1>1, <1>13, <1>16 DEF Resting
<1> QED
  BY <1>12, <1>14, <1>15, <1>18, <1>19 DEF BlocksInv

\* Every step keeps the invariant.
LEMMA BlocksNext ==
    ASSUME BlocksInv, [BlkNext]_blkVars
    PROVE  BlocksInv'
<1>1. /\ calcNextBaseFee(Tip) \in Nat /\ calcNextBaseFee(Tip) + 1 \in Nat /\ calcNextBaseFee(Tip) + 0 \in Nat
      /\ Tip.gasLimit \in Nat /\ Tip.gasLimit < gasLimitCap
  <2>1. HeaderOf(Tip) /\ Tip.gasLimit >= elasticityMultiplier
    BY TipIs DEF BlocksInv
  <2>2. calcNextBaseFee(Tip) \in Nat
    BY <2>1, FeeIs
  <2> QED
    BY <2>1, <2>2 DEF HeaderOf
<1>2. CASE Tick
  BY <1>2, TickStep
<1>3. CASE \E gasLimit \in GivenGasLimits, put \in BOOLEAN :
              constructor(gasLimit, calcNextBaseFee(Tip), Usual, put)
  <2>1. PICK gasLimit \in GivenGasLimits, put \in BOOLEAN :
              constructor(gasLimit, calcNextBaseFee(Tip), Usual, put)
    BY <1>3
  <2>2. gasLimit \in Nat /\ gasLimit < gasLimitCap
    BY BlocksAssumption
  <2> QED
    BY <1>1, <2>1, <2>2, ConstructorStep
<1>4. CASE \E difficulty \in Difficulties, more \in {0, 1} :
              constructor(Tip.gasLimit, calcNextBaseFee(Tip) + more, difficulty, TRUE)
  <2>1. PICK difficulty \in Difficulties, more \in {0, 1} :
              constructor(Tip.gasLimit, calcNextBaseFee(Tip) + more, difficulty, TRUE)
    BY <1>4
  <2> DEFINE fee == calcNextBaseFee(Tip) + more
  <2>2. fee \in Nat
    BY <1>1
  <2>3. constructor(Tip.gasLimit, fee, difficulty, TRUE)
    BY <2>1
  <2>4. TRUE \in BOOLEAN
    OBVIOUS
  <2> HIDE DEF fee
  <2> QED
    BY <1>1, <2>2, <2>3, <2>4, ConstructorStep
<1>5. CASE \E t \in TxPool : addTransaction(t)
  BY <1>5, AddStep
<1>6. CASE revert
  BY <1>6, GiveUpStep
<1>7. CASE \E seal \in IF consensus = "pow" THEN {"good", "bad"} ELSE {"none"} : build(seal)
  BY <1>7, BuilderStep
<1>8. CASE putBuilt
  BY <1>8, PutBuiltStep
<1>9. CASE \E txs \in Bodies, trie \in BOOLEAN, skip \in BOOLEAN : generate(txs, trie, skip)
  <2>1. PICK txs \in Bodies, trie \in BOOLEAN, skip \in BOOLEAN : generate(txs, trie, skip)
    BY <1>9
  <2>2. txs \in Seq(TxPool)
    <3>1. << >> \in Seq(TxPool) /\ \A t \in TxPool : <<t>> \in Seq(TxPool)
      OBVIOUS
    <3>2. txs = << >> \/ \E t \in TxPool : txs = <<t>>
      BY Zenon DEF Bodies
    <3> QED
      BY <3>1, <3>2, Zenon
  <2> QED
    BY <2>1, <2>2, GenerateStep
<1>10. CASE UNCHANGED blkVars
  <2>1. UNCHANGED <<consensus, blocks, world, saves, bld, held, now, astray>>
    BY <1>10 DEF blkVars
  <2>2. ChainIs' /\ Accepted' /\ Tip' = Tip
    BY <2>1, ChainSame DEF BlocksInv
  <2>3. WorldIs' /\ BuilderIs' /\ HeldIs'
    BY <2>1, <2>2 DEF BlocksInv, WorldIs, BuilderIs, HeldIs, Follows
  <2>4. Building' /\ Resting'
    BY <2>1, <2>2 DEF BlocksInv, Building, Resting, Base
  <2> QED
    BY <2>2, <2>3, <2>4 DEF BlocksInv
<1> QED
  BY <1>2, <1>3, <1>4, <1>5, <1>6, <1>7, <1>8, <1>9, <1>10 DEF BlkNext
-----------------------------------------------------------------------------
(* What the invariant says *)

\* The header of a block that follows is valid among those before it.
LEMMA LinkedIsValid ==
    ASSUME ChainIs, NEW i \in 2..Len(blocks)
    PROVE  /\ i - 1 \in 1..Len(blocks) /\ i \in 1..Len(blocks)
           /\ BlockOf(blocks[i]) /\ HeaderOf(blocks[i - 1].header)
           /\ validateHeader(blocks[i].header, Headers(i - 1))
<1> DEFINE h == blocks[i].header
           p == blocks[i - 1].header
<1>1. i - 1 \in 1..Len(blocks) /\ i \in 1..Len(blocks) /\ i - 1 \in 1..(i - 1)
  BY TipIs
<1>2. BlockOf(blocks[i]) /\ BlockOf(blocks[i - 1])
  BY <1>1 DEF ChainIs
<1>3. h.parentHash = {p} /\ ValidAfter(consensus, h, p)
  BY DEF ChainIs
<1>4. p \in Headers(i - 1)
  BY <1>1 DEF Headers
<1>5. p \in h.parentHash \cap Headers(i - 1)
  BY <1>3, <1>4
<1> HIDE DEF h, p
<1>6. validateHeader(h, Headers(i - 1))
  BY <1>3, <1>5 DEF validateHeader, ValidAfter, validateDifficulty
<1> QED
  BY <1>1, <1>2, <1>6 DEF BlockOf, h

\* BlocksSound, part by part.
LEMMA BlocksTypes ==
    ASSUME BlocksInv
    PROVE  BlocksTypeOK
<1>1. consensus \in Consensuses /\ now \in 0..MaxNow /\ astray \in BOOLEAN
      /\ Len(saves) = (IF bld.checkpointed THEN 1 ELSE 0)
  BY DEF BlocksInv, WorldIs
<1>2. Len(blocks) \in 1..MaxBlocks
      /\ \A i \in 2..Len(blocks) : blocks[i].header.parentHash = {blocks[i - 1].header}
  BY DEF BlocksInv, ChainIs
<1>3. Len(held) <= 1 /\ bld.status \in Statuses
  BY DEF BlocksInv, HeldIs, BuilderIs, BuilderOf
<1>4. (bld.checkpointed /\ bld.status # "pending") => astray
  BY DEF BlocksInv, Resting
<1> QED
  BY <1>1, <1>2, <1>3, <1>4 DEF BlocksTypeOK

\* The world, or the checkpoint of a builder, is the state of the head.
LEMMA HeadState ==
    ASSUME BlocksInv
    PROVE  HeadHasState
<1> SUFFICES ASSUME ~astray, held = << >>, bld.status = "pending" => bld.checkpointed
             PROVE  Base = Tip.stateRoot
  BY DEF HeadHasState, Base
<1>1. CASE bld.status = "pending"
  BY <1>1 DEF BlocksInv, Building
<1>2. CASE bld.status # "pending"
  BY <1>2 DEF BlocksInv, Resting, Base
<1> QED
  BY <1>1, <1>2

\* Every block is accepted by who has the blocks before it.
LEMMA BlocksAccepted ==
    ASSUME BlocksInv
    PROVE  BuiltIsAccepted
<1> SUFFICES ASSUME ~astray, NEW i \in 2..Len(blocks)
             PROVE  runBlock(blocks[i - 1].header.stateRoot, blocks[i], Headers(i - 1))
  BY DEF BuiltIsAccepted
<1> DEFINE w == blocks[i - 1].header.stateRoot
           b == blocks[i]
<1>1. BlockOf(b) /\ HeaderOf(blocks[i - 1].header) /\ validateHeader(b.header, Headers(i - 1))
  BY LinkedIsValid DEF BlocksInv
<1>2. Honest(consensus, w, b) /\ validateData(b)
  BY DEF BlocksInv, Accepted
<1>3. w \in Seq(Entries) /\ HeaderOf(b.header) /\ b.txs \in Seq(TxPool)
  BY <1>1 DEF HeaderOf, BlockOf
<1> HIDE DEF w, b
<1>4. runBlock(w, b, Headers(i - 1))
  BY <1>1, <1>2, <1>3, RunBlockIs
<1> QED
  BY <1>4 DEF w, b

\* The fee moves by bounded steps, the way of the load.
LEMMA FeesSteady ==
    ASSUME BlocksInv
    PROVE  FeeSteady
<1>1. ASSUME NEW i \in 2..Len(blocks)
      PROVE  LET p == blocks[i - 1].header
                 fee == blocks[i].header.baseFee
                 target == p.gasLimit \div elasticityMultiplier
                 most == p.baseFee * (elasticityMultiplier - 1)
                 step(x) == x \div baseFeeMaxChangeDenominator + 1
             IN  /\ p.gasUsed > target => fee \in (p.baseFee + 1)..(p.baseFee + step(most + most \div target))
                 /\ p.gasUsed = target => fee = p.baseFee
                 /\ p.gasUsed < target => fee \in (p.baseFee - step(p.baseFee))..p.baseFee /\ fee >= 0
  <2> DEFINE p == blocks[i - 1].header
  <2>1. i - 1 \in 1..Len(blocks) /\ ChainIs
    BY LinkedIsValid DEF BlocksInv
  <2>2. HeaderOf(p) /\ p.gasLimit >= elasticityMultiplier /\ p.gasUsed <= p.gasLimit
    BY <2>1 DEF ChainIs, BlockOf
  <2>3. blocks[i].header.baseFee = calcNextBaseFee(p)
    BY <2>1 DEF ChainIs, ValidAfter
  <2> HIDE DEF p
  <2>4. LET fee == calcNextBaseFee(p)
            target == p.gasLimit \div elasticityMultiplier
            most == p.baseFee * (elasticityMultiplier - 1)
            step(x) == x \div baseFeeMaxChangeDenominator + 1
        IN  /\ p.gasUsed > target => fee \in (p.baseFee + 1)..(p.baseFee + step(most + most \div target))
            /\ p.gasUsed = target => fee = p.baseFee
            /\ p.gasUsed < target => fee \in (p.baseFee - step(p.baseFee))..p.baseFee /\ fee >= 0
    BY <2>2, FeeBounds
  <2> QED
    BY <2>3, <2>4 DEF p
<1> QED
  BY <1>1, Zenon DEF FeeSteady

\* The later a block, the easier its seal, down to the minimum.
LEMMA LaterIsEasier ==
    ASSUME BlocksInv
    PROVE  SlowerIsEasier
<1> SUFFICES ASSUME NEW s \in (Tip.timestamp + 1)..(Tip.timestamp + durationLimit + 1),
                    NEW t \in (Tip.timestamp + 1)..(Tip.timestamp + durationLimit + 1), s <= t
             PROVE  LET Dif(x) == ethashCanonicalDifficulty([number |-> Tip.number + 1, timestamp |-> x], Tip)
                    IN  Dif(t) <= Dif(s) /\ Dif(t) >= minimumDifficulty
  BY DEF SlowerIsEasier
<1>1. HeaderOf(Tip)
  BY TipIs DEF BlocksInv
<1>2. Tip.timestamp \in Nat /\ Tip.number + 1 \in Nat /\ durationLimit \in Nat
  <2>1. Tip.timestamp \in Nat /\ Tip.number \in Nat
    BY <1>1 DEF HeaderOf
  <2> QED
    BY <2>1, BlocksAssumption
<1>3. s \in Nat /\ t \in Nat
  BY <1>2
<1> DEFINE h == [number |-> Tip.number + 1, timestamp |-> s]
           k == [number |-> Tip.number + 1, timestamp |-> t]
<1>4. /\ h.number = Tip.number + 1 /\ k.number = Tip.number + 1 /\ h.timestamp = s /\ k.timestamp = t
  OBVIOUS
<1> HIDE DEF h, k
<1>5. ethashCanonicalDifficulty(k, Tip) <= ethashCanonicalDifficulty(h, Tip)
  BY <1>1, <1>2, <1>3, <1>4, DifficultyIs
<1>6. ethashCanonicalDifficulty(k, Tip) >= minimumDifficulty
  BY <1>1, <1>2, <1>3, <1>4, DifficultyIs
<1> QED
  BY <1>5, <1>6 DEF h, k
-----------------------------------------------------------------------------
(* Forged blocks *)

\* What an altered block c leaves as it is in b, and that it is a block at all.
Kin(c, b) ==
    /\ c \in [header : {c.header}, txs : Seq(TxPool)]
    /\ HeaderOf(c.header) /\ c.header.number # 0
    /\ c.header.parentHash = b.header.parentHash /\ c.header.gasLimit = b.header.gasLimit
    /\ c.header.timestamp = b.header.timestamp /\ c.header.seal = b.header.seal
    /\ consensus # "pow" => c.header.difficulty = b.header.difficulty
    /\ c.txs = b.txs \/ c.header.stateRoot = b.header.stateRoot

FieldSet(h, f, v) == [h EXCEPT ![f] = v]

\* A field that the rules fix is altered.
LEMMA FieldSetIs ==
    ASSUME NEW h, HeaderOf(h), h.number # 0, NEW c, c.header = h, NEW f \in Checked, NEW v \in OtherField(c, f)
    PROVE  LET k == FieldSet(h, f, v)
           IN  /\ HeaderOf(k) /\ k.number # 0 /\ k.parentHash = h.parentHash /\ k.gasLimit = h.gasLimit
               /\ k.timestamp = h.timestamp /\ k.seal = h.seal
               /\ consensus # "pow" => k.difficulty = h.difficulty
               /\ f = "txTrie" => k.stateRoot = h.stateRoot
<1> DEFINE k == FieldSet(h, f, v)
           Goal == /\ HeaderOf(k) /\ k.number # 0 /\ k.parentHash = h.parentHash /\ k.gasLimit = h.gasLimit
                   /\ k.timestamp = h.timestamp /\ k.seal = h.seal
                   /\ consensus # "pow" => k.difficulty = h.difficulty
                   /\ f = "txTrie" => k.stateRoot = h.stateRoot
<1>1. f \in {"gasUsed", "stateRoot", "receiptTrie", "bloom", "txTrie", "baseFee", "number"}
      \/ (f = "difficulty" /\ consensus = "pow")
  BY DEF Checked
<1>2. CASE f = "gasUsed"
  <2>1. k = [h EXCEPT !.gasUsed = v] /\ v = h.gasUsed + 1
    BY <1>2 DEF FieldSet, OtherField
  <2>2. v \in Nat
    BY <2>1 DEF HeaderOf
  <2> QED
    BY <1>2, <2>1, <2>2 DEF HeaderOf
<1>3. CASE f = "stateRoot"
  <2>1. k = [h EXCEPT !.stateRoot = v] /\ (v = Append(h.stateRoot, RewardEntry(h)) \/ v = << >>)
    BY <1>3 DEF FieldSet, OtherField
  <2>2. v \in Seq(Entries)
    <3>1. RewardEntry(h) \in Entries /\ h.stateRoot \in Seq(Entries)
      BY DEF RewardEntry, Entries, HeaderOf
    <3>2. Append(h.stateRoot, RewardEntry(h)) \in Seq(Entries) /\ << >> \in Seq(Entries)
      BY <3>1
    <3> QED
      BY <2>1, <3>2, Zenon
  <2> QED
    BY <1>3, <2>1, <2>2 DEF HeaderOf
<1>4. CASE f = "receiptTrie"
  <2>1. k = [h EXCEPT !.receiptTrie = v]
    BY <1>4 DEF FieldSet
  <2> QED
    BY <1>4, <2>1 DEF HeaderOf
<1>5. CASE f = "bloom"
  <2>1. k = [h EXCEPT !.bloom = v]
    BY <1>5 DEF FieldSet
  <2> QED
    BY <1>5, <2>1 DEF HeaderOf
<1>6. CASE f = "txTrie"
  <2>1. k = [h EXCEPT !.txTrie = v]
    BY <1>6 DEF FieldSet
  <2> QED
    BY <1>6, <2>1 DEF HeaderOf
<1>7. CASE f = "baseFee"
  <2>1. k = [h EXCEPT !.baseFee = v] /\ v = h.baseFee + 1
    BY <1>7 DEF FieldSet, OtherField
  <2>2. v \in Nat
    BY <2>1 DEF HeaderOf
  <2> QED
    BY <1>7, <2>1, <2>2 DEF HeaderOf
<1>8. CASE f = "number"
  <2>1. k = [h EXCEPT !.number = v] /\ v = h.number + 1
    BY <1>8 DEF FieldSet, OtherField
  <2>2. v \in Nat /\ v # 0
    BY <2>1 DEF HeaderOf
  <2> QED
    BY <1>8, <2>1, <2>2 DEF HeaderOf
<1>9. CASE f = "difficulty" /\ consensus = "pow"
  <2>1. k = [h EXCEPT !.difficulty = v] /\ v = h.difficulty + 1
    BY <1>9 DEF FieldSet, OtherField
  <2>2. v \in Nat
    BY <2>1 DEF HeaderOf
  <2> QED
    BY <1>9, <2>1, <2>2 DEF HeaderOf
<1> QED
  BY <1>1, <1>2, <1>3, <1>4, <1>5, <1>6, <1>7, <1>8, <1>9

\* So is it in a block.
LEMMA WithFieldIs ==
    ASSUME NEW b, NEW c, Kin(c, b), NEW f \in Checked, NEW d \in WithField(c, f),
           c.txs = b.txs \/ (f = "txTrie" /\ c.header.stateRoot = b.header.stateRoot)
    PROVE  Kin(d, b) /\ d.txs = c.txs
<1>1. PICK v \in OtherField(c, f) : d = [c EXCEPT !.header = FieldSet(c.header, f, v)]
  BY DEF WithField, FieldSet
<1> DEFINE k == FieldSet(c.header, f, v)
<1>2. HeaderOf(c.header) /\ c.header.number # 0 /\ c \in [header : {c.header}, txs : Seq(TxPool)]
  BY DEF Kin
<1>3. /\ HeaderOf(k) /\ k.number # 0 /\ k.parentHash = c.header.parentHash /\ k.gasLimit = c.header.gasLimit
      /\ k.timestamp = c.header.timestamp /\ k.seal = c.header.seal
      /\ consensus # "pow" => k.difficulty = c.header.difficulty
      /\ f = "txTrie" => k.stateRoot = c.header.stateRoot
  BY <1>2, FieldSetIs
<1> HIDE DEF k
<1>4. d = [c EXCEPT !.header = k]
  BY <1>1 DEF k
<1>5. d.header = k /\ d.txs = c.txs /\ d \in [header : {d.header}, txs : Seq(TxPool)]
  BY <1>2, <1>4
<1> QED
  BY <1>3, <1>5 DEF Kin

\* Another body.
LEMMA WithBodyIs ==
    ASSUME NEW b, Kin(b, b), NEW c \in WithBody(b)
    PROVE  Kin(c, b) /\ c.header = b.header
<1>1. b \in [header : {b.header}, txs : Seq(TxPool)] /\ b.txs \in Seq(TxPool)
  BY DEF Kin
<1>2. PICK s \in {Reverse(b.txs), b.txs \o b.txs, << >>} \cup {Append(b.txs, t) : t \in TxPool} :
         c = [b EXCEPT !.txs = s]
  BY DEF WithBody
<1>3. s \in Seq(TxPool)
  <2> DEFINE x == b.txs
  <2>1. x \in Seq(TxPool)
    BY <1>1
  <2> HIDE DEF x
  <2>2. s \in {Reverse(x), x \o x, << >>} \cup {Append(x, t) : t \in TxPool}
    BY DEF x
  <2>3. x \o x \in Seq(TxPool) /\ << >> \in Seq(TxPool) /\ \A t \in TxPool : Append(x, t) \in Seq(TxPool)
    BY <2>1
  <2>4. Reverse(x) \in Seq(TxPool)
    <3>1. Reverse(x) = [i \in 1..Len(x) |-> x[(Len(x) - i) + 1]]
      BY DEF Reverse
    <3>2. \A i \in 1..Len(x) : x[(Len(x) - i) + 1] \in TxPool
      BY <2>1
    <3>3. Len(x) \in Nat
      BY <2>1
    <3> QED
      BY <3>1, <3>2, <3>3
  <2> QED
    BY <2>2, <2>3, <2>4
<1>4. c.header = b.header /\ c.txs = s /\ c \in [header : {c.header}, txs : Seq(TxPool)]
  BY <1>1, <1>2, <1>3
<1> QED
  BY <1>4 DEF Kin

\* Every alteration leaves these.
LEMMA AlteredIs ==
    ASSUME NEW b, Kin(b, b), NEW c \in Altered(b)
    PROVE  Kin(c, b) /\ c # b
<1>1. c # b
  BY DEF Altered
<1>2. CASE c \in WithBody(b)
  BY <1>1, <1>2, WithBodyIs
<1>3. CASE \E f \in Checked : c \in WithField(b, f)
  BY <1>1, <1>3, WithFieldIs
<1>4. CASE \E d \in WithBody(b) : c \in WithField(d, "txTrie")
  <2>1. PICK d \in WithBody(b) : c \in WithField(d, "txTrie")
    BY <1>4
  <2>2. Kin(d, b) /\ d.header = b.header
    BY WithBodyIs
  <2>3. "txTrie" \in Checked
    BY DEF Checked
  <2> QED
    BY <1>1, <2>1, <2>2, <2>3, WithFieldIs
<1>5. CASE \E e \in Checked, f \in Checked : \E d \in WithField(b, e) : c \in WithField(d, f)
  <2>1. PICK e \in Checked, f \in Checked : \E d \in WithField(b, e) : c \in WithField(d, f)
    BY <1>5
  <2>2. PICK d \in WithField(b, e) : c \in WithField(d, f)
    BY <2>1
  <2>3. Kin(d, b) /\ d.txs = b.txs
    BY WithFieldIs
  <2> QED
    BY <1>1, <2>2, <2>3, WithFieldIs
<1>6. \/ c \in WithBody(b) \/ \E f \in Checked : c \in WithField(b, f)
      \/ \E d \in WithBody(b) : c \in WithField(d, "txTrie")
      \/ \E e \in Checked, f \in Checked : \E d \in WithField(b, e) : c \in WithField(d, f)
  <2>1. \/ c \in WithBody(b)
        \/ c \in UNION {WithField(b, f) : f \in Checked}
        \/ c \in UNION {WithField(d, "txTrie") : d \in WithBody(b)}
        \/ c \in UNION {UNION {WithField(d, f) : f \in Checked} : d \in UNION {WithField(b, e) : e \in Checked}}
    BY Zenon DEF Altered
  <2>2. \A d : d \in UNION {WithField(b, e) : e \in Checked} => \E e \in Checked : d \in WithField(b, e)
    BY Zenon
  <2>3. c \in UNION {WithField(d, "txTrie") : d \in WithBody(b)} => \E d \in WithBody(b) : c \in WithField(d, "txTrie")
    BY Zenon
  <2>4. ASSUME c \in UNION {UNION {WithField(d, f) : f \in Checked} : d \in UNION {WithField(b, e) : e \in Checked}}
        PROVE  \E e \in Checked, f \in Checked : \E d \in WithField(b, e) : c \in WithField(d, f)
    <3>1. PICK d \in UNION {WithField(b, e) : e \in Checked} : c \in UNION {WithField(d, f) : f \in Checked}
      BY <2>4
    <3>2. PICK e \in Checked : d \in WithField(b, e)
      BY <2>2, <3>1
    <3>3. PICK f \in Checked : c \in WithField(d, f)
      BY <3>1
    <3> QED
      BY <3>2, <3>3
  <2> QED
    BY <2>1, <2>2, <2>3, <2>4
<1> QED
  BY <1>2, <1>3, <1>4, <1>5, <1>6

\* Bodies that leave the same world are the same.
LEMMA SameBody ==
    ASSUME NEW w \in Seq(Entries), NEW c, NEW b, HeaderOf(c.header), HeaderOf(b.header),
           c.txs \in Seq(TxPool), b.txs \in Seq(TxPool), c.header.number = b.header.number,
           c.header.stateRoot = b.header.stateRoot, Honest(consensus, w, c), Honest(consensus, w, b)
    PROVE  c.txs = b.txs
<1> DEFINE q == applyTransactions(w, c.header, c.txs)
           r == applyTransactions(w, b.header, b.txs)
           e == RewardEntry(b.header)
<1>1. /\ ResultOf(q) /\ Carries(q, w, c.txs, Len(c.txs)) /\ q.ok
      /\ ResultOf(r) /\ Carries(r, w, b.txs, Len(b.txs)) /\ r.ok
  BY ApplyResult DEF Honest
<1>2. Rewarded(consensus, q.world, c.header) = Rewarded(consensus, r.world, b.header)
  BY DEF Honest
<1>3. RewardEntry(c.header) = e
  BY DEF RewardEntry
<1> HIDE DEF q, r, e
<1>4. q.world \in Seq(Entries) /\ r.world \in Seq(Entries)
  BY <1>1 DEF ResultOf
<1>5. q.world = r.world
  <2>1. CASE consensus = "pow"
    <3>1. Append(q.world, e) = Append(r.world, e)
      BY <1>2, <1>3, <2>1 DEF Rewarded, e
    <3> DEFINE x == q.world
               y == r.world
    <3>2. \A X, Y \in Seq(Entries) : Append(X, e) = Append(Y, e) => X = Y
      <4> SUFFICES ASSUME NEW X \in Seq(Entries), NEW Y \in Seq(Entries), Append(X, e) = Append(Y, e)
                   PROVE  X = Y
        OBVIOUS
      <4>1. Len(X) = Len(Y)
        <5>1. Len(Append(X, e)) = Len(X) + 1 /\ Len(Append(Y, e)) = Len(Y) + 1
          OBVIOUS
        <5> QED
          BY <5>1
      <4>2. ASSUME NEW i \in 1..Len(X) PROVE X[i] = Y[i]
        <5>1. Append(X, e)[i] = X[i] /\ Append(Y, e)[i] = Y[i]
          BY <4>1
        <5> QED
          BY <5>1
      <4> QED
        BY <4>1, <4>2
    <3> QED
      BY <1>4, <3>1, <3>2
  <2>2. CASE consensus # "pow"
    BY <1>2, <2>2 DEF Rewarded
  <2> QED
    BY <2>1, <2>2
<1>6. /\ Len(q.world) = Len(w) + Len(c.txs) /\ \A i \in 1..Len(c.txs) : q.world[Len(w) + i].id = c.txs[i].id
      /\ Len(r.world) = Len(w) + Len(b.txs) /\ \A i \in 1..Len(b.txs) : r.world[Len(w) + i].id = b.txs[i].id
  BY <1>1 DEF Carries
<1>7. Len(c.txs) = Len(b.txs)
  <2>1. Len(w) \in Nat /\ Len(c.txs) \in Nat /\ Len(b.txs) \in Nat
    OBVIOUS
  <2> QED
    BY <1>5, <1>6, <2>1
<1>8. ASSUME NEW i \in 1..Len(c.txs) PROVE c.txs[i] = b.txs[i]
  <2>1. c.txs[i].id = b.txs[i].id
    BY <1>5, <1>6, <1>7
  <2>2. c.txs[i] \in TxPool /\ b.txs[i] \in TxPool
    BY <1>7
  <2> QED
    BY <2>1, <2>2, BlocksAssumption
<1> QED
  BY <1>7, <1>8

\* A header is its fields.
LEMMA SameHeader ==
    ASSUME NEW h, NEW k, HeaderOf(h), HeaderOf(k),
           k.number = h.number, k.parentHash = h.parentHash, k.gasLimit = h.gasLimit, k.gasUsed = h.gasUsed,
           k.timestamp = h.timestamp, k.baseFee = h.baseFee, k.difficulty = h.difficulty,
           k.stateRoot = h.stateRoot, k.txTrie = h.txTrie, k.receiptTrie = h.receiptTrie,
           k.bloom = h.bloom, k.seal = h.seal
    PROVE  k = h
BY DEF HeaderOf

\* A kin of an accepted block that is accepted too is that block.
LEMMA KinIsSame ==
    ASSUME NEW w \in Seq(Entries), NEW p, NEW b, NEW c, NEW known, BlockOf(b), Kin(c, b),
           b.header.parentHash = {p}, ValidAfter(consensus, b.header, p), validateData(b), Honest(consensus, w, b),
           runBlock(w, c, known)
    PROVE  c = b
<1> DEFINE h == b.header
           k == c.header
<1>1. HeaderOf(h) /\ HeaderOf(k) /\ b.txs \in Seq(TxPool) /\ c.txs \in Seq(TxPool) /\ k.number # 0
      /\ b \in [header : {h}, txs : Seq(TxPool)] /\ c \in [header : {k}, txs : Seq(TxPool)]
  BY DEF BlockOf, Kin
<1>2. validateHeader(k, known) /\ validateData(c) /\ Honest(consensus, w, c)
  BY <1>1, RunBlockIs
<1>3. k.parentHash = h.parentHash /\ k.gasLimit = h.gasLimit /\ k.timestamp = h.timestamp /\ k.seal = h.seal
      /\ (consensus # "pow" => k.difficulty = h.difficulty)
      /\ (c.txs = b.txs \/ k.stateRoot = h.stateRoot)
  BY DEF Kin
<1>4. k.number = p.number + 1 /\ validateDifficulty(k, p) /\ k.baseFee = calcNextBaseFee(p)
  <2>1. PICK x \in k.parentHash \cap known :
           k.number = x.number + 1 /\ validateDifficulty(k, x) /\ k.baseFee = calcNextBaseFee(x)
    BY <1>1, <1>2 DEF validateHeader
  <2>2. x = p
    BY <1>3
  <2> QED
    BY <2>1, <2>2
<1>5. k.number = h.number /\ k.baseFee = h.baseFee
  BY <1>4 DEF ValidAfter
<1>6. k.difficulty = h.difficulty
  <2>1. CASE consensus = "pow"
    <3>1. k.difficulty = ethashCanonicalDifficulty(k, p) /\ h.difficulty = ethashCanonicalDifficulty(h, p)
      BY <1>4, <2>1 DEF validateDifficulty, ValidAfter
    <3>2. ethashCanonicalDifficulty(k, p) = ethashCanonicalDifficulty(h, p)
      BY <1>3, <1>5 DEF ethashCanonicalDifficulty
    <3> QED
      BY <3>1, <3>2
  <2> QED
    BY <1>3, <2>1
<1>7. c.txs = b.txs
  BY <1>1, <1>2, <1>3, <1>5, SameBody
<1>8. k.txTrie = h.txTrie
  BY <1>2, <1>7 DEF validateData, transactionsTrieIsValid
<1>9. k.receiptTrie = h.receiptTrie /\ k.bloom = h.bloom /\ k.gasUsed = h.gasUsed /\ k.stateRoot = h.stateRoot
  <2>1. Alike(k, h)
    BY <1>3, <1>5 DEF Alike
  <2>2. applyTransactions(w, k, c.txs) = applyTransactions(w, h, b.txs)
    BY <1>1, <1>7, <2>1, ApplySame
  <2>3. \A x : Rewarded(consensus, x, k) = Rewarded(consensus, x, h)
    BY <1>5 DEF Rewarded, RewardEntry
  <2> QED
    BY <1>2, <2>2, <2>3 DEF Honest
<1> HIDE DEF h, k
<1>10. k = h
  BY <1>1, <1>3, <1>5, <1>6, <1>8, <1>9, SameHeader
<1> QED
  BY <1>1, <1>7, <1>10

\* So no forgery of the last block is accepted.
LEMMA NothingForged ==
    ASSUME BlocksInv
    PROVE  NoForgedBlock
<1> DEFINE n == Len(blocks)
           b == blocks[n]
           w == blocks[n - 1].header.stateRoot
<1> SUFFICES ASSUME ~astray, n > 1, NEW c \in Altered(b), runBlock(w, c, Headers(n - 1))
             PROVE  FALSE
  BY DEF NoForgedBlock
<1>1. n \in 2..Len(blocks)
  BY TipIs DEF BlocksInv
<1>2. BlockOf(b) /\ HeaderOf(blocks[n - 1].header)
  BY <1>1, LinkedIsValid DEF BlocksInv
<1>3. b.header.parentHash = {blocks[n - 1].header} /\ ValidAfter(consensus, b.header, blocks[n - 1].header)
  BY <1>1 DEF BlocksInv, ChainIs
<1>4. Honest(consensus, w, b) /\ validateData(b)
  BY <1>1 DEF BlocksInv, Accepted
<1>5. b.header.number # 0
  BY <1>2, <1>3 DEF ValidAfter, HeaderOf
<1>6. w \in Seq(Entries)
  BY <1>2 DEF HeaderOf
<1>7. Kin(b, b)
  <2>1. HeaderOf(b.header) /\ b \in [header : {b.header}, txs : Seq(TxPool)]
    BY <1>2 DEF BlockOf
  <2> HIDE DEF b
  <2> QED
    BY <1>5, <2>1 DEF Kin
<1> HIDE DEF b, w, n
<1>8. Kin(c, b) /\ c # b
  BY <1>7, AlteredIs
<1>9. c = b
  BY <1>2, <1>3, <1>4, <1>6, <1>8, KinIsSame
<1> QED
  BY <1>8, <1>9

\* State, head and checkpoint belong together, every block made here is
\* accepted by whoever has the blocks before, and fee and difficulty answer to
\* load and time: builder, generator and runBlock together.
THEOREM BlocksHold == BlkSpec => []BlocksSound
<1>1. BlkInit => BlocksInv
  BY BlocksInit
<1>2. BlocksInv /\ [BlkNext]_blkVars => BlocksInv'
  BY BlocksNext
<1>3. BlocksInv => BlocksSound
  BY BlocksTypes, HeadState, BlocksAccepted, FeesSteady, LaterIsEasier DEF BlocksSound
<1> QED
  BY <1>1, <1>2, <1>3, PTL DEF BlkSpec

\* No altered copy of the last block passes runBlock: what the header commits
\* to and what the rules fix leave no room.
THEOREM BlocksUnforgeable == BlkSpec => []NoForgedBlock
<1>1. BlkInit => BlocksInv
  BY BlocksInit
<1>2. BlocksInv /\ [BlkNext]_blkVars => BlocksInv'
  BY BlocksNext
<1>3. BlocksInv => NoForgedBlock
  BY NothingForged
<1> QED
  BY <1>1, <1>2, <1>3, PTL DEF BlkSpec
=============================================================================
