----------------------------- MODULE Transact -----------------------------
(***************************************************************************)
(* NodeCore.transact (client/src/core/node.ts): nested all-or-nothing      *)
(* writes.  The state trie unwinds by its root, the tables beside it (the  *)
(* block store, the transaction index, account records, delegations,       *)
(* assets) by undo entries collected in one journal that nested writes     *)
(* share, and the burned total by the value read at the start.             *)
(*                                                                         *)
(* A table entry is a cell; an undo entry puts a cell back to what it held *)
(* before one change.  foundThen is a history variable: the chain as each  *)
(* write found it.  No action reads it.                                    *)
(***************************************************************************)
EXTENDS Naturals, Sequences

CONSTANTS Cells,      \* entries of the tables beside the trie
          Values,     \* what a cell may hold, its absence included
          Roots,      \* state roots
          Burns,      \* totals of burned sun
          MaxNest,    \* bound: writes open at once
          MaxUndo     \* bound: undo entries

ASSUME TransactAssumption == MaxNest \in Nat /\ MaxUndo \in Nat

VARIABLES root,       \* stateManager's root
          table,      \* the tables
          burned,     \* burnedSun
          journal,    \* this.journal; << >> also while it is undefined
          frames,     \* the locals of the transact calls in progress
          unwinding,  \* an innermost call that is putting the tables back
          foundThen

transactVars == <<root, table, burned, journal, frames, unwinding, foundThen>>

Tables == [Cells -> Values]
Entry == [cell : Cells, before : Values]
Frame == [start : Nat, root : Roots, burned : Burns]
Chain == [root : Roots, table : Tables, burned : Burns]

Found == [root |-> root, table |-> table, burned |-> burned]

Latest(stack) == stack[Len(stack)]
Popped(stack) == SubSeq(stack, 1, Len(stack) - 1)

TransactInit == /\ root \in Roots
        /\ table \in Tables
        /\ burned \in Burns
        /\ journal = << >>
        /\ frames = << >>
        /\ unwinding = FALSE
        /\ foundThen = << >>

\* The undo entries before this position belong to the enclosing writes.
StartOfJournal == 0
Start == Len(journal)

\* A write begins: the outermost starts a journal, a nested one goes on with
\* its parent's and remembers where it stood.
Begin ==
    /\ ~unwinding
    /\ Len(frames) < MaxNest
    /\ frames' = Append(frames, [start |-> Start, root |-> root, burned |-> burned])
    /\ foundThen' = Append(foundThen, Found)
    /\ UNCHANGED <<root, table, burned, journal, unwinding>>

\* Writes through the state manager move the root.
WriteState(r) ==
    /\ ~unwinding
    /\ root' = r
    /\ UNCHANGED <<table, burned, journal, frames, unwinding, foundThen>>

\* recordUndo and the change it is about; outside a write nothing is recorded.
WriteTable(c, v) ==
    /\ ~unwinding
    /\ Len(journal) < MaxUndo
    /\ journal' = IF frames = << >> THEN journal
                  ELSE Append(journal, [cell |-> c, before |-> table[c]])
    /\ table' = [table EXCEPT ![c] = v]
    /\ UNCHANGED <<root, burned, frames, unwinding, foundThen>>

Burn(n) ==
    /\ ~unwinding
    /\ burned' = n
    /\ UNCHANGED <<root, table, journal, frames, unwinding, foundThen>>

\* What is left of the journal when the innermost write commits.
JournalAfterReturn == IF Len(frames) = 1 THEN << >> ELSE journal

\* A returned value commits: the entries stay with the enclosing write, if any.
Return ==
    /\ ~unwinding
    /\ frames # << >>
    /\ frames' = Popped(frames)
    /\ foundThen' = Popped(foundThen)
    /\ journal' = JournalAfterReturn
    /\ UNCHANGED <<root, table, burned, unwinding>>

\* Faulty variant: the state root is not set back.
ThrowTablesOnly ==
    /\ ~unwinding
    /\ frames # << >>
    /\ unwinding' = TRUE
    /\ UNCHANGED <<root, table, burned, journal, frames, foundThen>>

\* A throw, its own or one that leaves a nested write: the root is set back
\* first.
Throw ==
    /\ ~unwinding
    /\ frames # << >>
    /\ root' = Latest(frames).root
    /\ unwinding' = TRUE
    /\ UNCHANGED <<table, burned, journal, frames, foundThen>>

\* The undo loop runs from the newest entry down to the write's first.
UndoEntry ==
    /\ unwinding
    /\ Len(journal) > Latest(frames).start
    /\ table' = [table EXCEPT ![Latest(journal).cell] = Latest(journal).before]
    /\ journal' = Popped(journal)
    /\ UNCHANGED <<root, burned, frames, unwinding, foundThen>>

\* What is left of the unwinding; the error then goes on to the caller, who may
\* catch it (a rejected candidate of a block) or throw on.
Unwound ==
    /\ unwinding
    /\ Len(journal) = Latest(frames).start
    /\ burned' = Latest(frames).burned
    /\ frames' = Popped(frames)
    /\ foundThen' = Popped(foundThen)
    /\ unwinding' = FALSE
    /\ UNCHANGED <<root, table, journal>>

TransactNext == \/ Begin
        \/ \E r \in Roots : WriteState(r)
        \/ \E c \in Cells, v \in Values : WriteTable(c, v)
        \/ \E n \in Burns : Burn(n)
        \/ Return
        \/ Throw
        \/ UndoEntry
        \/ Unwound

TransactSpec == TransactInit /\ [][TransactNext]_transactVars
-----------------------------------------------------------------------------
\* Every variable keeps its type; a write in progress has a frame, and the
\* frames' first entries are in order within the journal, from its beginning.
TransactTypeOK ==
    /\ root \in Roots
    /\ table \in Tables
    /\ burned \in Burns
    /\ journal \in Seq(Entry)
    /\ frames \in Seq(Frame)
    /\ unwinding \in BOOLEAN
    /\ foundThen \in Seq(Chain)
    /\ Len(foundThen) = Len(frames)
    /\ unwinding => frames # << >>
    /\ \A i \in 1..Len(frames) : frames[i].start <= Len(journal)
    /\ \A i, j \in 1..Len(frames) : i <= j => frames[i].start <= frames[j].start
    /\ IF frames = << >> THEN journal = << >> ELSE frames[1].start = 0

\* Entry p of journal j is the oldest one after position s for cell c.
Oldest(j, s, c, p) ==
    /\ j[p].cell = c
    /\ \A q \in (s + 1)..(p - 1) : j[q].cell # c

\* The entries after position s lead from tables `now` back to tables `then`:
\* the oldest entry for a cell has its value, and a cell without an entry has
\* not changed.
CellBack(j, s, now, then, c) ==
    \/ \E p \in (s + 1)..Len(j) : Oldest(j, s, c, p) /\ j[p].before = then[c]
    \/ /\ \A p \in (s + 1)..Len(j) : j[p].cell # c
       /\ now[c] = then[c]

LeadsBack(j, s, now, then) == \A c \in Cells : CellBack(j, s, now, then, c)

\* Every write in progress, however deep and whatever its nested writes have
\* done or undone since, still holds the way back to the chain as it found it
\* (parentJournal, start and the values read at the start of transact).
CanUnwind ==
    \A i \in 1..Len(frames) :
        /\ LeadsBack(journal, frames[i].start, table, foundThen[i].table)
        /\ frames[i].root = foundThen[i].root
        /\ frames[i].burned = foundThen[i].burned
        /\ unwinding => root = Latest(frames).root

\* A fault anywhere inside a write leaves the chain exactly as the write found
\* it: root, tables and burned total (the finally block of transact).
FaultLeavesChain ==
    [][unwinding /\ ~unwinding' => Found' = Latest(foundThen)]_transactVars

\* The writes in progress and the shared journal fit each other, and every
\* write can be taken back.
UnwindSound == TransactTypeOK /\ CanUnwind
=============================================================================
