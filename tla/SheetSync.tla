------------------------------ MODULE SheetSync ------------------------------
(***************************************************************************)
(* The consumer audit's update of the shared Google sheet (sheets.go):     *)
(* a run reads the sheet, reconciles it with the endpoints it has audited, *)
(* plans row operations and cell updates, and applies them in two calls.   *)
(* Between its calls other runs and people may change the sheet.           *)
(*                                                                         *)
(* Positions count from 1; the code's StartIndex is one less.              *)
(***************************************************************************)
EXTENDS Naturals, Sequences, FiniteSets, SequencesExt

CONSTANTS
    Run,                \* the processes that update the sheet
    Key,                \* loose keys of endpoints: method and path, parameter names collapsed
    Value,              \* contents of the columns whose change is logged (Reconcile: true)
    Info,               \* contents of the other generated columns
    NA,                 \* the "n/a" by which a person overrides a generated cell
    Note,               \* contents of the columns that belong to people
    Figure,             \* the figures of the summary: each the cells of the rows it counts
    Blank,              \* an empty cell
    Audits,             \* the audits a run may come with: sorted, one element per endpoint
    InitialSheets,
    Faults,             \* subset of Fault
    MaxRuns, MaxEdits   \* bounds on the runs and on the edits of people

Fault == {"call",       \* a call of the Sheets API fails and is not applied
          "lostAck"}    \* it is applied; the answer is lost, or late for the two-minute timeout

(* The text of the summary says of each figure what it is and how it has   *)
(* changed, which comes to what it was.  It is in the first row, in the    *)
(* column of the endpoints.                                                *)
Summary == [now : [Figure -> Nat], was : [Figure -> Nat]]

Label == Key \cup Summary \cup {Blank}

(* A row of the grid.  log is the Change Log column: the number of the run *)
(* that stamped it, 0 when empty.                                          *)
Row == [header : BOOLEAN, key : Label, value : Value \cup {NA, Blank},
        info : Info \cup {NA, Blank}, log : 0 .. MaxRuns, note : Note \cup {Blank}]
BlankRow == [header |-> FALSE, key |-> Blank, value |-> Blank, info |-> Blank, log |-> 0, note |-> Blank]

Audited == [key : Key, value : Value, info : Info]

ASSUME ConstantsOK ==
    /\ Blank \notin Key \cup Summary \cup Value \cup Info \cup Note \cup {NA}
    /\ NA \notin Value \cup Info
    /\ Figure \subseteq SUBSET ((Value \cup {NA}) \X (Info \cup {NA}))
    /\ \A a \in Audits : a \in Seq(Audited)
    /\ \A s \in InitialSheets : s \in Seq(Row) /\ (s # <<>> => s[Len(s)] # BlankRow)
    /\ Faults \subseteq Fault
    /\ MaxRuns \in Nat /\ MaxEdits \in Nat

(* Definitions whose name holds "__" are faulty variants of the definition *)
(* they precede.                                                           *)

VARIABLES
    sheet,              \* the grid up to its last row that is not empty
    runs, edits,        \* how many runs have read the sheet; how many edits were made
    pc,                 \* of each run: "idle", "rows" or "cells", its next call
    seen,               \* previous, the audit's rows and the time
    result              \* what the last run of each process returned

vars == <<sheet, runs, edits, pc, seen, result>>

-----------------------------------------------------------------------------
(* The layout of what was read. *)

Trim(grid) ==
    SubSeq(grid, 1, SelectLastInSeq(grid, LAMBDA row : row # BlankRow))

Pad(grid, n) ==
    grid \o [i \in 1 .. (IF n > Len(grid) THEN n - Len(grid) ELSE 0) |-> BlankRow]

HeaderAt(rows) == SelectInSeq(rows, LAMBDA row : row.header)

(* Rows to insert on top: the summary needs one above the header, and a    *)
(* sheet without a header gets both.                                       *)
TopRows(rows) ==
    IF HeaderAt(rows) = 1 THEN 1
    ELSE IF HeaderAt(rows) = 0 /\ rows # <<>> THEN 2
    ELSE 0

(* How many rows are above the body once those are inserted. *)
BodyStart(rows) == IF HeaderAt(rows) > 2 THEN HeaderAt(rows) ELSE 2

(* The body as it was read: the rows below the header, or all of them. *)
Slots(rows) == SubSeq(rows, HeaderAt(rows) + 1, Len(rows))

-----------------------------------------------------------------------------
(* reconcile *)

Override__None(prev, cur) == cur
(* A person's "n/a" stays. *)
Override(prev, cur) ==
    [cur EXCEPT !.value = IF prev.value = NA THEN NA ELSE @,
                !.info  = IF prev.info  = NA THEN NA ELSE @]

(* The generated cells of a row. *)
Generated(cur, log) == [key |-> cur.key, value |-> cur.value, info |-> cur.info, log |-> log]

Tracked__Restamped(slots, cur, now) ==
    LET i == SelectLastInSeq(slots, LAMBDA row : row.key = cur.key)
    IN  Generated(IF i = 0 THEN cur ELSE Override(slots[i], cur), now)

(* The row to write for an audited endpoint.  Of several previous rows     *)
(* with its key the last one counts (prevByKey).                           *)
Tracked(slots, cur, now) ==
    LET i == SelectLastInSeq(slots, LAMBDA row : row.key = cur.key)
        kept == IF i = 0 THEN cur ELSE Override(slots[i], cur)
        same == i # 0 /\ slots[i].value = kept.value
    IN  Generated(kept, IF same THEN slots[i].log ELSE now)

Desired(s) == [i \in 1 .. Len(s.audit) |-> Tracked(Slots(s.rows), s.audit[i], s.now)]

Deletions__Rows(s) ==
    {row \in ToSet(Slots(s.rows)) \ {BlankRow} : row.key \notin {x.key : x \in ToSet(s.audit)}}

(* The endpoints that have a row and were not audited. *)
Deletions(s) ==
    {row.key : row \in ToSet(Slots(s.rows)) \ {BlankRow}} \ {a.key : a \in ToSet(s.audit)}

-----------------------------------------------------------------------------
(* buildAuditSheetSummary *)

Stats(rows) ==
    [f \in Figure |-> Cardinality({i \in DOMAIN rows : <<rows[i].value, rows[i].info>> \in f})]

(* The figures of the rows to write, against those of the rows read. *)
SummaryOf(s) == [now |-> Stats(Desired(s)), was |-> Stats(Slots(s.rows))]

-----------------------------------------------------------------------------
(* planSheetUpdateWithSummary *)

Insert(i)   == [kind |-> "insert", at |-> i, from |-> 0]
Delete(i)   == [kind |-> "delete", at |-> i, from |-> 0]
Move(j, i)  == [kind |-> "move", at |-> i, from |-> j]

Count(rows, k, n) == Cardinality({j \in 1 .. n : rows[j].key = k})

(* A previous row stays while there are audited endpoints with its key. *)
Kept(slots, audit, i) ==
    /\ slots[i].key # Blank
    /\ Count(slots, slots[i].key, i) <= Count(audit, slots[i].key, Len(audit))

DeleteOps__Ascending(ops, i) == Append(ops, Delete(i))
(* From the bottom up, so that the positions that follow stay valid. *)
DeleteOps(ops, i) == <<Delete(i)>> \o ops

(* The i-th previous row stays or is deleted. *)
Thin(plan, slots, audit, i, start) ==
    IF Kept(slots, audit, i)
    THEN [slots |-> Append(plan.slots, slots[i]), ops |-> plan.ops]
    ELSE [slots |-> plan.slots, ops |-> DeleteOps(plan.ops, start + i)]

Thinned(slots, audit, start) ==
    LET thin[n \in 0 .. Len(slots)] ==
            IF n = 0 THEN [slots |-> <<>>, ops |-> <<>>]
                     ELSE Thin(thin[n - 1], slots, audit, n, start)
    IN  thin[Len(slots)]

Shift(rows, j, i) == InsertAt(RemoveAt(rows, j), i, rows[j])

(* The i-th row of the body: the row that is there, a later one moved up,  *)
(* or a new one, of which nothing is filled in yet.                        *)
AlignRow(plan, desired, i, start) ==
    LET slots == plan.slots
        j == SelectInSubSeq(slots, i, Len(slots), LAMBDA row : row.key = desired[i].key)
    IN  IF j = i THEN plan
        ELSE IF j = 0 THEN
            [slots |-> InsertAt(slots, i, BlankRow),
             ops |-> Append(plan.ops, Insert(start + i))]
        ELSE
            [slots |-> Shift(slots, j, i),
             ops |-> Append(plan.ops, Move(start + j, start + i))]

Aligned(begin, desired, start) ==
    LET align[n \in 0 .. Len(desired)] ==
            IF n = 0 THEN begin ELSE AlignRow(align[n - 1], desired, n, start)
    IN  align[Len(desired)]

Plan(s) ==
    LET start == BodyStart(s.rows)
        top   == [i \in 1 .. TopRows(s.rows) |-> Insert(1)]
        thin  == Thinned(Slots(s.rows), s.audit, start)
    IN  Aligned([slots |-> thin.slots, ops |-> top \o thin.ops], s.audit, start)

(* What the Sheets service does with a row operation. *)
ApplyOp(grid, op) ==
    LET g == Pad(grid, IF op.from > op.at THEN op.from ELSE op.at)
    IN  CASE op.kind = "insert" -> InsertAt(g, op.at, BlankRow)
          [] op.kind = "delete" -> RemoveAt(g, op.at)
          [] op.kind = "move"   -> Shift(g, op.from, op.at)

Applied(grid, ops) ==
    LET after[n \in 0 .. Len(ops)] == IF n = 0 THEN grid ELSE ApplyOp(after[n - 1], ops[n])
    IN  after[Len(ops)]

RowsApplied(grid, s) == Trim(Applied(grid, Plan(s).ops))

(* Only the cells that differ from what was read are written. *)
Patch(row, old, new) ==
    [row EXCEPT !.key   = IF old.key = new.key THEN @ ELSE new.key,
                !.value = IF old.value = new.value THEN @ ELSE new.value,
                !.info  = IF old.info = new.info THEN @ ELSE new.info,
                !.log   = IF old.log = new.log THEN @ ELSE new.log]

(* Rows put on top hide what the first row had. *)
SummaryCell(old, s) ==
    IF TopRows(s.rows) = 0 /\ s.rows # <<>> /\ s.rows[1].key = SummaryOf(s)
    THEN old ELSE SummaryOf(s)

CellsApplied(grid, s) ==
    LET start   == BodyStart(s.rows)
        desired == Desired(s)
        slots   == Plan(s).slots
        g       == Pad(grid, start + Len(desired))
        Cells(p) ==
            IF p \in start + 1 .. start + Len(desired)
            THEN Patch(g[p], slots[p - start], desired[p - start])
            ELSE IF p = start /\ HeaderAt(s.rows) = 0 THEN [g[p] EXCEPT !.header = TRUE]
            ELSE IF p = 1 THEN [g[p] EXCEPT !.key = SummaryCell(@, s)]
            ELSE g[p]
    IN  Trim([p \in 1 .. Len(g) |-> Cells(p)])

-----------------------------------------------------------------------------
(* reconcileFromOpts *)

NotRun == [rows |-> <<>>, audit |-> <<>>, now |-> 0]
None == [ok |-> FALSE, deletions |-> {}]

Init ==
    /\ sheet \in InitialSheets
    /\ runs = 0
    /\ edits = 0
    /\ pc = [r \in Run |-> "idle"]
    /\ seen = [r \in Run |-> NotRun]
    /\ result = [r \in Run |-> None]

(* The audit, readSheet and the planning.  A run that fails up to here     *)
(* leaves no trace.                                                        *)
Read(r) ==
    /\ pc[r] = "idle"
    /\ runs < MaxRuns
    /\ runs' = runs + 1
    /\ \E a \in Audits : seen' = [seen EXCEPT ![r] = [rows |-> sheet, audit |-> a, now |-> runs']]
    /\ pc' = [pc EXCEPT ![r] = "rows"]
    /\ result' = [result EXCEPT ![r] = None]
    /\ UNCHANGED <<sheet, edits>>

(* An error ends the run; what it has found is not in its result. *)
GiveUp(r) ==
    /\ pc' = [pc EXCEPT ![r] = "idle"]
    /\ UNCHANGED result

(* Spreadsheets.BatchUpdate: all the operations or none. *)
ApplyRows(r) ==
    /\ pc[r] = "rows"
    /\ LET applied == sheet' = RowsApplied(sheet, seen[r])
       IN \/ applied /\ pc' = [pc EXCEPT ![r] = "cells"] /\ UNCHANGED result
          \/ "call" \in Faults /\ UNCHANGED sheet /\ GiveUp(r)
          \/ "lostAck" \in Faults /\ applied /\ GiveUp(r)
    /\ UNCHANGED <<runs, edits, seen>>

ApplyCells__ErrorIgnored(r) ==
    /\ pc[r] = "cells"
    /\ \/ sheet' = CellsApplied(sheet, seen[r])
       \/ "call" \in Faults /\ UNCHANGED sheet
    /\ pc' = [pc EXCEPT ![r] = "idle"]
    /\ result' = [result EXCEPT ![r] = [ok |-> TRUE, deletions |-> Deletions(seen[r])]]
    /\ UNCHANGED <<runs, edits, seen>>

(* Values.BatchUpdate. *)
ApplyCells(r) ==
    /\ pc[r] = "cells"
    /\ LET applied == sheet' = CellsApplied(sheet, seen[r])
           done == [ok |-> TRUE, deletions |-> Deletions(seen[r])]
       IN \/ /\ applied
             /\ pc' = [pc EXCEPT ![r] = "idle"]
             /\ result' = [result EXCEPT ![r] = done]
          \/ "call" \in Faults /\ UNCHANGED sheet /\ GiveUp(r)
          \/ "lostAck" \in Faults /\ applied /\ GiveUp(r)
    /\ UNCHANGED <<runs, edits, seen>>

(* What people do to the sheet. *)
Edit ==
    /\ edits < MaxEdits
    /\ edits' = edits + 1
    /\ UNCHANGED <<runs, pc, seen, result>>

WriteNote ==
    /\ Edit
    /\ \E i \in 1 .. Len(sheet), n \in Note : sheet' = [sheet EXCEPT ![i].note = n]

MarkNA ==
    /\ Edit
    /\ \E i \in HeaderAt(sheet) + 1 .. Len(sheet) :
           sheet[i].key # Blank /\ sheet' = [sheet EXCEPT ![i].value = NA]

AddRow ==
    /\ Edit
    /\ \E i \in 1 .. Len(sheet), n \in Note :
           sheet' = InsertAt(sheet, i, [BlankRow EXCEPT !.note = n])

MoveRow ==
    /\ Edit
    /\ \E i \in 1 .. Len(sheet), j \in 1 .. Len(sheet) : i < j /\ sheet' = Trim(Shift(sheet, j, i))

DeleteRow ==
    /\ Edit
    /\ \E i \in 1 .. Len(sheet) : sheet' = Trim(RemoveAt(sheet, i))

Next ==
    \/ \E r \in Run : Read(r) \/ ApplyRows(r) \/ ApplyCells(r)
    \/ WriteNote \/ MarkNA \/ AddRow \/ MoveRow \/ DeleteRow

Spec == Init /\ [][Next]_vars

-----------------------------------------------------------------------------
(* Properties. *)

(* Every variable keeps its shape; the sheet ends with a row that is not   *)
(* empty, as the service returns it.                                       *)
TypeOK ==
    /\ sheet \in Seq(Row)
    /\ sheet # <<>> => sheet[Len(sheet)] # BlankRow
    /\ runs \in 0 .. MaxRuns
    /\ edits \in 0 .. MaxEdits
    /\ pc \in [Run -> {"idle", "rows", "cells"}]
    /\ \A r \in Run :
           /\ seen[r].rows \in Seq(Row)
           /\ seen[r] = NotRun \/ seen[r].audit \in Audits
           /\ seen[r].now \in 0 .. runs
           /\ result[r].deletions \subseteq Label

(* Nothing has changed the sheet since r read it but r. *)
Fresh(r) ==
    sheet = IF pc[r] = "cells" THEN RowsApplied(seen[r].rows, seen[r]) ELSE seen[r].rows

DistinctKeys(audit) == \A i, j \in DOMAIN audit : audit[i].key = audit[j].key => i = j

(* The sheet says what the audit said, in its order, but for a person's    *)
(* "n/a", and nothing else below its header.                               *)
Reconciled(grid, audit) ==
    LET body == Slots(grid)
    IN  /\ HeaderAt(grid) > 1
        /\ Len(body) = Len(audit)
        /\ \A i \in 1 .. Len(body) :
               /\ body[i].key = audit[i].key
               /\ body[i].value \in {audit[i].value, NA}
               /\ body[i].info \in {audit[i].info, NA}

(* A run that nothing disturbs between its read and its writes leaves the  *)
(* sheet reconciled, whatever state an earlier run that failed half-way, a *)
(* run that interleaved with another, or a person has left the sheet in.   *)
(* Its summary gives the figures of the rows below it.                     *)
RepairStep ==
    \A r \in Run :
        pc[r] = "cells" /\ Fresh(r) /\ result'[r].ok =>
            /\ Reconciled(sheet', seen[r].audit)
            /\ sheet'[1].key.now = Stats(Slots(sheet'))
UndisturbedRunRepairs == [][RepairStep]_vars

(* The people's cells of the endpoints of a grid. *)
Annotations(grid) == {<<row.key, row.note>> : row \in {x \in ToSet(Slots(grid)) : x.note # Blank /\ x.key # Blank}}

(* "Structural edits move, insert, or delete whole rows so user-owned      *)
(* cells stay attached to their endpoint identity": no call of a run gives *)
(* a person's cell to another endpoint, and the first row of an audited    *)
(* endpoint keeps its own, unless something else has changed the sheet     *)
(* since the run read it, after which its row numbers may be wrong.        *)
NotesStep ==
    \A r \in Run :
        pc[r] # "idle" /\ pc'[r] # pc[r] /\ Fresh(r) =>
            /\ Annotations(sheet') \subseteq Annotations(sheet)
            /\ \A k \in {a.key : a \in ToSet(seen[r].audit)} :
                   LET body == Slots(sheet)
                       i == SelectInSeq(body, LAMBDA row : row.key = k)
                   IN  i # 0 /\ body[i].note # Blank => <<k, body[i].note>> \in Annotations(sheet')
NotesStayAttached == [][NotesStep]_vars

(* "ChangeLog is the UTC timestamp of the last state transition (new /     *)
(* changed) for this row": a run that audits what the sheet says already   *)
(* moves no row and writes no row, no time stamp either; in the summary it *)
(* leaves the figures without a change.  So a second such run finds that   *)
(* summary and writes nothing at all.  It is the promise of an audit whose *)
(* endpoints have loose keys of their own: of two with one key the cells   *)
(* of the last row count for both.                                         *)
UnchangedAuditIsQuiet ==
    \A r \in Run :
        LET s == seen[r]
            figures == Stats(Slots(s.rows))
        IN  pc[r] = "rows" /\ Reconciled(s.rows, s.audit) /\ DistinctKeys(s.audit) =>
                /\ Plan(s).ops = <<>>
                /\ CellsApplied(s.rows, s) = [s.rows EXCEPT ![1].key = [now |-> figures, was |-> figures]]

(* A person's "n/a" in the row of an endpoint survives every run.  Of an   *)
(* endpoint that had two rows the planner keeps the first and reconcile    *)
(* reads the last, so its override may be lost.                            *)
OverrideStep ==
    \A r \in Run :
        pc[r] = "cells" /\ Fresh(r) /\ pc'[r] = "idle" =>
            \A row \in ToSet(Slots(sheet)) :
                /\ row.value = NA
                /\ Count(Slots(seen[r].rows), row.key, Len(Slots(seen[r].rows))) = 1
                => \E new \in ToSet(Slots(sheet')) : new.key = row.key /\ new.value = NA
OverridesSurvive == [][OverrideStep]_vars

(* "NewDeletions are endpoints detected as removed on this run": a run     *)
(* that has deleted the rows of an endpoint reports it.                    *)
DeletionStep ==
    \A r \in Run :
        pc[r] = "cells" /\ pc'[r] = "idle" => Deletions(seen[r]) \subseteq result'[r].deletions
DeletionsReported == [][DeletionStep]_vars
=============================================================================
