----------------------------- MODULE Pagination -----------------------------
(***************************************************************************)
(* iterate_items and iterate_items_with_condition (pqxx.hpp): the rows of a *)
(* table are counted once and read page by page with the statements of      *)
(* select_page (sql.hpp), each in a snapshot of its own, while other        *)
(* sessions insert, delete and update rows.  The database is PostgreSQL as  *)
(* seen by these statements.  They have no "order by", so the order of what *)
(* they return is nobody's promise: it may differ from one statement to the *)
(* next though no row has changed (Reorder).  Where it does not, rows come  *)
(* in the order of the places they are stored at, and an insert or an       *)
(* update puts its row at any place that is free, before or behind others.  *)
(***************************************************************************)
EXTENDS Naturals, FiniteSets

CONSTANTS Rows,        (* all rows there may be                           *)
          Matching,    (* those the condition holds for                   *)
          Places,      (* the number of places                            *)
          PerPage,     (* the page sizes that are tried                   *)
          MaxChanges   (* bound on what other sessions do                 *)

ASSUME PaginationAssumption == /\ IsFiniteSet(Rows) /\ Matching \subseteq Rows
                               /\ PerPage \subseteq Nat /\ {Places, MaxChanges} \subseteq Nat

VARIABLES stored,      (* stored[r]: the place of r, 0 if it has none     *)
          conditional, (* which of the two functions runs                 *)
          perpage, count, page,
          handled,     (* handled[r]: how often r was given to the handler *)
          calls,       (* how often the handler was called                *)
          pc,
          before,      (* the rows there were when they were counted      *)
          inserted, moved, (* history: what was inserted since, and what  *)
                           (* was deleted or updated                      *)
          changes,     (* how many changes that were                      *)
          reordered    (* history: whether the order has changed by itself *)

tableVars == <<stored, inserted, moved, changes, reordered>>
loopVars == <<conditional, perpage, count, page, handled, calls, pc, before>>
iterVars == <<tableVars, loopVars>>

Table == {r \in Rows : stored[r] # 0}

Distinct(s) == \A q, r \in Rows : s[q] = s[r] /\ s[q] # 0 => q = r

(* Whatever the other sessions have done before the rows are counted. *)
IterInit == /\ stored \in {s \in [Rows -> 0..Places] : Distinct(s)}
            /\ conditional \in BOOLEAN /\ perpage \in PerPage
            /\ count = 0 /\ page = 0 /\ pc = "count"
            /\ handled = [r \in Rows |-> 0] /\ calls = 0
            /\ before = {} /\ inserted = {} /\ moved = {} /\ changes = 0 /\ reordered = FALSE

(* count_rows has no condition in either function. *)
CountRows == /\ pc = "count" /\ pc' = "pages"
             /\ count' = Cardinality(Table) /\ before' = Table
             /\ UNCHANGED <<tableVars, conditional, perpage, page, handled, calls>>

(* What a statement selects, and the number of a row in its result. *)
Asked(rows) == IF conditional THEN rows \cap Matching ELSE rows
Selected == Asked(Table)
UpTo(r) == {q \in Selected : stored[q] <= stored[r]}
Number(r) == Cardinality(UpTo(r))

(* Mutant: the offset is that of the row, not of the page. *)
PageByRow == {r \in Selected : Number(r) \in page + 1 .. page + perpage}

(* limit and offset of select_page. *)
Page == {r \in Selected : Number(r) \in page * perpage + 1 .. page * perpage + perpage}

(* With no rows to a page the condition of the loop holds for ever; the     *)
(* model leaves page alone then, of which nothing depends.                  *)
ReadPage == /\ pc = "pages" /\ page * perpage < count
            /\ handled' = [r \in Rows |-> IF r \in Page THEN handled[r] + 1 ELSE handled[r]]
            /\ calls' = calls + Cardinality(Page)
            /\ page' = IF perpage = 0 THEN page ELSE page + 1
            /\ UNCHANGED <<tableVars, conditional, perpage, count, pc, before>>

Finish == /\ pc = "pages" /\ ~(page * perpage < count) /\ pc' = "done"
          /\ UNCHANGED <<tableVars, conditional, perpage, count, page, handled, calls, before>>

Iterate == CountRows \/ ReadPage \/ Finish

Change == /\ pc = "pages" /\ changes < MaxChanges /\ changes' = changes + 1
          /\ UNCHANGED <<loopVars, reordered>>

Put(r) == \E n \in 1..Places : /\ \A q \in Rows : stored[q] # n
                               /\ stored' = [stored EXCEPT ![r] = n]

Insert(r) == /\ Change /\ r \notin Table /\ Put(r)
             /\ inserted' = inserted \cup {r} /\ UNCHANGED moved
Delete(r) == /\ Change /\ r \in Table /\ stored' = [stored EXCEPT ![r] = 0]
             /\ moved' = moved \cup {r} /\ UNCHANGED inserted
Update(r) == /\ Change /\ r \in Table /\ Put(r)
             /\ moved' = moved \cup {r} /\ UNCHANGED inserted

(* The same rows in another order, as after a scan that started where       *)
(* another one was, or once the table was rewritten.                        *)
Reorder == /\ pc = "pages" /\ reordered' = TRUE
           /\ \E s \in [Table -> 1..Places] :
                 stored' = [r \in Rows |-> IF r \in Table THEN s[r] ELSE 0]
           /\ Distinct(stored')
           /\ UNCHANGED <<loopVars, inserted, moved, changes>>

IterNext == \/ Iterate
            \/ \E r \in Rows : Insert(r) \/ Delete(r) \/ Update(r)
            \/ Reorder

IterSpec == IterInit /\ [][IterNext]_iterVars
-----------------------------------------------------------------------------
IterTypeOK == /\ stored \in [Rows -> 0..Places]
              /\ conditional \in BOOLEAN /\ perpage \in PerPage
              /\ count \in Nat /\ page \in Nat /\ handled \in [Rows -> Nat] /\ calls \in Nat
              /\ pc \in {"count", "pages", "done"}
              /\ before \subseteq Rows /\ inserted \subseteq Rows /\ moved \subseteq Rows
              /\ changes \in 0..MaxChanges /\ reordered \in BOOLEAN

(* The rows there were and still are, as they were, that should be handled. *)
Untouched == Asked(before \ moved)
Missed == {r \in Untouched : handled[r] = 0}
Repeated == {r \in Untouched : handled[r] > 1}

(* What the pages of a table that changes add up to.  Only rows the         *)
(* condition holds for are handled.  The handler is called no more often    *)
(* than there were rows, those inserted meanwhile included, and in the end  *)
(* as often as there are rows left untouched at least, whatever their       *)
(* order: a row is missed only if another call was made for a row that was  *)
(* handled before, or that other sessions have touched.  While the order    *)
(* stays, each change makes one row that nobody touched be missed, and one  *)
(* be handled again, at most: none of them if nothing was changed.          *)
PagesCoverTheTable ==
  /\ \A r \in Rows : handled[r] > 0 => r \in Asked(Rows)
  /\ calls <= Cardinality(Asked(before \cup inserted))
  /\ pc = "done" => Cardinality(Untouched) <= calls
  /\ ~reordered => Cardinality(Repeated) <= changes
  /\ ~reordered /\ pc = "done" => Cardinality(Missed) <= changes
=============================================================================
