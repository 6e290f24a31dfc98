------------------------------ MODULE Privacy ------------------------------
(***************************************************************************)
(* GDPR export and erasure of one student (privacy/gdpr.py) beside the     *)
(* turns and the memory consolidations of that student.  An export reads   *)
(* seven tables one after the other, an erasure deletes from five stores   *)
(* one after the other, and turns and consolidations write in between.  A  *)
(* table is the set of the writers whose contribution it shows: in a table *)
(* of rows a writer gets the row and later saves what it got with its own  *)
(* part; in the others a turn adds a record.  Each get, save, add, delete  *)
(* and listing is one statement.                                           *)
(***************************************************************************)
EXTENDS Integers, Sequences

CONSTANTS
  Turns,       \* the student's turns
  Jobs,        \* runs of the consolidation job for the student
  Works,       \* what turns may write to (all of TurnWork, or fewer)
  MaxErasures  \* bound: erasures begun

Writers == Turns \cup Jobs

\* Tables with a row per topic, misconception or project, of which one row is
\* kept: the writers share it.
RowTables == {"mastery", "misconceptions", "review_state", "ia_project_state"}
AddTables == {"disclosure_log", "review_queue", "response_log"}
Tables == RowTables \cup AddTables

\* mastery is written only with a topic, which is then reviewed, and not on a
\* LOW confidence grading, which is then queued.
GradedWork ==
  {w \in SUBSET (Tables \ {"ia_project_state", "disclosure_log"}) :
     "mastery" \in w => "review_state" \in w /\ "review_queue" \notin w}

\* The Tutor's answer is queued if its critic was degraded.
TutoredWork == {{}, {"review_queue"}}

\* An ia_ee_help turn; a refused one ends with its disclosure.
ProjectWork ==
  {{"ia_project_state", "disclosure_log"} \cup w : w \in TutoredWork}

TurnWork == GradedWork \cup TutoredWork \cup ProjectWork

\* run_memory_consolidation rewrites rows of both tables of the memory store.
JobWork == {"misconceptions", "mastery"}

WorksOf(t) == IF t \in Jobs THEN {JobWork} ELSE Works

ASSUME PrivacyConstants ==
  /\ Turns \cap Jobs = {}
  /\ Works \subseteq TurnWork
  /\ MaxErasures \in Nat

\* The listings of export_student_data in their order.
ExportOrder ==
  <<"mastery", "misconceptions", "review_state", "ia_project_state",
    "disclosure_log", "review_queue", "response_log">>

\* Mutant: the memory store forgets its second table.
EraseOrderMasteryOnly ==
  <<{"mastery"}, {"review_state"}, {"ia_project_state"}, {"review_queue"},
    {"response_log"}>>

\* The deletes of erase_student_data in their order; the memory store deletes
\* from both of its tables in one transaction.
EraseOrder ==
  <<{"mastery", "misconceptions"}, {"review_state"}, {"ia_project_state"},
    {"review_queue"}, {"response_log"}>>

VARIABLES
  content,    \* table -> writers whose contribution it shows
  writer,     \* what each turn and each run of the job is at
  export,     \* the next listing, 0 before the first and 8 after the last;
              \* the rows listed; history: what was due, was it overlapped
  eraser,     \* the next delete, 0 if no erasure is under way; history:
              \* the writers that had ended when it began
  erasures,
  forgotten,  \* history: writers that ended before a completed erasure began
  crossed,    \* history: writers under way while an erasure was
  touched     \* history: writers begun before an erasure began or ended

vars == <<content, writer, export, eraser, erasures, forgotten, crossed,
          touched>>
histories == <<forgotten, crossed, touched>>

Unborn == [fate |-> "unborn", todo |-> {}, reading |-> {}, wrote |-> {},
           seen |-> [b \in RowTables |-> {}]]

Init ==
  /\ content = [b \in Tables |-> {}]
  /\ writer = [t \in Writers |-> Unborn]
  /\ export = [next |-> 0, rows |-> [b \in Tables |-> {}],
               owed |-> [b \in Tables |-> {}], overlapped |-> FALSE]
  /\ eraser = [next |-> 0, ended |-> {}]
  /\ erasures = 0
  /\ forgotten = {} /\ crossed = {} /\ touched = {}

Running(t) == writer[t].fate = "running"
Ended(t) == writer[t].fate \in {"delivered", "ended"}

-----------------------------------------------------------------------------
\* handle_turn and run_memory_consolidation, as far as they write about the
\* student.
Begin(t) ==
  /\ writer[t].fate = "unborn"
  /\ \E w \in WorksOf(t) :
       writer' = [writer EXCEPT ![t].fate = "running", ![t].todo = w]
  /\ IF eraser.next > 0
     THEN crossed' = crossed \cup {t} /\ touched' = touched \cup {t}
     ELSE UNCHANGED <<crossed, touched>>
  /\ UNCHANGED <<content, export, eraser, erasures, forgotten>>

\* The post-grading stages run side by side; the project is saved before the
\* entry is added, and that before the Tutor is asked; the job is done with
\* the misconceptions before it lists the mastery rows.
Due(t, b) ==
  /\ Running(t)
  /\ b \in writer[t].todo
  /\ b \in AddTables => "ia_project_state" \notin writer[t].todo
  /\ b = "review_queue" => "disclosure_log" \notin writer[t].todo
  /\ t \in Jobs /\ b = "mastery" => "misconceptions" \notin writer[t].todo

Get(t, b) ==
  /\ Due(t, b) /\ b \in RowTables \ writer[t].reading
  /\ writer' = [writer EXCEPT ![t].reading = @ \cup {b},
                          ![t].seen[b] = content[b]]
  /\ UNCHANGED <<content, export, eraser, erasures, histories>>

Wrote(t, b) ==
  [writer EXCEPT ![t].todo = @ \ {b}, ![t].reading = @ \ {b},
               ![t].wrote = @ \cup {b},
               ![t].seen = [c \in RowTables |-> IF c = b THEN {} ELSE @[c]]]

\* INSERT ... ON CONFLICT DO UPDATE: the row is there again if it was deleted.
\* The job saves rows that it has listed, and makes none.
Put(t, b) ==
  /\ Due(t, b) /\ b \in writer[t].reading
  /\ t \in Jobs => writer[t].seen[b] # {}
  /\ content' = [content EXCEPT ![b] = writer[t].seen[b] \cup {t}]
  /\ writer' = Wrote(t, b)
  /\ UNCHANGED <<export, eraser, erasures, histories>>

\* Mutant: a record takes the place of those before it.
AddOverwriting(t, b) ==
  /\ Due(t, b) /\ b \in AddTables
  /\ content' = [content EXCEPT ![b] = {t}]
  /\ writer' = Wrote(t, b)
  /\ UNCHANGED <<export, eraser, erasures, histories>>

Add(t, b) ==
  /\ Due(t, b) /\ b \in AddTables
  /\ content' = [content EXCEPT ![b] = @ \cup {t}]
  /\ writer' = Wrote(t, b)
  /\ UNCHANGED <<export, eraser, erasures, histories>>

\* A post-grading stage raises and run_plan goes on without its write; or the
\* job finds nothing to change in what it has listed.
Skip(t, b) ==
  /\ Due(t, b)
  /\ t \in Jobs => b \in writer[t].reading
  /\ writer[t].todo \cap {"ia_project_state", "disclosure_log"} = {}
  /\ writer' = [writer EXCEPT
                ![t].todo = @ \ {b}, ![t].reading = @ \ {b},
                ![t].seen = [c \in RowTables |-> IF c = b THEN {} ELSE @[c]]]
  /\ UNCHANGED <<content, export, eraser, erasures, histories>>

\* The answer of a turn that has done its work; or the end of the job, or a
\* failure or restart that ends a turn or the job where it is.
End(t) ==
  /\ Running(t)
  /\ \/ writer' = [writer EXCEPT ![t] = [Unborn EXCEPT !.fate = "ended"]]
     \/ /\ t \in Turns /\ writer[t].todo = {}
        /\ writer' = [writer EXCEPT ![t] = [Unborn EXCEPT !.fate = "delivered",
                                                !.wrote = writer[t].wrote]]
  /\ UNCHANGED <<content, export, eraser, erasures, histories>>

-----------------------------------------------------------------------------
\* All but the log of AI use, which a school may have to keep.
Erasable == Tables \ {"disclosure_log"}

\* What a delivered turn wrote that no erasure was asked to delete.
Owed(b) ==
  {t \in Turns : /\ writer[t].fate = "delivered" /\ b \in writer[t].wrote
                 /\ b \in Erasable => t \notin touched}

\* export_student_data is called.
BeginExport ==
  /\ export.next = 0
  /\ export' = [export EXCEPT !.next = 1,
                              !.owed = [b \in Tables |-> Owed(b)]]
  /\ UNCHANGED <<content, writer, eraser, erasures, histories>>

List ==
  /\ export.next \in DOMAIN ExportOrder
  /\ LET b == ExportOrder[export.next]
     IN export' = [export EXCEPT !.next = @ + 1, !.rows[b] = content[b]]
  /\ UNCHANGED <<content, writer, eraser, erasures, histories>>

\* erase_student_data is called.
BeginErase ==
  /\ eraser.next = 0 /\ erasures < MaxErasures
  /\ eraser' = [next |-> 1, ended |-> {t \in Writers : Ended(t)}]
  /\ erasures' = erasures + 1
  /\ export' = [export EXCEPT !.overlapped = @ \/ export.next > 0]
  /\ crossed' = crossed \cup {t \in Writers : Running(t)}
  /\ touched' = touched \cup {t \in Writers : writer[t].fate # "unborn"}
  /\ UNCHANGED <<content, writer, forgotten>>

\* The next delete; after the last one the report is returned.
Delete ==
  /\ eraser.next \in DOMAIN EraseOrder
  /\ content' = [b \in Tables |-> IF b \in EraseOrder[eraser.next]
                                  THEN {} ELSE content[b]]
  /\ IF eraser.next = Len(EraseOrder)
     THEN /\ forgotten' = forgotten \cup eraser.ended
          /\ eraser' = [next |-> 0, ended |-> {}]
     ELSE /\ eraser' = [eraser EXCEPT !.next = @ + 1]
          /\ UNCHANGED forgotten
  /\ UNCHANGED <<writer, export, erasures, crossed, touched>>

\* A delete raises or the process restarts: the deletes done stay done.
AbandonErasure ==
  /\ eraser.next > 0
  /\ eraser' = [next |-> 0, ended |-> {}]
  /\ UNCHANGED <<content, writer, export, erasures, histories>>

Next ==
  \/ \E t \in Writers :
       \/ Begin(t)
       \/ End(t)
       \/ \E b \in RowTables : Get(t, b) \/ Put(t, b)
       \/ \E b \in AddTables : Add(t, b)
       \/ \E b \in Tables : Skip(t, b)
  \/ BeginExport
  \/ List
  \/ BeginErase
  \/ Delete
  \/ AbandonErasure

Spec == Init /\ [][Next]_vars

-----------------------------------------------------------------------------
WriterRecord ==
  [fate : {"unborn", "running", "delivered", "ended"}, todo : SUBSET Tables,
   reading : SUBSET RowTables, wrote : SUBSET Tables,
   seen : [RowTables -> SUBSET Writers]]

TypeOK ==
  /\ content \in [Tables -> SUBSET Writers]
  /\ writer \in [Writers -> WriterRecord]
  /\ export \in [next : 0 .. Len(ExportOrder) + 1, overlapped : BOOLEAN,
                 rows : [Tables -> SUBSET Writers],
                 owed : [Tables -> SUBSET Writers]]
  /\ eraser \in [next : 0 .. Len(EraseOrder), ended : SUBSET Writers]
  /\ erasures \in 0..MaxErasures
  /\ forgotten \in SUBSET Writers
  /\ crossed \in SUBSET Writers
  /\ touched \in SUBSET Writers

(***************************************************************************)
(* An erased student stays erased: what turns had written that had ended   *)
(* when a completed erasure began never shows again, unless through a row  *)
(* that a turn or a consolidation overlapping an erasure had read and      *)
(* saved; never in a table of records, and never by those alone that began *)
(* after the erasure (erase_student_data beside the read-modify-writes of  *)
(* handle_turn and of run_memory_consolidation).                           *)
(***************************************************************************)
ErasedReturnsOnlyByOverlap ==
  \A b \in Erasable :
    content[b] \cap forgotten # {} =>
      b \in RowTables /\ content[b] \cap crossed # {}

(***************************************************************************)
(* An export is no snapshot, but it is complete: of every turn answered    *)
(* before it was asked for and never subject to an erasure it has every    *)
(* record, and the row of every table of rows the turn wrote to, however   *)
(* many turns write while the tables are listed; and its disclosures are   *)
(* complete whatever was erased, also while it ran (export_student_data).  *)
(***************************************************************************)
ExportShowsDelivered ==
  export.next = Len(ExportOrder) + 1 =>
    \A b \in Tables :
      (b \in Erasable => ~export.overlapped) =>
        IF b \in AddTables THEN export.owed[b] \subseteq export.rows[b]
        ELSE export.owed[b] # {} => export.rows[b] # {}
=============================================================================
