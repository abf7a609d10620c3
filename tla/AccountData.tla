----------------------------- MODULE AccountData -----------------------------
(***************************************************************************)
(* The rows a user owns, while the account is exported and deleted         *)
(* (services/account) and the worker's transactions and the user's other   *)
(* requests go on.                                                         *)
(*                                                                         *)
(* rows is what is committed; soft-deleted rows are rows.  A deletion      *)
(* takes its locks row by row and deletes table by table; what it deleted  *)
(* goes for others when it commits.  An evaluation stands for its scores   *)
(* too.  A search finds one posting.                                       *)
(***************************************************************************)
EXTENDS Integers, Sequences

CONSTANTS
  Deletion, Export,  \* requests to delete and to export the account
  Upload,            \* requests that store a CV
  NewKey, NewSuggestion, NewSearch,  \* requests that insert one row
  Worker,            \* the worker's goroutines
  Search, CV,
  Scenarios,         \* which of all these take part in a behaviour
  NULL

Create == NewKey \cup NewSuggestion \cup NewSearch

ASSUME ScenariosAssumption ==
  Scenarios \subseteq SUBSET (Deletion \cup Export \cup Upload
                             \cup Create \cup Worker)

(* A request is not a goroutine of the worker.                             *)
ASSUME ActorsAssumption == Deletion \cap Worker = {}

VARIABLES
  here,      \* who takes part, chosen once
  rows,      \* committed rows of all tables
  deletion,  \* where each deletion is, what it still has to lock
  doomed,    \* rows the deletion that holds the user's row has deleted
  before,    \* rows that were there when one last locked it
             \* (for properties)
  lock,      \* who locks a row: a deletion, or workers
  worker,    \* what each worker is writing
  upload,    \* what each upload has stored
  creating,  \* the other requests that are about to insert
  export     \* what each export has read

vars ==
  <<here, rows, deletion, doomed, before, lock, worker, upload, creating,
    export>>

User == [table |-> "users"]
SearchRow(s) == [table |-> "job_searches", search |-> s]
ResultRow(s) == [table |-> "search_results", search |-> s]
EvaluationRow(s, c) == [table |-> "evaluations", search |-> s, cv |-> c]
CVRow(c) == [table |-> "cvs", cv |-> c]
SectionRow(c) == [table |-> "section_embeddings", cv |-> c]
KeyRow == [table |-> "keys"]
SuggestionRow == [table |-> "portal_suggestions"]

Searches == {SearchRow(s) : s \in Search}
Results == {ResultRow(s) : s \in Search}
Evaluations == {EvaluationRow(s, c) : s \in Search, c \in CV}
Lockable == {User} \cup Searches \cup Results
Rows == Lockable \cup Evaluations \cup {KeyRow, SuggestionRow}
          \cup {CVRow(c) : c \in CV} \cup {SectionRow(c) : c \in CV}

Of(tables) == {r \in Rows : r.table \in tables}

(* Children go before their parents.                                       *)
StatementsForgetting ==
  << {"evaluations"}, {"search_results"}, {"job_searches"},
     {"section_embeddings"}, {"cvs"}, {"keys"}, {} >>
Statements ==
  << {"evaluations"}, {"search_results"}, {"job_searches"},
     {"section_embeddings"}, {"cvs"}, {"keys"}, {"portal_suggestions"} >>

(* The export's queries, in order.                                         *)
Queries ==
  << {"users"}, {"cvs"}, {"section_embeddings"}, {"job_searches"},
     {"search_results"}, {"evaluations"}, {"keys"}, {"portal_suggestions"} >>

TypeOK ==
  /\ here \in Scenarios
  /\ rows \subseteq Rows
  /\ deletion \in [Deletion ->
       [at : {"idle", "confirmed", "searches", "results", "delete"},
        todo : SUBSET Lockable, done : 0..Len(Statements)]]
  /\ doomed \subseteq rows
  /\ before \subseteq Rows
  /\ lock \in [Lockable -> SUBSET (Deletion \cup Worker)]
  /\ worker \in [Worker ->
       [at : {"idle", "evaluating", "record", "insert"},
        search : Search \cup {NULL}, cv : CV \cup {NULL}]]
  /\ upload \in [Upload ->
       [at : {"idle", "extracting", "sections"}, cv : CV \cup {NULL}]]
  /\ creating \subseteq Create
  /\ export \in [Export ->
       [at : 0..Len(Queries), snapshot : SUBSET Rows, read : SUBSET Rows]]

IdleDeletion == [at |-> "idle", todo |-> {}, done |-> 0]
Locking(phase, r) == [at |-> phase, todo |-> r, done |-> 0]
IdleWorker == [at |-> "idle", search |-> NULL, cv |-> NULL]
IdleUpload == [at |-> "idle", cv |-> NULL]
IdleExport == [at |-> 0, snapshot |-> {}, read |-> {}]

Init ==
  /\ here \in Scenarios
  /\ \E saved \in SUBSET Searches, stored \in SUBSET {CVRow(c) : c \in CV} :
       rows = {User} \cup saved \cup stored
  /\ deletion = [d \in Deletion |-> IdleDeletion]
  /\ doomed = {}
  /\ before = {}
  /\ lock = [r \in Lockable |-> {}]
  /\ worker = [w \in Worker |-> IdleWorker]
  /\ upload = [u \in Upload |-> IdleUpload]
  /\ creating = {}
  /\ export = [x \in Export |-> IdleExport]

-----------------------------------------------------------------------------
(* DELETE /me: VerifyPassword, then one transaction.                       *)

others == <<here, worker, upload, creating, export>>

Unlocked(p) == [r \in Lockable |-> lock[r] \ {p}]

VerifyPassword(d) ==
  /\ d \in here /\ deletion[d].at = "idle"
  /\ User \in rows
  /\ deletion' = [deletion EXCEPT ![d].at = "confirmed"]
  /\ UNCHANGED <<rows, doomed, before, lock, others>>

UserNotLocked(d) == lock
UserLocked(d) == [lock EXCEPT ![User] = {d}]

LockUser(d) ==
  /\ deletion[d].at = "confirmed"
  /\ lock[User] = {}
  /\ IF User \in rows
     THEN /\ lock' = UserLocked(d)
          /\ deletion' = [deletion EXCEPT
               ![d] = Locking("searches", rows \cap Searches)]
          /\ before' = rows
     ELSE /\ deletion' = [deletion EXCEPT ![d] = IdleDeletion]
          /\ UNCHANGED <<lock, before>>
  /\ UNCHANGED <<rows, doomed, others>>

(* FOR UPDATE waits for whoever has locked the row, and takes no lock when *)
(* it is gone by then.                                                     *)
LockNext(d) ==
  \E r \in deletion[d].todo :
    /\ deletion[d].at # "delete" /\ lock[r] = {}
    /\ lock' = IF r \in rows THEN [lock EXCEPT ![r] = {d}] ELSE lock
    /\ deletion' = [deletion EXCEPT ![d].todo = @ \ {r}]
    /\ UNCHANGED <<rows, doomed, before, others>>

SearchesLocked(d) ==
  /\ deletion[d] = Locking("searches", {})
  /\ deletion' = [deletion EXCEPT
       ![d] = Locking("results", rows \cap Results)]
  /\ UNCHANGED <<rows, doomed, before, lock, others>>

ResultsLocked(d) ==
  /\ deletion[d] = Locking("results", {})
  /\ deletion' = [deletion EXCEPT ![d].at = "delete"]
  /\ UNCHANGED <<rows, doomed, before, lock, others>>

(* A statement sees what is committed and its own transaction's deletions. *)
OwnedEvaluations(seen) ==
  {EvaluationRow(s, c) : s \in {t \in Search : ResultRow(t) \in seen},
                         c \in CV}
  \cup {EvaluationRow(s, c) : s \in Search,
                              c \in {b \in CV : CVRow(b) \in seen}}

OwnedOf(tables, seen) ==
  seen \cap (IF tables = {"evaluations"} THEN OwnedEvaluations(seen)
             ELSE Of(tables))

Deletes(d, deleted) ==
  /\ doomed' = doomed \cup deleted
  /\ lock' = [r \in Lockable |-> IF r \in deleted THEN {d} ELSE lock[r]]

(* A row that somebody has locked is waited for.                           *)
DeleteNext(d) ==
  /\ deletion[d].at = "delete" /\ deletion[d].todo = {}
  /\ deletion[d].done < Len(Statements)
  /\ LET found == OwnedOf(Statements[deletion[d].done + 1], rows \ doomed)
         locked == {r \in found \cap Lockable : lock[r] \ {d} # {}}
     IN /\ Deletes(d, found \ locked)
        /\ deletion' = [deletion EXCEPT ![d].done = @ + 1,
                                        ![d].todo = locked]
  /\ UNCHANGED <<rows, before, others>>

DeleteWaited(d) ==
  \E r \in deletion[d].todo :
    /\ deletion[d].at = "delete" /\ lock[r] = {}
    /\ Deletes(d, {r} \cap rows)
    /\ deletion' = [deletion EXCEPT ![d].todo = @ \ {r}]
    /\ UNCHANGED <<rows, before, others>>

(* The last statement, on users, and the commit.                           *)
CommitDeletion(d) ==
  /\ deletion[d].at = "delete"
  /\ deletion[d].done = Len(Statements) /\ deletion[d].todo = {}
  /\ rows' = rows \ (doomed \cup {User})
  /\ doomed' = {}
  /\ lock' = Unlocked(d)
  /\ deletion' = [deletion EXCEPT ![d] = IdleDeletion]
  /\ UNCHANGED <<before, others>>

(* A statement fails: nothing is deleted, and the client is told so.       *)
RollBack(d) ==
  /\ deletion[d].at \notin {"idle", "confirmed"}
  /\ doomed' = {}
  /\ lock' = Unlocked(d)
  /\ deletion' = [deletion EXCEPT ![d] = IdleDeletion]
  /\ UNCHANGED <<rows, before, others>>

-----------------------------------------------------------------------------
(* The worker: a run that adds a result, an evaluation that is recorded.   *)

notWorker == <<here, deletion, doomed, before, upload, creating, export>>

ByDeletionIgnored(r) == FALSE
ByDeletion(r) == lock[r] \cap Deletion # {}

(* upsertSearchResult: a share lock, so workers do not exclude each other. *)
LockSearch(w, s) ==
  /\ w \in here /\ worker[w].at = "idle"
  /\ ~ByDeletion(SearchRow(s))
  /\ SearchRow(s) \in rows
  /\ lock' = [lock EXCEPT ![SearchRow(s)] = @ \cup {w}]
  /\ worker' = [worker EXCEPT
       ![w] = [at |-> "insert", search |-> s, cv |-> NULL]]
  /\ UNCHANGED <<rows, notWorker>>

InsertResult(w) ==
  /\ worker[w].at = "insert"
  /\ rows' = rows \cup {ResultRow(worker[w].search)}
  /\ lock' = Unlocked(w)
  /\ worker' = [worker EXCEPT ![w] = IdleWorker]
  /\ UNCHANGED notWorker

(* EvaluateOne: its result and CV are read long before it writes.          *)
SelectCV(w, s, c) ==
  /\ w \in here /\ worker[w].at = "idle"
  /\ {ResultRow(s), CVRow(c)} \subseteq rows
  /\ worker' = [worker EXCEPT
       ![w] = [at |-> "evaluating", search |-> s, cv |-> c]]
  /\ UNCHANGED <<rows, lock, notWorker>>

LockSearchResult(w) ==
  /\ worker[w].at = "evaluating"
  /\ LET r == ResultRow(worker[w].search)
     IN /\ lock[r] = {}
        /\ IF r \in rows
           THEN /\ lock' = [lock EXCEPT ![r] = {w}]
                /\ worker' = [worker EXCEPT ![w].at = "record"]
           ELSE /\ worker' = [worker EXCEPT ![w] = IdleWorker]
                /\ UNCHANGED lock
  /\ UNCHANGED <<rows, notWorker>>

SaveEvaluation(w) ==
  /\ worker[w].at = "record"
  /\ rows' = rows \cup {EvaluationRow(worker[w].search, worker[w].cv)}
  /\ lock' = Unlocked(w)
  /\ worker' = [worker EXCEPT ![w] = IdleWorker]
  /\ UNCHANGED notWorker

-----------------------------------------------------------------------------
(* Requests that were let in while the account was there.                  *)

notRequest == <<here, deletion, doomed, before, export>>

StartUpload(u) ==
  /\ u \in here /\ upload[u].at = "idle"
  /\ User \in rows
  /\ upload' = [upload EXCEPT ![u].at = "extracting"]
  /\ UNCHANGED <<rows, lock, worker, creating, notRequest>>

StoreCV(u, c) ==
  /\ upload[u].at = "extracting"
  /\ CVRow(c) \notin rows
  /\ rows' = rows \cup {CVRow(c)}
  /\ upload' = [upload EXCEPT ![u] = [at |-> "sections", cv |-> c]]
  /\ UNCHANGED <<lock, worker, creating, notRequest>>

StoreSections(u) ==
  /\ upload[u].at = "sections"
  /\ rows' = rows \cup {SectionRow(upload[u].cv)}
  /\ upload' = [upload EXCEPT ![u] = IdleUpload]
  /\ UNCHANGED <<lock, worker, creating, notRequest>>

(* Extraction or an embedding fails, before or after the CV is stored.     *)
UploadFails(u) ==
  /\ upload[u].at # "idle"
  /\ upload' = [upload EXCEPT ![u] = IdleUpload]
  /\ UNCHANGED <<rows, lock, worker, creating, notRequest>>

Start(q) ==
  /\ q \in here \ creating
  /\ User \in rows
  /\ creating' = creating \cup {q}
  /\ UNCHANGED <<rows, lock, worker, upload, notRequest>>

Insert(q, r) ==
  /\ q \in creating
  /\ rows' = rows \cup {r}
  /\ creating' = creating \ {q}
  /\ UNCHANGED <<lock, worker, upload, notRequest>>

StartKey(q) == q \in NewKey /\ Start(q)
InsertKey(q) == q \in NewKey /\ Insert(q, KeyRow)
StartSuggestion(q) == q \in NewSuggestion /\ Start(q)
InsertSuggestion(q) == q \in NewSuggestion /\ Insert(q, SuggestionRow)

(* A new id: nothing refers to it.                                         *)
InUse(s) ==
  \/ \E r \in rows \cup before \cup UNION {export[x].snapshot : x \in Export} :
       r \in Searches \cup Results \cup Evaluations /\ r.search = s
  \/ \E w \in Worker : worker[w].search = s

StartSearch(q) == q \in NewSearch /\ Start(q)
InsertSearch(q) ==
  /\ q \in NewSearch
  /\ \E s \in Search : ~InUse(s) /\ Insert(q, SearchRow(s))

-----------------------------------------------------------------------------
(* GET /me/export: one query after the other, on one snapshot.             *)

notExport ==
  <<here, rows, deletion, doomed, before, lock, worker, upload, creating>>

CurrentView(x) == rows
View(x) == export[x].snapshot

StartExport(x) ==
  /\ x \in here /\ export[x].at = 0
  /\ User \in rows
  /\ export' = [export EXCEPT
       ![x] = [at |-> 1, snapshot |-> rows, read |-> {User}]]
  /\ UNCHANGED notExport

Query(x) ==
  /\ export[x].at \in 1..Len(Queries) - 1
  /\ export' = [export EXCEPT
       ![x].at = @ + 1,
       ![x].read = @ \cup (View(x) \cap Of(Queries[export[x].at + 1]))]
  /\ UNCHANGED notExport

SendExport(x) ==
  /\ export[x].at = Len(Queries)
  /\ export' = [export EXCEPT ![x] = IdleExport]
  /\ UNCHANGED notExport

-----------------------------------------------------------------------------
Delete(d) ==
  \/ LockUser(d) \/ LockNext(d) \/ SearchesLocked(d) \/ ResultsLocked(d)
  \/ DeleteNext(d) \/ DeleteWaited(d) \/ CommitDeletion(d)

Record(w) == InsertResult(w) \/ LockSearchResult(w) \/ SaveEvaluation(w)

Next ==
  \/ \E d \in Deletion : VerifyPassword(d) \/ Delete(d) \/ RollBack(d)
  \/ \E w \in Worker :
       \/ \E s \in Search : LockSearch(w, s) \/ \E c \in CV : SelectCV(w, s, c)
       \/ Record(w)
  \/ \E u \in Upload :
       \/ StartUpload(u) \/ StoreSections(u) \/ UploadFails(u)
       \/ \E c \in CV : StoreCV(u, c)
  \/ \E q \in Create :
       \/ StartKey(q) \/ StartSuggestion(q) \/ StartSearch(q)
       \/ InsertKey(q) \/ InsertSuggestion(q) \/ InsertSearch(q)
  \/ \E x \in Export : StartExport(x) \/ Query(x) \/ SendExport(x)

Spec == Init /\ [][Next]_vars

(* A transaction that is open goes on, and Postgres grants a row's lock in *)
(* the order it was asked for, so a deletion that keeps finding a row      *)
(* locked gets it.                                                         *)
Fairness ==
  /\ \A d \in Deletion : SF_vars(Delete(d))
  /\ \A w \in Worker : WF_vars(InsertResult(w) \/ SaveEvaluation(w))

FairSpec == Spec /\ Fairness

-----------------------------------------------------------------------------
(* Properties.                                                             *)

Owned(tables) == rows \cap Of(tables)

(* However a deletion and the worker interleave, a result or an evaluation *)
(* that outlives the account belongs to a search that was saved too late   *)
(* for the deletion to see it: of all others the worker cannot resurrect   *)
(* anything (account.go:50-56, store.go:128-134).                          *)
WorkersLeaveNothing ==
  User \notin rows =>
    \A r \in Owned({"search_results", "evaluations"}) :
      SearchRow(r.search) \notin before

(* The deletion that is about to commit has deleted everything that was    *)
(* there when it locked the user's row, whatever has been stored and       *)
(* recorded since; what it leaves came later (account.go:42-48).           *)
WhatWasThereGoes ==
  \A d \in Deletion :
    deletion[d].done = Len(Statements) /\ deletion[d].todo = {}
      => before \ {User} \subseteq doomed

(* An export is the account at one moment: what it refers to is in it, the *)
(* CV and the result of an evaluation and the CV of a section, although    *)
(* CVs are read first (export.go:149-166).                                 *)
ExportIsWhole ==
  \A x \in Export :
    \A r \in export[x].read :
      /\ r.table = "evaluations" =>
           {CVRow(r.cv), ResultRow(r.search)} \subseteq export[x].read
      /\ r.table = "section_embeddings" => CVRow(r.cv) \in export[x].read

(* A deletion that has been confirmed ends, whoever else deletes the same  *)
(* account or locks its rows: nobody waits in a circle (account.go:61-81). *)
DeletionEnds ==
  \A d \in Deletion :
    deletion[d].at = "confirmed" ~> deletion[d].at = "idle"

(* Nothing the deletion could see survives it, whoever wrote it            *)
(* (account.go:42-81).                                                     *)
AccountInv == TypeOK /\ WorkersLeaveNothing /\ WhatWasThereGoes
=============================================================================
