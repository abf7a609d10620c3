------------------------- MODULE AccountData_proofs -------------------------
(***************************************************************************)
(* Proofs about AccountData: nothing that was in the account when its      *)
(* deletion locked the user's row outlives the deletion, whatever the      *)
(* worker records meanwhile, and an export refers to nothing it lacks.     *)
(***************************************************************************)
EXTENDS AccountData, TLAPS

-----------------------------------------------------------------------------
(* The inductive invariant.                                                *)

Holding(d) == deletion[d].at \in {"searches", "results", "delete"}

(* What a row refers to is there.                                          *)
Closed(S) ==
  /\ \A s \in Search : ResultRow(s) \in S => SearchRow(s) \in S
  /\ \A s \in Search, c \in CV :
       EvaluationRow(s, c) \in S => ResultRow(s) \in S /\ CVRow(c) \in S
  /\ \A c \in CV : SectionRow(c) \in S => CVRow(c) \in S

(* What an actor that is about to write is writing.                        *)
WritesKnown ==
  /\ \A w \in Worker :
       /\ worker[w].at # "idle" => worker[w].search \in Search
       /\ worker[w].at \in {"evaluating", "record"} => worker[w].cv \in CV
  /\ \A u \in Upload : upload[u].at = "sections" => upload[u].cv \in CV

(* A deletion that holds the user's row is alone, and the rows it found    *)
(* stay until it commits.                                                  *)
OneHolds ==
  /\ \A d \in Deletion :
       /\ Holding(d) => /\ lock[User] = {d}
                        /\ User \in before
                        /\ before \subseteq rows
       /\ ~Holding(d) => deletion[d].todo = {}
       /\ deletion[d].at # "delete" => deletion[d].done = 0
       /\ deletion[d].at = "delete" /\ deletion[d].done = 0 =>
            deletion[d].todo = {}
  /\ doomed # {} => \E d \in Deletion : deletion[d].done >= 1

(* A worker that is about to insert has its row locked.                    *)
WorkersLock ==
  \A w \in Worker :
    /\ worker[w].at = "insert" => w \in lock[SearchRow(worker[w].search)]
    /\ worker[w].at = "record" => w \in lock[ResultRow(worker[w].search)]

(* Until the account goes rows only grow, so what refers is closed.        *)
NothingDangles ==
  /\ User \in rows =>
       /\ Closed(rows)
       /\ \A w \in Worker :
            /\ worker[w].at = "insert" => SearchRow(worker[w].search) \in rows
            /\ worker[w].at \in {"evaluating", "record"} =>
                 /\ ResultRow(worker[w].search) \in rows
                 /\ CVRow(worker[w].cv) \in rows
       /\ \A u \in Upload :
            upload[u].at = "sections" => CVRow(upload[u].cv) \in rows
  /\ Closed(before)

(* The searches that were there, and then their results, are locked, so    *)
(* no worker can add to them any more.                                     *)
SearchesHeld(d) ==
  \A s \in Search :
    /\ SearchRow(s) \in before
    /\ deletion[d].at = "searches" => SearchRow(s) \notin deletion[d].todo
    => lock[SearchRow(s)] = {d}

ResultsHeld(d) ==
  deletion[d].at \in {"results", "delete"} =>
    \A s \in Search :
      /\ SearchRow(s) \in before /\ ResultRow(s) \in rows
      /\ deletion[d].at = "results" => ResultRow(s) \notin deletion[d].todo
      => lock[ResultRow(s)] = {d}

(* What each of the statements so far has left.                            *)
Progress(d) ==
  LET done == deletion[d].done
      gone == doomed \cup deletion[d].todo
  IN /\ done >= 1 => \A s \in Search, c \in CV :
          SearchRow(s) \in before /\ EvaluationRow(s, c) \in rows
            => EvaluationRow(s, c) \in gone
     /\ done >= 2 => \A s \in Search :
          SearchRow(s) \in before /\ ResultRow(s) \in rows
            => ResultRow(s) \in gone
     /\ done >= 3 => before \cap Searches \subseteq gone
     /\ done >= 4 => before \cap {SectionRow(c) : c \in CV} \subseteq gone
     /\ done >= 5 => before \cap {CVRow(c) : c \in CV} \subseteq gone
     /\ done >= 6 => before \cap {KeyRow} \subseteq gone
     /\ done >= 7 => before \cap {SuggestionRow} \subseteq gone

Deleting ==
  \A d \in Deletion :
    Holding(d) => SearchesHeld(d) /\ ResultsHeld(d) /\ Progress(d)

(* Once the account is gone, a search that was there is gone with all that *)
(* hangs on it, and no worker is writing to it.                            *)
Gone ==
  User \notin rows =>
    \A s \in Search : SearchRow(s) \in before =>
      /\ SearchRow(s) \notin rows /\ ResultRow(s) \notin rows
      /\ \A c \in CV : EvaluationRow(s, c) \notin rows
      /\ \A w \in Worker :
           worker[w].at \in {"insert", "record"} => worker[w].search # s

(* An export reads table by table from a snapshot that was closed.         *)
ExportsRead ==
  \A x \in Export :
    LET e == export[x]
    IN /\ Closed(e.snapshot)
       /\ e.read \subseteq e.snapshot
       /\ e.at >= 2 => e.snapshot \cap {CVRow(c) : c \in CV} \subseteq e.read
       /\ e.at >= 5 => e.snapshot \cap Results \subseteq e.read
       /\ e.at < 3 => e.read \cap {SectionRow(c) : c \in CV} = {}
       /\ e.at < 6 => e.read \cap Evaluations = {}

IInv ==
  /\ TypeOK /\ WritesKnown /\ OneHolds /\ WorkersLock /\ NothingDangles
  /\ Deleting /\ Gone /\ ExportsRead

-----------------------------------------------------------------------------
(* Rows, and the tables they are in.                                       *)

LEMMA RowFields ==
  /\ User.table = "users"
  /\ KeyRow.table = "keys"
  /\ SuggestionRow.table = "portal_suggestions"
  /\ \A s : /\ SearchRow(s).table = "job_searches"
            /\ SearchRow(s).search = s
            /\ ResultRow(s).table = "search_results"
            /\ ResultRow(s).search = s
  /\ \A s, c : /\ EvaluationRow(s, c).table = "evaluations"
               /\ EvaluationRow(s, c).search = s
               /\ EvaluationRow(s, c).cv = c
  /\ \A c : /\ CVRow(c).table = "cvs"
            /\ CVRow(c).cv = c
            /\ SectionRow(c).table = "section_embeddings"
            /\ SectionRow(c).cv = c
BY DEF User, KeyRow, SuggestionRow, SearchRow, ResultRow, EvaluationRow,
       CVRow, SectionRow

LEMMA RowsOf ==
  /\ Of({"users"}) = {User}
  /\ Of({"job_searches"}) = Searches
  /\ Of({"search_results"}) = Results
  /\ Of({"evaluations"}) = Evaluations
  /\ Of({"cvs"}) = {CVRow(c) : c \in CV}
  /\ Of({"section_embeddings"}) = {SectionRow(c) : c \in CV}
  /\ Of({"keys"}) = {KeyRow}
  /\ Of({"portal_suggestions"}) = {SuggestionRow}
<1> USE RowFields
<1> USE DEF Of, Rows, Lockable, Searches, Results, Evaluations
<1>1. Of({"users"}) = {User}
  OBVIOUS
<1>2. Of({"job_searches"}) = Searches
  OBVIOUS
<1>3. Of({"search_results"}) = Results
  OBVIOUS
<1>4. Of({"evaluations"}) = Evaluations
  OBVIOUS
<1>5. Of({"cvs"}) = {CVRow(c) : c \in CV}
  OBVIOUS
<1>6. Of({"section_embeddings"}) = {SectionRow(c) : c \in CV}
  OBVIOUS
<1>7. Of({"keys"}) = {KeyRow}
  OBVIOUS
<1>8. Of({"portal_suggestions"}) = {SuggestionRow}
  OBVIOUS
<1> QED BY <1>1, <1>2, <1>3, <1>4, <1>5, <1>6, <1>7, <1>8

LEMMA RowTypes ==
  /\ User \in Lockable
  /\ Searches \subseteq Lockable /\ Results \subseteq Lockable
  /\ Lockable \subseteq Rows /\ Evaluations \subseteq Rows
  /\ KeyRow \in Rows /\ SuggestionRow \in Rows
  /\ \A s \in Search : SearchRow(s) \in Searches /\ ResultRow(s) \in Results
  /\ \A s \in Search, c \in CV : EvaluationRow(s, c) \in Evaluations
  /\ \A c \in CV : CVRow(c) \in Rows /\ SectionRow(c) \in Rows
BY DEF Lockable, Rows, Searches, Results, Evaluations

LEMMA StatementFacts ==
  /\ Len(Statements) = 7
  /\ Statements[1] = {"evaluations"} /\ Statements[2] = {"search_results"}
  /\ Statements[3] = {"job_searches"}
  /\ Statements[4] = {"section_embeddings"}
  /\ Statements[5] = {"cvs"} /\ Statements[6] = {"keys"}
  /\ Statements[7] = {"portal_suggestions"}
BY DEF Statements

LEMMA QueryFacts ==
  /\ Len(Queries) = 8
  /\ Queries[2] = {"cvs"} /\ Queries[3] = {"section_embeddings"}
  /\ Queries[4] = {"job_searches"} /\ Queries[5] = {"search_results"}
  /\ Queries[6] = {"evaluations"} /\ Queries[7] = {"keys"}
  /\ Queries[8] = {"portal_suggestions"}
BY DEF Queries

(* What the deletion that holds the user's row keeps from the workers.     *)
LEMMA HeldFromWorkers ==
  ASSUME IInv, NEW d \in Deletion, NEW w \in Worker, Holding(d)
  PROVE  /\ User \in rows
         /\ \A e \in Deletion : Holding(e) => e = d
         /\ /\ worker[w].at = "insert" /\ deletion[d].at # "searches"
            => SearchRow(worker[w].search) \notin before
         /\ /\ worker[w].at = "record" /\ deletion[d].at = "delete"
            => SearchRow(worker[w].search) \notin before
<1>1. User \in rows /\ \A e \in Deletion : Holding(e) => e = d
  BY DEF IInv, OneHolds
<1>2. d # w
  BY ActorsAssumption
<1>3. SearchesHeld(d) /\ ResultsHeld(d)
  BY DEF IInv, Deleting
<1>4. ASSUME worker[w].at = "insert", deletion[d].at # "searches"
      PROVE  SearchRow(worker[w].search) \notin before
  <2>1. worker[w].search \in Search
        /\ w \in lock[SearchRow(worker[w].search)]
    BY <1>4 DEF IInv, WritesKnown, WorkersLock
  <2> QED BY <1>2, <1>3, <1>4, <2>1 DEF SearchesHeld
<1>5. ASSUME worker[w].at = "record", deletion[d].at = "delete"
      PROVE  SearchRow(worker[w].search) \notin before
  <2>1. /\ worker[w].search \in Search
        /\ w \in lock[ResultRow(worker[w].search)]
    BY <1>5 DEF IInv, WritesKnown, WorkersLock
  <2>2. ResultRow(worker[w].search) \in rows
    BY <1>1, <1>5 DEF IInv, NothingDangles
  <2> QED BY <1>2, <1>3, <1>5, <2>1, <2>2 DEF ResultsHeld
<1> QED BY <1>1, <1>4, <1>5

-----------------------------------------------------------------------------
(* The initial states.                                                     *)

LEMMA InitIInv == Init => IInv
<1> SUFFICES ASSUME Init
             PROVE  IInv
  OBVIOUS
<1> USE DEF Init, IdleDeletion, IdleWorker, IdleUpload, IdleExport
<1>1. PICK saved \in SUBSET Searches,
           stored \in SUBSET {CVRow(c) : c \in CV} :
        rows = {User} \cup saved \cup stored
  OBVIOUS
<1>2. rows \subseteq Rows
  BY <1>1, RowTypes
<1>3. Len(Statements) = 7 /\ Len(Queries) = 8
  BY StatementFacts, QueryFacts
<1>4. TypeOK
  BY <1>2, <1>3 DEF TypeOK
<1>5. Closed(rows)
  BY <1>1, RowFields DEF Closed, Searches
<1>6. Closed({})
  BY DEF Closed
<1>7. \A d \in Deletion : ~Holding(d)
  BY DEF Holding
<1>8. WritesKnown /\ OneHolds /\ WorkersLock
  BY <1>7 DEF WritesKnown, OneHolds, WorkersLock
<1>9. NothingDangles
  BY <1>5, <1>6 DEF NothingDangles
<1>10. Deleting /\ Gone
  BY <1>1, <1>7 DEF Deleting, Gone
<1>11. ExportsRead
  BY <1>6 DEF ExportsRead
<1> QED BY <1>4, <1>8, <1>9, <1>10, <1>11 DEF IInv

-----------------------------------------------------------------------------
(* The deletion's steps.                                                   *)

DeletionSteps ==
  [at : {"idle", "confirmed", "searches", "results", "delete"},
   todo : SUBSET Lockable, done : 0..Len(Statements)]

LEMMA DeletionAt ==
  ASSUME TypeOK, NEW d \in Deletion,
         NEW at \in {"idle", "confirmed", "searches", "results", "delete"},
         deletion' = [deletion EXCEPT ![d].at = at]
  PROVE  deletion' \in [Deletion -> DeletionSteps]
<1>1. deletion \in [Deletion -> DeletionSteps]
  BY DEF TypeOK, DeletionSteps
<1>2. [deletion[d] EXCEPT !.at = at] \in DeletionSteps
  BY <1>1 DEF DeletionSteps
<1> QED BY <1>1, <1>2

LEMMA DeletionTodo ==
  ASSUME TypeOK, NEW d \in Deletion, NEW todo \in SUBSET Lockable,
         deletion' = [deletion EXCEPT ![d].todo = todo]
  PROVE  deletion' \in [Deletion -> DeletionSteps]
<1>1. deletion \in [Deletion -> DeletionSteps]
  BY DEF TypeOK, DeletionSteps
<1>2. [deletion[d] EXCEPT !.todo = todo] \in DeletionSteps
  BY <1>1 DEF DeletionSteps
<1> QED BY <1>1, <1>2

LEMMA VerifyPasswordKeeps ==
  ASSUME IInv, NEW d \in Deletion, VerifyPassword(d)
  PROVE  IInv'
<1> USE DEF IInv, VerifyPassword, others
<1>1. TypeOK'
  <2>1. deletion' \in [Deletion -> DeletionSteps]
    BY DeletionAt
  <2> QED BY <2>1 DEF TypeOK, DeletionSteps
<1>2. \A e \in Deletion :
        /\ Holding(e)' <=> Holding(e)
        /\ deletion'[e].todo = deletion[e].todo
        /\ deletion'[e].done = deletion[e].done
        /\ deletion'[e].at # deletion[e].at =>
             deletion[e].at = "idle" /\ deletion'[e].at = "confirmed"
  BY DEF TypeOK, Holding
<1>3. OneHolds'
  <2>1. doomed # {} => \E e \in Deletion : deletion'[e].done >= 1
    BY <1>2 DEF OneHolds
  <2>2. \A e \in Deletion :
          /\ ~Holding(e)' => deletion'[e].todo = {}
          /\ deletion'[e].at # "delete" => deletion'[e].done = 0
          /\ deletion'[e].at = "delete" /\ deletion'[e].done = 0 =>
               deletion'[e].todo = {}
    BY <1>2 DEF OneHolds, Holding
  <2>3. \A e \in Deletion : Holding(e)' =>
          lock'[User] = {e} /\ User \in before' /\ before' \subseteq rows'
    BY <1>2 DEF OneHolds
  <2>4. doomed' = doomed
    OBVIOUS
  <2> HIDE DEF IInv, VerifyPassword, others
  <2> QED BY <2>1, <2>2, <2>3, <2>4 DEF OneHolds
<1>4. Deleting'
  BY <1>2 DEF Deleting, SearchesHeld, ResultsHeld, Progress, Holding
<1>5. WritesKnown' /\ WorkersLock' /\ NothingDangles' /\ Gone'
      /\ ExportsRead'
  BY DEF WritesKnown, WorkersLock, NothingDangles, Gone, ExportsRead, Closed
<1> QED BY <1>1, <1>3, <1>4, <1>5

(* A change of the locks that takes none of them from a worker.            *)
LEMMA LocksOfWorkers ==
  ASSUME IInv, worker' = worker,
         \A r \in Lockable, w \in Worker : w \in lock[r] => w \in lock'[r]
  PROVE  WorkersLock'
<1>1. \A w \in Worker : worker[w].at # "idle" =>
        /\ SearchRow(worker[w].search) \in Lockable
        /\ ResultRow(worker[w].search) \in Lockable
  BY RowTypes DEF IInv, WritesKnown
<1> QED BY <1>1 DEF IInv, WorkersLock

LEMMA LockUserKeeps ==
  ASSUME IInv, NEW d \in Deletion, LockUser(d)
  PROVE  IInv'
<1> USE DEF IInv, LockUser, others
<1>1. \A e \in Deletion : ~Holding(e)
  BY DEF OneHolds
<1>2. WritesKnown' /\ ExportsRead'
  BY DEF WritesKnown, ExportsRead, Closed
<1>3. CASE User \in rows
  <2>1. lock' = [lock EXCEPT ![User] = {d}] /\ before' = rows
        /\ deletion' = [deletion EXCEPT
             ![d] = Locking("searches", rows \cap Searches)]
        /\ UNCHANGED <<rows, doomed, others>>
    BY <1>3 DEF UserLocked
  <2>2. User \in Lockable
    BY RowTypes
  <2>3. lock'[User] = {d} /\ \A r \in Lockable \ {User} : lock'[r] = lock[r]
    BY <2>1, <2>2 DEF TypeOK
  <2>4. deletion'[d] = Locking("searches", rows \cap Searches)
        /\ \A e \in Deletion \ {d} : deletion'[e] = deletion[e]
    BY <2>1 DEF TypeOK
  <2>5. TypeOK'
    <3>1. rows \cap Searches \in SUBSET Lockable
      BY RowTypes
    <3>2. Locking("searches", rows \cap Searches) \in
            [at : {"idle", "confirmed", "searches", "results", "delete"},
             todo : SUBSET Lockable, done : 0..Len(Statements)]
      BY <3>1, StatementFacts DEF Locking
    <3>3. lock' \in [Lockable -> SUBSET (Deletion \cup Worker)]
      BY <2>1 DEF TypeOK
    <3> QED BY <2>1, <3>2, <3>3 DEF TypeOK
  <2>6. doomed = {}
    BY <1>1 DEF OneHolds, Holding
  <2>7. OneHolds'
    <3>1. \A e \in Deletion \ {d} : ~Holding(e)'
      BY <1>1, <2>4 DEF Holding
    <3>2. /\ lock'[User] = {d} /\ User \in before' /\ before' \subseteq rows'
          /\ Holding(d)' /\ deletion'[d].done = 0
          /\ deletion'[d].at # "delete"
      BY <1>3, <2>1, <2>3, <2>4 DEF Holding, Locking
    <3>3. \A e \in Deletion \ {d} :
            deletion'[e].todo = {}
            /\ (deletion'[e].at # "delete" => deletion'[e].done = 0)
      BY <1>1, <2>4 DEF OneHolds
    <3> QED BY <2>1, <2>6, <3>1, <3>2, <3>3 DEF OneHolds
  <2>8. WorkersLock'
    BY <2>1, <2>3, LocksOfWorkers
  <2>9. NothingDangles'
    BY <1>3, <2>1 DEF NothingDangles, Closed
  <2>10. Deleting'
    <3>1. \A e \in Deletion : Holding(e)' => e = d
      BY <1>1, <2>4 DEF Holding
    <3>2. SearchesHeld(d)'
      BY <2>1, <2>4, RowTypes DEF SearchesHeld, Locking
    <3>3. ResultsHeld(d)' /\ Progress(d)'
      BY <2>4 DEF ResultsHeld, Progress, Locking
    <3> QED BY <3>1, <3>2, <3>3 DEF Deleting
  <2>11. Gone'
    BY <1>3, <2>1 DEF Gone
  <2> QED BY <1>2, <2>5, <2>7, <2>8, <2>9, <2>10, <2>11
<1>4. CASE User \notin rows
  <2>1. deletion' = [deletion EXCEPT ![d] = IdleDeletion]
        /\ UNCHANGED <<lock, before, rows, doomed, others>>
    BY <1>4
  <2>2. deletion'[d] = IdleDeletion
        /\ \A e \in Deletion \ {d} : deletion'[e] = deletion[e]
    BY <2>1 DEF TypeOK
  <2>3. TypeOK'
    BY <2>1, StatementFacts DEF TypeOK, IdleDeletion
  <2>4. \A e \in Deletion : ~Holding(e)'
    BY <1>1, <2>2 DEF Holding, IdleDeletion
  <2>5. OneHolds'
    BY <1>1, <2>1, <2>2, <2>4 DEF OneHolds, IdleDeletion, Holding
  <2>6. WorkersLock' /\ NothingDangles' /\ Gone'
    BY <2>1 DEF WorkersLock, NothingDangles, Gone, Closed
  <2> QED BY <1>2, <2>3, <2>4, <2>5, <2>6 DEF Deleting
<1> QED BY <1>3, <1>4

LEMMA LockNextKeeps ==
  ASSUME IInv, NEW d \in Deletion, LockNext(d)
  PROVE  IInv'
<1> USE DEF IInv, others
<1>1. PICK r \in deletion[d].todo :
        /\ deletion[d].at # "delete" /\ lock[r] = {}
        /\ lock' = IF r \in rows THEN [lock EXCEPT ![r] = {d}] ELSE lock
        /\ deletion' = [deletion EXCEPT ![d].todo = @ \ {r}]
        /\ UNCHANGED <<rows, doomed, before, others>>
  BY DEF LockNext
<1>2. r \in Lockable
  BY DEF TypeOK
<1>3. Holding(d) /\ \A e \in Deletion : Holding(e) => e = d
  BY <1>1 DEF OneHolds
<1>4. r # User
  BY <1>1, <1>3 DEF OneHolds
<1>5. /\ \A x \in Lockable \ {r} : lock'[x] = lock[x]
      /\ lock'[r] = IF r \in rows THEN {d} ELSE {}
  BY <1>1, <1>2 DEF TypeOK
<1>6. /\ deletion'[d].todo = deletion[d].todo \ {r}
      /\ deletion'[d].at = deletion[d].at
      /\ deletion'[d].done = deletion[d].done
      /\ \A e \in Deletion \ {d} : deletion'[e] = deletion[e]
  BY <1>1 DEF TypeOK
<1>7. TypeOK'
  <2>1. lock' \in [Lockable -> SUBSET (Deletion \cup Worker)]
    BY <1>1 DEF TypeOK
  <2>2. deletion' \in [Deletion -> DeletionSteps]
    <3>1. deletion[d].todo \ {r} \in SUBSET Lockable
      BY DEF TypeOK
    <3>2. deletion' = [deletion EXCEPT ![d].todo = deletion[d].todo \ {r}]
      BY <1>1
    <3> QED BY <3>1, <3>2, DeletionTodo
  <2> QED BY <1>1, <2>1, <2>2 DEF TypeOK, DeletionSteps
<1>8. \A e \in Deletion : Holding(e)' <=> Holding(e)
  BY <1>6 DEF Holding
<1>9. OneHolds'
  <2>1. lock'[User] = lock[User]
    BY <1>4, <1>5, RowTypes
  <2> QED BY <1>1, <1>3, <1>6, <1>8, <2>1 DEF OneHolds
<1>10. WorkersLock'
  BY <1>1, <1>5, LocksOfWorkers
<1>11. before \subseteq rows
  BY <1>3 DEF OneHolds
<1>12. SearchesHeld(d)'
  <2>1. SearchesHeld(d)
    BY <1>3 DEF Deleting
  <2> QED BY <1>1, <1>5, <1>6, <1>11, <2>1, RowTypes DEF SearchesHeld
<1>13. ResultsHeld(d)'
  <2>1. ResultsHeld(d)
    BY <1>3 DEF Deleting
  <2> QED BY <1>1, <1>5, <1>6, <2>1, RowTypes DEF ResultsHeld
<1>14. Progress(d)'
  <2>1. deletion'[d].done = 0
    BY <1>1, <1>6 DEF OneHolds
  <2> QED BY <2>1 DEF Progress
<1>15. Deleting'
  BY <1>3, <1>8, <1>12, <1>13, <1>14 DEF Deleting
<1>16. WritesKnown' /\ NothingDangles' /\ Gone' /\ ExportsRead'
  BY <1>1 DEF WritesKnown, NothingDangles, Gone, ExportsRead, Closed
<1> QED BY <1>7, <1>9, <1>10, <1>15, <1>16

LEMMA SearchesLockedKeeps ==
  ASSUME IInv, NEW d \in Deletion, SearchesLocked(d)
  PROVE  IInv'
<1> USE DEF IInv, SearchesLocked, others
<1>1. Holding(d) /\ \A e \in Deletion : Holding(e) => e = d
  BY DEF OneHolds, Holding, Locking
<1>2. /\ deletion'[d] = Locking("results", rows \cap Results)
      /\ \A e \in Deletion \ {d} : deletion'[e] = deletion[e]
  BY DEF TypeOK
<1>3. TypeOK'
  <2>1. rows \cap Results \in SUBSET Lockable
    BY RowTypes
  <2>2. Locking("results", rows \cap Results) \in
          [at : {"idle", "confirmed", "searches", "results", "delete"},
           todo : SUBSET Lockable, done : 0..Len(Statements)]
    BY <2>1, StatementFacts DEF Locking
  <2> QED BY <2>2 DEF TypeOK
<1>4. \A e \in Deletion : Holding(e)' <=> Holding(e)
  BY <1>1, <1>2 DEF Holding, Locking
<1>5. OneHolds'
  BY <1>1, <1>2, <1>4 DEF OneHolds, Locking
<1>6. SearchesHeld(d)'
  <2>1. SearchesHeld(d)
    BY <1>1 DEF Deleting
  <2> QED BY <1>2, <2>1 DEF SearchesHeld, Locking
<1>7. ResultsHeld(d)' /\ Progress(d)'
  BY <1>2, RowTypes DEF ResultsHeld, Progress, Locking
<1>8. Deleting'
  BY <1>1, <1>4, <1>6, <1>7 DEF Deleting
<1>9. /\ WritesKnown' /\ WorkersLock' /\ NothingDangles' /\ Gone'
      /\ ExportsRead'
  BY DEF WritesKnown, WorkersLock, NothingDangles, Gone, ExportsRead, Closed
<1> QED BY <1>3, <1>5, <1>8, <1>9

LEMMA ResultsLockedKeeps ==
  ASSUME IInv, NEW d \in Deletion, ResultsLocked(d)
  PROVE  IInv'
<1> USE DEF IInv, ResultsLocked, others
<1>1. Holding(d) /\ \A e \in Deletion : Holding(e) => e = d
  BY DEF OneHolds, Holding, Locking
<1>2. /\ deletion'[d].at = "delete" /\ deletion'[d].todo = {}
      /\ deletion'[d].done = 0
      /\ \A e \in Deletion \ {d} : deletion'[e] = deletion[e]
  BY DEF TypeOK, Locking
<1>3. TypeOK'
  <2>1. deletion' \in [Deletion -> DeletionSteps]
    BY DeletionAt
  <2> QED BY <2>1 DEF TypeOK, DeletionSteps
<1>4. \A e \in Deletion : Holding(e)' <=> Holding(e)
  BY <1>1, <1>2 DEF Holding
<1>5. OneHolds'
  BY <1>1, <1>2, <1>4 DEF OneHolds
<1>6. SearchesHeld(d)' /\ ResultsHeld(d)'
  <2>1. SearchesHeld(d) /\ ResultsHeld(d)
    BY <1>1 DEF Deleting
  <2> QED BY <1>2, <2>1 DEF SearchesHeld, ResultsHeld, Locking
<1>7. Progress(d)'
  BY <1>2 DEF Progress
<1>8. Deleting'
  BY <1>1, <1>4, <1>6, <1>7 DEF Deleting
<1>9. /\ WritesKnown' /\ WorkersLock' /\ NothingDangles' /\ Gone'
      /\ ExportsRead'
  BY DEF WritesKnown, WorkersLock, NothingDangles, Gone, ExportsRead, Closed
<1> QED BY <1>3, <1>5, <1>8, <1>9

(* A deletion takes rows that nobody else has locked.                      *)
LEMMA DeletesKeeps ==
  ASSUME IInv, NEW d \in Deletion, NEW deleted \in SUBSET rows,
         Deletes(d, deleted), User \notin deleted,
         \A r \in deleted \cap Lockable : lock[r] \subseteq {d},
         UNCHANGED <<rows, before, others>>
  PROVE  /\ lock' \in [Lockable -> SUBSET (Deletion \cup Worker)]
         /\ doomed' \subseteq rows'
         /\ lock'[User] = lock[User]
         /\ WritesKnown' /\ WorkersLock' /\ NothingDangles' /\ Gone'
         /\ ExportsRead'
         /\ \A r \in Lockable : lock[r] = {d} => lock'[r] = {d}
<1> USE DEF IInv, Deletes, others
<1>1. lock' \in [Lockable -> SUBSET (Deletion \cup Worker)]
  BY DEF TypeOK
<1>2. doomed' \subseteq rows'
  BY DEF TypeOK
<1>3. \A r \in Lockable : lock'[r] = IF r \in deleted THEN {d} ELSE lock[r]
  OBVIOUS
<1>4. lock'[User] = lock[User]
  BY <1>3, RowTypes
<1>5. WorkersLock'
  <2>1. \A r \in Lockable, w \in Worker : w \in lock[r] => w \in lock'[r]
    BY <1>3
  <2> QED BY <2>1, LocksOfWorkers
<1>6. WritesKnown' /\ NothingDangles' /\ Gone' /\ ExportsRead'
  BY DEF WritesKnown, NothingDangles, Gone, ExportsRead, Closed
<1>7. \A r \in Lockable : lock[r] = {d} => lock'[r] = {d}
  BY <1>3
<1> QED BY <1>1, <1>2, <1>4, <1>5, <1>6, <1>7

(* What a statement finds is all there is of its table; of evaluations,    *)
(* all those of results that are there.                                    *)
LEMMA FoundFacts ==
  ASSUME NEW seen \in SUBSET Rows, NEW k \in 1..7
  PROVE  /\ OwnedOf(Statements[k], seen) \subseteq seen \ {User}
         /\ k = 1 => \A s \in Search, c \in CV :
              EvaluationRow(s, c) \in seen /\ ResultRow(s) \in seen
                => EvaluationRow(s, c) \in OwnedOf(Statements[k], seen)
         /\ k = 2 => seen \cap Results \subseteq OwnedOf(Statements[k], seen)
         /\ k = 3 => seen \cap Searches \subseteq OwnedOf(Statements[k], seen)
         /\ k = 4 => seen \cap {SectionRow(c) : c \in CV}
                       \subseteq OwnedOf(Statements[k], seen)
         /\ k = 5 => seen \cap {CVRow(c) : c \in CV}
                       \subseteq OwnedOf(Statements[k], seen)
         /\ k = 6 => seen \cap {KeyRow} \subseteq OwnedOf(Statements[k], seen)
         /\ k = 7 => seen \cap {SuggestionRow}
                       \subseteq OwnedOf(Statements[k], seen)
<1>1. CASE k = 1
  <2>1. OwnedOf(Statements[k], seen) = seen \cap OwnedEvaluations(seen)
    BY <1>1, StatementFacts DEF OwnedOf
  <2>2. User \notin OwnedEvaluations(seen)
    BY RowFields DEF OwnedEvaluations
  <2>3. \A s \in Search, c \in CV :
          ResultRow(s) \in seen
            => EvaluationRow(s, c) \in OwnedEvaluations(seen)
    BY DEF OwnedEvaluations
  <2> QED BY <1>1, <2>1, <2>2, <2>3
<1>2. CASE k # 1
  <2>1. Statements[k] # {"evaluations"}
    BY <1>2, StatementFacts
  <2>2. OwnedOf(Statements[k], seen) = seen \cap Of(Statements[k])
    BY <2>1 DEF OwnedOf
  <2>3. "users" \notin Statements[k]
    BY StatementFacts
  <2>4. User \notin Of(Statements[k])
    BY <2>3, RowFields DEF Of
  <2> QED BY <1>2, <2>2, <2>4, StatementFacts, RowsOf
<1> QED BY <1>1, <1>2

LEMMA DeletionTodoDone ==
  ASSUME TypeOK, NEW d \in Deletion, NEW todo \in SUBSET Lockable,
         NEW done \in 0..Len(Statements),
         deletion' = [deletion EXCEPT ![d].done = done, ![d].todo = todo]
  PROVE  deletion' \in [Deletion -> DeletionSteps]
<1>1. deletion \in [Deletion -> DeletionSteps]
  BY DEF TypeOK, DeletionSteps
<1>2. [deletion[d] EXCEPT !.done = done, !.todo = todo] \in DeletionSteps
  BY <1>1 DEF DeletionSteps
<1> QED BY <1>1, <1>2

LEMMA DeleteNextKeeps ==
  ASSUME IInv, NEW d \in Deletion, DeleteNext(d)
  PROVE  IInv'
<1> USE DEF IInv
<1> DEFINE done == deletion[d].done
           found == OwnedOf(Statements[done + 1], rows \ doomed)
           locked == {r \in found \cap Lockable : lock[r] \ {d} # {}}
           deleted == found \ locked
<1>1. /\ deletion[d].at = "delete" /\ deletion[d].todo = {}
      /\ done < 7
      /\ Deletes(d, deleted)
      /\ deletion' = [deletion EXCEPT ![d].done = done + 1,
                                      ![d].todo = locked]
      /\ UNCHANGED <<rows, before, others>>
  BY StatementFacts DEF DeleteNext
<1>2. done \in 0..6 /\ done + 1 \in 1..7
  <2>1. done \in 0..7
    BY StatementFacts DEF TypeOK
  <2> QED BY <1>1, <2>1
<1>3. rows \ doomed \in SUBSET Rows
  BY DEF TypeOK
<1>4. /\ found \subseteq (rows \ doomed) \ {User}
  BY <1>2, <1>3, FoundFacts
<1>5. /\ deleted \in SUBSET rows /\ User \notin deleted
      /\ \A r \in deleted \cap Lockable : lock[r] \subseteq {d}
      /\ locked \in SUBSET Lockable
  BY <1>4
<1>6. /\ lock' \in [Lockable -> SUBSET (Deletion \cup Worker)]
      /\ doomed' \subseteq rows'
      /\ lock'[User] = lock[User]
      /\ WritesKnown' /\ WorkersLock' /\ NothingDangles' /\ Gone'
      /\ ExportsRead'
      /\ \A r \in Lockable : lock[r] = {d} => lock'[r] = {d}
  BY <1>1, <1>5, DeletesKeeps
<1>7. /\ deletion'[d].done = done + 1 /\ deletion'[d].todo = locked
      /\ deletion'[d].at = "delete"
      /\ \A e \in Deletion \ {d} : deletion'[e] = deletion[e]
  BY <1>1 DEF TypeOK
<1>8. TypeOK'
  <2>1. done + 1 \in 0..Len(Statements)
    BY <1>2, StatementFacts
  <2>2. deletion' \in [Deletion -> DeletionSteps]
    BY <1>1, <1>5, <2>1, DeletionTodoDone
  <2> QED BY <1>1, <1>6, <2>2 DEF TypeOK, DeletionSteps, others
<1>9. /\ Holding(d) /\ \A e \in Deletion : Holding(e) => e = d
      /\ \A e \in Deletion : Holding(e)' <=> Holding(e)
  <2>1. Holding(d) /\ Holding(d)'
    BY <1>1, <1>7 DEF Holding
  <2>2. \A e \in Deletion \ {d} : Holding(e)' <=> Holding(e)
    BY <1>7 DEF Holding
  <2> QED BY <2>1, <2>2 DEF OneHolds
<1>10. OneHolds'
  <2>1. \E e \in Deletion : deletion'[e].done >= 1
    BY <1>2, <1>7
  <2>2. /\ lock'[User] = {d} /\ User \in before' /\ before' \subseteq rows'
        /\ ~(deletion'[d].done = 0)
    BY <1>1, <1>2, <1>6, <1>7, <1>9 DEF OneHolds
  <2>3. \A e \in Deletion \ {d} :
          /\ deletion'[e].todo = {} /\ deletion'[e].done = 0
    BY <1>7, <1>9 DEF OneHolds, Holding
  <2> QED BY <1>7, <1>9, <2>1, <2>2, <2>3 DEF OneHolds
<1> DEFINE gone == doomed' \cup locked
<1>11. /\ doomed \subseteq gone /\ found \subseteq gone
  BY <1>1 DEF Deletes
<1>12. SearchesHeld(d) /\ ResultsHeld(d) /\ Progress(d)
  BY <1>9 DEF Deleting
<1>13. SearchesHeld(d)' /\ ResultsHeld(d)'
  <2>1. \A s \in Search : SearchRow(s) \in Lockable /\ ResultRow(s) \in Lockable
    BY RowTypes
  <2> QED BY <1>1, <1>6, <1>7, <1>12, <2>1 DEF SearchesHeld, ResultsHeld
<1>14. /\ User \in rows /\ before \subseteq rows /\ Closed(rows)
  BY <1>9 DEF OneHolds, NothingDangles
<1>15. done = 0 => doomed = {}
  <2>1. \A e \in Deletion \ {d} : deletion[e].done = 0
    BY <1>9 DEF OneHolds, Holding
  <2> QED BY <2>1 DEF OneHolds
<1>16. Progress(d)'
  <2> HIDE DEF found, locked, gone, done
  <2>0. deletion[d].done = done /\ deletion[d].todo = {}
    BY <1>1 DEF done
  <2>1. done + 1 >= 1 => \A s \in Search, c \in CV :
          SearchRow(s) \in before /\ EvaluationRow(s, c) \in rows
            => EvaluationRow(s, c) \in gone
    <3> SUFFICES ASSUME NEW s \in Search, NEW c \in CV,
                        SearchRow(s) \in before, EvaluationRow(s, c) \in rows
                 PROVE  EvaluationRow(s, c) \in gone
      OBVIOUS
    <3>1. done >= 1 => EvaluationRow(s, c) \in doomed
      BY <1>12, <2>0 DEF Progress
    <3>2. ResultRow(s) \in rows
      BY <1>14 DEF Closed
    <3>3. done = 0 => EvaluationRow(s, c) \in found
      BY <1>3, <1>15, <3>2, FoundFacts DEF found
    <3> QED BY <1>2, <1>11, <3>1, <3>3
  <2>2. done + 1 >= 2 => \A s \in Search :
          SearchRow(s) \in before /\ ResultRow(s) \in rows
            => ResultRow(s) \in gone
    <3> SUFFICES ASSUME NEW s \in Search,
                        SearchRow(s) \in before, ResultRow(s) \in rows
                 PROVE  done + 1 >= 2 => ResultRow(s) \in gone
      OBVIOUS
    <3>1. done >= 2 => ResultRow(s) \in doomed
      BY <1>12, <2>0 DEF Progress
    <3>2. done + 1 = 2 => (rows \ doomed) \cap Results \subseteq found
      BY <1>2, <1>3, FoundFacts DEF found
    <3> QED BY <1>2, <1>11, <3>1, <3>2, RowTypes
  <2>3. done + 1 >= 3 => before \cap Searches \subseteq gone
    <3>1. done >= 3 => before \cap Searches \subseteq doomed
      BY <1>12, <2>0 DEF Progress
    <3>2. done + 1 = 3 =>
            (rows \ doomed) \cap Searches \subseteq found
      BY <1>2, <1>3, FoundFacts DEF found
    <3> QED BY <1>2, <1>11, <1>14, <3>1, <3>2
  <2>4. done + 1 >= 4 => before \cap {SectionRow(c) : c \in CV} \subseteq gone
    <3>1. done >= 4 => before \cap {SectionRow(c) : c \in CV} \subseteq doomed
      BY <1>12, <2>0 DEF Progress
    <3>2. done + 1 = 4 =>
            (rows \ doomed) \cap {SectionRow(c) : c \in CV} \subseteq found
      BY <1>2, <1>3, FoundFacts DEF found
    <3> QED BY <1>2, <1>11, <1>14, <3>1, <3>2
  <2>5. done + 1 >= 5 => before \cap {CVRow(c) : c \in CV} \subseteq gone
    <3>1. done >= 5 => before \cap {CVRow(c) : c \in CV} \subseteq doomed
      BY <1>12, <2>0 DEF Progress
    <3>2. done + 1 = 5 =>
            (rows \ doomed) \cap {CVRow(c) : c \in CV} \subseteq found
      BY <1>2, <1>3, FoundFacts DEF found
    <3> QED BY <1>2, <1>11, <1>14, <3>1, <3>2
  <2>6. done + 1 >= 6 => before \cap {KeyRow} \subseteq gone
    <3>1. done >= 6 => before \cap {KeyRow} \subseteq doomed
      BY <1>12, <2>0 DEF Progress
    <3>2. done + 1 = 6 =>
            (rows \ doomed) \cap {KeyRow} \subseteq found
      BY <1>2, <1>3, FoundFacts DEF found
    <3> QED BY <1>2, <1>11, <1>14, <3>1, <3>2
  <2>7. done + 1 >= 7 => before \cap {SuggestionRow} \subseteq gone
    <3>1. done >= 7 => before \cap {SuggestionRow} \subseteq doomed
      BY <1>12, <2>0 DEF Progress
    <3>2. done + 1 = 7 =>
            (rows \ doomed) \cap {SuggestionRow} \subseteq found
      BY <1>2, <1>3, FoundFacts DEF found
    <3> QED BY <1>2, <1>11, <1>14, <3>1, <3>2
  <2>8. deletion'[d].done = done + 1 /\ doomed' \cup deletion'[d].todo = gone
    BY <1>7 DEF gone
  <2>9. rows' = rows /\ before' = before
    BY <1>1
  <2> QED BY <2>1, <2>2, <2>3, <2>4, <2>5, <2>6, <2>7, <2>8, <2>9
         DEF Progress
<1>17. Deleting'
  BY <1>9, <1>13, <1>16 DEF Deleting
<1> QED BY <1>6, <1>8, <1>10, <1>17

LEMMA DeleteWaitedKeeps ==
  ASSUME IInv, NEW d \in Deletion, DeleteWaited(d)
  PROVE  IInv'
<1> USE DEF IInv
<1>1. PICK r \in deletion[d].todo :
        /\ deletion[d].at = "delete" /\ lock[r] = {}
        /\ Deletes(d, {r} \cap rows)
        /\ deletion' = [deletion EXCEPT ![d].todo = @ \ {r}]
        /\ UNCHANGED <<rows, before, others>>
  BY DEF DeleteWaited
<1>2. r \in Lockable
  BY DEF TypeOK
<1>3. /\ Holding(d) /\ \A e \in Deletion : Holding(e) => e = d
  BY <1>1 DEF OneHolds, Holding
<1>4. /\ deletion'[d].todo = deletion[d].todo \ {r}
      /\ deletion'[d].at = deletion[d].at
      /\ deletion'[d].done = deletion[d].done
      /\ \A e \in Deletion \ {d} : deletion'[e] = deletion[e]
  BY <1>1 DEF TypeOK
<1>5. /\ {r} \cap rows \in SUBSET rows /\ User \notin {r} \cap rows
      /\ \A q \in ({r} \cap rows) \cap Lockable : lock[q] \subseteq {d}
  BY <1>1, <1>3 DEF OneHolds
<1>6. /\ lock' \in [Lockable -> SUBSET (Deletion \cup Worker)]
      /\ doomed' \subseteq rows'
      /\ lock'[User] = lock[User]
      /\ WritesKnown' /\ WorkersLock' /\ NothingDangles' /\ Gone'
      /\ ExportsRead'
      /\ \A q \in Lockable : lock[q] = {d} => lock'[q] = {d}
  BY <1>1, <1>5, DeletesKeeps
<1>7. TypeOK'
  <2>1. deletion[d].todo \ {r} \in SUBSET Lockable
    BY DEF TypeOK
  <2>2. deletion' \in [Deletion -> DeletionSteps]
    BY <1>1, <2>1, DeletionTodo
  <2> QED BY <1>1, <1>6, <2>2 DEF TypeOK, DeletionSteps, others
<1>8. \A e \in Deletion : Holding(e)' <=> Holding(e)
  BY <1>4 DEF Holding
<1>9. OneHolds'
  <2>1. deletion[d].done # 0 /\ deletion[d].done \in 0..7
    BY <1>1, StatementFacts DEF OneHolds, TypeOK
  <2>2. \E e \in Deletion : deletion'[e].done >= 1
    BY <1>4, <2>1
  <2>3. /\ lock'[User] = {d} /\ User \in before' /\ before' \subseteq rows'
    BY <1>1, <1>3, <1>6 DEF OneHolds
  <2>4. \A e \in Deletion \ {d} :
          /\ deletion'[e].todo = {} /\ deletion'[e].done = 0
    BY <1>3, <1>4 DEF OneHolds, Holding
  <2> QED BY <1>1, <1>3, <1>4, <1>8, <2>1, <2>2, <2>3, <2>4 DEF OneHolds
<1>10. SearchesHeld(d) /\ ResultsHeld(d) /\ Progress(d)
  BY <1>3 DEF Deleting
<1>11. SearchesHeld(d)' /\ ResultsHeld(d)'
  <2>1. \A s \in Search :
          SearchRow(s) \in Lockable /\ ResultRow(s) \in Lockable
    BY RowTypes
  <2> QED BY <1>1, <1>4, <1>6, <1>10, <2>1 DEF SearchesHeld, ResultsHeld
<1>12. Progress(d)'
  <2>1. rows' = rows /\ before' = before
    BY <1>1
  <2>2. (doomed \cup deletion[d].todo) \cap rows
          \subseteq doomed' \cup deletion'[d].todo
    BY <1>1, <1>4 DEF Deletes
  <2>3. before \subseteq rows
    BY <1>3 DEF OneHolds
  <2>4. deletion'[d].done = deletion[d].done
    BY <1>4
  <2> QED BY <1>10, <2>1, <2>2, <2>3, <2>4 DEF Progress
<1>13. Deleting'
  BY <1>3, <1>8, <1>11, <1>12 DEF Deleting
<1> QED BY <1>6, <1>7, <1>9, <1>13

(* A deletion that ends gives back its locks, and no worker's.             *)
LEMMA EndsKeeps ==
  ASSUME IInv, NEW d \in Deletion, Holding(d),
         doomed' = {}, lock' = Unlocked(d),
         deletion' = [deletion EXCEPT ![d] = IdleDeletion],
         UNCHANGED <<before, others>>
  PROVE  /\ \A e \in Deletion : ~Holding(e)'
         /\ lock' \in [Lockable -> SUBSET (Deletion \cup Worker)]
         /\ deletion' \in [Deletion -> DeletionSteps]
         /\ WritesKnown' /\ WorkersLock' /\ ExportsRead' /\ Deleting'
         /\ OneHolds'
<1> USE DEF IInv, others
<1>1. \A e \in Deletion : Holding(e) => e = d
  BY DEF OneHolds
<1>2. /\ deletion'[d] = IdleDeletion
      /\ \A e \in Deletion \ {d} : deletion'[e] = deletion[e]
  BY DEF TypeOK
<1>3. \A e \in Deletion : ~Holding(e)'
  BY <1>1, <1>2 DEF Holding, IdleDeletion
<1>4. lock' \in [Lockable -> SUBSET (Deletion \cup Worker)]
  BY DEF TypeOK, Unlocked
<1>5. deletion' \in [Deletion -> DeletionSteps]
  BY StatementFacts DEF TypeOK, DeletionSteps, IdleDeletion
<1>6. WorkersLock'
  <2>1. \A r \in Lockable, w \in Worker : w \in lock[r] => w \in lock'[r]
    BY ActorsAssumption DEF Unlocked
  <2> QED BY <2>1, LocksOfWorkers
<1>7. OneHolds'
  <2>1. \A e \in Deletion :
          /\ deletion'[e].todo = {} /\ deletion'[e].done = 0
    BY <1>1, <1>2 DEF OneHolds, IdleDeletion, Holding
  <2> QED BY <1>3, <2>1 DEF OneHolds
<1>8. WritesKnown' /\ ExportsRead' /\ Deleting'
  BY <1>3 DEF WritesKnown, ExportsRead, Deleting, Closed
<1> QED BY <1>3, <1>4, <1>5, <1>6, <1>7, <1>8

LEMMA CommitDeletionKeeps ==
  ASSUME IInv, NEW d \in Deletion, CommitDeletion(d)
  PROVE  IInv'
<1> USE DEF IInv, CommitDeletion
<1>1. Holding(d) /\ Progress(d) /\ deletion[d].done = 7
  BY StatementFacts DEF Holding, Deleting
<1>2. /\ \A e \in Deletion : ~Holding(e)'
      /\ lock' \in [Lockable -> SUBSET (Deletion \cup Worker)]
      /\ deletion' \in [Deletion -> DeletionSteps]
      /\ WritesKnown' /\ WorkersLock' /\ ExportsRead' /\ Deleting'
      /\ OneHolds'
  BY <1>1, EndsKeeps
<1>3. TypeOK'
  BY <1>2 DEF TypeOK, DeletionSteps, others
<1>4. User \notin rows' /\ NothingDangles'
  BY DEF NothingDangles, others, Closed
<1>5. Gone'
  <2> SUFFICES ASSUME NEW s \in Search, SearchRow(s) \in before
               PROVE  /\ SearchRow(s) \in doomed
                      /\ ResultRow(s) \in rows => ResultRow(s) \in doomed
                      /\ \A c \in CV : EvaluationRow(s, c) \in rows
                           => EvaluationRow(s, c) \in doomed
                      /\ \A w \in Worker :
                           worker[w].at \in {"insert", "record"} =>
                             worker[w].search # s
    BY <1>4 DEF Gone, others
  <2>1. SearchRow(s) \in doomed
    BY <1>1, RowTypes DEF Progress
  <2>2. ResultRow(s) \in rows => ResultRow(s) \in doomed
    BY <1>1 DEF Progress
  <2>3. \A c \in CV : EvaluationRow(s, c) \in rows
          => EvaluationRow(s, c) \in doomed
    BY <1>1 DEF Progress
  <2>4. \A w \in Worker :
          worker[w].at \in {"insert", "record"} => worker[w].search # s
    BY <1>1, HeldFromWorkers
  <2> QED BY <2>1, <2>2, <2>3, <2>4
<1> QED BY <1>2, <1>3, <1>4, <1>5

LEMMA RollBackKeeps ==
  ASSUME IInv, NEW d \in Deletion, RollBack(d)
  PROVE  IInv'
<1> USE DEF IInv, RollBack
<1>1. Holding(d)
  BY DEF Holding, TypeOK
<1>2. /\ \A e \in Deletion : ~Holding(e)'
      /\ lock' \in [Lockable -> SUBSET (Deletion \cup Worker)]
      /\ deletion' \in [Deletion -> DeletionSteps]
      /\ WritesKnown' /\ WorkersLock' /\ ExportsRead' /\ Deleting'
      /\ OneHolds'
  BY <1>1, EndsKeeps
<1>3. TypeOK'
  BY <1>2 DEF TypeOK, DeletionSteps, others
<1>4. NothingDangles' /\ Gone'
  BY DEF NothingDangles, Gone, others, Closed
<1> QED BY <1>2, <1>3, <1>4

-----------------------------------------------------------------------------
(* The worker's steps.                                                     *)

WorkerSteps ==
  [at : {"idle", "evaluating", "record", "insert"},
   search : Search \cup {NULL}, cv : CV \cup {NULL}]

LEMMA LockSearchKeeps ==
  ASSUME IInv, NEW w \in Worker, NEW s \in Search, LockSearch(w, s)
  PROVE  IInv'
<1> USE DEF IInv, LockSearch, notWorker
<1>1. /\ worker'[w] = [at |-> "insert", search |-> s, cv |-> NULL]
      /\ \A v \in Worker \ {w} : worker'[v] = worker[v]
  BY DEF TypeOK
<1>2. SearchRow(s) \in Lockable
  BY RowTypes
<1>3. /\ lock'[SearchRow(s)] = lock[SearchRow(s)] \cup {w}
      /\ \A r \in Lockable \ {SearchRow(s)} : lock'[r] = lock[r]
  BY <1>2 DEF TypeOK
<1>4. \A d \in Deletion, r \in Lockable : lock[r] = {d} => lock'[r] = {d}
  BY <1>3 DEF ByDeletion
<1>5. TypeOK'
  <2>1. lock' \in [Lockable -> SUBSET (Deletion \cup Worker)]
    BY <1>2 DEF TypeOK
  <2>2. worker' \in [Worker -> WorkerSteps]
    BY DEF TypeOK, WorkerSteps
  <2> QED BY <2>1, <2>2 DEF TypeOK, WorkerSteps
<1>6. WritesKnown'
  BY <1>1 DEF WritesKnown
<1>7. OneHolds'
  BY <1>4, RowTypes DEF OneHolds, Holding
<1>8. WorkersLock'
  <2>1. \A v \in Worker : worker[v].at # "idle" =>
          /\ SearchRow(worker[v].search) \in Lockable
          /\ ResultRow(worker[v].search) \in Lockable
    BY RowTypes DEF WritesKnown
  <2>2. \A r \in Lockable : lock[r] \subseteq lock'[r]
    BY <1>3
  <2> QED BY <1>1, <1>3, <2>1, <2>2 DEF WorkersLock
<1>9. NothingDangles'
  BY <1>1 DEF NothingDangles, Closed
<1>10. Deleting'
  <2>1. \A t \in Search : SearchRow(t) \in Lockable /\ ResultRow(t) \in Lockable
    BY RowTypes
  <2> QED BY <1>4, <2>1
       DEF Deleting, Holding, SearchesHeld, ResultsHeld, Progress
<1>11. Gone'
  BY <1>1 DEF Gone
<1>12. ExportsRead'
  BY DEF ExportsRead, Closed
<1> QED BY <1>5, <1>6, <1>7, <1>8, <1>9, <1>10, <1>11, <1>12

LEMMA SelectCVKeeps ==
  ASSUME IInv, NEW w \in Worker, NEW s \in Search, NEW c \in CV,
         SelectCV(w, s, c)
  PROVE  IInv'
<1> USE DEF IInv, SelectCV, notWorker
<1>1. /\ worker'[w] = [at |-> "evaluating", search |-> s, cv |-> c]
      /\ \A v \in Worker \ {w} : worker'[v] = worker[v]
  BY DEF TypeOK
<1>2. TypeOK'
  <2>1. worker' \in [Worker -> WorkerSteps]
    BY DEF TypeOK, WorkerSteps
  <2> QED BY <2>1 DEF TypeOK, WorkerSteps
<1>3. WritesKnown' /\ WorkersLock' /\ Gone'
  BY <1>1 DEF WritesKnown, WorkersLock, Gone
<1>4. NothingDangles'
  BY <1>1 DEF NothingDangles, Closed
<1>5. OneHolds' /\ ExportsRead'
  BY DEF OneHolds, Holding, ExportsRead, Closed
<1>6. Deleting'
  BY DEF Deleting, Holding, SearchesHeld, ResultsHeld, Progress
<1> QED BY <1>2, <1>3, <1>4, <1>5, <1>6

LEMMA LockSearchResultKeeps ==
  ASSUME IInv, NEW w \in Worker, LockSearchResult(w)
  PROVE  IInv'
<1> USE DEF IInv, notWorker
<1> DEFINE s == worker[w].search
           r == ResultRow(s)
<1>1. /\ worker[w].at = "evaluating" /\ s \in Search
      /\ worker[w].cv \in CV
  BY DEF LockSearchResult, WritesKnown
<1>2. r \in Lockable
  BY <1>1, RowTypes
<1>3. CASE r \in rows
  <2>1. /\ lock[r] = {} /\ lock' = [lock EXCEPT ![r] = {w}]
        /\ worker' = [worker EXCEPT ![w].at = "record"]
        /\ UNCHANGED <<rows, notWorker>>
    BY <1>3 DEF LockSearchResult
  <2>2. /\ lock'[r] = {w}
        /\ \A q \in Lockable \ {r} : lock'[q] = lock[q]
    BY <1>2, <2>1 DEF TypeOK
  <2>3. /\ worker'[w].at = "record" /\ worker'[w].search = s
        /\ worker'[w].cv = worker[w].cv
        /\ \A v \in Worker \ {w} : worker'[v] = worker[v]
    BY <2>1 DEF TypeOK
  <2>4. TypeOK'
    <3>1. lock' \in [Lockable -> SUBSET (Deletion \cup Worker)]
      BY <1>2, <2>1 DEF TypeOK
    <3>2. worker \in [Worker -> WorkerSteps]
      BY DEF TypeOK, WorkerSteps
    <3>3. [worker[w] EXCEPT !.at = "record"] \in WorkerSteps
      BY <3>2 DEF WorkerSteps
    <3>4. worker' \in [Worker -> WorkerSteps]
      BY <2>1, <3>2, <3>3
    <3> QED BY <2>1, <3>1, <3>4 DEF TypeOK, WorkerSteps
  <2>5. \A d \in Deletion, q \in Lockable : lock[q] = {d} => lock'[q] = {d}
    BY <2>1, <2>2
  <2>6. WritesKnown'
    BY <1>1, <2>1, <2>3 DEF WritesKnown
  <2>7. OneHolds'
    BY <2>1, <2>5, RowTypes DEF OneHolds, Holding
  <2>8. WorkersLock'
    <3>1. \A v \in Worker : worker[v].at # "idle" =>
            /\ SearchRow(worker[v].search) \in Lockable
            /\ ResultRow(worker[v].search) \in Lockable
      BY RowTypes DEF WritesKnown
    <3>2. \A q \in Lockable : lock[q] \subseteq lock'[q]
      BY <2>1, <2>2
    <3> QED BY <2>2, <2>3, <3>1, <3>2 DEF WorkersLock
  <2>9. NothingDangles'
    BY <1>1, <2>1, <2>3 DEF NothingDangles, Closed
  <2>10. Deleting'
    <3>1. \A t \in Search :
            SearchRow(t) \in Lockable /\ ResultRow(t) \in Lockable
      BY RowTypes
    <3> QED BY <2>1, <2>5, <3>1
         DEF Deleting, Holding, SearchesHeld, ResultsHeld, Progress
  <2>11. Gone'
    BY <1>1, <1>3, <2>1, <2>3 DEF Gone
  <2>12. ExportsRead'
    BY <2>1 DEF ExportsRead, Closed
  <2> QED BY <2>4, <2>6, <2>7, <2>8, <2>9, <2>10, <2>11, <2>12
<1>4. CASE r \notin rows
  <2>1. /\ worker' = [worker EXCEPT ![w] = IdleWorker]
        /\ UNCHANGED <<lock, rows, notWorker>>
    BY <1>4 DEF LockSearchResult
  <2>2. /\ worker'[w] = IdleWorker
        /\ \A v \in Worker \ {w} : worker'[v] = worker[v]
    BY <2>1 DEF TypeOK
  <2>3. TypeOK'
    <3>1. worker' \in [Worker -> WorkerSteps]
      BY <2>1 DEF TypeOK, WorkerSteps, IdleWorker
    <3> QED BY <2>1, <3>1 DEF TypeOK, WorkerSteps
  <2>4. WritesKnown' /\ WorkersLock' /\ Gone'
    BY <2>1, <2>2 DEF WritesKnown, WorkersLock, Gone, IdleWorker
  <2>5. NothingDangles'
    BY <2>1, <2>2 DEF NothingDangles, Closed, IdleWorker
  <2>6. OneHolds' /\ ExportsRead'
    BY <2>1 DEF OneHolds, Holding, ExportsRead, Closed
  <2>7. Deleting'
    BY <2>1 DEF Deleting, Holding, SearchesHeld, ResultsHeld, Progress
  <2> QED BY <2>3, <2>4, <2>5, <2>6, <2>7
<1> QED BY <1>3, <1>4

(* A worker that has written gives back its locks, and nobody else's.      *)
LEMMA WrittenKeeps ==
  ASSUME IInv, NEW w \in Worker, worker[w].at \in {"insert", "record"},
         lock' = Unlocked(w), worker' = [worker EXCEPT ![w] = IdleWorker],
         rows \subseteq rows', User \in rows' => User \in rows,
         UNCHANGED notWorker
  PROVE  /\ lock' \in [Lockable -> SUBSET (Deletion \cup Worker)]
         /\ worker' \in [Worker -> WorkerSteps]
         /\ \A d \in Deletion, r \in Lockable : lock[r] = {d} => lock'[r] = {d}
         /\ WritesKnown' /\ WorkersLock' /\ OneHolds' /\ ExportsRead'
         /\ worker'[w] = IdleWorker
         /\ \A v \in Worker \ {w} : worker'[v] = worker[v]
<1> USE DEF IInv, notWorker
<1>1. /\ worker'[w] = IdleWorker
      /\ \A v \in Worker \ {w} : worker'[v] = worker[v]
  BY DEF TypeOK
<1>2. lock' \in [Lockable -> SUBSET (Deletion \cup Worker)]
  BY DEF TypeOK, Unlocked
<1>3. worker' \in [Worker -> WorkerSteps]
  BY DEF TypeOK, WorkerSteps, IdleWorker
<1>4. \A d \in Deletion, r \in Lockable : lock[r] = {d} => lock'[r] = {d}
  BY ActorsAssumption DEF Unlocked
<1>5. WritesKnown'
  BY <1>1 DEF WritesKnown, IdleWorker
<1>6. WorkersLock'
  <2>1. \A v \in Worker : worker[v].at # "idle" =>
          /\ SearchRow(worker[v].search) \in Lockable
          /\ ResultRow(worker[v].search) \in Lockable
    BY RowTypes DEF WritesKnown
  <2>2. \A v \in Worker \ {w}, r \in Lockable : v \in lock[r] => v \in lock'[r]
    BY DEF Unlocked
  <2> QED BY <1>1, <2>1, <2>2 DEF WorkersLock, IdleWorker
<1>7. OneHolds'
  BY <1>4, RowTypes DEF OneHolds, Holding
<1>8. ExportsRead'
  BY DEF ExportsRead, Closed
<1> QED BY <1>1, <1>2, <1>3, <1>4, <1>5, <1>6, <1>7, <1>8

LEMMA InsertResultKeeps ==
  ASSUME IInv, NEW w \in Worker, InsertResult(w)
  PROVE  IInv'
<1> USE DEF IInv, InsertResult
<1> DEFINE s == worker[w].search
<1>1. s \in Search /\ rows' = rows \cup {ResultRow(s)} /\ ResultRow(s) # User
  BY RowFields DEF WritesKnown
<1>2. /\ lock' \in [Lockable -> SUBSET (Deletion \cup Worker)]
      /\ worker' \in [Worker -> WorkerSteps]
      /\ \A d \in Deletion, r \in Lockable : lock[r] = {d} => lock'[r] = {d}
      /\ WritesKnown' /\ WorkersLock' /\ OneHolds' /\ ExportsRead'
      /\ worker'[w] = IdleWorker
      /\ \A v \in Worker \ {w} : worker'[v] = worker[v]
  BY <1>1, WrittenKeeps
<1>3. TypeOK'
  BY <1>1, <1>2, RowTypes DEF TypeOK, WorkerSteps, notWorker
<1>4. NothingDangles'
  <2>1. User \in rows => Closed(rows')
    BY <1>1, RowFields DEF NothingDangles, Closed
  <2> QED BY <1>1, <1>2, <2>1 DEF NothingDangles, notWorker, IdleWorker, Closed
<1>5. Deleting'
  <2> SUFFICES ASSUME NEW d \in Deletion, Holding(d)
               PROVE  SearchesHeld(d)' /\ ResultsHeld(d)' /\ Progress(d)'
    BY DEF Deleting, Holding, notWorker
  <2>1. SearchesHeld(d) /\ ResultsHeld(d) /\ Progress(d)
    BY DEF Deleting
  <2>2. \A t \in Search :
          SearchRow(t) \in Lockable /\ ResultRow(t) \in Lockable
    BY RowTypes
  <2>3. deletion[d].at # "searches" => SearchRow(s) \notin before
    BY HeldFromWorkers
  <2>4. \A t \in Search : /\ SearchRow(t) \in before
                          /\ deletion[d].at # "searches"
                          /\ ResultRow(t) \in rows'
                          => ResultRow(t) \in rows
    BY <1>1, <2>3, RowFields
  <2>5. deletion[d].done >= 1 => deletion[d].at = "delete"
    BY DEF OneHolds
  <2>6. SearchesHeld(d)'
    BY <1>2, <2>1, <2>2 DEF SearchesHeld, notWorker
  <2>7. ResultsHeld(d)'
    BY <1>2, <2>1, <2>2, <2>4 DEF ResultsHeld, notWorker
  <2>8. deletion[d].done \in Nat
    BY DEF TypeOK
  <2>9. \A t \in Search, c \in CV :
          EvaluationRow(t, c) \in rows' => EvaluationRow(t, c) \in rows
    BY <1>1, RowFields
  <2>10. Progress(d)'
    BY <2>1, <2>4, <2>5, <2>8, <2>9 DEF Progress, notWorker
  <2> QED BY <2>6, <2>7, <2>10
<1>6. Gone'
  <2>1. \A t \in Search : SearchRow(t) # ResultRow(s)
    BY RowFields
  <2>2. \A t \in Search : ResultRow(t) = ResultRow(s) => t = s
    BY RowFields
  <2>3. \A t \in Search, c \in CV : EvaluationRow(t, c) # ResultRow(s)
    BY RowFields
  <2> QED BY <1>1, <1>2, <2>1, <2>2, <2>3 DEF Gone, notWorker, IdleWorker
<1> QED BY <1>2, <1>3, <1>4, <1>5, <1>6

LEMMA SaveEvaluationKeeps ==
  ASSUME IInv, NEW w \in Worker, SaveEvaluation(w)
  PROVE  IInv'
<1> USE DEF IInv, SaveEvaluation
<1> DEFINE s == worker[w].search
           c == worker[w].cv
<1>1. /\ s \in Search /\ c \in CV /\ rows' = rows \cup {EvaluationRow(s, c)}
      /\ EvaluationRow(s, c) # User
  BY RowFields DEF WritesKnown
<1>2. /\ lock' \in [Lockable -> SUBSET (Deletion \cup Worker)]
      /\ worker' \in [Worker -> WorkerSteps]
      /\ \A d \in Deletion, r \in Lockable : lock[r] = {d} => lock'[r] = {d}
      /\ WritesKnown' /\ WorkersLock' /\ OneHolds' /\ ExportsRead'
      /\ worker'[w] = IdleWorker
      /\ \A v \in Worker \ {w} : worker'[v] = worker[v]
  BY <1>1, WrittenKeeps
<1>3. TypeOK'
  BY <1>1, <1>2, RowTypes DEF TypeOK, WorkerSteps, notWorker
<1>4. NothingDangles'
  <2>1. User \in rows => ResultRow(s) \in rows /\ CVRow(c) \in rows
    BY DEF NothingDangles
  <2>2. User \in rows => Closed(rows')
    <3>1. \A t \in Search : ResultRow(t) # EvaluationRow(s, c)
      BY RowFields
    <3>2. \A b \in CV : SectionRow(b) # EvaluationRow(s, c)
      BY RowFields
    <3>3. \A t \in Search, b \in CV :
            EvaluationRow(t, b) = EvaluationRow(s, c) => t = s /\ b = c
      BY RowFields
    <3> QED BY <1>1, <2>1, <3>1, <3>2, <3>3 DEF NothingDangles, Closed
  <2> QED BY <1>1, <1>2, <2>2 DEF NothingDangles, notWorker, IdleWorker, Closed
<1>5. Deleting'
  <2> SUFFICES ASSUME NEW d \in Deletion, Holding(d)
               PROVE  SearchesHeld(d)' /\ ResultsHeld(d)' /\ Progress(d)'
    BY DEF Deleting, Holding, notWorker
  <2>1. SearchesHeld(d) /\ ResultsHeld(d) /\ Progress(d)
    BY DEF Deleting
  <2>2. \A t \in Search :
          SearchRow(t) \in Lockable /\ ResultRow(t) \in Lockable
    BY RowTypes
  <2>3. deletion[d].at = "delete" => SearchRow(s) \notin before
    BY HeldFromWorkers
  <2>4. \A t \in Search : ResultRow(t) \in rows' => ResultRow(t) \in rows
    BY <1>1, RowFields
  <2>5. deletion[d].done >= 1 => deletion[d].at = "delete"
    BY DEF OneHolds
  <2>6. SearchesHeld(d)'
    BY <1>2, <2>1, <2>2 DEF SearchesHeld, notWorker
  <2>7. ResultsHeld(d)'
    BY <1>2, <2>1, <2>2, <2>4 DEF ResultsHeld, notWorker
  <2>8. \A t \in Search, b \in CV :
          /\ deletion[d].at = "delete" /\ SearchRow(t) \in before
          /\ EvaluationRow(t, b) \in rows'
          => EvaluationRow(t, b) \in rows
    BY <1>1, <2>3, RowFields
  <2>9. Progress(d)'
    BY <2>1, <2>4, <2>5, <2>8 DEF Progress, notWorker
  <2> QED BY <2>6, <2>7, <2>9
<1>6. Gone'
  <2>1. \A t \in Search : SearchRow(t) # EvaluationRow(s, c)
                          /\ ResultRow(t) # EvaluationRow(s, c)
    BY RowFields
  <2>2. \A t \in Search, b \in CV :
          EvaluationRow(t, b) = EvaluationRow(s, c) => t = s
    BY RowFields
  <2> QED BY <1>1, <1>2, <2>1, <2>2 DEF Gone, notWorker, IdleWorker
<1> QED BY <1>2, <1>3, <1>4, <1>5, <1>6

-----------------------------------------------------------------------------
(* Other requests.                                                         *)

UploadSteps ==
  [at : {"idle", "extracting", "sections"}, cv : CV \cup {NULL}]

LEMMA RowsApart ==
  ASSUME NEW r,
         r.table \in {"cvs", "section_embeddings", "keys",
                      "portal_suggestions"}
  PROVE  /\ r \notin Results \cup Evaluations \cup {User}
         /\ r \notin Searches
BY RowFields DEF Results, Evaluations, Searches

(* A row that is stored takes nothing from a deletion, whose searches and  *)
(* results it does not add to.                                             *)
LEMMA StoredKeeps ==
  ASSUME IInv, NEW r \in Rows, rows' = rows \cup {r},
         r \notin Results \cup Evaluations \cup {User},
         r \in Searches => r \notin before,
         \A c \in CV : r = SectionRow(c) /\ User \in rows => CVRow(c) \in rows,
         UNCHANGED <<here, deletion, doomed, before, lock, worker, export>>
  PROVE  /\ rows' \subseteq Rows /\ doomed' \subseteq rows'
         /\ User \in rows' => User \in rows
         /\ User \in rows => Closed(rows')
         /\ WorkersLock' /\ OneHolds' /\ Deleting' /\ Gone' /\ ExportsRead'
<1> USE DEF IInv
<1>1. rows' \subseteq Rows /\ doomed' \subseteq rows'
  BY DEF TypeOK
<1>2. User \in rows' => User \in rows
  OBVIOUS
<1>3. /\ \A s \in Search : ResultRow(s) # r
      /\ \A s \in Search, c \in CV : EvaluationRow(s, c) # r
      /\ \A s \in Search : r = SearchRow(s) => r \notin before
  BY RowTypes
<1>4. User \in rows => Closed(rows')
  BY <1>3 DEF NothingDangles, Closed
<1>5. WorkersLock' /\ OneHolds' /\ ExportsRead'
  BY DEF WorkersLock, OneHolds, Holding, ExportsRead, Closed
<1>6. Deleting'
  BY <1>3 DEF Deleting, Holding, SearchesHeld, ResultsHeld, Progress
<1>7. Gone'
  BY <1>3 DEF Gone
<1> QED BY <1>1, <1>2, <1>4, <1>5, <1>6, <1>7

LEMMA RequestKeeps ==
  ASSUME IInv, upload' \in [Upload -> UploadSteps],
         creating' \subseteq Create,
         \A u \in Upload : upload'[u].at = "sections" => upload'[u] = upload[u],
         UNCHANGED <<here, rows, deletion, doomed, before, lock, worker, export>>
  PROVE  IInv'
<1> USE DEF IInv
<1>1. TypeOK'
  BY DEF TypeOK, UploadSteps
<1>2. WritesKnown' /\ WorkersLock' /\ OneHolds' /\ Gone' /\ ExportsRead'
  BY DEF WritesKnown, WorkersLock, OneHolds, Holding, Gone, ExportsRead, Closed
<1>3. NothingDangles'
  BY DEF NothingDangles, Closed
<1>4. Deleting'
  BY DEF Deleting, Holding, SearchesHeld, ResultsHeld, Progress
<1> QED BY <1>1, <1>2, <1>3, <1>4

LEMMA UploadStartsOrFails ==
  ASSUME IInv, NEW u \in Upload, StartUpload(u) \/ UploadFails(u)
  PROVE  IInv'
<1> USE DEF notRequest
<1>1. upload \in [Upload -> UploadSteps] /\ creating \subseteq Create
  BY DEF IInv, TypeOK, UploadSteps
<1>2. CASE StartUpload(u)
  <2>1. [upload[u] EXCEPT !.at = "extracting"] \in UploadSteps
    BY <1>1 DEF UploadSteps
  <2>2. upload' \in [Upload -> UploadSteps]
    BY <1>1, <1>2, <2>1 DEF StartUpload
  <2>3. \A v \in Upload : upload'[v].at = "sections" => upload'[v] = upload[v]
    BY <1>1, <1>2 DEF StartUpload, UploadSteps
  <2> QED BY <1>1, <1>2, <2>2, <2>3, RequestKeeps DEF StartUpload
<1>3. CASE UploadFails(u)
  <2>1. upload' \in [Upload -> UploadSteps]
    BY <1>1, <1>3 DEF UploadFails, UploadSteps, IdleUpload
  <2>2. \A v \in Upload : upload'[v].at = "sections" => upload'[v] = upload[v]
    BY <1>1, <1>3 DEF UploadFails, IdleUpload
  <2> QED BY <1>1, <1>3, <2>1, <2>2, RequestKeeps DEF UploadFails
<1> QED BY <1>2, <1>3

LEMMA StoreCVKeeps ==
  ASSUME IInv, NEW u \in Upload, NEW c \in CV, StoreCV(u, c)
  PROVE  IInv'
<1> USE DEF IInv, StoreCV, notRequest
<1>1. /\ upload'[u] = [at |-> "sections", cv |-> c]
      /\ \A v \in Upload \ {u} : upload'[v] = upload[v]
  BY DEF TypeOK
<1>2. /\ CVRow(c) \in Rows
      /\ CVRow(c) \notin Results \cup Evaluations \cup {User}
      /\ CVRow(c) \notin Searches
      /\ \A b \in CV : CVRow(c) # SectionRow(b)
  <2>1. CVRow(c).table = "cvs" /\ \A b : CVRow(c) # SectionRow(b)
    BY RowFields
  <2> QED BY <2>1, RowTypes, RowsApart
<1>3. /\ rows' \subseteq Rows /\ doomed' \subseteq rows'
      /\ User \in rows' => User \in rows
      /\ User \in rows => Closed(rows')
      /\ WorkersLock' /\ OneHolds' /\ Deleting' /\ Gone' /\ ExportsRead'
  BY <1>2, StoredKeeps
<1>4. TypeOK'
  BY <1>3 DEF TypeOK
<1>5. WritesKnown'
  BY <1>1 DEF WritesKnown
<1>6. NothingDangles'
  BY <1>1, <1>3 DEF NothingDangles, Closed
<1> QED BY <1>3, <1>4, <1>5, <1>6

LEMMA StoreSectionsKeeps ==
  ASSUME IInv, NEW u \in Upload, StoreSections(u)
  PROVE  IInv'
<1> USE DEF IInv, StoreSections, notRequest
<1> DEFINE c == upload[u].cv
<1>1. /\ upload'[u] = IdleUpload
      /\ \A v \in Upload \ {u} : upload'[v] = upload[v]
  BY DEF TypeOK
<1>2. c \in CV /\ (User \in rows => CVRow(c) \in rows)
  BY DEF WritesKnown, NothingDangles
<1>3. /\ SectionRow(c) \in Rows
      /\ SectionRow(c) \notin Results \cup Evaluations \cup {User}
      /\ SectionRow(c) \notin Searches
      /\ \A b \in CV : SectionRow(c) = SectionRow(b) => b = c
  <2>1. SectionRow(c).table = "section_embeddings"
        /\ \A b : SectionRow(c) = SectionRow(b) => b = c
    BY RowFields
  <2> QED BY <1>2, <2>1, RowTypes, RowsApart
<1>4. /\ rows' \subseteq Rows /\ doomed' \subseteq rows'
      /\ User \in rows' => User \in rows
      /\ User \in rows => Closed(rows')
      /\ WorkersLock' /\ OneHolds' /\ Deleting' /\ Gone' /\ ExportsRead'
  BY <1>2, <1>3, StoredKeeps
<1>5. TypeOK'
  BY <1>4 DEF TypeOK, IdleUpload
<1>6. WritesKnown'
  BY <1>1 DEF WritesKnown, IdleUpload
<1>7. NothingDangles'
  BY <1>1, <1>4 DEF NothingDangles, Closed, IdleUpload
<1> QED BY <1>4, <1>5, <1>6, <1>7

LEMMA StartKeeps ==
  ASSUME IInv, NEW q \in Create, Start(q)
  PROVE  IInv'
<1>1. upload' \in [Upload -> UploadSteps] /\ creating' \subseteq Create
  BY DEF IInv, TypeOK, UploadSteps, Start
<1> QED BY <1>1, RequestKeeps DEF Start, notRequest

LEMMA InsertKeeps ==
  ASSUME IInv, NEW q \in Create, NEW r \in Rows, Insert(q, r),
         r \notin Results \cup Evaluations \cup {User},
         r \in Searches => r \notin before,
         \A c \in CV : r # SectionRow(c)
  PROVE  IInv'
<1> USE DEF IInv, Insert, notRequest
<1>1. /\ rows' \subseteq Rows /\ doomed' \subseteq rows'
      /\ User \in rows' => User \in rows
      /\ User \in rows => Closed(rows')
      /\ WorkersLock' /\ OneHolds' /\ Deleting' /\ Gone' /\ ExportsRead'
  BY StoredKeeps
<1>2. TypeOK'
  BY <1>1 DEF TypeOK
<1>3. WritesKnown'
  BY DEF WritesKnown
<1>4. NothingDangles'
  BY <1>1 DEF NothingDangles, Closed
<1> QED BY <1>1, <1>2, <1>3, <1>4

LEMMA InsertsKeep ==
  ASSUME IInv, NEW q \in Create,
         InsertKey(q) \/ InsertSuggestion(q) \/ InsertSearch(q)
  PROVE  IInv'
<1>1. CASE InsertKey(q)
  <2>1. KeyRow.table = "keys" /\ \A c : KeyRow # SectionRow(c)
    BY RowFields
  <2> QED BY <1>1, <2>1, RowTypes, RowsApart, InsertKeeps DEF InsertKey
<1>2. CASE InsertSuggestion(q)
  <2>1. SuggestionRow.table = "portal_suggestions"
        /\ \A c : SuggestionRow # SectionRow(c)
    BY RowFields
  <2> QED BY <1>2, <2>1, RowTypes, RowsApart, InsertKeeps
       DEF InsertSuggestion
<1>3. CASE InsertSearch(q)
  <2>1. PICK s \in Search : ~InUse(s) /\ Insert(q, SearchRow(s))
    BY <1>3 DEF InsertSearch
  <2>2. SearchRow(s) \in Searches /\ SearchRow(s) \in Rows
    BY RowTypes
  <2>3. SearchRow(s) \notin before
    BY <2>1, <2>2, RowFields DEF InUse
  <2>4. SearchRow(s) \notin Results \cup Evaluations \cup {User}
    BY RowFields DEF Results, Evaluations
  <2>5. \A c \in CV : SearchRow(s) # SectionRow(c)
    BY RowFields
  <2> QED BY <2>1, <2>2, <2>3, <2>4, <2>5, InsertKeeps
<1> QED BY <1>1, <1>2, <1>3

-----------------------------------------------------------------------------
(* The export's steps.                                                     *)

ExportSteps ==
  [at : 0..Len(Queries), snapshot : SUBSET Rows, read : SUBSET Rows]

LEMMA ExportKeeps ==
  ASSUME IInv, NEW x \in Export, UNCHANGED notExport,
         StartExport(x) \/ Query(x) \/ SendExport(x)
  PROVE  IInv'
<1> USE DEF IInv, notExport
<1>1. WritesKnown' /\ WorkersLock' /\ OneHolds' /\ Gone'
  BY DEF WritesKnown, WorkersLock, OneHolds, Holding, Gone
<1>2. NothingDangles' /\ Deleting'
  BY DEF NothingDangles, Closed, Deleting, Holding, SearchesHeld,
         ResultsHeld, Progress
<1>3. export \in [Export -> ExportSteps] /\ export[x] \in ExportSteps
  BY DEF TypeOK, ExportSteps
<1> DEFINE good(e) ==
       /\ Closed(e.snapshot)
       /\ e.read \subseteq e.snapshot
       /\ e.at >= 2 => e.snapshot \cap {CVRow(c) : c \in CV} \subseteq e.read
       /\ e.at >= 5 => e.snapshot \cap Results \subseteq e.read
       /\ e.at < 3 => e.read \cap {SectionRow(c) : c \in CV} = {}
       /\ e.at < 6 => e.read \cap Evaluations = {}
<1>4. ASSUME NEW e \in ExportSteps, good(e),
             export' = [export EXCEPT ![x] = e]
      PROVE  IInv'
  <2>1. export' \in [Export -> ExportSteps]
    BY <1>3, <1>4
  <2>2. TypeOK'
    BY <2>1 DEF TypeOK, ExportSteps
  <2>3. ExportsRead'
    BY <1>3, <1>4 DEF ExportsRead, Closed
  <2> QED BY <1>1, <1>2, <2>2, <2>3
<1>5. CASE StartExport(x)
  <2> DEFINE e == [at |-> 1, snapshot |-> rows, read |-> {User}]
  <2>1. e \in ExportSteps
    BY <1>5, QueryFacts DEF ExportSteps, StartExport, TypeOK
  <2>2. User \notin {SectionRow(c) : c \in CV} /\ User \notin Evaluations
    BY RowFields DEF Evaluations
  <2>3. good(e)
    BY <1>5, <2>2 DEF StartExport, NothingDangles
  <2> QED BY <1>4, <1>5, <2>1, <2>3 DEF StartExport
<1>6. CASE SendExport(x)
  <2>1. IdleExport \in ExportSteps
    BY QueryFacts DEF ExportSteps, IdleExport
  <2>2. good(IdleExport)
    BY DEF IdleExport, Closed
  <2> QED BY <1>4, <1>6, <2>1, <2>2 DEF SendExport
<1>7. CASE Query(x)
  <2> DEFINE k == export[x].at
             new == View(x) \cap Of(Queries[k + 1])
             e == [export[x] EXCEPT !.at = k + 1, !.read = @ \cup new]
  <2>1. k \in 1..7
    BY <1>7, QueryFacts DEF Query
  <2>2. new \subseteq export[x].snapshot
    BY DEF View
  <2>3. e \in ExportSteps
    <3>1. k + 1 \in 0..Len(Queries)
      BY <2>1, QueryFacts
    <3>2. export[x].read \cup new \in SUBSET Rows
      BY <1>3, <2>2 DEF ExportSteps
    <3> HIDE DEF k, new
    <3> QED BY <1>3, <3>1, <3>2 DEF ExportSteps
  <2>4. /\ e.at = k + 1 /\ e.snapshot = export[x].snapshot
        /\ e.read = export[x].read \cup new
    BY <1>3 DEF ExportSteps
  <2>5. good(export[x])
    BY DEF ExportsRead
  <2>6. \A c \in CV, r \in Evaluations : SectionRow(c) # r
    BY RowFields DEF Evaluations
  <2>7. k + 1 < 3 => Of(Queries[k + 1]) \cap {SectionRow(c) : c \in CV} = {}
    <3>1. k + 1 < 3 => Queries[k + 1] = {"cvs"}
      BY <2>1, QueryFacts
    <3>2. \A b, c \in CV : CVRow(b) # SectionRow(c)
      BY RowFields
    <3>3. Of({"cvs"}) \cap {SectionRow(c) : c \in CV} = {}
      BY <3>2, RowsOf
    <3> HIDE DEF k
    <3> QED BY <3>1, <3>3
  <2>8. k + 1 < 6 => Of(Queries[k + 1]) \cap Evaluations = {}
    <3>1. Evaluations \cap Of(Queries[k + 1])
            = {r \in Of({"evaluations"}) : r.table \in Queries[k + 1]}
      BY RowsOf, RowTypes DEF Of
    <3>2. k + 1 < 6 => "evaluations" \notin Queries[k + 1]
      BY <2>1, QueryFacts
    <3> QED BY <3>1, <3>2 DEF Of
  <2>9. k + 1 >= 2 =>
          e.snapshot \cap {CVRow(c) : c \in CV} \subseteq e.read
    <3>1. k >= 2 \/ (k = 1 /\ Queries[k + 1] = {"cvs"})
      BY <2>1, QueryFacts
    <3>2. k = 1 => new = e.snapshot \cap {CVRow(c) : c \in CV}
      <4>1. k = 1 => Of(Queries[k + 1]) = {CVRow(c) : c \in CV}
        <5>1. k = 1 => k + 1 = 2
          OBVIOUS
        <5> HIDE DEF k
        <5> QED BY <5>1, QueryFacts, RowsOf
      <4> HIDE DEF k
      <4> QED BY <2>4, <4>1 DEF View
    <3> HIDE DEF k, new, e
    <3> QED BY <2>4, <2>5, <3>1, <3>2 DEF k
  <2>10. k + 1 >= 5 => e.snapshot \cap Results \subseteq e.read
    <3>1. k + 1 >= 5 =>
            k >= 5 \/ (k = 4 /\ Queries[k + 1] = {"search_results"})
      BY <2>1, QueryFacts
    <3>2. k = 4 => new = e.snapshot \cap Results
      <4>1. k = 4 => k + 1 >= 5 /\ ~(k >= 5)
        OBVIOUS
      <4>2. k = 4 => Of(Queries[k + 1]) = Results
        <5> HIDE DEF k
        <5> QED BY <3>1, <4>1, RowsOf
      <4> HIDE DEF k
      <4> QED BY <2>4, <4>2 DEF View
    <3> HIDE DEF k, new, e
    <3> QED BY <2>4, <2>5, <3>1, <3>2 DEF k
  <2>11. good(e)
    <3>1. k < 3 => export[x].read \cap {SectionRow(c) : c \in CV} = {}
      BY <2>5
    <3>2. k < 6 => export[x].read \cap Evaluations = {}
      BY <2>5
    <3> QED BY <2>1, <2>2, <2>4, <2>5, <2>7, <2>8, <2>9, <2>10, <3>1, <3>2
  <2>12. export' = [export EXCEPT ![x] = e]
    BY <1>7 DEF Query
  <2> HIDE DEF e, good
  <2> QED BY <1>4, <2>3, <2>11, <2>12
<1> QED BY <1>5, <1>6, <1>7

-----------------------------------------------------------------------------
LEMMA NextIInv ==
  ASSUME IInv, [Next]_vars
  PROVE  IInv'
<1>1. CASE UNCHANGED vars
  <2>1. TypeOK' /\ WritesKnown' /\ OneHolds' /\ WorkersLock'
    BY <1>1 DEF IInv, vars, TypeOK, WritesKnown, OneHolds, Holding, WorkersLock
  <2>2. NothingDangles' /\ Gone' /\ ExportsRead'
    BY <1>1 DEF IInv, vars, NothingDangles, Gone, ExportsRead, Closed
  <2>3. Deleting'
    BY <1>1 DEF IInv, vars, Deleting, Holding, SearchesHeld, ResultsHeld,
                Progress
  <2> QED BY <2>1, <2>2, <2>3 DEF IInv
<1>2. ASSUME NEW d \in Deletion,
             VerifyPassword(d) \/ Delete(d) \/ RollBack(d)
      PROVE  IInv'
  BY <1>2, VerifyPasswordKeeps, LockUserKeeps, LockNextKeeps,
     SearchesLockedKeeps, ResultsLockedKeeps, DeleteNextKeeps,
     DeleteWaitedKeeps, CommitDeletionKeeps, RollBackKeeps DEF Delete
<1>3. ASSUME NEW w \in Worker,
             \/ \E s \in Search :
                  LockSearch(w, s) \/ \E c \in CV : SelectCV(w, s, c)
             \/ Record(w)
      PROVE  IInv'
  BY <1>3, LockSearchKeeps, SelectCVKeeps, InsertResultKeeps,
     LockSearchResultKeeps, SaveEvaluationKeeps DEF Record
<1>4. ASSUME NEW u \in Upload,
             \/ StartUpload(u) \/ StoreSections(u) \/ UploadFails(u)
             \/ \E c \in CV : StoreCV(u, c)
      PROVE  IInv'
  BY <1>4, UploadStartsOrFails, StoreSectionsKeeps, StoreCVKeeps
<1>5. ASSUME NEW q \in Create,
             \/ StartKey(q) \/ StartSuggestion(q) \/ StartSearch(q)
             \/ InsertKey(q) \/ InsertSuggestion(q) \/ InsertSearch(q)
      PROVE  IInv'
  BY <1>5, StartKeeps, InsertsKeep DEF StartKey, StartSuggestion, StartSearch
<1>6. ASSUME NEW x \in Export, StartExport(x) \/ Query(x) \/ SendExport(x)
      PROVE  IInv'
  BY <1>6, ExportKeeps DEF StartExport, Query, SendExport
<1> QED BY <1>1, <1>2, <1>3, <1>4, <1>5, <1>6 DEF Next

LEMMA Invariance == Spec => []IInv
<1>1. Init => IInv
  BY InitIInv
<1>2. IInv /\ [Next]_vars => IInv'
  BY NextIInv
<1> QED BY <1>1, <1>2, PTL DEF Spec

-----------------------------------------------------------------------------
(* What follows from the invariant.                                        *)

LEMMA IInvLeavesNothing == IInv => WorkersLeaveNothing
<1> SUFFICES ASSUME IInv, User \notin rows,
                    NEW r \in Owned({"search_results", "evaluations"})
             PROVE  SearchRow(r.search) \notin before
  BY DEF WorkersLeaveNothing
<1>1. r \in rows /\ (r \in Results \/ r \in Evaluations)
  <2>1. r \in Of({"search_results"}) \/ r \in Of({"evaluations"})
    BY DEF Owned, Of
  <2> QED BY <2>1, RowsOf DEF Owned
<1>2. ASSUME NEW s \in Search, r = ResultRow(s)
      PROVE  SearchRow(r.search) \notin before
  BY <1>1, <1>2, RowFields DEF IInv, Gone
<1>3. ASSUME NEW s \in Search, NEW c \in CV, r = EvaluationRow(s, c)
      PROVE  SearchRow(r.search) \notin before
  BY <1>1, <1>3, RowFields DEF IInv, Gone
<1> QED BY <1>1, <1>2, <1>3 DEF Results, Evaluations

LEMMA IInvWhatWasThere == IInv => WhatWasThereGoes
<1> SUFFICES ASSUME IInv, NEW d \in Deletion,
                    deletion[d].done = Len(Statements),
                    deletion[d].todo = {},
                    NEW r \in before \ {User}
             PROVE  r \in doomed
  BY DEF WhatWasThereGoes
<1>1. deletion[d].done = 7
  BY StatementFacts
<1>2. Holding(d)
  BY <1>1 DEF IInv, OneHolds, Holding
<1>3. Progress(d) /\ before \subseteq rows /\ Closed(before)
  BY <1>2 DEF IInv, Deleting, OneHolds, NothingDangles
<1>4. CASE r \in Results
  BY <1>1, <1>3, <1>4 DEF Progress, Closed, Results
<1>5. CASE r \in Evaluations
  BY <1>1, <1>3, <1>5 DEF Progress, Closed, Evaluations
<1>6. CASE r \in Searches \cup {KeyRow, SuggestionRow}
           \cup {CVRow(c) : c \in CV} \cup {SectionRow(c) : c \in CV}
  BY <1>1, <1>3, <1>6 DEF Progress
<1>7. r \in Rows
  BY DEF IInv, TypeOK
<1> QED BY <1>4, <1>5, <1>6, <1>7 DEF Rows, Lockable

LEMMA IInvExportIsWhole == IInv => ExportIsWhole
<1> SUFFICES ASSUME IInv, NEW x \in Export, NEW r \in export[x].read
             PROVE  /\ r.table = "evaluations" =>
                         {CVRow(r.cv), ResultRow(r.search)}
                           \subseteq export[x].read
                    /\ r.table = "section_embeddings" =>
                         CVRow(r.cv) \in export[x].read
  BY DEF ExportIsWhole
<1> DEFINE e == export[x]
<1>1. e.at \in Nat /\ r \in Rows
  BY DEF IInv, TypeOK
<1>2. /\ Closed(e.snapshot)
      /\ e.read \subseteq e.snapshot
      /\ e.at >= 2 => e.snapshot \cap {CVRow(c) : c \in CV} \subseteq e.read
      /\ e.at >= 5 => e.snapshot \cap Results \subseteq e.read
      /\ e.at < 3 => e.read \cap {SectionRow(c) : c \in CV} = {}
      /\ e.at < 6 => e.read \cap Evaluations = {}
  BY DEF IInv, ExportsRead
<1>3. ASSUME r.table = "evaluations"
      PROVE  {CVRow(r.cv), ResultRow(r.search)} \subseteq e.read
  <2>1. r \in Evaluations
    BY <1>1, <1>3, RowsOf DEF Of
  <2>2. e.at >= 6
    BY <1>1, <1>2, <2>1
  <2>3. PICK s \in Search, c \in CV : r = EvaluationRow(s, c)
    BY <2>1 DEF Evaluations
  <2>4. r.cv = c /\ r.search = s
    BY <2>3, RowFields
  <2>5. CVRow(c) \in e.snapshot /\ ResultRow(s) \in e.snapshot
    BY <1>2, <2>3 DEF Closed
  <2> QED BY <1>1, <1>2, <2>2, <2>4, <2>5, RowTypes
<1>4. ASSUME r.table = "section_embeddings"
      PROVE  CVRow(r.cv) \in e.read
  <2>1. PICK c \in CV : r = SectionRow(c)
    BY <1>1, <1>4, RowsOf DEF Of
  <2>2. e.at >= 3 /\ r.cv = c
    BY <1>1, <1>2, <2>1, RowFields
  <2>3. CVRow(c) \in e.snapshot
    BY <1>2, <2>1 DEF Closed
  <2> QED BY <1>1, <1>2, <2>2, <2>3
<1> QED BY <1>3, <1>4

(* However deletions, the worker, uploads and other requests interleave,   *)
(* no result or evaluation of a search that the deletion could see         *)
(* outlives the account, and a deletion that is about to commit has        *)
(* deleted everything that was there when it locked the user's row         *)
(* (account.go:42-81, store.go:128-134).                                   *)
THEOREM AccountSafety == Spec => []AccountInv
<1>1. IInv => AccountInv
  BY IInvLeavesNothing, IInvWhatWasThere DEF IInv, AccountInv
<1> QED BY <1>1, Invariance, PTL

(* What an export's rows refer to is in the export (export.go:149-166).    *)
THEOREM ExportsAreWhole == Spec => []ExportIsWhole
BY IInvExportIsWhole, Invariance, PTL
=============================================================================
