------------------------- MODULE RegistrationProofs -------------------------
(***************************************************************************)
(* Proofs about Registration for any replicas, requests, names and bounds, *)
(* and any failures.                                                       *)
(***************************************************************************)
EXTENDS Registration, FiniteSetTheorems, TLAPS

\* The name a request wants is the name of its row; a request has none before
\* its commit, and one between its commit and its answer.
RowsOwned ==
    /\ IsFiniteSet(rows)
    /\ \A row \in rows : name[row[2]] = row[1] /\ pc[row[2]] \notin {"idle", "create"}
    /\ \A q \in Requests :
        pc[q] \in {"created", "list", "listed", "publish"} => <<name[q], q>> \in rows

\* What was answered or announced is final.
AnswersFinal ==
    \A q \in Requests :
        /\ status[q] # 0 => pc[q] = "done"
        /\ q \in announced => pc[q] = "done"

\* The rows of r that were counted: all but those whose request has yet to count.
Counted(r) == {row \in rows : replica[row[2]] = r /\ pc[row[2]] # "created"}

CountedRight == \A r \in Replicas : registered[r] <= Cardinality(Counted(r))

IInv == TypeOK /\ RowsOwned /\ AnswersFinal /\ AnswersAreTrue

-----------------------------------------------------------------------------
(***************************************************************************)
(* Types and answers.                                                      *)
(***************************************************************************)

LEMMA InitIInv ==
    ASSUME Init
    PROVE  IInv
<1>1. TypeOK
  BY RegistrationAssumption DEF Init, TypeOK
<1>2. RowsOwned
  BY FS_EmptySet DEF Init, RowsOwned
<1> QED BY <1>1, <1>2 DEF Init, IInv, AnswersFinal, AnswersAreTrue

\* A step of q that leaves the table alone and does not answer.
LEMMA ResumeIInv ==
    ASSUME IInv, NEW q \in Requests, NEW from \in Suspended, NEW to \in Suspended,
           from # "create", to # "create", Resume(q, from, to),
           UNCHANGED <<rows, announced, replica, name, status, restarts>>,
           registered' \in [Replicas -> Nat], monitored' \in [Replicas -> Nat],
           total' \in [Requests -> Nat]
    PROVE  IInv'
<1> USE DEF IInv, Resume, Suspended
<1>1. TypeOK'
  BY DEF TypeOK
<1>2. RowsOwned'
  BY DEF RowsOwned, TypeOK
<1>3. AnswersFinal'
  BY DEF AnswersFinal, TypeOK
<1>4. AnswersAreTrue'
  BY DEF AnswersAreTrue, Stored
<1> QED BY <1>1, <1>2, <1>3, <1>4

\* A step of q that leaves the table alone and answers something true.
LEMMA AnswerIInv ==
    ASSUME IInv, NEW q \in Requests, NEW from \in Suspended, NEW code \in {201, 409, 500},
           Answer(q, from, code),
           UNCHANGED <<rows, registered, monitored, replica, name, total, restarts>>,
           announced \subseteq announced', announced' \subseteq announced \cup {q},
           q \in announced' => from = "publish",
           code = 201 => q \in announced',
           code = 409 => from = "create" /\ Stored(name[q])
    PROVE  IInv'
<1> USE DEF IInv, Answer, Resume, Suspended
<1>1. TypeOK'
  BY DEF TypeOK
<1>2. RowsOwned'
  BY DEF RowsOwned, TypeOK
<1>3. AnswersFinal'
  BY DEF AnswersFinal, TypeOK
<1>4. AnswersAreTrue'
  <2> SUFFICES ASSUME NEW p \in Requests
               PROVE  /\ status'[p] = 201 => <<name[p], p>> \in rows /\ p \in announced'
                      /\ status'[p] = 409 => Stored(name[p]) /\ <<name[p], p>> \notin rows
                      /\ p \in announced' => <<name[p], p>> \in rows
    BY DEF AnswersAreTrue, Stored
  <2>1. CASE p # q
    BY <2>1 DEF AnswersAreTrue, TypeOK
  <2>2. CASE p = q
    <3>1. status'[q] = code
      BY DEF TypeOK
    <3>2. from = "create" => <<name[q], q>> \notin rows
      BY DEF RowsOwned
    <3>3. from = "publish" => <<name[q], q>> \in rows
      BY DEF RowsOwned
    <3> QED BY <2>2, <3>1, <3>2, <3>3
  <2> QED BY <2>1, <2>2
<1> QED BY <1>1, <1>2, <1>3, <1>4

\* The table after an insertion.
LEMMA InsertIInv ==
    ASSUME IInv, NEW q \in Requests, pc[q] = "create", ~Stored(name[q]), Insert(q),
           NEW to \in {"created", "done"}, Resume(q, "create", to),
           UNCHANGED <<announced, registered, monitored, replica, name, total, restarts>>,
           \/ to = "created" /\ UNCHANGED status
           \/ to = "done" /\ status' = [status EXCEPT ![q] = 500]
    PROVE  IInv'
<1> USE DEF IInv, Resume, Insert
<1>1. TypeOK'
  BY DEF TypeOK, Suspended, Stored
<1>2. RowsOwned'
  <2>1. IsFiniteSet(rows')
    BY FS_AddElement DEF RowsOwned
  <2> QED BY <2>1 DEF RowsOwned, TypeOK
<1>3. AnswersFinal'
  BY DEF AnswersFinal, TypeOK
<1>4. AnswersAreTrue'
  <2>1. status[q] = 0 /\ q \notin announced
    BY DEF AnswersFinal
  <2> SUFFICES ASSUME NEW p \in Requests
               PROVE  /\ status'[p] = 201 => <<name[p], p>> \in rows' /\ p \in announced
                      /\ status'[p] = 409 => (\E row \in rows' : row[1] = name[p]) /\ <<name[p], p>> \notin rows'
                      /\ p \in announced => <<name[p], p>> \in rows'
    BY DEF AnswersAreTrue, Stored
  <2>2. CASE p # q
    BY <2>2 DEF AnswersAreTrue, TypeOK, Stored
  <2>3. CASE p = q
    BY <2>1, <2>3 DEF TypeOK
  <2> QED BY <2>2, <2>3
<1> QED BY <1>1, <1>2, <1>3, <1>4

LEMMA ArriveIInv ==
    ASSUME IInv, NEW q \in Requests, NEW r \in Replicas, NEW n \in Names, Arrive(q, r, n)
    PROVE  IInv'
<1> USE DEF IInv, Arrive, Resume
<1>1. TypeOK'
  BY DEF TypeOK, Suspended
<1>2. RowsOwned'
  BY DEF RowsOwned, TypeOK
<1>3. AnswersFinal'
  BY DEF AnswersFinal, TypeOK
<1>4. AnswersAreTrue'
  BY DEF AnswersAreTrue, AnswersFinal, TypeOK, Stored
<1> QED BY <1>1, <1>2, <1>3, <1>4

\* The inventory is a number.
LEMMA InventoryType ==
    ASSUME RowsOwned
    PROVE  Inventory \in Nat
BY FS_CardinalityType DEF RowsOwned, Inventory

LEMMA RestartIInv ==
    ASSUME IInv, NEW r \in Replicas, Restart(r)
    PROVE  IInv'
<1> USE DEF IInv, Restart
<1>1. TypeOK'
  <2>1. Inventory \in Nat
    BY InventoryType
  <2>2. monitored' \in [Replicas -> Nat]
    BY <2>1 DEF TypeOK
  <2> QED BY <2>2 DEF TypeOK, Suspended, InFlight
<1>2. RowsOwned'
  BY DEF RowsOwned, TypeOK, InFlight, Suspended
<1>3. AnswersFinal'
  BY DEF AnswersFinal, TypeOK, InFlight, Suspended
<1>4. AnswersAreTrue'
  BY DEF AnswersAreTrue, Stored
<1> QED BY <1>1, <1>2, <1>3, <1>4

LEMMA StutterIInv ==
    ASSUME IInv, UNCHANGED vars
    PROVE  IInv'
BY DEF IInv, vars, requestVars, TypeOK, RowsOwned, AnswersFinal, AnswersAreTrue, Stored,
       Suspended

\* Every step keeps the invariant.
LEMMA Inductive ==
    ASSUME IInv, [Next]_vars
    PROVE  IInv'
<1>1. ASSUME NEW q \in Requests, NEW r \in Replicas, NEW n \in Names, Arrive(q, r, n)
      PROVE  IInv'
  BY <1>1, ArriveIInv
<1>2. ASSUME NEW q \in Requests, Commit(q)
      PROVE  IInv'
  BY <1>2, InsertIInv DEF Commit, Resume
<1>3. ASSUME NEW q \in Requests, Conflict(q)
      PROVE  IInv'
  <2>1. q \notin announced
    BY <1>3 DEF IInv, AnswersFinal, Conflict, Answer, Resume
  <2> QED BY <1>3, <2>1, AnswerIInv DEF Conflict, Suspended
<1>4. ASSUME NEW q \in Requests, CommitFails(q)
      PROVE  IInv'
  <2>1. q \notin announced /\ pc[q] = "create"
    BY <1>4 DEF IInv, AnswersFinal, CommitFails, Answer, Resume
  <2>2. CASE UNCHANGED rows
    BY <1>4, <2>1, <2>2, AnswerIInv DEF CommitFails, CommitError, Suspended
  <2>3. CASE ~Stored(name[q]) /\ Insert(q)
    BY <1>4, <2>1, <2>3, InsertIInv DEF CommitFails, CommitError, Answer
  <2> QED BY <1>4, <2>2, <2>3 DEF CommitFails
<1>5. ASSUME NEW q \in Requests, Created(q)
      PROVE  IInv'
  <2>1. registered' \in [Replicas -> Nat]
    BY <1>5 DEF Created, IInv, TypeOK
  <2>2. UNCHANGED <<monitored, total>> /\ monitored \in [Replicas -> Nat] /\ total \in [Requests -> Nat]
    BY <1>5 DEF Created, IInv, TypeOK
  <2> QED BY <1>5, <2>1, <2>2, ResumeIInv DEF Created, Suspended
<1>6. ASSUME NEW q \in Requests, List(q)
      PROVE  IInv'
  <2>1. total' \in [Requests -> Nat]
    BY <1>6, InventoryType DEF List, IInv, TypeOK
  <2>2. /\ UNCHANGED <<registered, monitored>>
        /\ registered \in [Replicas -> Nat] /\ monitored \in [Replicas -> Nat]
    BY <1>6 DEF List, IInv, TypeOK
  <2> QED BY <1>6, <2>1, <2>2, ResumeIInv DEF List, Suspended
<1>7. ASSUME NEW q \in Requests, ListFails(q)
      PROVE  IInv'
  <2>1. /\ UNCHANGED <<registered, monitored, total>> /\ total \in [Requests -> Nat]
        /\ registered \in [Replicas -> Nat] /\ monitored \in [Replicas -> Nat]
    BY <1>7 DEF ListFails, IInv, TypeOK
  <2> QED BY <1>7, <2>1, ResumeIInv DEF ListFails, Suspended
<1>8. ASSUME NEW q \in Requests, RecordInventory(q)
      PROVE  IInv'
  <2>1. monitored' \in [Replicas -> Nat]
    BY <1>8 DEF RecordInventory, IInv, TypeOK
  <2>2. /\ UNCHANGED <<registered, total>> /\ total \in [Requests -> Nat]
        /\ registered \in [Replicas -> Nat]
    BY <1>8 DEF RecordInventory, IInv, TypeOK
  <2> QED BY <1>8, <2>1, <2>2, ResumeIInv DEF RecordInventory, Suspended
<1>9. ASSUME NEW q \in Requests, Published(q)
      PROVE  IInv'
  BY <1>9, AnswerIInv DEF Published, Suspended
<1>10. ASSUME NEW q \in Requests, PublishFails(q)
       PROVE  IInv'
  BY <1>10, AnswerIInv DEF PublishFails, Suspended
<1>11. ASSUME NEW r \in Replicas, Restart(r)
       PROVE  IInv'
  BY <1>11, RestartIInv
<1>12. CASE UNCHANGED vars
  BY <1>12, StutterIInv
<1> QED
  BY <1>1, <1>2, <1>3, <1>4, <1>5, <1>6, <1>7, <1>8, <1>9, <1>10, <1>11, <1>12 DEF Next

LEMMA Invariant == Spec => []IInv
<1>1. Init => IInv
  BY InitIInv
<1>2. IInv /\ [Next]_vars => IInv'
  BY Inductive
<1> QED BY <1>1, <1>2, PTL DEF Spec

\* The state stays well typed, and names unique (db_models.py:15).
THEOREM TypeCorrect == Spec => []TypeOK
BY Invariant, PTL DEF IInv

\* 201 and 409 tell the truth, and nothing is announced that is not stored, for
\* any number of requests, replicas, failures and restarts (main.py:446-456,
\* storage.py:51-57).
THEOREM AnswersStayTrue == Spec => []AnswersAreTrue
BY Invariant, PTL DEF IInv

-----------------------------------------------------------------------------
(***************************************************************************)
(* The counters.  What a replica has counted are rows of its own whose     *)
(* request is past the count; a step either leaves them or adds one.       *)
(***************************************************************************)

\* Where no row is lost to a replica, a counter that stays stays right.
LEMMA CountKept ==
    ASSUME RowsOwned, RowsOwned', NEW r \in Replicas, registered \in [Replicas -> Nat],
           registered[r] <= Cardinality(Counted(r)),
           registered'[r] = registered[r], Counted(r) \subseteq Counted(r)'
    PROVE  registered'[r] <= Cardinality(Counted(r)')
<1>1. IsFiniteSet(Counted(r)') /\ IsFiniteSet(Counted(r))
  BY FS_Subset DEF RowsOwned, Counted
<1>2. Cardinality(Counted(r)) <= Cardinality(Counted(r)')
  BY <1>1, FS_Subset
<1>3. Cardinality(Counted(r)) \in Nat /\ Cardinality(Counted(r)') \in Nat
  BY <1>1, FS_CardinalityType
<1> QED BY <1>2, <1>3

\* Rows stay, and so does what a request is about, once it has a row.
LEMMA CountedGrows ==
    ASSUME IInv, [Next]_vars, NEW r \in Replicas, ~Restart(r)
    PROVE  Counted(r) \subseteq Counted(r)'
<1> USE DEF IInv, RowsOwned, TypeOK, Counted
<1>1. ASSUME NEW q \in Requests, NEW p \in Replicas, NEW n \in Names, Arrive(q, p, n)
      PROVE  Counted(r) \subseteq Counted(r)'
  BY <1>1 DEF Arrive, Resume
<1>2. ASSUME NEW q \in Requests,
             \/ Commit(q) \/ Conflict(q) \/ CommitFails(q)
             \/ Created(q) \/ List(q) \/ ListFails(q) \/ RecordInventory(q)
             \/ Published(q) \/ PublishFails(q)
      PROVE  Counted(r) \subseteq Counted(r)'
  <2>1. rows \subseteq rows' /\ UNCHANGED replica
    BY <1>2 DEF Commit, Conflict, CommitFails, Created, List, ListFails, RecordInventory,
                Published, PublishFails, Insert
  <2>2. /\ \A p \in Requests : p # q => pc'[p] = pc[p]
        /\ pc'[q] = "created" => pc[q] = "create"
    BY <1>2 DEF Commit, Conflict, CommitFails, Created, List, ListFails, RecordInventory,
                Published, PublishFails, Answer, Resume
  <2> QED BY <2>1, <2>2
<1>3. ASSUME NEW p \in Replicas, Restart(p)
      PROVE  Counted(r) \subseteq Counted(r)'
  BY <1>3 DEF Restart
<1>4. CASE UNCHANGED vars
  BY <1>4 DEF vars, requestVars
<1> QED BY <1>1, <1>2, <1>3, <1>4 DEF Next

\* The request that counts adds its row to those counted.
LEMMA CreatedCounts ==
    ASSUME IInv, IInv', CountedRight, NEW q \in Requests, Created(q),
           NEW r \in Replicas, replica[q] = r
    PROVE  registered'[r] <= Cardinality(Counted(r)')
<1> DEFINE row == <<name[q], q>>
<1>1. pc[q] = "created" /\ pc' = [pc EXCEPT ![q] = "list"]
  BY DEF Created, Resume
<1>2. UNCHANGED <<rows, replica, name>>
  BY DEF Created
<1>3. row \in rows
  BY <1>1 DEF IInv, RowsOwned, TypeOK
<1>4. \A other \in rows : other[2] = q => other = row
  BY DEF IInv, RowsOwned, TypeOK
<1>5. Counted(r)' = Counted(r) \cup {row}
  BY <1>1, <1>2, <1>3, <1>4 DEF Counted, IInv, TypeOK
<1>6. row \notin Counted(r)
  BY <1>1 DEF Counted
<1>7. IsFiniteSet(Counted(r))
  BY FS_Subset DEF IInv, RowsOwned, Counted
<1>8. Cardinality(Counted(r)') = Cardinality(Counted(r)) + 1
  BY <1>5, <1>6, <1>7, FS_AddElement
<1>9. registered'[r] = registered[r] + 1 /\ registered[r] \in Nat
  BY DEF Created, IInv, TypeOK
<1>10. registered[r] <= Cardinality(Counted(r)) /\ Cardinality(Counted(r)) \in Nat
  BY <1>7, FS_CardinalityType DEF CountedRight
<1> QED BY <1>8, <1>9, <1>10

LEMMA CountedInductive ==
    ASSUME IInv, IInv', CountedRight, [Next]_vars
    PROVE  CountedRight'
<1> SUFFICES ASSUME NEW r \in Replicas
             PROVE  registered'[r] <= Cardinality(Counted(r)')
  BY DEF CountedRight
<1>1. CASE Restart(r)
  <2>1. registered'[r] = 0
    BY <1>1 DEF Restart, IInv, TypeOK
  <2>2. IsFiniteSet(Counted(r)')
    BY FS_Subset DEF IInv, RowsOwned, Counted
  <2>3. Cardinality(Counted(r)') \in Nat
    BY <2>2, FS_CardinalityType
  <2> QED BY <2>1, <2>3
<1>2. CASE \E q \in Requests : Created(q) /\ replica[q] = r
  <2>1. PICK q \in Requests : Created(q) /\ replica[q] = r
    BY <1>2
  <2> QED BY <2>1, CreatedCounts
<1>3. CASE ~Restart(r) /\ ~\E q \in Requests : Created(q) /\ replica[q] = r
  <2>1. Counted(r) \subseteq Counted(r)'
    BY <1>3, CountedGrows
  <2>2. registered'[r] = registered[r]
    BY <1>3 DEF Next, vars, Arrive, Commit, Conflict, CommitFails, Created, List,
                ListFails, RecordInventory, Published, PublishFails, Restart, IInv, TypeOK
  <2>3. registered \in [Replicas -> Nat]
    BY DEF IInv, TypeOK
  <2> QED BY <2>1, <2>2, <2>3, CountKept DEF IInv, CountedRight
<1> QED BY <1>1, <1>2, <1>3

\* What was counted has been committed.
LEMMA CountedIsCommitted ==
    ASSUME IInv, CountedRight
    PROVE  NeverOvercounts
<1> SUFFICES ASSUME NEW r \in Replicas
             PROVE  registered[r] <=
                Cardinality({row \in rows : replica[row[2]] = r /\ pc[row[2]] # "create"})
  BY DEF NeverOvercounts
<1> DEFINE committed == {row \in rows : replica[row[2]] = r /\ pc[row[2]] # "create"}
<1>1. Counted(r) \subseteq committed
  BY DEF IInv, RowsOwned, Counted
<1>2. IsFiniteSet(committed)
  BY FS_Subset DEF IInv, RowsOwned
<1>3. Cardinality(Counted(r)) <= Cardinality(committed)
  BY <1>1, <1>2, FS_Subset
<1>4. IsFiniteSet(Counted(r))
  BY <1>1, <1>2, FS_Subset
<1>5. Cardinality(Counted(r)) \in Nat /\ Cardinality(committed) \in Nat
  BY <1>2, <1>4, FS_CardinalityType
<1>6. registered[r] \in Nat /\ registered[r] <= Cardinality(Counted(r))
  BY DEF IInv, TypeOK, CountedRight
<1> QED BY <1>3, <1>5, <1>6

\* The counters of any number of replicas never tell of a service that is not
\* there (main.py:446-447, metrics.py:36).
THEOREM CountersNeverOvercount == Spec => []NeverOvercounts
<1>1. Init => CountedRight
  BY FS_EmptySet DEF Init, CountedRight, Counted
<1>2. IInv /\ IInv' /\ CountedRight /\ [Next]_vars => CountedRight'
  BY CountedInductive
<1>3. IInv /\ CountedRight => NeverOvercounts
  BY CountedIsCommitted
<1> QED BY <1>1, <1>2, <1>3, Invariant, PTL DEF Spec

-----------------------------------------------------------------------------
(***************************************************************************)
(* The gauge.  InventoryIsCurrent, which overlapping registrations and     *)
(* those of other replicas violate, holds on a platform with one replica   *)
(* whose registrations do not overlap, as long as nothing fails: what a    *)
(* registration lists is still the table when it is recorded.              *)
(***************************************************************************)
OneAtATime == \A p, q \in InFlight : p = q
OneReplica == \A r, s \in Replicas : r = s

ToRecord(q) == pc[q] \in {"created", "list", "listed"}

RecordFits ==
    /\ (\A q \in Requests : ~ToRecord(q)) => \A r \in Replicas : monitored[r] = Inventory
    /\ \A q \in Requests : pc[q] = "listed" => total[q] = Inventory

\* Steps of q that leave the table and the gauge alone.
LEMMA RecordKept ==
    ASSUME TypeOK, RecordFits, NEW q \in Requests, NEW to,
           pc' = [pc EXCEPT ![q] = to], UNCHANGED <<rows, monitored>>,
           to = "listed" => total'[q] = Inventory,
           \A p \in Requests : p # q => total'[p] = total[p],
           ToRecord(q) => to \in {"created", "list", "listed"}
    PROVE  RecordFits'
<1>1. \A p \in Requests : pc'[p] = IF p = q THEN to ELSE pc[p]
  BY DEF TypeOK
<1>2. (\A p \in Requests : ~ToRecord(p)') => \A p \in Requests : ~ToRecord(p)
  BY <1>1 DEF ToRecord
<1>3. Inventory' = Inventory
  BY DEF Inventory
<1> QED BY <1>1, <1>2, <1>3 DEF RecordFits

LEMMA CommitRecords ==
    ASSUME TypeOK, OneAtATime, NEW q \in Requests, Commit(q)
    PROVE  RecordFits'
<1>1. \A p \in Requests : pc'[p] = IF p = q THEN "created" ELSE pc[p]
  BY DEF Commit, Resume, TypeOK
<1>2. \A p \in Requests : pc[p] = "listed" => p = q
  BY DEF OneAtATime, InFlight, Suspended, Commit, Resume
<1> QED BY <1>1, <1>2 DEF RecordFits, ToRecord

LEMMA RecordInventoryRecords ==
    ASSUME TypeOK, RecordFits, OneReplica, OneAtATime, NEW q \in Requests, RecordInventory(q)
    PROVE  RecordFits'
<1>1. /\ \A r \in Replicas : monitored'[r] = total[q]
      /\ UNCHANGED <<rows, total>>
  BY DEF RecordInventory, OneReplica, TypeOK
<1>2. pc[q] = "listed" /\ total[q] = Inventory
  BY DEF RecordInventory, Resume, RecordFits
<1>3. \A p \in Requests : pc'[p] = "listed" => p = q
  BY <1>2 DEF OneAtATime, InFlight, Suspended, RecordInventory, Resume, TypeOK
<1>4. pc'[q] = "publish"
  BY DEF RecordInventory, Resume, TypeOK
<1>5. Inventory' = Inventory
  BY <1>1 DEF Inventory
<1> QED BY <1>1, <1>2, <1>3, <1>4, <1>5 DEF RecordFits

LEMMA RestartRecords ==
    ASSUME TypeOK, OneReplica, ~Faulty, NEW r \in Replicas, Restart(r)
    PROVE  RecordFits'
<1>1. monitored' = [monitored EXCEPT ![r] = Inventory] /\ UNCHANGED rows
  BY DEF Restart
<1>2. \A s \in Replicas : monitored'[s] = Inventory
  BY <1>1 DEF OneReplica, TypeOK
<1>3. \A q \in Requests : replica[q] = r
  BY DEF OneReplica, TypeOK
<1>4. \A q \in Requests : pc'[q] # "listed"
  BY <1>3 DEF Restart, InFlight, Suspended
<1>5. Inventory' = Inventory
  BY <1>1 DEF Inventory
<1> QED BY <1>2, <1>4, <1>5 DEF RecordFits

LEMMA RecordStep ==
    ASSUME TypeOK, RecordFits, OneReplica, OneAtATime, ~Faulty, [Next]_vars
    PROVE  RecordFits'
<1>1. ASSUME NEW q \in Requests,
             \/ \E r \in Replicas, n \in Names : Arrive(q, r, n)
             \/ Conflict(q) \/ Created(q) \/ Published(q)
      PROVE  RecordFits'
  <2>1. PICK to \in {"create", "done", "list"} :
          /\ pc' = [pc EXCEPT ![q] = to]
          /\ to # "list" => ~ToRecord(q)
          /\ UNCHANGED <<rows, monitored, total>>
    BY <1>1 DEF Arrive, Conflict, Created, Published, Answer, Resume, ToRecord
  <2> QED BY <2>1, RecordKept
<1>2. ASSUME NEW q \in Requests, List(q)
      PROVE  RecordFits'
  <2>1. /\ pc' = [pc EXCEPT ![q] = "listed"] /\ UNCHANGED <<rows, monitored>>
        /\ total'[q] = Inventory /\ \A p \in Requests : p # q => total'[p] = total[p]
    BY <1>2 DEF List, Resume, TypeOK
  <2> QED BY <2>1, RecordKept
<1>3. ASSUME NEW q \in Requests, CommitFails(q) \/ ListFails(q) \/ PublishFails(q)
      PROVE  RecordFits'
  BY <1>3 DEF CommitFails, ListFails, PublishFails
<1>4. CASE UNCHANGED vars
  BY <1>4 DEF vars, requestVars, RecordFits, ToRecord, Inventory
<1> QED BY <1>1, <1>2, <1>3, <1>4, CommitRecords, RecordInventoryRecords, RestartRecords DEF Next

\* With one replica, registrations one at a time and no failures,
\* monitored_services is the number of services whenever no registration is under
\* way, restarts included (metrics.py:41, main.py:359-373, 446-448).
THEOREM OneAtATimeIsCurrent ==
    ASSUME ~Faulty, OneReplica
    PROVE  Spec /\ []OneAtATime => []InventoryIsCurrent
<1>1. Init => RecordFits
  BY FS_EmptySet DEF Init, RecordFits, Inventory
<1>2. TypeOK /\ RecordFits /\ OneAtATime /\ [Next]_vars => RecordFits'
  BY RecordStep
<1>3. RecordFits => InventoryIsCurrent
  BY DEF RecordFits, InventoryIsCurrent, InFlight, Suspended, ToRecord
<1> QED BY <1>1, <1>2, <1>3, TypeCorrect, PTL DEF Spec
=============================================================================
