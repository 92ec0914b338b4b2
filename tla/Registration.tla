---------------------------- MODULE Registration ----------------------------
(***************************************************************************)
(* Registering services: register_service and _record_service_inventory    *)
(* (app/main.py) over PostgresServiceRepository (app/storage.py).          *)
(*                                                                         *)
(* The replicas share the table, whose names are unique, and the event     *)
(* backend; counter and inventory gauge are each replica's own.  What the  *)
(* database does and what the handler does on its answer are two steps.    *)
(***************************************************************************)
EXTENDS FiniteSets, Naturals

CONSTANTS
    Replicas,       \* processes running the application
    Requests,       \* requests POST /register-service
    Names,          \* service names
    Faulty,         \* whether database and event backend may fail
    MaxInFlight,    \* bound on the requests served at once
    MaxRestarts     \* bound on the restarts of replicas

ASSUME RegistrationAssumption ==
    /\ Replicas # {} /\ Names # {}
    /\ Faulty \in BOOLEAN
    /\ MaxInFlight \in Nat /\ MaxRestarts \in Nat

VARIABLES
    rows,           \* the table: name and request of every stored service
    announced,      \* the requests whose event the backend accepted
    registered,     \* metric registered_services_total, by replica
    monitored,      \* metric monitored_services, by replica
    pc,             \* where a request is suspended
    replica,        \* the replica serving a request
    name,           \* the name it wants to register
    total,          \* the inventory it read
    status,         \* the status it was answered with, or 0
    restarts        \* how many restarts there have been

requestVars == <<pc, replica, name, total, status>>
vars == <<rows, announced, registered, monitored, requestVars, restarts>>

Suspended == {"create", "created", "list", "listed", "publish"}
InFlight == {q \in Requests : pc[q] \in Suspended}
Stored(n) == \E row \in rows : row[1] = n
Inventory == Cardinality(rows)

TypeOK ==
    /\ rows \subseteq Names \X Requests
    /\ \A row, other \in rows : row[1] = other[1] => row = other
    /\ announced \subseteq Requests
    /\ registered \in [Replicas -> Nat] /\ monitored \in [Replicas -> Nat]
    /\ pc \in [Requests -> Suspended \cup {"idle", "done"}]
    /\ replica \in [Requests -> Replicas] /\ name \in [Requests -> Names]
    /\ total \in [Requests -> Nat]
    /\ status \in [Requests -> {0, 201, 409, 500}]
    /\ restarts \in Nat

\* An empty database; every replica recorded the inventory when it started.
Init ==
    /\ rows = {} /\ announced = {}
    /\ registered = [r \in Replicas |-> 0] /\ monitored = [r \in Replicas |-> 0]
    /\ pc = [q \in Requests |-> "idle"]
    /\ replica = [q \in Requests |-> CHOOSE r \in Replicas : TRUE]
    /\ name = [q \in Requests |-> CHOOSE n \in Names : TRUE]
    /\ total = [q \in Requests |-> 0]
    /\ status = [q \in Requests |-> 0]
    /\ restarts = 0

-----------------------------------------------------------------------------
Resume(q, from, to) ==
    /\ pc[q] = from
    /\ pc' = [pc EXCEPT ![q] = to]

Answer(q, from, code) ==
    /\ Resume(q, from, "done")
    /\ status' = [status EXCEPT ![q] = code]

\* A request arrives; create awaits the commit.
Arrive(q, r, n) ==
    /\ Cardinality(InFlight) < MaxInFlight
    /\ Resume(q, "idle", "create")
    /\ replica' = [replica EXCEPT ![q] = r]
    /\ name' = [name EXCEPT ![q] = n]
    /\ UNCHANGED <<rows, announced, registered, monitored, total, status, restarts>>

Insert(q) == rows' = rows \cup {<<name[q], q>>}

\* The database commits.
Commit(q) ==
    /\ ~Stored(name[q])
    /\ Resume(q, "create", "created")
    /\ Insert(q)
    /\ UNCHANGED <<announced, registered, monitored, replica, name, total, status, restarts>>

\* Mutant of Conflict: the name is registered although it is taken.
Conflict_Ignored(q) ==
    /\ Stored(name[q])
    /\ Resume(q, "create", "created")
    /\ Insert(q)
    /\ UNCHANGED <<announced, registered, monitored, replica, name, total, status, restarts>>

\* Mutant of Conflict: a registration is counted although it was refused.
Conflict_Counted(q) ==
    /\ Stored(name[q])
    /\ Answer(q, "create", 409)
    /\ registered' = [registered EXCEPT ![replica[q]] = @ + 1]
    /\ UNCHANGED <<rows, announced, monitored, replica, name, total, restarts>>

\* The name is taken: IntegrityError, turned into DuplicateServiceError.
Conflict(q) ==
    /\ Stored(name[q])
    /\ Answer(q, "create", 409)
    /\ UNCHANGED <<rows, announced, registered, monitored, replica, name, total, restarts>>

\* Mutant of CommitError: any error of the commit is taken for a conflict.
CommitError_Conflict == 409

\* The answer to a commit that failed with anything but IntegrityError.
CommitError == 500

\* The connection fails, before the commit or after it.
CommitFails(q) ==
    /\ Faulty
    /\ Answer(q, "create", CommitError)
    /\ UNCHANGED rows \/ (~Stored(name[q]) /\ Insert(q))
    /\ UNCHANGED <<announced, registered, monitored, replica, name, total, restarts>>

\* create returned; the handler counts, and lists the services.
Created(q) ==
    /\ Resume(q, "created", "list")
    /\ registered' = [registered EXCEPT ![replica[q]] = @ + 1]
    /\ UNCHANGED <<rows, announced, monitored, replica, name, total, status, restarts>>

\* The database reads the table.
List(q) ==
    /\ Resume(q, "list", "listed")
    /\ total' = [total EXCEPT ![q] = Inventory]
    /\ UNCHANGED <<rows, announced, registered, monitored, replica, name, status, restarts>>

\* A failure to list is logged and forgotten; the gauge stays as it is.
ListFails(q) ==
    /\ Faulty
    /\ Resume(q, "list", "publish")
    /\ UNCHANGED <<rows, announced, registered, monitored, replica, name, total, status, restarts>>

\* The answer is recorded; the handler goes on to publish.
RecordInventory(q) ==
    /\ Resume(q, "listed", "publish")
    /\ monitored' = [monitored EXCEPT ![replica[q]] = total[q]]
    /\ UNCHANGED <<rows, announced, registered, replica, name, total, status, restarts>>

\* The event is published.
Published(q) ==
    /\ Answer(q, "publish", 201)
    /\ announced' = announced \cup {q}
    /\ UNCHANGED <<rows, registered, monitored, replica, name, total, restarts>>

\* Publishing fails, though the backend may have the event: the caller gets an
\* error, the service stays registered.
PublishFails(q) ==
    /\ Faulty
    /\ Answer(q, "publish", 500)
    /\ announced' \in {announced, announced \cup {q}}
    /\ UNCHANGED <<rows, registered, monitored, replica, name, total, restarts>>

\* A replica is killed and started again; it starts by recording the inventory,
\* if the database lets it.
Restart(r) ==
    /\ restarts < MaxRestarts
    /\ restarts' = restarts + 1
    /\ registered' = [registered EXCEPT ![r] = 0]
    /\ \E inventory \in {Inventory} \cup (IF Faulty THEN {0} ELSE {}) :
        monitored' = [monitored EXCEPT ![r] = inventory]
    /\ pc' = [q \in Requests |-> IF q \in InFlight /\ replica[q] = r THEN "done" ELSE pc[q]]
    /\ UNCHANGED <<rows, announced, replica, name, total, status>>

Next ==
    \/ \E q \in Requests :
        \/ \E r \in Replicas, n \in Names : Arrive(q, r, n)
        \/ Commit(q) \/ Conflict(q) \/ CommitFails(q)
        \/ Created(q) \/ List(q) \/ ListFails(q) \/ RecordInventory(q)
        \/ Published(q) \/ PublishFails(q)
    \/ \E r \in Replicas : Restart(r)

Spec == Init /\ [][Next]_vars

-----------------------------------------------------------------------------
(***************************************************************************)
(* Properties.                                                             *)
(***************************************************************************)

\* An answer tells the truth: 201 means that this request stored its service and
\* announced it, 409 that another request stored the name and this one nothing,
\* and nothing is announced that is not stored, whatever fails or restarts
\* meanwhile (main.py:446-456, storage.py:51-57).
AnswersAreTrue ==
    \A q \in Requests :
        /\ status[q] = 201 => <<name[q], q>> \in rows /\ q \in announced
        /\ status[q] = 409 => Stored(name[q]) /\ <<name[q], q>> \notin rows
        /\ q \in announced => <<name[q], q>> \in rows

\* The counters of all replicas together never tell of a service that is not
\* there, although each counts on its own (main.py:446-447, metrics.py:36).
NeverOvercounts ==
    \A r \in Replicas : registered[r] <=
        Cardinality({row \in rows : replica[row[2]] = r /\ pc[row[2]] # "create"})

\* "Current number of monitored services." (metrics.py:41): once no request is
\* out, the gauge of every replica is the size of the table.  Not so when
\* registrations overlap, or when another replica serves one.
InventoryIsCurrent ==
    InFlight = {} => \A r \in Replicas : monitored[r] = Inventory
=============================================================================
