------------------------------ MODULE Accounts ------------------------------
(***************************************************************************)
(* services/auth.py, services/team.py, services/project.py and the routes  *)
(* in front of them: users, teams, memberships and projects, changed by    *)
(* requests that look first and write in a later statement.  Postgres runs *)
(* every statement on what is committed when it starts, its constraints    *)
(* are checked by the write.                                               *)
(*                                                                         *)
(* Rows of users and teams are never deleted, so that a request that looks *)
(* up a team, then a user, then a membership sees what one look at the     *)
(* time of the last of them sees: one step.                                *)
(***************************************************************************)
EXTENDS HttpRequests

CONSTANTS
    Users,       \* the ids users may ever get
    Emails,      \* the addresses people register with
    Teams,       \* the ids teams may ever get
    Projects,    \* the ids projects may ever get
    Asker,       \* the user who reads and queries
    NoArg,       \* no argument
    MaxVersion,  \* bound on the versions of a belief state
    Scenarios    \* what an exploration starts from and how far it goes: see below

ReadKinds == {"get", "list", "query", "cross"}
ChangeKinds == {"refused", "register", "team", "join", "leave", "create", "update", "delete"}
Kinds == ReadKinds \cup ChangeKinds

Roles == {"member", "admin", "super_admin", "retired"}   \* the last: any string Role() refuses

ASSUME AccountsAssumption ==
    /\ Asker \in Users
    /\ MaxVersion \in Nat
    /\ Scenarios \subseteq [kinds : SUBSET Kinds, roles : SUBSET Roles, projects : BOOLEAN, reads : Nat,
                             changes : Nat, work : Nat, ticking : BOOLEAN]

VARIABLES
    users,      \* rows of users: [id, email]
    role,       \* the role of each user, also of those yet to be registered
    teams,      \* ids of the rows of teams
    members,    \* rows of team_members: <<user, team>>
    created,    \* history: the ids of the projects ever created
    gone,       \* history: of those, the deleted ones
    team,       \* team[p]: the team project p was created in
    points,     \* points[p]: the Qdrant collection of p
    belief,     \* belief[p]: the latest version of p's belief state, 0 if none
    kind,       \* kind[r]: what request r asks for
    arg,        \* arg[r]: and of whom
    at,         \* at[r]: where r is
    data,       \* data[r]: whether what it brings can be hashed and stored
    status,     \* status[r]: the HTTP status of its answer
    disturbed,  \* history: whether another request or a fault got in r's way
    left        \* what is left of the scenario

rowVars == <<users, role, teams, members, created, gone, team>>
storeVars == <<points, belief>>
requestVars == <<kind, arg, data, at, status>>
accountVars == <<rowVars, storeVars, requestVars, disturbed, left>>

WritePlaces == {"insert_user", "insert_member", "delete_member", "save", "refresh",
                "delete_row", "check_drop", "drop"}
Administrators == {"admin", "super_admin"}

(* A scenario bounds an exploration: the kinds of requests in it, the        *)
(* roles of the Asker, whether there are teams and projects at the start,   *)
(* how many requests that read and that change begin, how many writes the   *)
(* workers do, and whether time passes.                                    *)
(*                                                                         *)
(* It starts with any database the constraints allow, and the Asker in it. *)
(* The other administrators have rows, too, which nothing here looks at.    *)
AccountsInit ==
    /\ \E e \in Emails : users = {[id |-> Asker, email |-> e]}
    /\ teams \in SUBSET Teams
    /\ members \in SUBSET ({Asker} \X teams)
    /\ created \in SUBSET Projects
    /\ created # {} => teams # {}
    /\ gone = {}
    /\ team \in [Projects -> Teams \cup {NoArg}]
    /\ \A p \in Projects : IF p \in created THEN team[p] \in teams ELSE team[p] = NoArg
    /\ points \in [Projects -> {"none", "filled"}]
    /\ \A p \in Projects \ created : points[p] = "none"
    /\ belief = [p \in Projects |-> 0]
    /\ kind = [r \in Requests |-> "none"]
    /\ arg = [r \in Requests |-> NoArg]
    /\ data = [r \in Requests |-> "storable"]
    /\ at = [r \in Requests |-> "idle"]
    /\ status = [r \in Requests |-> 0]
    /\ disturbed = [r \in Requests |-> FALSE]
    /\ left \in Scenarios
    /\ role \in {[u \in Users |-> IF u = Asker THEN k ELSE "member"] : k \in left.roles}
    /\ ~left.projects => teams = {}

-----------------------------------------------------------------------------
Live == created \ gone

InFlight(r) == at[r] \notin {"idle", "answered"}

(* Who knows the id of a project knows it from the answer to its creation   *)
(* or a list: ids are random and never reused.                             *)
Known == created

Spend(what) == left[what] > 0 /\ left' = [left EXCEPT ![what] = @ - 1]

(* Texts a client sends pass the schemas with characters in them that       *)
(* neither the password hash (security.py:18) nor Postgres accepts: NUL.   *)
DataOf(k) ==
    IF k \in {"register", "team", "create", "update"} THEN {"storable", "refused"}
                                                     ELSE {"storable"}

Begin(r, k, a, place, code) ==
    /\ at[r] = "idle"
    /\ k \in left.kinds
    /\ Spend(IF k \in ReadKinds THEN "reads" ELSE "changes")
    /\ kind' = [kind EXCEPT ![r] = k]
    /\ arg' = [arg EXCEPT ![r] = a]
    /\ \E d \in DataOf(k) : data' = [data EXCEPT ![r] = d]
    /\ at' = [at EXCEPT ![r] = place]
    /\ status' = [status EXCEPT ![r] = code]

(* The first look already decides. *)
Deny(r, k, code) == Begin(r, k, NoArg, "answered", code)

Go(r, place) ==
    /\ at' = [at EXCEPT ![r] = place]
    /\ UNCHANGED <<kind, arg, data, status>>

Answer(r, code) ==
    /\ at' = [at EXCEPT ![r] = "answered"]
    /\ status' = [status EXCEPT ![r] = code]
    /\ UNCHANGED <<kind, arg, data>>

(* A write of r: the others under way may have looked too early. *)
Disturb(r) ==
    disturbed' = [q \in Requests |-> disturbed[q] \/ (q # r /\ InFlight(q))]

DisturbAll == disturbed' = [q \in Requests |-> disturbed[q] \/ InFlight(q)]

(* The answer is out; the place is free for another request. *)
Leave(r) ==
    /\ at[r] = "answered"
    /\ at' = [at EXCEPT ![r] = "idle"]
    /\ kind' = [kind EXCEPT ![r] = "none"]
    /\ arg' = [arg EXCEPT ![r] = NoArg]
    /\ data' = [data EXCEPT ![r] = "storable"]
    /\ status' = [status EXCEPT ![r] = 0]
    /\ disturbed' = [disturbed EXCEPT ![r] = FALSE]
    /\ UNCHANGED <<rowVars, storeVars, left>>

(* get_current_user finds no valid token, or require_role no administrator. *)
Refuse(r) ==
    /\ \/ Deny(r, "refused", 401)
       \/ /\ role[Asker] \notin Administrators
          /\ Deny(r, "refused", 403)
    /\ UNCHANGED <<rowVars, storeVars, disturbed>>

-----------------------------------------------------------------------------
(* Accounts. *)

EmailTaken(e) == \E u \in users : u.email = e

(* Mutant of Register: the address is not looked up. *)
Register_Blindly(r, e) ==
    /\ Begin(r, "register", e, "insert_user", 0)
    /\ UNCHANGED <<rowVars, storeVars, disturbed>>

(* AuthService.register looks the address up. *)
Register(r, e) ==
    /\ IF EmailTaken(e) THEN Deny(r, "register", 400)
                        ELSE Begin(r, "register", e, "insert_user", 0)
    /\ UNCHANGED <<rowVars, storeVars, disturbed>>

(* Mutant of InsertUser: no unique constraint on users.email. *)
InsertUser_NotUnique(r) ==
    /\ at[r] = "insert_user"
    /\ \E id \in Users \ {u.id : u \in users} :
          users' = users \cup {[id |-> id, email |-> arg[r]]}
    /\ Answer(r, 201)
    /\ Disturb(r)
    /\ UNCHANGED <<role, teams, members, created, gone, team, storeVars, left>>

(* hash_password may raise, and users.email's unique constraint may refuse  *)
(* the insert: neither exception has a handler.                            *)
InsertUser(r) ==
    /\ at[r] = "insert_user"
    /\ \/ /\ data[r] = "refused" \/ EmailTaken(arg[r])
          /\ Answer(r, 500)
          /\ UNCHANGED <<users, disturbed>>
       \/ /\ data[r] = "storable" /\ ~EmailTaken(arg[r])
          /\ \E id \in Users \ {u.id : u \in users} :
                users' = users \cup {[id |-> id, email |-> arg[r]]}
          /\ Answer(r, 201)
          /\ Disturb(r)
    /\ UNCHANGED <<role, teams, members, created, gone, team, storeVars, left>>

-----------------------------------------------------------------------------
(* Teams and members. *)

(* TeamService.create *)
CreateTeam(r) ==
    /\ \/ /\ \E t \in Teams \ teams : teams' = teams \cup {t}
          /\ Begin(r, "team", NoArg, "answered", 201)
          /\ data'[r] = "storable"
       \/ /\ Deny(r, "team", 500)
          /\ data'[r] = "refused"
          /\ UNCHANGED teams
    /\ UNCHANGED <<users, role, members, created, gone, team, storeVars, disturbed>>

IsUser(u) == \E row \in users : row.id = u

(* TeamService.add_member: team, user and membership are looked up. *)
AddMember(r, u, t) ==
    /\ \/ /\ t \notin teams \/ ~IsUser(u)
          /\ Deny(r, "join", 404)
       \/ /\ t \in teams /\ IsUser(u) /\ <<u, t>> \in members
          /\ Deny(r, "join", 400)
       \/ /\ t \in teams /\ IsUser(u) /\ <<u, t>> \notin members
          /\ Begin(r, "join", <<u, t>>, "insert_member", 0)
    /\ UNCHANGED <<rowVars, storeVars, disturbed>>

(* The primary key of team_members may refuse the insert. *)
InsertMember(r) ==
    /\ at[r] = "insert_member"
    /\ \/ /\ arg[r] \in members
          /\ Answer(r, 500)
          /\ UNCHANGED <<members, disturbed>>
       \/ /\ arg[r] \notin members
          /\ members' = members \cup {arg[r]}
          /\ Answer(r, 201)
          /\ Disturb(r)
    /\ UNCHANGED <<users, role, teams, created, gone, team, storeVars, left>>

(* TeamService.remove_member: team and membership are looked up. *)
RemoveMember(r, u, t) ==
    /\ IF t \in teams /\ <<u, t>> \in members
       THEN Begin(r, "leave", <<u, t>>, "delete_member", 0)
       ELSE Deny(r, "leave", 404)
    /\ UNCHANGED <<rowVars, storeVars, disturbed>>

(* The row may be gone: SQLAlchemy only warns of a DELETE that finds none. *)
DeleteMember(r) ==
    /\ at[r] = "delete_member"
    /\ members' = members \ {arg[r]}
    /\ Answer(r, 204)
    /\ Disturb(r)
    /\ UNCHANGED <<users, role, teams, created, gone, team, storeVars, left>>

-----------------------------------------------------------------------------
(* Projects. *)

(* ProjectService.create: the team is looked up; it cannot go before the    *)
(* insert.                                                                 *)
CreateProject(r, t) ==
    /\ \/ /\ t \notin teams
          /\ Deny(r, "create", 404)
          /\ UNCHANGED <<created, team>>
       \/ /\ t \in teams
          /\ \E p \in Projects \ created :
                /\ created' = created \cup {p}
                /\ team' = [team EXCEPT ![p] = t]
                /\ Begin(r, "create", p, "refresh", 0)
          /\ data'[r] = "storable"
       \/ /\ t \in teams
          /\ Deny(r, "create", 500)
          /\ data'[r] = "refused"
          /\ UNCHANGED <<created, team>>
    /\ UNCHANGED <<users, role, teams, members, gone, storeVars, disturbed>>

(* get_by_id for an administrator.  The scope holds every project, also     *)
(* this one, if it is found: it is older than the request.                 *)
FindProject(r, k, p, place) ==
    /\ p \in Known
    /\ IF p \in Live THEN Begin(r, k, p, place, 0) ELSE Deny(r, k, 404)
    /\ UNCHANGED <<rowVars, storeVars, disturbed>>

UpdateProject(r, p) == FindProject(r, "update", p, "save")

(* The UPDATE, of data Postgres may refuse; StaleDataError if the row is    *)
(* gone.  Neither has a handler.                                           *)
SaveProject(r) ==
    /\ at[r] = "save"
    /\ IF data[r] = "storable" /\ arg[r] \in Live THEN Go(r, "refresh") ELSE Answer(r, 500)
    /\ UNCHANGED <<rowVars, storeVars, disturbed, left>>

(* session.refresh after the commit of a create or an update. *)
RefreshProject(r) ==
    /\ at[r] = "refresh"
    /\ Answer(r, IF arg[r] \notin Live THEN 500 ELSE IF kind[r] = "create" THEN 201 ELSE 200)
    /\ UNCHANGED <<rowVars, storeVars, disturbed, left>>

DeleteProject(r, p) == FindProject(r, "delete", p, "delete_row")

(* The DELETE cascades to the belief states; it may find no row. *)
DeleteRow(r) ==
    /\ at[r] = "delete_row"
    /\ gone' = gone \cup {arg[r]}
    /\ belief' = [belief EXCEPT ![arg[r]] = 0]
    /\ Go(r, "check_drop")
    /\ Disturb(r)
    /\ UNCHANGED <<users, role, teams, members, created, team, points, left>>

(* delete_collection: the check.  A QdrantError is logged, no more. *)
CheckDrop(r) ==
    /\ at[r] = "check_drop"
    /\ \/ points[arg[r]] # "none" /\ Go(r, "drop")
       \/ Answer(r, 204)
    /\ UNCHANGED <<rowVars, storeVars, disturbed, left>>

(* ... and the drop, likewise. *)
DropCollection(r) ==
    /\ at[r] = "drop"
    /\ points' \in {points, [points EXCEPT ![arg[r]] = "none"]}
    /\ Answer(r, 204)
    /\ Disturb(r)
    /\ UNCHANGED <<rowVars, belief, left>>

-----------------------------------------------------------------------------
(* What the workers do meanwhile (IngestPipeline, CAGService).  An ingest   *)
(* in flight may recreate the collection of a deleted project.             *)

CreateCollection(p) ==
    /\ p \in created /\ points[p] = "none"
    /\ points' = [points EXCEPT ![p] = "empty"]
    /\ UNCHANGED <<rowVars, belief, requestVars, disturbed>>
    /\ Spend("work")

FillCollection(p) ==
    /\ points[p] = "empty"
    /\ points' = [points EXCEPT ![p] = "filled"]
    /\ UNCHANGED <<rowVars, belief, requestVars, disturbed>>
    /\ Spend("work")

(* A reindex drops the collection first. *)
ReindexDrops(p) ==
    /\ p \in Live /\ points[p] # "none"
    /\ points' = [points EXCEPT ![p] = "none"]
    /\ DisturbAll
    /\ UNCHANGED <<rowVars, belief, requestVars>>
    /\ Spend("work")

WriteBelief(p) ==
    /\ p \in Live /\ belief[p] < MaxVersion
    /\ belief' = [belief EXCEPT ![p] = belief[p] + 1]
    /\ UNCHANGED <<rowVars, points, requestVars, disturbed>>
    /\ Spend("work")

-----------------------------------------------------------------------------
AccountRequest(r) ==
    \/ Refuse(r)
    \/ \E e \in Emails : Register(r, e)
    \/ InsertUser(r)
    \/ CreateTeam(r)
    \/ \E u \in Users, t \in Teams : AddMember(r, u, t) \/ RemoveMember(r, u, t)
    \/ InsertMember(r)
    \/ DeleteMember(r)
    \/ \E t \in Teams : CreateProject(r, t)
    \/ \E p \in Projects : UpdateProject(r, p) \/ DeleteProject(r, p)
    \/ SaveProject(r)
    \/ RefreshProject(r)
    \/ DeleteRow(r)
    \/ CheckDrop(r)
    \/ DropCollection(r)

Worker ==
    \E p \in Projects :
        CreateCollection(p) \/ FillCollection(p) \/ ReindexDrops(p) \/ WriteBelief(p)

AccountsNext == (\E r \in Requests : AccountRequest(r) \/ Leave(r)) \/ Worker

AccountsSpec == AccountsInit /\ [][AccountsNext]_accountVars
=============================================================================
