----------------------------- MODULE QueryPath ------------------------------
(***************************************************************************)
(* What one user, the Asker, reads while administrators and workers change *)
(* it: the access scope (core/access.py), the project routes, and the two  *)
(* query routes with the rate limiter in front, retrieval and generation   *)
(* behind (api/query.py, services/query.py, retrieval/retriever.py).       *)
(* A step is one SQL statement, one call of Qdrant or one LLM call.        *)
(***************************************************************************)
EXTENDS Accounts, RateLimiter

VARIABLES
    mine,       \* mine[r]: the teams the scope's first statement has found
    scope,      \* scope[r]: accessible_ids
    seen,       \* seen[r]: the version of the belief state used, 0 if none
    unsearched, \* unsearched[r]: collections still to be looked up
    existing,   \* existing[r]: collections that exist, still to be queried
    found,      \* found[r]: the projects of the chunks, then of the answer
    readable,   \* history: what could be read, and by whom, while r was under way
    bare,       \* history: the projects that held no points at some time of it
    since       \* history: the versions of the belief states when r began

readVars == <<mine, scope, seen, unsearched, existing, found>>
historyVars == <<readable, bare, since>>
vars == <<accountVars, limiterVars, readVars, historyVars>>

ReadPlaces == {"limiter", "teams", "projects", "get", "list", "validate",
               "latest", "validate_cross", "search", "generate"}

NothingHeld == [teams |-> {}, projects |-> {}]

Init ==
    /\ AccountsInit
    /\ LimiterInit
    /\ mine = [r \in Requests |-> {}]
    /\ scope = [r \in Requests |-> {}]
    /\ seen = [r \in Requests |-> 0]
    /\ unsearched = [r \in Requests |-> {}]
    /\ existing = [r \in Requests |-> {}]
    /\ found = [r \in Requests |-> {}]
    /\ readable = [r \in Requests |-> NothingHeld]
    /\ bare = [r \in Requests |-> {}]
    /\ since = [r \in Requests |-> [p \in Projects |-> 0]]

-----------------------------------------------------------------------------
NoWrite == UNCHANGED <<rowVars, storeVars, disturbed>>
NoChange == NoWrite /\ UNCHANGED left

(* The reading requests begin.  Only the query routes are limited; the one  *)
(* over all projects is for administrators (require_role).                 *)
GetProject(r, p) ==
    /\ p \in Known
    /\ Begin(r, "get", p, "teams", 0)
    /\ NoWrite
    /\ UNCHANGED <<limiterVars, readVars>>

ListProjects(r) ==
    /\ Begin(r, "list", NoArg, "teams", 0)
    /\ NoWrite
    /\ UNCHANGED <<limiterVars, readVars>>

QueryProject(r, p) ==
    /\ p \in Known
    /\ Begin(r, "query", p, "limiter", 0)
    /\ CallLimiter(r)
    /\ NoWrite
    /\ UNCHANGED readVars

QueryCrossProject(r) ==
    /\ role[Asker] \in Administrators
    /\ Begin(r, "cross", NoArg, "limiter", 0)
    /\ CallLimiter(r)
    /\ NoWrite
    /\ UNCHANGED readVars

(* rate_limit_query *)
Limit429(r) ==
    /\ at[r] = "limiter"
    /\ \/ LimiterStep(r) /\ UNCHANGED requestVars
       \/ /\ LeaveLimiter(r)
          /\ IF check[r] = "allowed" THEN Go(r, "teams") ELSE Answer(r, 429)
    /\ NoChange
    /\ UNCHANGED readVars

-----------------------------------------------------------------------------
(* get_accessible_project_ids *)

Handler(r) ==
    CASE kind[r] = "get" -> "get"
      [] kind[r] = "list" -> "list"
      [] kind[r] = "query" -> "validate"
      [] OTHER -> "validate_cross"

(* The teams of a member.  An administrator's projects are one statement,   *)
(* a role nobody knows has none.                                           *)
ReadTeams(r) ==
    /\ at[r] = "teams"
    /\ LET found_teams == {t \in teams : <<Asker, t>> \in members} IN
       IF role[Asker] = "member" /\ found_teams # {}
       THEN /\ mine' = [mine EXCEPT ![r] = found_teams]
            /\ Go(r, "projects")
            /\ UNCHANGED scope
       ELSE /\ scope' = [scope EXCEPT ![r] = IF role[Asker] \in Administrators THEN Live ELSE {}]
            /\ Go(r, Handler(r))
            /\ UNCHANGED mine
    /\ NoChange
    /\ UNCHANGED <<limiterVars, seen, unsearched, existing, found>>

(* Mutant of ReadProjects: the teams are forgotten. *)
ReadProjects_OfAnyTeam(r) ==
    /\ at[r] = "projects"
    /\ scope' = [scope EXCEPT ![r] = Live]
    /\ mine' = [mine EXCEPT ![r] = {}]
    /\ Go(r, Handler(r))
    /\ NoChange
    /\ UNCHANGED <<limiterVars, seen, unsearched, existing, found>>

(* The projects of these teams, in a statement of its own. *)
ReadProjects(r) ==
    /\ at[r] = "projects"
    /\ scope' = [scope EXCEPT ![r] = {p \in Live : team[p] \in mine[r]}]
    /\ mine' = [mine EXCEPT ![r] = {}]
    /\ Go(r, Handler(r))
    /\ NoChange
    /\ UNCHANGED <<limiterVars, seen, unsearched, existing, found>>

-----------------------------------------------------------------------------
Reply(r, sources) ==
    /\ Answer(r, 200)
    /\ found' = [found EXCEPT ![r] = sources]

(* ProjectService.get_by_id: 404 comes before 403. *)
GetById(r) ==
    /\ at[r] = "get"
    /\ \/ arg[r] \notin Live /\ Answer(r, 404) /\ UNCHANGED found
       \/ arg[r] \in Live \ scope[r] /\ Answer(r, 403) /\ UNCHANGED found
       \/ arg[r] \in Live \cap scope[r] /\ Reply(r, {arg[r]})
    /\ NoChange
    /\ UNCHANGED <<limiterVars, mine, scope, seen, unsearched, existing>>

(* ProjectService.list_for_user *)
ListForUser(r) ==
    /\ at[r] = "list"
    /\ Reply(r, Live \cap scope[r])
    /\ NoChange
    /\ UNCHANGED <<limiterVars, mine, scope, seen, unsearched, existing>>

(* QueryService.query: a blank or long question is 422; for a project       *)
(* without a row it raises ProjectNotFoundError, which has no handler.      *)
ValidateQuery(r) ==
    /\ at[r] = "validate"
    /\ \/ Answer(r, 422)
       \/ arg[r] \notin Live /\ Answer(r, 500)
       \/ arg[r] \in Live /\ Go(r, "latest")
    /\ NoChange
    /\ UNCHANGED <<limiterVars, readVars>>

(* Mutant of LatestVersion: the number of the version to come. *)
LatestVersion_Next(p) == belief[p] + 1

(* Mutant of LatestVersion: the versions in ascending order. *)
LatestVersion_First(p) == IF belief[p] > 0 THEN 1 ELSE 0

(* CAGService.get_latest *)
LatestVersion(p) == belief[p]

(* retrieve *)
Accessible(r) == arg[r] \in scope[r]

(* A corrupt belief state is ignored.  Then retrieve looks at the scope. *)
ReadLatest(r) ==
    /\ at[r] = "latest"
    /\ IF Accessible(r)
       THEN /\ \E v \in {LatestVersion(arg[r]), 0} : seen' = [seen EXCEPT ![r] = v]
            /\ unsearched' = [unsearched EXCEPT ![r] = {arg[r]}]
            /\ Go(r, "search")
       ELSE Answer(r, 403) /\ UNCHANGED <<seen, unsearched>>
    /\ NoChange
    /\ UNCHANGED <<limiterVars, mine, scope, existing, found>>

(* query_cross_project: all accessible projects, no belief state. *)
ValidateCross(r) ==
    /\ at[r] = "validate_cross"
    /\ \/ Answer(r, 422) /\ UNCHANGED unsearched
       \/ Go(r, "search") /\ unsearched' = [unsearched EXCEPT ![r] = scope[r]]
    /\ NoChange
    /\ UNCHANGED <<limiterVars, mine, scope, seen, existing, found>>

-----------------------------------------------------------------------------
(* hybrid_search, for the projects in any order (asyncio.gather). *)

(* The question is embedded (SearchFails if that raises); then              *)
(* collection_exists.                                                      *)
CheckSearch(r, p) ==
    /\ at[r] = "search" /\ p \in unsearched[r]
    /\ unsearched' = [unsearched EXCEPT ![r] = @ \ {p}]
    /\ existing' = [existing EXCEPT ![r] = IF points[p] = "none" THEN @ ELSE @ \cup {p}]
    /\ NoChange
    /\ UNCHANGED <<limiterVars, requestVars, mine, scope, seen, found>>

(* query_points: the nearest there are; QdrantError, without a handler, if  *)
(* the collection went since.                                              *)
SearchPoints(r, p) ==
    /\ at[r] = "search" /\ p \in existing[r]
    /\ existing' = [existing EXCEPT ![r] = @ \ {p}]
    /\ IF points[p] = "none"
       THEN Answer(r, 500) /\ UNCHANGED found
       ELSE /\ found' = [found EXCEPT ![r] = IF points[p] = "filled" THEN @ \cup {p} ELSE @]
            /\ UNCHANGED requestVars
    /\ NoChange
    /\ UNCHANGED <<limiterVars, mine, scope, seen, unsearched>>

(* Mutant of SearchFails: a search that fails finds nothing. *)
SearchFails_Quietly(r) ==
    /\ at[r] = "search" /\ unsearched[r] \cup existing[r] # {}
    /\ unsearched' = [unsearched EXCEPT ![r] = {}]
    /\ existing' = [existing EXCEPT ![r] = {}]
    /\ NoChange
    /\ UNCHANGED <<limiterVars, requestVars, mine, scope, seen, found>>

(* The embedder raises, or Qdrant fails: neither has a handler. *)
SearchFails(r) ==
    /\ at[r] = "search" /\ unsearched[r] \cup existing[r] # {}
    /\ Answer(r, 500)
    /\ disturbed' = [disturbed EXCEPT ![r] = TRUE]
    /\ UNCHANGED <<rowVars, storeVars, left, limiterVars, readVars>>

(* The canned answer needs no LLM. *)
EndSearch(r) ==
    /\ at[r] = "search" /\ unsearched[r] = {} /\ existing[r] = {}
    /\ IF found[r] = {} /\ seen[r] = 0 THEN Reply(r, {}) ELSE Go(r, "generate") /\ UNCHANGED found
    /\ NoChange
    /\ UNCHANGED <<limiterVars, mine, scope, seen, unsearched, existing>>

(* The deadline passes, or the LLM raises. *)
GenerationFails(r) ==
    /\ at[r] = "generate"
    /\ Answer(r, 503)
    /\ NoChange
    /\ UNCHANGED <<limiterVars, readVars>>

(* The top_k best chunks are from some of the projects searched. *)
Merged(r) == {sources \in SUBSET found[r] : found[r] # {} => sources # {}}

Generate(r) ==
    /\ at[r] = "generate"
    /\ \E sources \in Merged(r) : Reply(r, sources)
    /\ NoChange
    /\ UNCHANGED <<limiterVars, mine, scope, seen, unsearched, existing>>

-----------------------------------------------------------------------------
LeaveRead(r) ==
    /\ Leave(r)
    /\ scope' = [scope EXCEPT ![r] = {}]
    /\ mine' = [mine EXCEPT ![r] = {}]
    /\ seen' = [seen EXCEPT ![r] = 0]
    /\ unsearched' = [unsearched EXCEPT ![r] = {}]
    /\ existing' = [existing EXCEPT ![r] = {}]
    /\ found' = [found EXCEPT ![r] = {}]
    /\ UNCHANGED limiterVars

BeginRead(r) ==
    \/ ListProjects(r)
    \/ QueryCrossProject(r)
    \/ \E p \in Projects : GetProject(r, p) \/ QueryProject(r, p)

Read(r) ==
    \/ Limit429(r)
    \/ ReadTeams(r)
    \/ ReadProjects(r)
    \/ GetById(r)
    \/ ListForUser(r)
    \/ ValidateQuery(r)
    \/ ReadLatest(r)
    \/ ValidateCross(r)
    \/ \E p \in Projects : CheckSearch(r, p) \/ SearchPoints(r, p)
    \/ SearchFails(r)
    \/ EndSearch(r)
    \/ GenerationFails(r)
    \/ Generate(r)

Step ==
    \/ \E r \in Requests : BeginRead(r) \/ Read(r) \/ LeaveRead(r)
    \/ ((\E r \in Requests : AccountRequest(r)) \/ Worker) /\ UNCHANGED <<limiterVars, readVars>>
    \/ left.ticking /\ (Tick \/ ExpireKey) /\ UNCHANGED <<accountVars, readVars>>

(* The histories: what was committed at the times from r's beginning on. *)
AskersTeams == {t \in teams : <<Asker, t>> \in members}
Bare == {p \in Projects : points[p] # "filled"}

Remember ==
    /\ readable' = [r \in Requests |->
          IF at'[r] = "idle" \/ kind'[r] \notin ReadKinds THEN NothingHeld
          ELSE [teams |-> readable[r].teams \cup AskersTeams',
                projects |-> readable[r].projects \cup Live']]
    /\ bare' = [r \in Requests |->
          IF at'[r] = "idle" \/ kind'[r] \notin ReadKinds THEN {} ELSE bare[r] \cup Bare']
    /\ since' = [r \in Requests |->
          IF at[r] = "idle" /\ kind'[r] \in ReadKinds THEN belief
          ELSE IF at'[r] = "idle" THEN [p \in Projects |-> 0] ELSE since[r]]

Next == Step /\ Remember

Spec == Init /\ [][Next]_vars

-----------------------------------------------------------------------------
TypeOK ==
    /\ users \in SUBSET [id : Users, email : Emails]
    /\ role \in [Users -> Roles]
    /\ teams \in SUBSET Teams
    /\ members \in SUBSET (Users \X Teams)
    /\ created \in SUBSET Projects
    /\ gone \in SUBSET created
    /\ team \in [Projects -> Teams \cup {NoArg}]
    /\ points \in [Projects -> {"none", "empty", "filled"}]
    /\ belief \in [Projects -> 0..MaxVersion]
    /\ kind \in [Requests -> Kinds \cup {"none"}]
    /\ arg \in [Requests -> Emails \cup (Users \X Teams) \cup Projects \cup {NoArg}]
    /\ data \in [Requests -> {"storable", "refused"}]
    /\ at \in [Requests -> WritePlaces \cup ReadPlaces \cup {"idle", "answered"}]
    /\ status \in [Requests -> {0, 200, 201, 204, 400, 401, 403, 404, 422, 429, 500, 503}]
    /\ disturbed \in [Requests -> BOOLEAN]
    /\ left \in [kinds : SUBSET Kinds, roles : SUBSET Roles, projects : BOOLEAN, reads : Nat,
                changes : Nat, work : Nat, ticking : BOOLEAN]
    /\ LimiterTypeOK
    /\ mine \in [Requests -> SUBSET Teams]
    /\ scope \in [Requests -> SUBSET Projects]
    /\ seen \in [Requests -> 0..MaxVersion]
    /\ unsearched \in [Requests -> SUBSET Projects]
    /\ existing \in [Requests -> SUBSET Projects]
    /\ found \in [Requests -> SUBSET Projects]
    /\ readable \in [Requests -> [teams : SUBSET Teams, projects : SUBSET Projects]]
    /\ bare \in [Requests -> SUBSET Projects]
    /\ since \in [Requests -> [Projects -> 0..MaxVersion]]

(* However two registrations of one address interleave, one row has it.     *)
(* auth.py:24-35 looks first and inserts later; the constraint decides.    *)
OneUserPerEmail == \A u, v \in users : u.email = v.email => u = v

(* An internal error has one of four causes, and no other: a write of       *)
(* another request between a look and a write of this one, a reindex or a   *)
(* fault of the embedder or of Qdrant; data of the request itself that      *)
(* cannot be hashed or stored (auth.py:33, team.py:24-26, project.py:31-38  *)
(* and 84-89); and a query of a project that has no row, where RULES.md:129 *)
(* wants 404 but main.py does not handle what query.py:60-61 raises.        *)
(* Whatever a request has looked at and nobody has written since, it may    *)
(* rely on.                                                                *)
InternalErrorsAreExplained ==
    \A r \in Requests :
        status[r] = 500 =>
            \/ disturbed[r]
            \/ data[r] = "refused"
            \/ kind[r] = "query" /\ arg[r] \notin Live

(* Whatever changes while a request is under way, every source of its       *)
(* answer is a project that had a row, of a team the user was in (or of an  *)
(* administrator), at some time of that very request: a scope is never      *)
(* older than the request.  The two need not be at one time, since the      *)
(* teams and their projects are two statements.  access.py:14-34.          *)
MayRead(r, p) ==
    /\ p \in readable[r].projects
    /\ \/ role[Asker] \in Administrators
       \/ role[Asker] = "member" /\ team[p] \in readable[r].teams

AnswersStayInScope ==
    \A r \in Requests :
        kind[r] \in ReadKinds /\ status[r] = 200 => \A p \in found[r] : MayRead(r, p)

(* The belief state behind an answer is not older than the request, so that *)
(* of two questions in a row the second is never answered from an older     *)
(* version.  query.py:63-77.                                               *)
BeliefIsFresh ==
    \A r \in Requests :
        kind[r] = "query" /\ status[r] = 200 /\ seen[r] # 0 => seen[r] >= since[r][arg[r]]

(* "No indexed content is available" is only said of projects that held no  *)
(* points at some time of the request: a search that fails or comes too     *)
(* late is an error, not an empty result.  query.py:89-95 and 158-164.     *)
CannedIsTruthful ==
    \A r \in Requests :
        status[r] = 200 /\ found[r] = {} =>
            /\ kind[r] = "query" /\ seen[r] = 0 => arg[r] \in bare[r]
            /\ kind[r] = "cross" => scope[r] \subseteq bare[r]
=============================================================================
