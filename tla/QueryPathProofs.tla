--------------------------- MODULE QueryPathProofs ---------------------------
(***************************************************************************)
(* The safety properties of QueryPath, for any users, teams, projects,     *)
(* requests and scenarios.  A request under way is only disturbed by what  *)
(* the others write: the proofs say once what that is (Evolves, Spares)    *)
(* and then look at each step of the request itself.                       *)
(***************************************************************************)
EXTENDS QueryPath, RateLimiterProofs

Args == Emails \cup (Users \X Teams) \cup Projects \cup {NoArg}
Codes == {0, 200, 201, 204, 400, 401, 403, 404, 422, 429, 500, 503}
Places == WritePlaces \cup ReadPlaces \cup {"idle", "answered"}

RowTypes ==
    /\ users \in SUBSET [id : Users, email : Emails]
    /\ role \in [Users -> Roles]
    /\ teams \in SUBSET Teams
    /\ members \in SUBSET (Users \X Teams)
    /\ created \in SUBSET Projects
    /\ gone \in SUBSET created
    /\ team \in [Projects -> Teams \cup {NoArg}]

StoreTypes ==
    /\ points \in [Projects -> {"none", "empty", "filled"}]
    /\ belief \in [Projects -> 0..MaxVersion]

RequestTypes ==
    /\ kind \in [Requests -> Kinds \cup {"none"}]
    /\ arg \in [Requests -> Args]
    /\ data \in [Requests -> {"storable", "refused"}]
    /\ at \in [Requests -> Places]
    /\ status \in [Requests -> Codes]

DisturbedType == disturbed \in [Requests -> BOOLEAN]

LeftType ==
    left \in [kinds : SUBSET Kinds, roles : SUBSET Roles, projects : BOOLEAN, reads : Nat,
              changes : Nat, work : Nat, ticking : BOOLEAN]

ReadTypes ==
    /\ mine \in [Requests -> SUBSET Teams]
    /\ scope \in [Requests -> SUBSET Projects]
    /\ seen \in [Requests -> 0..MaxVersion]
    /\ unsearched \in [Requests -> SUBSET Projects]
    /\ existing \in [Requests -> SUBSET Projects]
    /\ found \in [Requests -> SUBSET Projects]

HistoryTypes ==
    /\ readable \in [Requests -> [teams : SUBSET Teams, projects : SUBSET Projects]]
    /\ bare \in [Requests -> SUBSET Projects]
    /\ since \in [Requests -> [Projects -> 0..MaxVersion]]

(* What a request is about fits where it is. *)
ArgFits(k, a, p, made) ==
    /\ p = "insert_user" => a \in Emails
    /\ p \in {"insert_member", "delete_member"} => a \in Users \X Teams
    /\ p \in {"save", "refresh", "delete_row", "check_drop", "drop"} => a \in made
    /\ k \in {"get", "query"} => a \in made

KindFits(k, p, s) ==
    /\ p = "idle" => k = "none"
    /\ p \in WritePlaces => k \in ChangeKinds
    /\ p \in ReadPlaces => k \in ReadKinds
    /\ p = "get" => k = "get"
    /\ p = "list" => k = "list"
    /\ p \in {"validate", "latest"} => k = "query"
    /\ p = "validate_cross" => k = "cross"
    /\ p \in {"limiter", "search", "generate"} => k \in {"query", "cross"}
    /\ s # 0 => p = "answered"

Fits(r) == ArgFits(kind[r], arg[r], at[r], created) /\ KindFits(kind[r], at[r], status[r])

RequestsFit == RequestTypes /\ \A r \in Requests : Fits(r)

AccountInv ==
    /\ RowTypes
    /\ StoreTypes
    /\ RequestsFit
    /\ DisturbedType
    /\ LeftType

TypeInv == AccountInv /\ ReadTypes /\ HistoryTypes

-----------------------------------------------------------------------------
(* How Begin, Go, Answer and Leave move a request. *)

LEMMA BeginFits ==
    ASSUME RequestsFit, LeftType, NEW r \in Requests, NEW k \in Kinds, NEW a \in Args,
           NEW p \in Places, NEW s \in Codes, Begin(r, k, a, p, s),
           created \subseteq created', ArgFits(k, a, p, created'), KindFits(k, p, s)
    PROVE  RequestsFit' /\ LeftType'
<1>1. RequestTypes'
  <2>1. PICK d \in {"storable", "refused"} : data' = [data EXCEPT ![r] = d]
    BY DEF Begin, DataOf
  <2>2. data' \in [Requests -> {"storable", "refused"}]
    BY <2>1 DEF RequestsFit, RequestTypes
  <2>3. QED
    BY <2>2 DEF RequestsFit, RequestTypes, Begin
<1>2. /\ kind'[r] = k /\ arg'[r] = a /\ at'[r] = p /\ status'[r] = s
      /\ \A q \in Requests \ {r} : /\ kind'[q] = kind[q] /\ arg'[q] = arg[q]
                                   /\ at'[q] = at[q] /\ status'[q] = status[q]
  BY DEF RequestsFit, RequestTypes, Begin
<1>3. ASSUME NEW q \in Requests PROVE Fits(q)'
  <2>1. CASE q = r
    BY <1>2, <2>1 DEF Fits
  <2>2. CASE q # r
    <3>1. Fits(q)
      BY DEF RequestsFit
    <3>2. ArgFits(kind'[q], arg'[q], at'[q], created')
      BY <1>2, <2>2, <3>1 DEF Fits, ArgFits
    <3>3. QED
      BY <1>2, <2>2, <3>1, <3>2 DEF Fits
  <2>3. QED
    BY <2>1, <2>2
<1>4. LeftType'
  BY DEF Begin, Spend, LeftType
<1>5. QED
  BY <1>1, <1>3, <1>4 DEF RequestsFit

LEMMA DenyFits ==
    ASSUME RequestsFit, LeftType, NEW r \in Requests, NEW k \in ChangeKinds, NEW s \in Codes,
           Deny(r, k, s), created \subseteq created'
    PROVE  RequestsFit' /\ LeftType'
<1>1. k \in Kinds /\ NoArg \in Args /\ "answered" \in Places
  BY DEF Kinds, Args, Places
<1>2. ArgFits(k, NoArg, "answered", created')
  BY DEF ArgFits, ChangeKinds
<1>3. KindFits(k, "answered", s)
  BY DEF KindFits, WritePlaces, ReadPlaces
<1>4. QED
  BY <1>1, <1>2, <1>3, BeginFits DEF Deny

LEMMA GoFits ==
    ASSUME RequestsFit, NEW r \in Requests, NEW p \in Places, Go(r, p), at[r] # "answered",
           created \subseteq created', ArgFits(kind[r], arg[r], p, created'),
           KindFits(kind[r], p, 0)
    PROVE  RequestsFit'
<1>1. RequestTypes'
  BY DEF RequestsFit, RequestTypes, Go
<1>2. /\ kind'[r] = kind[r] /\ arg'[r] = arg[r] /\ at'[r] = p /\ status'[r] = 0
      /\ \A q \in Requests \ {r} : /\ kind'[q] = kind[q] /\ arg'[q] = arg[q]
                                   /\ at'[q] = at[q] /\ status'[q] = status[q]
  BY DEF RequestsFit, RequestTypes, Go, Fits, KindFits
<1>3. ASSUME NEW q \in Requests PROVE Fits(q)'
  <2>1. CASE q = r
    BY <1>2, <2>1 DEF Fits
  <2>2. CASE q # r
    <3>1. Fits(q)
      BY DEF RequestsFit
    <3>2. ArgFits(kind'[q], arg'[q], at'[q], created')
      BY <1>2, <2>2, <3>1 DEF Fits, ArgFits
    <3>3. QED
      BY <1>2, <2>2, <3>1, <3>2 DEF Fits
  <2>3. QED
    BY <2>1, <2>2
<1>4. QED
  BY <1>1, <1>3 DEF RequestsFit

LEMMA AnswerFits ==
    ASSUME RequestsFit, NEW r \in Requests, NEW s \in Codes, Answer(r, s),
           created \subseteq created'
    PROVE  RequestsFit'
<1>1. RequestTypes'
  BY DEF RequestsFit, RequestTypes, Answer, Places
<1>2. /\ kind'[r] = kind[r] /\ arg'[r] = arg[r] /\ at'[r] = "answered" /\ status'[r] = s
      /\ \A q \in Requests \ {r} : /\ kind'[q] = kind[q] /\ arg'[q] = arg[q]
                                   /\ at'[q] = at[q] /\ status'[q] = status[q]
  BY DEF RequestsFit, RequestTypes, Answer
<1>3. ASSUME NEW q \in Requests PROVE Fits(q)'
  <2>1. Fits(q)
    BY DEF RequestsFit
  <2>2. CASE q = r
    <3>1. ArgFits(kind'[q], arg'[q], at'[q], created')
      BY <1>2, <2>1, <2>2 DEF Fits, ArgFits
    <3>2. KindFits(kind'[q], at'[q], status'[q])
      BY <1>2, <2>1, <2>2 DEF Fits, KindFits, WritePlaces, ReadPlaces
    <3>3. QED
      BY <3>1, <3>2 DEF Fits
  <2>3. CASE q # r
    <3>1. ArgFits(kind'[q], arg'[q], at'[q], created')
      BY <1>2, <2>1, <2>3 DEF Fits, ArgFits
    <3>2. QED
      BY <1>2, <2>1, <2>3, <3>1 DEF Fits
  <2>4. QED
    BY <2>2, <2>3
<1>4. QED
  BY <1>1, <1>3 DEF RequestsFit

LEMMA LeaveFits ==
    ASSUME RequestsFit, NEW r \in Requests, Leave(r)
    PROVE  RequestsFit'
<1>1. RequestTypes'
  BY DEF RequestsFit, RequestTypes, Leave, Places, Args, Codes
<1>2. /\ kind'[r] = "none" /\ arg'[r] = NoArg /\ at'[r] = "idle" /\ status'[r] = 0
      /\ \A q \in Requests \ {r} : /\ kind'[q] = kind[q] /\ arg'[q] = arg[q]
                                   /\ at'[q] = at[q] /\ status'[q] = status[q]
      /\ created' = created
  BY DEF RequestsFit, RequestTypes, Leave, rowVars
<1>3. ASSUME NEW q \in Requests PROVE Fits(q)'
  <2>1. CASE q = r
    <3>1. ArgFits(kind'[q], arg'[q], at'[q], created')
      BY <1>2, <2>1 DEF ArgFits
    <3>2. KindFits(kind'[q], at'[q], status'[q])
      BY <1>2, <2>1 DEF KindFits, WritePlaces, ReadPlaces
    <3>3. QED
      BY <3>1, <3>2 DEF Fits
  <2>2. CASE q # r
    BY <1>2, <2>2 DEF RequestsFit, Fits
  <2>3. QED
    BY <2>1, <2>2
<1>4. QED
  BY <1>1, <1>3 DEF RequestsFit

LEMMA UnchangedFits ==
    ASSUME RequestsFit, UNCHANGED requestVars, created \subseteq created'
    PROVE  RequestsFit'
<1>1. RequestTypes'
  BY DEF RequestsFit, RequestTypes, requestVars
<1>2. ASSUME NEW q \in Requests PROVE Fits(q)'
  <2>1. Fits(q) /\ kind'[q] = kind[q] /\ arg'[q] = arg[q] /\ at'[q] = at[q] /\ status'[q] = status[q]
    BY DEF RequestsFit, requestVars
  <2>2. ArgFits(kind'[q], arg'[q], at'[q], created')
    BY <2>1 DEF Fits, ArgFits
  <2>3. QED
    BY <2>1, <2>2 DEF Fits
<1>3. QED
  BY <1>1, <1>2 DEF RequestsFit

LEMMA DisturbedFits ==
    ASSUME DisturbedType, NEW r \in Requests,
           Disturb(r) \/ DisturbAll \/ UNCHANGED disturbed
    PROVE  DisturbedType'
<1>1. CASE Disturb(r)
  BY <1>1, Zenon DEF Disturb, DisturbedType
<1>2. CASE DisturbAll
  BY <1>2, Zenon DEF DisturbAll, DisturbedType
<1>3. CASE UNCHANGED disturbed
  BY <1>3, Zenon DEF DisturbedType
<1>4. QED
  BY <1>1, <1>2, <1>3

LEMMA NoChangeFits ==
    ASSUME AccountInv, NoChange, UNCHANGED requestVars \/ RequestsFit'
    PROVE  AccountInv'
<1>1. RowTypes' /\ StoreTypes' /\ LeftType'
  BY DEF AccountInv, RowTypes, StoreTypes, LeftType, NoChange, NoWrite, rowVars, storeVars
<1>2. DisturbedType'
  BY Zenon DEF AccountInv, DisturbedType, NoChange, NoWrite
<1>3. RequestsFit'
  BY UnchangedFits DEF AccountInv, NoChange, NoWrite, rowVars
<1>4. QED
  BY <1>1, <1>2, <1>3 DEF AccountInv

-----------------------------------------------------------------------------
(* The types, through the requests that change something: one that begins   *)
(* and writes nothing, then those that write.                               *)

LEMMA BeginNoWriteFits ==
    ASSUME AccountInv, NEW r \in Requests, NEW k \in Kinds, NEW a \in Args,
           NEW p \in Places, NEW s \in Codes, Begin(r, k, a, p, s), NoWrite,
           ArgFits(k, a, p, created), KindFits(k, p, s)
    PROVE  AccountInv'
<1>1. RowTypes' /\ StoreTypes' /\ created' = created
  BY DEF AccountInv, RowTypes, StoreTypes, NoWrite, rowVars, storeVars
<1>2. DisturbedType'
  BY Zenon DEF AccountInv, DisturbedType, NoWrite
<1>3. created \subseteq created' /\ ArgFits(k, a, p, created')
  BY <1>1
<1>4. RequestsFit' /\ LeftType'
  BY <1>3, BeginFits DEF AccountInv
<1>5. QED
  BY <1>1, <1>2, <1>4 DEF AccountInv

LEMMA DenyNoWriteFits ==
    ASSUME AccountInv, NEW r \in Requests, NEW k \in ChangeKinds, NEW s \in Codes,
           Deny(r, k, s), NoWrite
    PROVE  AccountInv'
<1>1. RowTypes' /\ StoreTypes' /\ created' = created
  BY DEF AccountInv, RowTypes, StoreTypes, NoWrite, rowVars, storeVars
<1>2. DisturbedType'
  BY Zenon DEF AccountInv, DisturbedType, NoWrite
<1>3. RequestsFit' /\ LeftType'
  BY <1>1, DenyFits DEF AccountInv
<1>4. QED
  BY <1>1, <1>2, <1>3 DEF AccountInv

LEMMA BeginChangeFits ==
    ASSUME AccountInv, NEW r \in Requests,
           \/ Refuse(r)
           \/ \E e \in Emails : Register(r, e)
           \/ \E u \in Users, t \in Teams : AddMember(r, u, t) \/ RemoveMember(r, u, t)
           \/ \E p \in Projects : UpdateProject(r, p) \/ DeleteProject(r, p)
    PROVE  AccountInv'
<1>1. NoWrite
  BY DEF Refuse, Register, AddMember, RemoveMember, UpdateProject, DeleteProject, FindProject,
         NoWrite
<1>2. CASE \E k \in ChangeKinds, s \in Codes : Deny(r, k, s)
  BY <1>1, <1>2, DenyNoWriteFits
<1>3. ASSUME NEW e \in Emails, Begin(r, "register", e, "insert_user", 0)
      PROVE  AccountInv'
  <2>1. "register" \in Kinds /\ e \in Args /\ "insert_user" \in Places /\ 0 \in Codes
    BY DEF Kinds, ChangeKinds, Args, Places, WritePlaces, Codes
  <2>2. ArgFits("register", e, "insert_user", created)
    BY DEF ArgFits
  <2>3. KindFits("register", "insert_user", 0)
    BY DEF KindFits, ChangeKinds, ReadPlaces
  <2>4. QED
    BY <1>1, <1>3, <2>1, <2>2, <2>3, BeginNoWriteFits
<1>4. ASSUME NEW u \in Users, NEW t \in Teams,
             NEW k \in {"join", "leave"}, NEW p \in {"insert_member", "delete_member"},
             Begin(r, k, <<u, t>>, p, 0)
      PROVE  AccountInv'
  <2>1. k \in Kinds /\ <<u, t>> \in Args /\ p \in Places /\ 0 \in Codes
    BY DEF Kinds, ChangeKinds, Args, Places, WritePlaces, Codes
  <2>2. ArgFits(k, <<u, t>>, p, created)
    BY DEF ArgFits
  <2>3. KindFits(k, p, 0)
    BY DEF KindFits, ChangeKinds, ReadPlaces
  <2>4. QED
    BY <1>1, <1>4, <2>1, <2>2, <2>3, BeginNoWriteFits
<1>5. ASSUME NEW a \in created, NEW k \in {"update", "delete"},
             NEW p \in {"save", "delete_row"}, Begin(r, k, a, p, 0)
      PROVE  AccountInv'
  <2>1. a \in Projects
    BY DEF AccountInv, RowTypes
  <2>2. k \in Kinds /\ a \in Args /\ p \in Places /\ 0 \in Codes
    BY <2>1 DEF Kinds, ChangeKinds, Args, Places, WritePlaces, Codes
  <2>3. ArgFits(k, a, p, created)
    BY DEF ArgFits
  <2>4. KindFits(k, p, 0)
    BY DEF KindFits, ChangeKinds, ReadPlaces
  <2>5. QED
    BY <1>1, <1>5, <2>2, <2>3, <2>4, BeginNoWriteFits
<1>6. CASE Refuse(r)
  BY <1>2, <1>6 DEF Refuse, ChangeKinds, Codes
<1>7. ASSUME NEW e \in Emails, Register(r, e)
      PROVE  AccountInv'
  BY <1>2, <1>3, <1>7 DEF Register, ChangeKinds, Codes
<1>8. ASSUME NEW u \in Users, NEW t \in Teams, AddMember(r, u, t)
      PROVE  AccountInv'
  BY <1>2, <1>4, <1>8 DEF AddMember, ChangeKinds, Codes
<1>9. ASSUME NEW u \in Users, NEW t \in Teams, RemoveMember(r, u, t)
      PROVE  AccountInv'
  BY <1>2, <1>4, <1>9 DEF RemoveMember, ChangeKinds, Codes
<1>10. ASSUME NEW p \in Projects, UpdateProject(r, p)
       PROVE  AccountInv'
  BY <1>2, <1>5, <1>10 DEF UpdateProject, FindProject, Known, ChangeKinds, Codes
<1>11. ASSUME NEW p \in Projects, DeleteProject(r, p)
       PROVE  AccountInv'
  BY <1>2, <1>5, <1>11 DEF DeleteProject, FindProject, Known, ChangeKinds, Codes
<1>12. QED
  BY <1>6, <1>7, <1>8, <1>9, <1>10, <1>11

(* A write: where r goes, and what it leaves as it is. *)
LEMMA WriteFits ==
    ASSUME AccountInv, NEW r \in Requests,
           \/ InsertUser(r) \/ InsertMember(r) \/ DeleteMember(r)
           \/ SaveProject(r) \/ RefreshProject(r)
           \/ DeleteRow(r) \/ CheckDrop(r) \/ DropCollection(r)
    PROVE  AccountInv'
<1>1. /\ at[r] \in WritePlaces
      /\ at[r] = "insert_user" => arg[r] \in Emails
      /\ at[r] \in {"insert_member", "delete_member"} => arg[r] \in Users \X Teams
      /\ at[r] \in {"save", "refresh", "delete_row", "check_drop", "drop"} =>
             arg[r] \in created
      /\ kind[r] \in ChangeKinds
  BY DEF AccountInv, RequestsFit, Fits, ArgFits, KindFits, WritePlaces, InsertUser, InsertMember,
         DeleteMember, SaveProject, RefreshProject, DeleteRow, CheckDrop, DropCollection
<1>2. UNCHANGED <<role, teams, created, team, left>>
  BY DEF InsertUser, InsertMember, DeleteMember, SaveProject, RefreshProject, DeleteRow,
         CheckDrop, DropCollection, rowVars
<1>3. \/ \E s \in Codes : Answer(r, s)
      \/ /\ Go(r, "refresh") \/ Go(r, "check_drop") \/ Go(r, "drop")
         /\ arg[r] \in created
  BY <1>1 DEF InsertUser, InsertMember, DeleteMember, SaveProject, RefreshProject, DeleteRow,
              CheckDrop, DropCollection, Codes
<1>4. RequestsFit'
  <2>1. CASE \E s \in Codes : Answer(r, s)
    BY <1>2, <2>1, AnswerFits DEF AccountInv
  <2>2. ASSUME NEW p \in {"refresh", "check_drop", "drop"}, Go(r, p), arg[r] \in created
        PROVE  RequestsFit'
    <3>1. p \in Places /\ at[r] # "answered"
      BY <1>1 DEF Places, WritePlaces
    <3>2. ArgFits(kind[r], arg[r], p, created')
      BY <1>1, <1>2, <2>2 DEF ArgFits, ChangeKinds
    <3>3. KindFits(kind[r], p, 0)
      BY <1>1 DEF KindFits, ReadPlaces
    <3>4. QED
      BY <1>2, <2>2, <3>1, <3>2, <3>3, GoFits DEF AccountInv
  <2>3. QED
    BY <1>3, <2>1, <2>2
<1>5. LeftType'
  BY <1>2 DEF AccountInv, LeftType
<1>6. Disturb(r) \/ UNCHANGED disturbed
  BY DEF InsertUser, InsertMember, DeleteMember, SaveProject, RefreshProject, DeleteRow,
         CheckDrop, DropCollection
<1>7. DisturbedType'
  BY <1>6, DisturbedFits DEF AccountInv
<1>8. users' \in SUBSET [id : Users, email : Emails]
  <2>1. CASE UNCHANGED users
    BY <2>1 DEF AccountInv, RowTypes
  <2>2. CASE ~UNCHANGED users
    <3>1. InsertUser(r)
      BY <2>2 DEF InsertMember, DeleteMember, SaveProject, RefreshProject, DeleteRow,
                  CheckDrop, DropCollection, rowVars
    <3>2. arg[r] \in Emails
      BY <1>1, <3>1 DEF InsertUser
    <3>3. PICK id \in Users : users' = users \cup {[id |-> id, email |-> arg[r]]}
      BY <2>2, <3>1 DEF InsertUser
    <3>4. QED
      BY <3>2, <3>3 DEF AccountInv, RowTypes
  <2>3. QED
    BY <2>1, <2>2
<1>9. members' \in SUBSET (Users \X Teams)
  <2>1. \/ UNCHANGED members
        \/ at[r] = "insert_member" /\ members' = members \cup {arg[r]}
        \/ members' = members \ {arg[r]}
    BY DEF InsertUser, InsertMember, DeleteMember, SaveProject, RefreshProject, DeleteRow,
           CheckDrop, DropCollection, rowVars
  <2>2. QED
    BY <1>1, <2>1 DEF AccountInv, RowTypes
<1>10. gone' \in SUBSET created'
  <2>1. CASE DeleteRow(r)
    <3>1. gone' = gone \cup {arg[r]} /\ arg[r] \in created
      BY <1>1, <2>1 DEF DeleteRow
    <3>2. QED
      BY <1>2, <3>1 DEF AccountInv, RowTypes
  <2>2. CASE ~DeleteRow(r)
    <3>1. gone' = gone
      BY <2>2 DEF InsertUser, InsertMember, DeleteMember, SaveProject, RefreshProject,
                  CheckDrop, DropCollection, rowVars
    <3>2. QED
      BY <1>2, <3>1 DEF AccountInv, RowTypes
  <2>3. QED
    BY <2>1, <2>2
<1>11. RowTypes'
  BY <1>2, <1>8, <1>9, <1>10 DEF AccountInv, RowTypes
<1>12. StoreTypes'
  <2>1. /\ UNCHANGED belief \/ belief' = [belief EXCEPT ![arg[r]] = 0]
        /\ UNCHANGED points \/ points' = [points EXCEPT ![arg[r]] = "none"]
    BY DEF InsertUser, InsertMember, DeleteMember, SaveProject, RefreshProject, DeleteRow,
           CheckDrop, DropCollection, storeVars
  <2>2. belief \in [Projects -> 0..MaxVersion] /\ 0 \in 0..MaxVersion
    BY AccountsAssumption DEF AccountInv, StoreTypes, AccountsAssumption
  <2>3. belief' \in [Projects -> 0..MaxVersion]
    BY <2>1, <2>2
  <2>4. points' \in [Projects -> {"none", "empty", "filled"}]
    BY <2>1 DEF AccountInv, StoreTypes
  <2>5. QED
    BY <2>3, <2>4 DEF StoreTypes
<1>13. QED
  BY <1>4, <1>5, <1>7, <1>11, <1>12 DEF AccountInv

LEMMA CreateFits ==
    ASSUME AccountInv, NEW r \in Requests,
           CreateTeam(r) \/ \E t \in Teams : CreateProject(r, t)
    PROVE  AccountInv'
<1>1. CASE CreateTeam(r)
  <2>1. /\ teams' \in SUBSET Teams
        /\ UNCHANGED <<users, role, members, created, gone, team, points, belief, disturbed>>
    BY <1>1 DEF CreateTeam, AccountInv, RowTypes, storeVars
  <2>2. RowTypes' /\ StoreTypes'
    BY <2>1 DEF AccountInv, RowTypes, StoreTypes
  <2>3. DisturbedType'
    BY <2>1, Zenon DEF AccountInv, DisturbedType
  <2>4. "team" \in ChangeKinds /\ \E s \in Codes : Deny(r, "team", s)
    BY <1>1 DEF CreateTeam, Deny, ChangeKinds, Codes
  <2>5. RequestsFit' /\ LeftType'
    BY <2>1, <2>4, DenyFits DEF AccountInv
  <2>6. QED
    BY <2>2, <2>3, <2>5 DEF AccountInv
<1>2. ASSUME NEW t \in Teams, CreateProject(r, t)
      PROVE  AccountInv'
  <2>1. CASE t \notin teams
    <3>1. NoWrite /\ Deny(r, "create", 404)
      BY <1>2, <2>1 DEF CreateProject, NoWrite, rowVars
    <3>2. "create" \in ChangeKinds /\ 404 \in Codes
      BY DEF ChangeKinds, Codes
    <3>3. QED
      BY <3>1, <3>2, DenyNoWriteFits
  <2>2. CASE t \in teams /\ data'[r] = "refused" /\ Deny(r, "create", 500) /\ UNCHANGED <<created, team>>
    <3>1. NoWrite
      BY <1>2, <2>2 DEF CreateProject, NoWrite, rowVars
    <3>2. "create" \in ChangeKinds /\ 500 \in Codes
      BY DEF ChangeKinds, Codes
    <3>3. QED
      BY <2>2, <3>1, <3>2, DenyNoWriteFits
  <2>3. ASSUME NEW p \in Projects \ created,
               created' = created \cup {p},
               team' = [team EXCEPT ![p] = t],
               t \in teams,
               Begin(r, "create", p, "refresh", 0)
        PROVE  AccountInv'
    <3>1. created' = created \cup {p} /\ team' = [team EXCEPT ![p] = t]
      BY <2>3
    <3>2. UNCHANGED <<users, role, teams, members, gone, points, belief, disturbed>>
      BY <1>2 DEF CreateProject, storeVars
    <3>3. RowTypes' /\ StoreTypes'
      BY <2>3, <3>2 DEF AccountInv, RowTypes, StoreTypes
    <3>4. DisturbedType'
      BY <3>2, Zenon DEF AccountInv, DisturbedType
    <3>5. "create" \in Kinds /\ p \in Args /\ "refresh" \in Places /\ 0 \in Codes
      BY DEF Kinds, ChangeKinds, Args, Places, WritePlaces, Codes
    <3>6. created \subseteq created' /\ ArgFits("create", p, "refresh", created')
      BY <3>1 DEF ArgFits
    <3>7. KindFits("create", "refresh", 0)
      BY DEF KindFits, ChangeKinds, ReadPlaces
    <3>8. RequestsFit' /\ LeftType'
      BY <2>3, <3>5, <3>6, <3>7, BeginFits DEF AccountInv
    <3>9. QED
      BY <3>3, <3>4, <3>8 DEF AccountInv
  <2>4. QED
    BY <1>2, <2>1, <2>2, <2>3 DEF CreateProject
<1>3. QED
  BY <1>1, <1>2

LEMMA AccountRequestFits ==
    ASSUME AccountInv, NEW r \in Requests, AccountRequest(r)
    PROVE  AccountInv'
BY BeginChangeFits, WriteFits, CreateFits DEF AccountRequest

LEMMA WorkerFits ==
    ASSUME AccountInv, Worker
    PROVE  AccountInv'
<1>1. UNCHANGED <<rowVars, requestVars>>
  BY DEF Worker, CreateCollection, FillCollection, ReindexDrops, WriteBelief
<1>2. RowTypes' /\ created' = created
  BY <1>1 DEF AccountInv, RowTypes, rowVars
<1>3. RequestsFit'
  BY <1>1, <1>2, UnchangedFits DEF AccountInv
<1>4. LeftType'
  BY DEF Worker, CreateCollection, FillCollection, ReindexDrops, WriteBelief, Spend, AccountInv,
         LeftType
<1>5. DisturbedType'
  <2>1. PICK r : r \in Requests
    BY RequestsAssumption DEF RequestsAssumption
  <2>2. DisturbAll \/ UNCHANGED disturbed
    BY DEF Worker, CreateCollection, FillCollection, ReindexDrops, WriteBelief
  <2>3. QED
    BY <2>1, <2>2, DisturbedFits DEF AccountInv
<1>6. StoreTypes'
  <2>1. PICK p \in Projects : \/ CreateCollection(p) \/ FillCollection(p)
                              \/ ReindexDrops(p) \/ WriteBelief(p)
    BY DEF Worker
  <2>2. CASE CreateCollection(p) \/ FillCollection(p) \/ ReindexDrops(p)
    BY <2>1, <2>2 DEF CreateCollection, FillCollection, ReindexDrops, AccountInv, StoreTypes
  <2>3. CASE WriteBelief(p)
    <3>1. /\ belief[p] < MaxVersion /\ belief' = [belief EXCEPT ![p] = belief[p] + 1]
          /\ UNCHANGED points
      BY <2>3 DEF WriteBelief
    <3>2. belief[p] \in 0..MaxVersion /\ MaxVersion \in Nat
      BY <2>1, AccountsAssumption DEF AccountInv, StoreTypes, AccountsAssumption
    <3>3. belief[p] + 1 \in 0..MaxVersion
      BY <3>1, <3>2
    <3>4. QED
      BY <3>1, <3>3 DEF AccountInv, StoreTypes
  <2>4. QED
    BY <2>1, <2>2, <2>3
<1>7. QED
  BY <1>2, <1>3, <1>4, <1>5, <1>6 DEF AccountInv

LEMMA LeaveStepFits ==
    ASSUME AccountInv, NEW r \in Requests, Leave(r)
    PROVE  AccountInv'
<1>1. RowTypes' /\ StoreTypes' /\ LeftType'
  BY DEF AccountInv, RowTypes, StoreTypes, LeftType, Leave, rowVars, storeVars
<1>2. DisturbedType'
  <2>1. disturbed' = [disturbed EXCEPT ![r] = FALSE] /\ disturbed \in [Requests -> BOOLEAN]
    BY Zenon DEF Leave, AccountInv, DisturbedType
  <2>2. QED
    BY <2>1, Zenon DEF DisturbedType
<1>3. RequestsFit'
  BY LeaveFits DEF AccountInv
<1>4. QED
  BY <1>1, <1>2, <1>3 DEF AccountInv

-----------------------------------------------------------------------------
(* The types, through the requests that read. *)

LEMMA BeginReadFits ==
    ASSUME AccountInv, NEW r \in Requests, BeginRead(r)
    PROVE  AccountInv'
<1>1. ASSUME NEW k \in {"get", "query"}, NEW a \in created, NEW p \in {"teams", "limiter"},
             p = "limiter" => k = "query", Begin(r, k, a, p, 0), NoWrite
      PROVE  AccountInv'
  <2>1. k \in Kinds /\ a \in Args /\ p \in Places /\ 0 \in Codes
    BY DEF AccountInv, RowTypes, Kinds, ReadKinds, Args, Places, ReadPlaces, Codes
  <2>2. ArgFits(k, a, p, created)
    BY DEF ArgFits
  <2>3. KindFits(k, p, 0)
    BY <1>1 DEF KindFits, ReadKinds, WritePlaces
  <2>4. QED
    BY <1>1, <2>1, <2>2, <2>3, BeginNoWriteFits
<1>2. ASSUME NEW k \in {"list", "cross"}, NEW p \in {"teams", "limiter"},
             p = "limiter" => k = "cross", Begin(r, k, NoArg, p, 0), NoWrite
      PROVE  AccountInv'
  <2>1. k \in Kinds /\ NoArg \in Args /\ p \in Places /\ 0 \in Codes
    BY DEF Kinds, ReadKinds, Args, Places, ReadPlaces, Codes
  <2>2. ArgFits(k, NoArg, p, created)
    BY DEF ArgFits
  <2>3. KindFits(k, p, 0)
    BY <1>2 DEF KindFits, ReadKinds, WritePlaces
  <2>4. QED
    BY <1>2, <2>1, <2>2, <2>3, BeginNoWriteFits
<1>3. CASE ListProjects(r)
  BY <1>2, <1>3 DEF ListProjects
<1>4. CASE QueryCrossProject(r)
  BY <1>2, <1>4 DEF QueryCrossProject
<1>5. ASSUME NEW p \in Projects, GetProject(r, p)
      PROVE  AccountInv'
  BY <1>1, <1>5 DEF GetProject, Known
<1>6. ASSUME NEW p \in Projects, QueryProject(r, p)
      PROVE  AccountInv'
  BY <1>1, <1>6 DEF QueryProject, Known
<1>7. QED
  BY <1>3, <1>4, <1>5, <1>6 DEF BeginRead

(* Where a reading request goes. *)
LEMMA ReadGoes ==
    ASSUME RequestsFit, NEW r \in Requests, Read(r)
    PROVE  /\ at[r] \in ReadPlaces /\ kind[r] \in ReadKinds /\ status[r] = 0
           /\ kind[r] \in {"get", "query"} => arg[r] \in created
           /\ \/ UNCHANGED requestVars
              \/ \E s \in Codes : Answer(r, s)
              \/ Go(r, "teams") /\ kind[r] \in {"query", "cross"}
              \/ Go(r, "projects")
              \/ Go(r, Handler(r))
              \/ Go(r, "latest") /\ kind[r] = "query"
              \/ Go(r, "search") /\ kind[r] \in {"query", "cross"}
              \/ Go(r, "generate") /\ kind[r] \in {"query", "cross"}
<1>1. at[r] \in ReadPlaces
  BY DEF Read, ReadPlaces, Limit429, ReadTeams, ReadProjects, GetById, ListForUser, ValidateQuery,
         ReadLatest, ValidateCross, CheckSearch, SearchPoints, SearchFails, EndSearch,
         GenerationFails, Generate
<1>2. Fits(r)
  BY DEF RequestsFit
<1>3. kind[r] \in ReadKinds /\ status[r] = 0
  BY <1>1, <1>2 DEF Fits, KindFits, ReadPlaces
<1>4. /\ kind[r] \in {"get", "query"} => arg[r] \in created
      /\ at[r] \in {"limiter", "search", "generate"} => kind[r] \in {"query", "cross"}
      /\ at[r] \in {"validate", "latest"} => kind[r] = "query"
      /\ at[r] = "validate_cross" => kind[r] = "cross"
  BY <1>2, Zenon DEF Fits, ArgFits, KindFits
<1>5. \/ UNCHANGED requestVars
      \/ \E s \in Codes : Answer(r, s)
      \/ Go(r, "teams") /\ kind[r] \in {"query", "cross"}
      \/ Go(r, "projects")
      \/ Go(r, Handler(r))
      \/ Go(r, "latest") /\ kind[r] = "query"
      \/ Go(r, "search") /\ kind[r] \in {"query", "cross"}
      \/ Go(r, "generate") /\ kind[r] \in {"query", "cross"}
  <2>1. CASE Limit429(r) \/ ReadTeams(r) \/ ReadProjects(r)
    BY <1>4, <2>1 DEF Limit429, ReadTeams, ReadProjects, Codes
  <2>2. CASE GetById(r) \/ ListForUser(r) \/ ValidateQuery(r) \/ ReadLatest(r)
    BY <1>4, <2>2 DEF GetById, ListForUser, ValidateQuery, ReadLatest, Reply, Codes
  <2>3. CASE ValidateCross(r) \/ EndSearch(r) \/ GenerationFails(r) \/ Generate(r)
    BY <1>4, <2>3 DEF ValidateCross, EndSearch, GenerationFails, Generate, Reply, Codes
  <2>4. CASE SearchFails(r) \/ \E p \in Projects : CheckSearch(r, p) \/ SearchPoints(r, p)
    BY <2>4 DEF SearchFails, CheckSearch, SearchPoints, Codes
  <2>5. QED
    BY <2>1, <2>2, <2>3, <2>4 DEF Read
<1>6. QED
  BY <1>1, <1>3, <1>4, <1>5

LEMMA ReadFits ==
    ASSUME AccountInv, NEW r \in Requests, Read(r)
    PROVE  AccountInv'
<1>1. UNCHANGED <<rowVars, storeVars, left>>
  BY DEF Read, NoChange, NoWrite, Limit429, ReadTeams, ReadProjects, GetById, ListForUser,
         ValidateQuery, ReadLatest, ValidateCross, CheckSearch, SearchPoints, SearchFails,
         EndSearch, GenerationFails, Generate
<1>2. RowTypes' /\ StoreTypes' /\ LeftType' /\ created' = created
  BY <1>1 DEF AccountInv, RowTypes, StoreTypes, LeftType, rowVars, storeVars
<1>3. DisturbedType'
  <2>1. UNCHANGED disturbed \/ disturbed' = [disturbed EXCEPT ![r] = TRUE]
    BY DEF Read, NoChange, NoWrite, Limit429, ReadTeams, ReadProjects, GetById, ListForUser,
           ValidateQuery, ReadLatest, ValidateCross, CheckSearch, SearchPoints, SearchFails,
           EndSearch, GenerationFails, Generate
  <2>2. disturbed \in [Requests -> BOOLEAN]
    BY DEF AccountInv, DisturbedType
  <2>3. QED
    BY <2>1, <2>2, Zenon DEF DisturbedType
<1>4. RequestsFit'
  <2>1. /\ at[r] \in ReadPlaces /\ kind[r] \in ReadKinds
        /\ kind[r] \in {"get", "query"} => arg[r] \in created
    BY ReadGoes DEF AccountInv
  <2>2. CASE UNCHANGED requestVars
    BY <1>2, <2>2, UnchangedFits DEF AccountInv
  <2>3. CASE \E s \in Codes : Answer(r, s)
    BY <1>2, <2>3, AnswerFits DEF AccountInv
  <2>4. ASSUME NEW p \in {"teams", "projects", "get", "list", "validate", "validate_cross",
                          "latest", "search", "generate"},
               p = "get" => kind[r] = "get", p = "list" => kind[r] = "list",
               p \in {"validate", "latest"} => kind[r] = "query",
               p = "validate_cross" => kind[r] = "cross",
               p \in {"search", "generate"} => kind[r] \in {"query", "cross"},
               Go(r, p)
        PROVE  RequestsFit'
    <3>1. p \in Places /\ at[r] # "answered"
      BY <2>1 DEF Places, ReadPlaces
    <3>2. ArgFits(kind[r], arg[r], p, created')
      BY <1>2, <2>1 DEF ArgFits
    <3>3. KindFits(kind[r], p, 0)
      BY <2>1, <2>4 DEF KindFits, WritePlaces
    <3>4. QED
      BY <1>2, <2>4, <3>1, <3>2, <3>3, GoFits DEF AccountInv
  <2>5. CASE Go(r, Handler(r))
    <3>1. \/ Handler(r) = "get" /\ kind[r] = "get"
          \/ Handler(r) = "list" /\ kind[r] = "list"
          \/ Handler(r) = "validate" /\ kind[r] = "query"
          \/ Handler(r) = "validate_cross" /\ kind[r] = "cross"
      BY <2>1 DEF Handler, ReadKinds
    <3>2. QED
      BY <2>4, <2>5, <3>1
  <2>6. QED
    <3>1. CASE Go(r, "teams") \/ Go(r, "projects")
      BY <2>4, <3>1
    <3>2. CASE \/ Go(r, "latest") /\ kind[r] = "query"
               \/ Go(r, "search") /\ kind[r] \in {"query", "cross"}
               \/ Go(r, "generate") /\ kind[r] \in {"query", "cross"}
      BY <2>4, <3>2
    <3>3. QED
      BY <2>2, <2>3, <2>5, <3>1, <3>2, ReadGoes DEF AccountInv
<1>5. QED
  BY <1>2, <1>3, <1>4 DEF AccountInv

LEMMA StepFits ==
    ASSUME AccountInv, Step
    PROVE  AccountInv'
<1>1. CASE \E r \in Requests : BeginRead(r) \/ Read(r) \/ LeaveRead(r)
  BY <1>1, BeginReadFits, ReadFits, LeaveStepFits DEF LeaveRead
<1>2. CASE (\E r \in Requests : AccountRequest(r)) \/ Worker
  BY <1>2, AccountRequestFits, WorkerFits
<1>3. CASE UNCHANGED accountVars
  <2>1. RowTypes' /\ StoreTypes' /\ LeftType' /\ UNCHANGED requestVars /\ created' = created
    BY <1>3 DEF AccountInv, RowTypes, StoreTypes, LeftType, accountVars, rowVars, storeVars
  <2>2. DisturbedType'
    BY <1>3, Zenon DEF AccountInv, DisturbedType, accountVars
  <2>3. RequestsFit'
    BY <2>1, UnchangedFits DEF AccountInv
  <2>4. QED
    BY <2>1, <2>2, <2>3 DEF AccountInv
<1>4. QED
  BY <1>1, <1>2, <1>3 DEF Step

LEMMA ReadTypesStep ==
    ASSUME AccountInv, ReadTypes, Step
    PROVE  ReadTypes'
<1>1. /\ mine \in [Requests -> SUBSET Teams] /\ scope \in [Requests -> SUBSET Projects]
      /\ seen \in [Requests -> 0..MaxVersion] /\ unsearched \in [Requests -> SUBSET Projects]
      /\ existing \in [Requests -> SUBSET Projects] /\ found \in [Requests -> SUBSET Projects]
      /\ Live \in SUBSET Projects /\ 0 \in 0..MaxVersion
      /\ teams \in SUBSET Teams /\ belief \in [Projects -> 0..MaxVersion]
  BY AccountsAssumption DEF ReadTypes, AccountInv, RowTypes, StoreTypes, Live, AccountsAssumption
<1>2. CASE UNCHANGED readVars
  BY <1>1, <1>2 DEF ReadTypes, readVars
<1>3. ASSUME NEW r \in Requests, LeaveRead(r)
      PROVE  ReadTypes'
  BY <1>1, <1>3 DEF LeaveRead, ReadTypes
<1>4. ASSUME NEW r \in Requests, ReadTeams(r)
      PROVE  ReadTypes'
  <2>1. UNCHANGED <<seen, unsearched, existing, found>>
    BY <1>4 DEF ReadTeams
  <2>2. UNCHANGED mine \/ \E T \in SUBSET Teams : mine' = [mine EXCEPT ![r] = T]
    BY <1>1, <1>4 DEF ReadTeams
  <2>3. UNCHANGED scope \/ \E S \in SUBSET Projects : scope' = [scope EXCEPT ![r] = S]
    <3>1. (IF role[Asker] \in Administrators THEN Live ELSE {}) \in SUBSET Projects
      BY <1>1
    <3>2. QED
      BY <1>4, <3>1 DEF ReadTeams
  <2>4. QED
    BY <1>1, <2>1, <2>2, <2>3 DEF ReadTypes
<1>5. ASSUME NEW r \in Requests, ReadProjects(r)
      PROVE  ReadTypes'
  BY <1>1, <1>5 DEF ReadProjects, ReadTypes
<1>6. ASSUME NEW r \in Requests, GetById(r) \/ ListForUser(r) \/ EndSearch(r) \/ Generate(r)
      PROVE  ReadTypes'
  <2>1. UNCHANGED <<mine, scope, seen, unsearched, existing>>
    BY <1>6 DEF GetById, ListForUser, EndSearch, Generate
  <2>2. UNCHANGED found \/ \E sources \in SUBSET Projects : Reply(r, sources)
    <3>1. CASE GetById(r)
      BY <1>1, <3>1 DEF GetById
    <3>2. CASE ListForUser(r) \/ EndSearch(r)
      BY <1>1, <3>2 DEF ListForUser, EndSearch
    <3>3. CASE Generate(r)
      BY <1>1, <3>3 DEF Generate, Merged
    <3>4. QED
      BY <1>6, <3>1, <3>2, <3>3
  <2>3. found' \in [Requests -> SUBSET Projects]
    BY <1>1, <2>2 DEF Reply
  <2>4. QED
    BY <1>1, <2>1, <2>3 DEF ReadTypes
<1>7. ASSUME NEW r \in Requests, ReadLatest(r)
      PROVE  ReadTypes'
  <2>1. CASE Accessible(r)
    <3>1. PICK v \in {LatestVersion(arg[r]), 0} : seen' = [seen EXCEPT ![r] = v]
      BY <1>7, <2>1 DEF ReadLatest
    <3>2. arg[r] \in Projects
      BY <1>1, <2>1 DEF Accessible
    <3>3. v \in 0..MaxVersion
      BY <1>1, <3>1, <3>2 DEF LatestVersion
    <3>4. seen' \in [Requests -> 0..MaxVersion]
      BY <1>1, <3>1, <3>3
    <3>5. QED
      BY <1>1, <1>7, <2>1, <3>2, <3>4 DEF ReadLatest, ReadTypes
  <2>2. CASE ~Accessible(r)
    BY <1>1, <1>7, <2>2 DEF ReadLatest, ReadTypes
  <2>3. QED
    BY <2>1, <2>2
<1>8. ASSUME NEW r \in Requests, ValidateCross(r)
      PROVE  ReadTypes'
  BY <1>1, <1>8 DEF ValidateCross, ReadTypes
<1>9. ASSUME NEW r \in Requests, NEW p \in Projects, CheckSearch(r, p) \/ SearchPoints(r, p)
      PROVE  ReadTypes'
  <2>1. CASE CheckSearch(r, p)
    BY <1>1, <2>1 DEF CheckSearch, ReadTypes
  <2>2. CASE SearchPoints(r, p)
    BY <1>1, <2>2 DEF SearchPoints, ReadTypes
  <2>3. QED
    BY <1>9, <2>1, <2>2
<1>10. ASSUME NEW r \in Requests,
              \/ BeginRead(r) \/ Limit429(r) \/ ValidateQuery(r)
              \/ SearchFails(r) \/ GenerationFails(r)
       PROVE  UNCHANGED readVars
  BY <1>10 DEF BeginRead, ListProjects, QueryCrossProject, GetProject, QueryProject, Limit429,
               ValidateQuery, SearchFails, GenerationFails
<1>11. QED
  BY <1>2, <1>3, <1>4, <1>5, <1>6, <1>7, <1>8, <1>9, <1>10 DEF Step, Read

LEMMA HistoryTypesStep ==
    ASSUME HistoryTypes, AccountInv, AccountInv', Remember
    PROVE  HistoryTypes'
<1>1. /\ belief \in [Projects -> 0..MaxVersion] /\ 0 \in 0..MaxVersion
      /\ AskersTeams' \in SUBSET Teams /\ Live' \in SUBSET Projects /\ Bare' \in SUBSET Projects
  BY AccountsAssumption DEF AccountInv, RowTypes, StoreTypes, AskersTeams, Live, Bare,
                            AccountsAssumption
<1>2. readable' \in [Requests -> [teams : SUBSET Teams, projects : SUBSET Projects]]
  <2>1. readable \in [Requests -> [teams : SUBSET Teams, projects : SUBSET Projects]]
    BY DEF HistoryTypes
  <2>2. readable' = [r \in Requests |->
            IF at'[r] = "idle" \/ kind'[r] \notin ReadKinds THEN NothingHeld
            ELSE [teams |-> readable[r].teams \cup AskersTeams',
                  projects |-> readable[r].projects \cup Live']]
    BY DEF Remember
  <2>3. QED
    BY <1>1, <2>1, <2>2 DEF NothingHeld
<1>3. bare' \in [Requests -> SUBSET Projects]
  BY <1>1 DEF HistoryTypes, Remember
<1>4. since' \in [Requests -> [Projects -> 0..MaxVersion]]
  BY <1>1 DEF HistoryTypes, Remember
<1>5. QED
  BY <1>2, <1>3, <1>4 DEF HistoryTypes

LEMMA TypeInvInit == Init => TypeInv
<1>1. SUFFICES ASSUME Init PROVE TypeInv
  OBVIOUS
<1>2. AccountsInit /\ 0 \in 0..MaxVersion /\ Asker \in Users
  BY <1>1, AccountsAssumption DEF Init, AccountsAssumption
<1>3. RowTypes
  <2>1. users \in SUBSET [id : Users, email : Emails]
    BY <1>2 DEF AccountsInit
  <2>2. role \in [Users -> Roles]
    <3>1. PICK k \in left.roles : role = [u \in Users |-> IF u = Asker THEN k ELSE "member"]
      BY <1>2 DEF AccountsInit
    <3>2. left.roles \in SUBSET Roles
      BY <1>2, AccountsAssumption DEF AccountsInit, AccountsAssumption
    <3>3. QED
      BY <3>1, <3>2 DEF Roles
  <2>3. members \in SUBSET (Users \X Teams) /\ teams \in SUBSET Teams
    BY <1>2 DEF AccountsInit
  <2>4. QED
    BY <1>2, <2>1, <2>2, <2>3 DEF RowTypes, AccountsInit
<1>4. StoreTypes
  BY <1>2 DEF AccountsInit, StoreTypes
<1>5. RequestsFit
  <2>1. RequestTypes
    BY <1>2 DEF AccountsInit, RequestTypes, Args, Places, Codes
  <2>2. ASSUME NEW r \in Requests PROVE Fits(r)
    <3>1. kind[r] = "none" /\ at[r] = "idle" /\ status[r] = 0
      BY <1>2 DEF AccountsInit
    <3>2. ArgFits(kind[r], arg[r], at[r], created)
      BY <3>1 DEF ArgFits
    <3>3. KindFits(kind[r], at[r], status[r])
      BY <3>1 DEF KindFits, WritePlaces, ReadPlaces
    <3>4. QED
      BY <3>2, <3>3 DEF Fits
  <2>3. QED
    BY <2>1, <2>2 DEF RequestsFit
<1>6. DisturbedType
  BY <1>2, Zenon DEF AccountsInit, DisturbedType
<1>7. LeftType
  BY <1>2, AccountsAssumption DEF AccountsInit, LeftType, AccountsAssumption
<1>8. ReadTypes
  BY <1>1, <1>2 DEF Init, ReadTypes
<1>9. HistoryTypes
  BY <1>1, <1>2 DEF Init, HistoryTypes, NothingHeld
<1>10. QED
  BY <1>3, <1>4, <1>5, <1>6, <1>7, <1>8, <1>9 DEF TypeInv, AccountInv

LEMMA TypeInvStep == TypeInv /\ [Next]_vars => TypeInv'
<1>1. ASSUME TypeInv, Next PROVE TypeInv'
  <2>1. AccountInv'
    BY <1>1, StepFits DEF TypeInv, Next
  <2>2. ReadTypes'
    BY <1>1, ReadTypesStep DEF TypeInv, Next
  <2>3. HistoryTypes'
    BY <1>1, <2>1, HistoryTypesStep DEF TypeInv, Next
  <2>4. QED
    BY <2>1, <2>2, <2>3 DEF TypeInv
<1>2. ASSUME TypeInv, UNCHANGED vars PROVE TypeInv'
  <2>1. UNCHANGED requestVars /\ UNCHANGED created
    BY <1>2 DEF vars, accountVars, rowVars
  <2>2. RequestsFit'
    BY <1>2, <2>1, UnchangedFits DEF TypeInv, AccountInv
  <2>3. RowTypes' /\ StoreTypes' /\ LeftType'
    BY <1>2 DEF TypeInv, AccountInv, RowTypes, StoreTypes, LeftType, vars, accountVars, rowVars,
                storeVars
  <2>4. DisturbedType'
    BY <1>2, Zenon DEF TypeInv, AccountInv, DisturbedType, vars, accountVars
  <2>5. ReadTypes'
    BY <1>2 DEF TypeInv, ReadTypes, vars, readVars
  <2>6. HistoryTypes'
    BY <1>2 DEF TypeInv, HistoryTypes, vars, historyVars
  <2>7. QED
    BY <2>2, <2>3, <2>4, <2>5, <2>6 DEF TypeInv, AccountInv
<1>3. QED
  BY <1>1, <1>2

-----------------------------------------------------------------------------
(* What is true of the limiter alone is true of it behind the routes. *)

LEMMA LimiterKeptStep == [Next]_vars => [LimiterNext]_limiterVars
<1>1. ASSUME Next PROVE [LimiterNext]_limiterVars
  <2>1. ASSUME NEW r \in Requests, BeginRead(r) \/ Read(r) \/ LeaveRead(r)
        PROVE  [LimiterNext]_limiterVars
    <3>1. CASE BeginRead(r)
      BY <3>1 DEF BeginRead, ListProjects, QueryCrossProject, GetProject, QueryProject, LimiterNext
    <3>2. CASE Limit429(r)
      BY <3>2 DEF Limit429, LimiterNext
    <3>3. CASE LeaveRead(r) \/ (Read(r) /\ ~Limit429(r))
      <4>1. UNCHANGED limiterVars
        BY <3>3 DEF LeaveRead, Read, ReadTeams, ReadProjects, GetById, ListForUser, ValidateQuery,
                    ReadLatest, ValidateCross, CheckSearch, SearchPoints, SearchFails, EndSearch,
                    GenerationFails, Generate
      <4>2. QED
        BY <4>1
    <3>4. QED
      BY <2>1, <3>1, <3>2, <3>3
  <2>2. QED
    BY <1>1, <2>1 DEF Next, Step, LimiterNext
<1>2. ASSUME UNCHANGED vars PROVE [LimiterNext]_limiterVars
  BY <1>2 DEF vars
<1>3. QED
  BY <1>1, <1>2

(* Behind the routes, requests use the limiter as it is specified: every    *)
(* theorem about it holds of the query path.                                *)
THEOREM QueriesUseTheLimiter == Spec => LimiterSpec
<1>1. Init => LimiterInit
  BY DEF Init
<1>2. QED
  BY <1>1, LimiterKeptStep, PTL DEF Spec, LimiterSpec

(* Every variable of the query path keeps its type. *)
THEOREM TypeCorrect == Spec => []TypeOK
<1>1. Spec => []TypeInv
  BY TypeInvInit, TypeInvStep, PTL DEF Spec
<1>2. TypeInv /\ LimiterTypeOK => TypeOK
  BY DEF TypeInv, AccountInv, RowTypes, StoreTypes, RequestsFit, RequestTypes, DisturbedType,
         LeftType, ReadTypes, HistoryTypes, Args, Places, Codes, TypeOK
<1>3. QED
  BY <1>1, <1>2, QueriesUseTheLimiter, LimiterTypeCorrect, PTL

(* Behind the routes, too, the window holds no more than the limit and one  *)
(* entry for each other request under way.                                  *)
THEOREM QueriesOvershootIsBounded == Spec => []OvershootBounded
BY QueriesUseTheLimiter, OvershootIsBounded, PTL

(* ... no entry is lost while it counts ... *)
THEOREM QueriesLiveEntriesAreKept == Spec => []LiveEntriesKept
BY QueriesUseTheLimiter, LiveEntriesAreKept, PTL

(* ... no window, past or present, exceeds what AnyWindowBounded allows ... *)
THEOREM QueriesInAnyWindowBounded == Spec => []AnyWindowBounded
BY QueriesUseTheLimiter, EveryWindowIsBounded, PTL

(* ... and nobody is turned away but for requests that were let through. *)
THEOREM QueryRejectionsJustified == Spec => RejectionsAreJustified
BY QueriesUseTheLimiter, RejectionsJustified, PTL

LEMMA TypesHold == Spec => []TypeInv
BY TypeInvInit, TypeInvStep, PTL DEF Spec

-----------------------------------------------------------------------------
(* One row per address. *)

(* However registrations of one address interleave, one row has it: only    *)
(* InsertUser adds a row, and the constraint looks at the rows it adds to.  *)
THEOREM OneUserPerEmailHolds == Spec => []OneUserPerEmail
<1>1. Init => OneUserPerEmail
  BY DEF Init, AccountsInit, OneUserPerEmail
<1>2. ASSUME OneUserPerEmail, NEW r \in Requests, InsertUser(r)
      PROVE  OneUserPerEmail'
  <2>1. CASE UNCHANGED users
    BY <1>2, <2>1 DEF OneUserPerEmail
  <2>2. CASE ~UNCHANGED users
    <3>1. PICK id : users' = users \cup {[id |-> id, email |-> arg[r]]}
      BY <1>2, <2>2 DEF InsertUser
    <3>2. \A u \in users : u.email # arg[r]
      BY <1>2, <2>2 DEF InsertUser, EmailTaken
    <3>3. QED
      BY <1>2, <3>1, <3>2 DEF OneUserPerEmail
  <2>3. QED
    BY <2>1, <2>2
<1>3. ASSUME Next, \A r \in Requests : ~InsertUser(r)
      PROVE  UNCHANGED users
  <2>1. ASSUME NEW r \in Requests, AccountRequest(r)
        PROVE  UNCHANGED users
    BY <1>3, <2>1 DEF AccountRequest, Refuse, Register, CreateTeam, AddMember, RemoveMember,
                      InsertMember, DeleteMember, CreateProject, UpdateProject, DeleteProject,
                      FindProject, SaveProject, RefreshProject, DeleteRow, CheckDrop,
                      DropCollection, rowVars
  <2>2. ASSUME NEW r \in Requests, BeginRead(r) \/ LeaveRead(r)
        PROVE  UNCHANGED users
    BY <2>2 DEF BeginRead, ListProjects, QueryCrossProject, GetProject, QueryProject, LeaveRead,
                Leave, NoWrite, rowVars
  <2>3. ASSUME NEW r \in Requests, Read(r)
        PROVE  UNCHANGED users
    BY <2>3 DEF Read, NoChange, NoWrite, Limit429, ReadTeams, ReadProjects, GetById, ListForUser,
                ValidateQuery, ReadLatest, ValidateCross, CheckSearch, SearchPoints, SearchFails,
                EndSearch, GenerationFails, Generate, rowVars
  <2>4. CASE Worker \/ UNCHANGED accountVars
    BY <2>4 DEF Worker, CreateCollection, FillCollection, ReindexDrops, WriteBelief, accountVars,
                rowVars
  <2>5. QED
    BY <1>3, <2>1, <2>2, <2>3, <2>4 DEF Next, Step
<1>4. OneUserPerEmail /\ [Next]_vars => OneUserPerEmail'
  <2>1. ASSUME OneUserPerEmail, UNCHANGED users
        PROVE  OneUserPerEmail'
    BY <2>1 DEF OneUserPerEmail
  <2>2. UNCHANGED vars => UNCHANGED users
    BY DEF vars, accountVars, rowVars
  <2>3. QED
    BY <1>2, <1>3, <2>1, <2>2
<1>5. QED
  BY <1>1, <1>4, PTL DEF Spec

-----------------------------------------------------------------------------
(* What one step does to the others. *)

Held(r) == scope[r] \cup unsearched[r] \cup existing[r] \cup found[r]

SameReads(r) ==
    /\ mine'[r] = mine[r] /\ scope'[r] = scope[r] /\ seen'[r] = seen[r]
    /\ unsearched'[r] = unsearched[r] /\ existing'[r] = existing[r] /\ found'[r] = found[r]

Same(r) ==
    /\ kind'[r] = kind[r] /\ arg'[r] = arg[r] /\ data'[r] = data[r]
    /\ at'[r] = at[r] /\ status'[r] = status[r]
    /\ SameReads(r)

(* One that changes something is begun, or goes on. *)
BeginsChange(r) ==
    \E k \in ChangeKinds, a \in Args, p \in Places, s \in Codes :
        /\ Begin(r, k, a, p, s)
        /\ s = 500 => data'[r] = "refused"
        /\ p \notin ReadPlaces \cup {"idle"}
        /\ p = "insert_user" => ~EmailTaken(a)'
        /\ p = "insert_member" => a \notin members'
        /\ p \in {"save", "refresh"} => a \in Live'

Writes(r) ==
    \/ InsertUser(r) \/ InsertMember(r) \/ DeleteMember(r)
    \/ SaveProject(r) \/ RefreshProject(r)
    \/ DeleteRow(r) \/ CheckDrop(r) \/ DropCollection(r)

LEMMA ChangeBeginsOrWrites ==
    ASSUME AccountInv, NEW r \in Requests, AccountRequest(r)
    PROVE  BeginsChange(r) \/ Writes(r)
<1>1. CASE Refuse(r)
  BY <1>1 DEF Refuse, Deny, BeginsChange, ChangeKinds, Args, Places, ReadPlaces, Codes
<1>2. ASSUME NEW e \in Emails, Register(r, e)
      PROVE  BeginsChange(r)
  <2>1. "register" \in ChangeKinds /\ e \in Args /\ NoArg \in Args
    BY DEF ChangeKinds, Args
  <2>2. /\ "answered" \in Places /\ "insert_user" \in Places /\ 400 \in Codes /\ 0 \in Codes
        /\ "answered" \notin ReadPlaces /\ "insert_user" \notin ReadPlaces
    BY DEF Places, WritePlaces, ReadPlaces, Codes
  <2>3. EmailTaken(e)' = EmailTaken(e)
    BY <1>2 DEF Register, rowVars, EmailTaken
  <2>4. QED
    BY <1>2, <2>1, <2>2, <2>3 DEF Register, Deny, BeginsChange
<1>3. CASE CreateTeam(r)
  <2>1. "team" \in ChangeKinds /\ NoArg \in Args
    BY DEF ChangeKinds, Args
  <2>2. "answered" \in Places /\ "answered" \notin ReadPlaces /\ 201 \in Codes /\ 500 \in Codes
    BY DEF Places, WritePlaces, ReadPlaces, Codes
  <2>3. CASE Begin(r, "team", NoArg, "answered", 201)
    BY <2>1, <2>2, <2>3 DEF BeginsChange
  <2>4. CASE Deny(r, "team", 500) /\ data'[r] = "refused"
    BY <2>1, <2>2, <2>4 DEF Deny, BeginsChange
  <2>5. QED
    BY <1>3, <2>3, <2>4 DEF CreateTeam
<1>4. ASSUME NEW u \in Users, NEW t \in Teams, AddMember(r, u, t) \/ RemoveMember(r, u, t)
      PROVE  BeginsChange(r)
  <2>1. {"join", "leave"} \subseteq ChangeKinds /\ <<u, t>> \in Args /\ NoArg \in Args
    BY DEF ChangeKinds, Args
  <2>2. /\ "answered" \in Places /\ "insert_member" \in Places /\ "delete_member" \in Places
        /\ 400 \in Codes /\ 404 \in Codes /\ 0 \in Codes
        /\ "answered" \notin ReadPlaces /\ "insert_member" \notin ReadPlaces
        /\ "delete_member" \notin ReadPlaces
    BY DEF Places, WritePlaces, ReadPlaces, Codes
  <2>3. CASE AddMember(r, u, t)
    BY <2>1, <2>2, <2>3 DEF AddMember, Deny, BeginsChange, rowVars
  <2>4. CASE RemoveMember(r, u, t)
    BY <2>1, <2>2, <2>4 DEF RemoveMember, Deny, BeginsChange
  <2>5. QED
    BY <1>4, <2>3, <2>4
<1>5. ASSUME NEW t \in Teams, CreateProject(r, t)
      PROVE  BeginsChange(r)
  <2>1. "create" \in ChangeKinds /\ NoArg \in Args
    BY DEF ChangeKinds, Args
  <2>2. /\ "answered" \in Places /\ "refresh" \in Places /\ 404 \in Codes /\ 0 \in Codes
        /\ "answered" \notin ReadPlaces /\ "refresh" \notin ReadPlaces
    BY DEF Places, WritePlaces, ReadPlaces, Codes
  <2>3. CASE t \notin teams
    BY <1>5, <2>1, <2>2, <2>3 DEF CreateProject, Deny, BeginsChange
  <2>4. ASSUME NEW p \in Projects \ created,
               created' = created \cup {p}, Begin(r, "create", p, "refresh", 0)
        PROVE  BeginsChange(r)
    <3>1. gone' = gone /\ p \notin gone
      BY <1>5, <2>4 DEF CreateProject, AccountInv, RowTypes
    <3>2. p \in Args /\ p \in Live'
      BY <2>4, <3>1 DEF Args, Live
    <3>3. QED
      BY <2>1, <2>2, <2>4, <3>2 DEF BeginsChange
  <2>5. CASE Deny(r, "create", 500) /\ data'[r] = "refused"
    <3>1. 500 \in Codes
      BY DEF Codes
    <3>2. QED
      BY <2>1, <2>2, <2>5, <3>1 DEF Deny, BeginsChange
  <2>6. QED
    BY <1>5, <2>3, <2>4, <2>5 DEF CreateProject
<1>6. ASSUME NEW p \in Projects, UpdateProject(r, p) \/ DeleteProject(r, p)
      PROVE  BeginsChange(r)
  <2>1. {"update", "delete"} \subseteq ChangeKinds /\ p \in Args /\ NoArg \in Args
    BY DEF ChangeKinds, Args
  <2>2. /\ "answered" \in Places /\ "save" \in Places /\ "delete_row" \in Places
        /\ 404 \in Codes /\ 0 \in Codes
        /\ "answered" \notin ReadPlaces /\ "save" \notin ReadPlaces /\ "delete_row" \notin ReadPlaces
    BY DEF Places, WritePlaces, ReadPlaces, Codes
  <2>3. Live' = Live
    BY <1>6 DEF UpdateProject, DeleteProject, FindProject, rowVars, Live
  <2>4. CASE UpdateProject(r, p)
    BY <2>1, <2>2, <2>3, <2>4 DEF UpdateProject, FindProject, Deny, BeginsChange
  <2>5. CASE DeleteProject(r, p)
    BY <2>1, <2>2, <2>3, <2>5 DEF DeleteProject, FindProject, Deny, BeginsChange
  <2>6. QED
    BY <1>6, <2>4, <2>5
<1>7. QED
  BY <1>1, <1>2, <1>3, <1>4, <1>5, <1>6 DEF AccountRequest, Writes

(* Any step of q leaves the variables of the others as they are. *)
LEMMA OthersStay ==
    ASSUME TypeInv, NEW q \in Requests, NEW r \in Requests \ {q},
           \/ BeginRead(q) \/ Read(q) \/ LeaveRead(q)
           \/ AccountRequest(q) /\ UNCHANGED readVars
    PROVE  Same(r)
<1>1. RequestTypes /\ ReadTypes
  BY DEF TypeInv, AccountInv, RequestsFit
<1>2. ASSUME \/ UNCHANGED requestVars
             \/ Leave(q)
             \/ \E p : Go(q, p)
             \/ \E s : Answer(q, s)
             \/ \E k, a, p, s : Begin(q, k, a, p, s)
      PROVE  /\ kind'[r] = kind[r] /\ arg'[r] = arg[r] /\ data'[r] = data[r]
             /\ at'[r] = at[r] /\ status'[r] = status[r]
  BY <1>1, <1>2 DEF RequestTypes, requestVars, Leave, Go, Answer, Begin
<1>3. ASSUME UNCHANGED readVars
      PROVE  SameReads(r)
  BY <1>3 DEF readVars, SameReads
<1>4. CASE BeginRead(q)
  BY <1>2, <1>3, <1>4 DEF BeginRead, ListProjects, QueryCrossProject, GetProject, QueryProject, Same
<1>5. CASE LeaveRead(q)
  <2>1. SameReads(r)
    BY <1>1, <1>5 DEF LeaveRead, ReadTypes, SameReads
  <2>2. QED
    BY <1>2, <1>5, <2>1 DEF LeaveRead, Same
<1>6. CASE AccountRequest(q) /\ UNCHANGED readVars
  <2>1. BeginsChange(q) \/ Writes(q)
    BY <1>6, ChangeBeginsOrWrites DEF TypeInv
  <2>2. \/ \E p : Go(q, p)
        \/ \E s : Answer(q, s)
        \/ \E k, a, p, s : Begin(q, k, a, p, s)
    <3>1. CASE BeginsChange(q)
      BY <3>1, Zenon DEF BeginsChange
    <3>2. CASE Writes(q)
      BY <3>2 DEF Writes, InsertUser, InsertMember, DeleteMember, SaveProject, RefreshProject,
                  DeleteRow, CheckDrop, DropCollection
    <3>3. QED
      BY <2>1, <3>1, <3>2
  <2>3. QED
    BY <1>2, <1>3, <1>6, <2>2 DEF Same
<1>7. CASE Read(q)
  <2>1. \/ UNCHANGED requestVars
        \/ \E p : Go(q, p)
        \/ \E s : Answer(q, s)
    BY <1>7, ReadGoes DEF TypeInv, AccountInv
  <2>2. SameReads(r)
    <3>1. CASE \/ Limit429(q) \/ ValidateQuery(q) \/ SearchFails(q) \/ GenerationFails(q)
      BY <1>3, <3>1 DEF Limit429, ValidateQuery, SearchFails, GenerationFails
    <3>2. CASE ReadTeams(q) \/ ReadProjects(q) \/ ReadLatest(q) \/ ValidateCross(q)
      BY <1>1, <3>2 DEF ReadTeams, ReadProjects, ReadLatest, ValidateCross, ReadTypes, SameReads
    <3>3. CASE GetById(q) \/ ListForUser(q) \/ EndSearch(q) \/ Generate(q)
      BY <1>1, <3>3 DEF GetById, ListForUser, EndSearch, Generate, Reply, ReadTypes, SameReads
    <3>4. CASE \E p \in Projects : CheckSearch(q, p) \/ SearchPoints(q, p)
      BY <1>1, <3>4 DEF CheckSearch, SearchPoints, ReadTypes, SameReads
    <3>5. QED
      BY <1>7, <3>1, <3>2, <3>3, <3>4 DEF Read
  <2>3. QED
    BY <1>2, <2>1, <2>2 DEF Same
<1>8. QED
  BY <1>4, <1>5, <1>6, <1>7

-----------------------------------------------------------------------------
(* How the database and the stores may change in a step. *)

Evolves ==
    /\ role' = role
    /\ created \subseteq created'
    /\ gone \subseteq gone'
    /\ \A p \in created : team'[p] = team[p]

(* A deleted project has no belief state, and the others only gain versions. *)
BeliefsGo == \A p \in gone : belief[p] = 0

BeliefsGrow == \A p \in Projects \ gone' : belief[p] <= belief'[p]

LEMMA RowsEvolve ==
    ASSUME TypeInv, Step
    PROVE  Evolves
<1>1. CASE UNCHANGED rowVars
  BY <1>1 DEF rowVars, Evolves
<1>2. ASSUME NEW r \in Requests, AccountRequest(r)
      PROVE  Evolves
  <2>1. CASE \E t \in Teams : CreateProject(r, t)
    <3>1. PICK t \in Teams : CreateProject(r, t)
      BY <2>1
    <3>2. CASE ~UNCHANGED <<created, team>>
      <4>1. PICK p \in Projects \ created : created' = created \cup {p} /\ team' = [team EXCEPT ![p] = t]
        BY <3>1, <3>2 DEF CreateProject
      <4>2. role' = role /\ gone' = gone
        BY <3>1 DEF CreateProject
      <4>3. \A q \in created : team'[q] = team[q]
        BY <4>1 DEF TypeInv, AccountInv, RowTypes
      <4>4. QED
        BY <4>1, <4>2, <4>3 DEF Evolves
    <3>3. CASE UNCHANGED <<created, team>>
      BY <3>1, <3>3 DEF CreateProject, Evolves
    <3>4. QED
      BY <3>2, <3>3
  <2>2. CASE ~\E t \in Teams : CreateProject(r, t)
    BY <1>2, <2>2 DEF AccountRequest, Refuse, Register, InsertUser, CreateTeam, AddMember,
                      RemoveMember, InsertMember, DeleteMember, UpdateProject, DeleteProject,
                      FindProject, SaveProject, RefreshProject, DeleteRow, CheckDrop,
                      DropCollection, rowVars, Evolves
  <2>3. QED
    BY <2>1, <2>2
<1>3. ASSUME NEW r \in Requests, BeginRead(r) \/ LeaveRead(r)
      PROVE  UNCHANGED rowVars
  BY <1>3 DEF BeginRead, ListProjects, QueryCrossProject, GetProject, QueryProject, LeaveRead,
              Leave, NoWrite
<1>4. ASSUME NEW r \in Requests, Read(r)
      PROVE  UNCHANGED rowVars
  BY <1>4 DEF Read, NoChange, NoWrite, Limit429, ReadTeams, ReadProjects, GetById, ListForUser,
              ValidateQuery, ReadLatest, ValidateCross, CheckSearch, SearchPoints, SearchFails,
              EndSearch, GenerationFails, Generate
<1>5. CASE Worker \/ UNCHANGED accountVars
  BY <1>1, <1>5 DEF Worker, CreateCollection, FillCollection, ReindexDrops, WriteBelief,
                    accountVars
<1>6. QED
  BY <1>1, <1>2, <1>3, <1>4, <1>5 DEF Step

LEMMA StoresChange ==
    ASSUME TypeInv, Step
    PROVE  \/ UNCHANGED <<gone, belief>>
           \/ \E p \in created : gone' = gone \cup {p} /\ belief' = [belief EXCEPT ![p] = 0]
           \/ /\ UNCHANGED gone
              /\ \E p \in Live : belief' = [belief EXCEPT ![p] = belief[p] + 1]
<1>1. ASSUME NEW r \in Requests, BeginRead(r) \/ LeaveRead(r)
      PROVE  UNCHANGED <<gone, belief>>
  BY <1>1 DEF BeginRead, ListProjects, QueryCrossProject, GetProject, QueryProject, LeaveRead,
              Leave, NoWrite, rowVars, storeVars
<1>2. ASSUME NEW r \in Requests, Read(r)
      PROVE  UNCHANGED <<gone, belief>>
  BY <1>2 DEF Read, NoChange, NoWrite, Limit429, ReadTeams, ReadProjects, GetById, ListForUser,
              ValidateQuery, ReadLatest, ValidateCross, CheckSearch, SearchPoints, SearchFails,
              EndSearch, GenerationFails, Generate, rowVars, storeVars
<1>3. ASSUME NEW r \in Requests, DeleteRow(r)
      PROVE  \E p \in created : gone' = gone \cup {p} /\ belief' = [belief EXCEPT ![p] = 0]
  <2>1. arg[r] \in created
    BY <1>3 DEF DeleteRow, TypeInv, AccountInv, RequestsFit, Fits, ArgFits
  <2>2. QED
    BY <1>3, <2>1 DEF DeleteRow
<1>4. ASSUME NEW r \in Requests, AccountRequest(r), ~DeleteRow(r)
      PROVE  UNCHANGED <<gone, belief>>
  BY <1>4 DEF AccountRequest, Refuse, Register, InsertUser, CreateTeam, AddMember, RemoveMember,
              InsertMember, DeleteMember, CreateProject, UpdateProject, DeleteProject,
              FindProject, SaveProject, RefreshProject, CheckDrop, DropCollection, rowVars,
              storeVars
<1>5. ASSUME Worker
      PROVE  /\ UNCHANGED gone
             /\ \/ UNCHANGED belief
                \/ \E p \in Live : belief' = [belief EXCEPT ![p] = belief[p] + 1]
  BY <1>5 DEF Worker, CreateCollection, FillCollection, ReindexDrops, WriteBelief, rowVars
<1>6. CASE UNCHANGED accountVars
  BY <1>6 DEF accountVars, rowVars, storeVars
<1>7. QED
  BY <1>1, <1>2, <1>3, <1>4, <1>5, <1>6 DEF Step

LEMMA BeliefsEvolve ==
    ASSUME TypeInv, BeliefsGo, Step
    PROVE  BeliefsGo' /\ BeliefsGrow
<1>1. /\ belief \in [Projects -> Nat]
      /\ created \in SUBSET Projects /\ gone \in SUBSET created /\ Live = created \ gone
  BY AccountsAssumption DEF TypeInv, AccountInv, RowTypes, StoreTypes, AccountsAssumption, Live
<1>2. CASE UNCHANGED <<gone, belief>>
  BY <1>1, <1>2 DEF BeliefsGo, BeliefsGrow
<1>3. ASSUME NEW p \in created, gone' = gone \cup {p}, belief' = [belief EXCEPT ![p] = 0]
      PROVE  BeliefsGo' /\ BeliefsGrow
  BY <1>1, <1>3 DEF BeliefsGo, BeliefsGrow
<1>4. ASSUME UNCHANGED gone, NEW p \in Live, belief' = [belief EXCEPT ![p] = belief[p] + 1]
      PROVE  BeliefsGo' /\ BeliefsGrow
  BY <1>1, <1>4 DEF BeliefsGo, BeliefsGrow
<1>5. QED
  BY <1>2, <1>3, <1>4, StoresChange

(* What a reading request remembers only grows, and includes the present. *)
LEMMA Remembers ==
    ASSUME HistoryTypes, Remember, NEW r \in Requests, kind'[r] \in ReadKinds, at'[r] # "idle"
    PROVE  /\ readable'[r].teams = readable[r].teams \cup AskersTeams'
           /\ readable'[r].projects = readable[r].projects \cup Live'
           /\ bare'[r] = bare[r] \cup Bare'
BY DEF HistoryTypes, Remember

LEMMA Forgets ==
    ASSUME Remember, NEW r \in Requests, kind'[r] \notin ReadKinds \/ at'[r] = "idle"
    PROVE  readable'[r] = NothingHeld
BY DEF Remember

-----------------------------------------------------------------------------
(* The scope.  A request holds only projects it may read, from the first    *)
(* statement of its scope to its answer; one that changes something holds   *)
(* nothing.                                                                *)

Scoped(r) ==
    /\ kind[r] \notin ReadKinds => mine[r] = {} /\ Held(r) = {} /\ seen[r] = 0
    /\ readable[r].projects \subseteq created
    /\ mine[r] \subseteq readable[r].teams
    /\ mine[r] # {} => role[Asker] = "member"
    /\ \A p \in Held(r) : MayRead(r, p)

ScopeInv == \A r \in Requests : Scoped(r)

(* The others, the beginning of a request, and every step that reads        *)
(* nothing.                                                                *)
LEMMA ScopedStays ==
    ASSUME TypeInv, TypeInv', Evolves, Remember, NEW r \in Requests, Scoped(r), SameReads(r),
           \/ kind'[r] = kind[r] /\ (kind[r] \in ReadKinds => at'[r] # "idle")
           \/ kind[r] \notin ReadKinds
    PROVE  Scoped(r)'
<1>1. Held(r)' = Held(r) /\ mine'[r] = mine[r] /\ seen'[r] = seen[r]
  BY DEF SameReads, Held
<1>2. Live' \subseteq created' /\ created \subseteq created' /\ role' = role
  BY DEF Evolves, Live
<1>3. CASE kind'[r] \in ReadKinds /\ at'[r] # "idle"
  <2>1. /\ readable'[r].teams = readable[r].teams \cup AskersTeams'
        /\ readable'[r].projects = readable[r].projects \cup Live'
    BY <1>3, Remembers DEF TypeInv
  <2>2. ASSUME NEW p \in Held(r)
        PROVE  MayRead(r, p)'
    <3>1. MayRead(r, p) /\ p \in created
      BY <2>2 DEF Scoped, MayRead
    <3>2. team'[p] = team[p]
      BY <3>1 DEF Evolves
    <3>3. QED
      BY <1>2, <2>1, <3>1, <3>2 DEF MayRead
  <2>3. readable'[r].projects \subseteq created' /\ mine'[r] \subseteq readable'[r].teams
    BY <1>1, <1>2, <2>1 DEF Scoped
  <2>4. QED
    BY <1>1, <1>2, <1>3, <2>2, <2>3 DEF Scoped
<1>4. CASE ~(kind'[r] \in ReadKinds /\ at'[r] # "idle")
  <2>1. kind[r] \notin ReadKinds
    BY <1>4
  <2>2. mine[r] = {} /\ Held(r) = {} /\ seen[r] = 0
    BY <2>1 DEF Scoped
  <2>3. readable'[r].projects = {}
    BY <1>4, Forgets DEF NothingHeld
  <2>4. QED
    BY <1>1, <2>2, <2>3 DEF Scoped
<1>5. QED
  BY <1>3, <1>4

(* A reading step: what it takes in is readable now. *)
LEMMA ScopedReads ==
    ASSUME TypeInv, Remember, NEW r \in Requests, Scoped(r), Read(r)
    PROVE  Scoped(r)'
<1>1. /\ at[r] \in ReadPlaces /\ kind[r] \in ReadKinds
      /\ kind'[r] = kind[r] /\ at'[r] # "idle"
  <2>1. at[r] \in ReadPlaces /\ kind[r] \in ReadKinds
    BY ReadGoes DEF TypeInv, AccountInv
  <2>2. kind \in [Requests -> Kinds \cup {"none"}] /\ at \in [Requests -> Places]
    BY DEF TypeInv, AccountInv, RequestsFit, RequestTypes
  <2>3. Handler(r) # "idle"
    BY DEF Handler
  <2>4. QED
    BY <2>1, <2>2, <2>3, ReadGoes DEF TypeInv, AccountInv, requestVars, Answer, Go, ReadPlaces
<1>2. UNCHANGED rowVars
  BY DEF Read, NoChange, NoWrite, Limit429, ReadTeams, ReadProjects, GetById, ListForUser,
         ValidateQuery, ReadLatest, ValidateCross, CheckSearch, SearchPoints, SearchFails,
         EndSearch, GenerationFails, Generate
<1>3. Live' = Live /\ AskersTeams' = AskersTeams /\ role' = role /\ team' = team
      /\ created' = created /\ Live \subseteq created
  BY <1>2 DEF rowVars, Live, AskersTeams
<1>4. /\ readable'[r].teams = readable[r].teams \cup AskersTeams
      /\ readable'[r].projects = readable[r].projects \cup Live
  BY <1>1, <1>3, Remembers DEF TypeInv
<1>5. \A p \in Held(r) : MayRead(r, p)'
  BY <1>3, <1>4 DEF Scoped, MayRead
<1>6. readable'[r].projects \subseteq created'
  BY <1>3, <1>4 DEF Scoped
<1>7. ASSUME mine'[r] = mine[r], \A p \in Held(r)' : p \in Held(r)
      PROVE  Scoped(r)'
  BY <1>1, <1>3, <1>4, <1>5, <1>6, <1>7 DEF Scoped
<1>8. ReadTypes
  BY DEF TypeInv
<1>9. CASE ReadTeams(r)
  <2>1. CASE role[Asker] = "member" /\ AskersTeams # {}
    <3>1. mine'[r] = AskersTeams /\ Held(r)' = Held(r)
      BY <1>8, <1>9, <2>1 DEF ReadTeams, ReadTypes, AskersTeams, Held
    <3>2. QED
      BY <1>1, <1>3, <1>4, <1>5, <1>6, <2>1, <3>1 DEF Scoped
  <2>2. CASE ~(role[Asker] = "member" /\ AskersTeams # {})
    <3>1. /\ mine' = mine
          /\ scope'[r] = IF role[Asker] \in Administrators THEN Live ELSE {}
          /\ unsearched' = unsearched /\ existing' = existing /\ found' = found
      BY <1>8, <1>9, <2>2 DEF ReadTeams, ReadTypes, AskersTeams
    <3>2. \A p \in Held(r)' : p \in Held(r) \/ (p \in Live /\ role[Asker] \in Administrators)
      BY <3>1 DEF Held
    <3>3. \A p \in Held(r)' : MayRead(r, p)'
      BY <1>3, <1>4, <1>5, <3>2 DEF MayRead
    <3>4. QED
      BY <1>1, <1>3, <1>4, <1>6, <3>1, <3>3 DEF Scoped
  <2>3. QED
    BY <2>1, <2>2
<1>10. CASE ReadProjects(r)
  <2>1. /\ mine'[r] = {} /\ scope'[r] = {p \in Live : team[p] \in mine[r]}
        /\ unsearched' = unsearched /\ existing' = existing /\ found' = found
    BY <1>8, <1>10 DEF ReadProjects, ReadTypes
  <2>2. \A p \in Held(r)' : p \in Held(r) \/ (p \in Live /\ team[p] \in mine[r])
    BY <2>1 DEF Held
  <2>3. ASSUME NEW p \in Live, team[p] \in mine[r]
        PROVE  MayRead(r, p)'
    BY <1>3, <1>4, <2>3 DEF Scoped, MayRead
  <2>4. \A p \in Held(r)' : MayRead(r, p)'
    BY <1>5, <2>2, <2>3
  <2>5. QED
    BY <1>1, <1>6, <2>1, <2>4 DEF Scoped
<1>11. CASE GetById(r) \/ ListForUser(r) \/ EndSearch(r) \/ Generate(r)
  <2>1. UNCHANGED <<mine, scope, seen, unsearched, existing>>
    BY <1>11 DEF GetById, ListForUser, EndSearch, Generate
  <2>2. UNCHANGED found \/ \E sources \in SUBSET Held(r) : Reply(r, sources)
    <3>1. CASE GetById(r)
      BY <3>1 DEF GetById, Held
    <3>2. CASE ListForUser(r) \/ EndSearch(r)
      BY <3>2 DEF ListForUser, EndSearch, Held
    <3>3. CASE Generate(r)
      BY <3>3 DEF Generate, Merged, Held
    <3>4. QED
      BY <1>11, <3>1, <3>2, <3>3
  <2>3. \A p \in found'[r] : p \in Held(r)
    BY <1>8, <2>2 DEF Reply, ReadTypes, Held
  <2>4. QED
    BY <1>7, <2>1, <2>3 DEF Held
<1>12. CASE ReadLatest(r)
  <2>1. UNCHANGED <<mine, scope, existing, found>>
    BY <1>12 DEF ReadLatest
  <2>2. \A p \in unsearched'[r] : p \in Held(r)
    BY <1>8, <1>12 DEF ReadLatest, Accessible, ReadTypes, Held
  <2>3. QED
    BY <1>7, <2>1, <2>2 DEF Held
<1>13. CASE ValidateCross(r)
  <2>1. UNCHANGED <<mine, scope, existing, found>>
    BY <1>13 DEF ValidateCross
  <2>2. \A p \in unsearched'[r] : p \in Held(r)
    BY <1>8, <1>13 DEF ValidateCross, ReadTypes, Held
  <2>3. QED
    BY <1>7, <2>1, <2>2 DEF Held
<1>14. ASSUME NEW p \in Projects, CheckSearch(r, p) \/ SearchPoints(r, p)
       PROVE  Scoped(r)'
  <2>1. CASE CheckSearch(r, p)
    BY <1>7, <1>8, <2>1 DEF CheckSearch, ReadTypes, Held
  <2>2. CASE SearchPoints(r, p)
    BY <1>7, <1>8, <2>2 DEF SearchPoints, ReadTypes, Held
  <2>3. QED
    BY <1>14, <2>1, <2>2
<1>15. CASE Limit429(r) \/ ValidateQuery(r) \/ SearchFails(r) \/ GenerationFails(r)
  <2>1. UNCHANGED readVars
    BY <1>15 DEF Limit429, ValidateQuery, SearchFails, GenerationFails
  <2>2. QED
    BY <1>7, <2>1 DEF readVars, Held
<1>16. QED
  BY <1>9, <1>10, <1>11, <1>12, <1>13, <1>14, <1>15 DEF Read

(* Whatever the step, r is left alone, begins, goes on or leaves. *)
LEMMA StepCases ==
    ASSUME TypeInv, Step, NEW r \in Requests
    PROVE  \/ Same(r)
           \/ BeginRead(r)
           \/ Read(r)
           \/ LeaveRead(r)
           \/ UNCHANGED readVars /\ BeginsChange(r)
           \/ UNCHANGED readVars /\ Writes(r)
<1>1. ASSUME NEW q \in Requests, BeginRead(q) \/ Read(q) \/ LeaveRead(q)
      PROVE  Same(r) \/ BeginRead(r) \/ Read(r) \/ LeaveRead(r)
  BY <1>1, OthersStay
<1>2. ASSUME NEW q \in Requests, AccountRequest(q), UNCHANGED readVars
      PROVE  Same(r) \/ BeginsChange(r) \/ Writes(r)
  BY <1>2, OthersStay, ChangeBeginsOrWrites DEF TypeInv
<1>3. ASSUME Worker \/ UNCHANGED accountVars, UNCHANGED readVars
      PROVE  Same(r)
  <2>1. UNCHANGED requestVars
    BY <1>3 DEF Worker, CreateCollection, FillCollection, ReindexDrops, WriteBelief, accountVars
  <2>2. QED
    BY <1>3, <2>1 DEF requestVars, readVars, Same, SameReads
<1>4. QED
  BY <1>1, <1>2, <1>3 DEF Step

LEMMA Begun ==
    ASSUME TypeInv, NEW r \in Requests,
           BeginRead(r) \/ (UNCHANGED readVars /\ BeginsChange(r))
    PROVE  /\ at[r] = "idle" /\ kind[r] \notin ReadKinds
           /\ at'[r] \notin {"idle", "search", "generate"}
           /\ status'[r] = 500 => data'[r] = "refused"
           /\ (kind'[r] \in ReadKinds => status'[r] = 0)
           /\ SameReads(r)
<1>1. RequestTypes /\ Fits(r)
  BY DEF TypeInv, AccountInv, RequestsFit
<1>2. CASE BeginRead(r)
  <2>1. \E k \in ReadKinds, p \in {"teams", "limiter"} : \E a : Begin(r, k, a, p, 0)
    BY <1>2 DEF BeginRead, ListProjects, QueryCrossProject, GetProject, QueryProject, ReadKinds
  <2>2. UNCHANGED readVars
    BY <1>2 DEF BeginRead, ListProjects, QueryCrossProject, GetProject, QueryProject
  <2>3. at[r] = "idle" /\ at'[r] \in {"teams", "limiter"} /\ status'[r] = 0
    BY <1>1, <2>1 DEF Begin, RequestTypes
  <2>4. kind[r] \notin ReadKinds
    BY <1>1, <2>3 DEF Fits, KindFits, ReadKinds
  <2>5. QED
    BY <2>2, <2>3, <2>4 DEF readVars, SameReads
<1>3. CASE UNCHANGED readVars /\ BeginsChange(r)
  <2>1. PICK k \in ChangeKinds, a \in Args, p \in Places, s \in Codes :
            /\ Begin(r, k, a, p, s)
            /\ s = 500 => data'[r] = "refused"
            /\ p \notin ReadPlaces \cup {"idle"}
    BY <1>3 DEF BeginsChange
  <2>2. at[r] = "idle" /\ at'[r] = p /\ status'[r] = s /\ kind'[r] = k
    BY <1>1, <2>1 DEF Begin, RequestTypes
  <2>3. kind[r] \notin ReadKinds /\ k \notin ReadKinds
    BY <1>1, <2>2 DEF Fits, KindFits, ReadKinds, ChangeKinds
  <2>4. QED
    BY <1>3, <2>1, <2>2, <2>3 DEF readVars, SameReads, ReadPlaces
<1>4. QED
  BY <1>2, <1>3

LEMMA Written ==
    ASSUME TypeInv, NEW r \in Requests, Writes(r)
    PROVE  /\ at[r] \in WritePlaces /\ kind[r] \in ChangeKinds /\ kind[r] \notin ReadKinds
           /\ kind'[r] = kind[r] /\ arg'[r] = arg[r] /\ data'[r] = data[r]
           /\ at'[r] \in {"refresh", "check_drop", "drop", "answered"}
<1>1. RequestTypes /\ Fits(r)
  BY DEF TypeInv, AccountInv, RequestsFit
<1>2. at[r] \in WritePlaces
  BY DEF Writes, InsertUser, InsertMember, DeleteMember, SaveProject, RefreshProject,
         DeleteRow, CheckDrop, DropCollection, WritePlaces
<1>3. kind[r] \in ChangeKinds /\ kind[r] \notin ReadKinds
  BY <1>1, <1>2 DEF Fits, KindFits, ChangeKinds, ReadKinds
<1>4. \/ \E s : Answer(r, s)
      \/ Go(r, "refresh") \/ Go(r, "check_drop") \/ Go(r, "drop")
  BY DEF Writes, InsertUser, InsertMember, DeleteMember, SaveProject, RefreshProject,
         DeleteRow, CheckDrop, DropCollection
<1>5. QED
  BY <1>1, <1>2, <1>3, <1>4 DEF Answer, Go, RequestTypes

LEMMA Gone ==
    ASSUME TypeInv, NEW r \in Requests, LeaveRead(r)
    PROVE  /\ kind'[r] = "none" /\ kind'[r] \notin ReadKinds
           /\ at'[r] = "idle" /\ status'[r] = 0
           /\ mine'[r] = {} /\ seen'[r] = 0 /\ Held(r)' = {} /\ existing'[r] = {}
<1>1. RequestTypes /\ ReadTypes
  BY DEF TypeInv, AccountInv, RequestsFit
<1>2. kind'[r] = "none" /\ at'[r] = "idle" /\ status'[r] = 0
  BY <1>1 DEF LeaveRead, Leave, RequestTypes
<1>3. /\ mine'[r] = {} /\ scope'[r] = {} /\ seen'[r] = 0
      /\ unsearched'[r] = {} /\ existing'[r] = {} /\ found'[r] = {}
  BY <1>1 DEF LeaveRead, ReadTypes
<1>4. QED
  BY <1>2, <1>3 DEF Held, ReadKinds

LEMMA ScopedLeaves ==
    ASSUME TypeInv, Remember, NEW r \in Requests, LeaveRead(r)
    PROVE  Scoped(r)'
<1>1. /\ at'[r] = "idle" /\ mine'[r] = {} /\ seen'[r] = 0 /\ Held(r)' = {}
  BY Gone
<1>2. readable'[r].projects = {}
  BY <1>1, Forgets DEF NothingHeld
<1>3. QED
  BY <1>1, <1>2 DEF Scoped

LEMMA ScopeInvInit == Init => ScopeInv
<1>1. ASSUME Init, NEW r \in Requests
      PROVE  Scoped(r)
  <2>1. /\ mine[r] = {} /\ scope[r] = {} /\ seen[r] = 0 /\ unsearched[r] = {}
        /\ existing[r] = {} /\ found[r] = {} /\ readable[r].projects = {}
    BY <1>1 DEF Init, NothingHeld
  <2>2. QED
    BY <2>1 DEF Scoped, Held
<1>2. QED
  BY <1>1 DEF ScopeInv

LEMMA ScopeInvStep == TypeInv /\ ScopeInv /\ [Next]_vars => ScopeInv'
<1>1. ASSUME TypeInv, ScopeInv, Next, NEW r \in Requests
      PROVE  Scoped(r)'
  <2>1. TypeInv' /\ Step /\ Remember /\ Evolves /\ Scoped(r)
    BY <1>1, TypeInvStep, RowsEvolve DEF Next, ScopeInv
  <2>2. CASE Same(r)
    <3>1. kind[r] \in ReadKinds => at'[r] # "idle"
      BY <1>1, <2>2 DEF Same, TypeInv, AccountInv, RequestsFit, Fits, KindFits, ReadKinds
    <3>2. QED
      BY <1>1, <2>1, <2>2, <3>1, ScopedStays DEF Same
  <2>3. CASE BeginRead(r) \/ (UNCHANGED readVars /\ BeginsChange(r))
    BY <1>1, <2>1, <2>3, Begun, ScopedStays
  <2>4. CASE Read(r)
    BY <1>1, <2>1, <2>4, ScopedReads
  <2>5. CASE LeaveRead(r)
    BY <1>1, <2>1, <2>5, ScopedLeaves
  <2>6. CASE UNCHANGED readVars /\ Writes(r)
    <3>1. SameReads(r)
      BY <2>6 DEF readVars, SameReads
    <3>2. QED
      BY <1>1, <2>1, <2>6, <3>1, Written, ScopedStays
  <2>7. QED
    BY <1>1, <2>1, <2>2, <2>3, <2>4, <2>5, <2>6, StepCases
<1>2. ASSUME ScopeInv, UNCHANGED vars
      PROVE  ScopeInv'
  BY <1>2 DEF ScopeInv, Scoped, Held, MayRead, vars, accountVars, rowVars, requestVars, readVars,
              historyVars
<1>3. QED
  BY <1>1, <1>2 DEF ScopeInv

LEMMA ScopeHolds == Spec => []ScopeInv
BY TypesHold, ScopeInvInit, ScopeInvStep, PTL DEF Spec

(* Whatever changes while a request is under way, its answer has no source  *)
(* that its user could not read at some time of the request.                *)
THEOREM AnswersStayInScopeHolds == Spec => []AnswersStayInScope
<1>1. ScopeInv => AnswersStayInScope
  BY DEF ScopeInv, Scoped, Held, AnswersStayInScope
<1>2. QED
  BY <1>1, ScopeHolds, PTL

-----------------------------------------------------------------------------
(* The belief state.  What the log holds of a project that is still there   *)
(* is never older than what it held when the request began.                 *)

Fresh(r) ==
    /\ seen[r] # 0 => kind[r] = "query" /\ seen[r] >= since[r][arg[r]]
    /\ \A p \in Projects \ gone : since[r][p] <= belief[p]

FreshInv == BeliefsGo /\ \A r \in Requests : Fresh(r)

LEMMA SinceStep ==
    ASSUME TypeInv, TypeInv', FreshInv, Step, Remember, NEW r \in Requests
    PROVE  /\ \A p \in Projects \ gone' : since'[r][p] <= belief'[p]
           /\ at[r] # "idle" /\ at'[r] # "idle" => since'[r] = since[r]
<1>1. since'[r] = IF at[r] = "idle" /\ kind'[r] \in ReadKinds THEN belief
                  ELSE IF at'[r] = "idle" THEN [p \in Projects |-> 0] ELSE since[r]
  BY DEF Remember
<1>2. BeliefsGrow /\ gone \subseteq gone'
  BY BeliefsEvolve, RowsEvolve DEF FreshInv, Evolves
<1>3. ASSUME NEW p \in Projects \ gone'
      PROVE  since'[r][p] <= belief'[p]
  <2>1. /\ belief[p] \in Nat /\ belief'[p] \in Nat /\ since[r][p] \in Nat
        /\ belief[p] <= belief'[p]
    BY <1>2, AccountsAssumption DEF TypeInv, AccountInv, StoreTypes, HistoryTypes, BeliefsGrow,
                                    AccountsAssumption
  <2>2. since[r][p] <= belief[p]
    BY <1>2 DEF FreshInv, Fresh
  <2>3. since'[r][p] \in {belief[p], 0, since[r][p]}
    BY <1>1
  <2>4. QED
    BY <2>1, <2>2, <2>3
<1>4. QED
  BY <1>1, <1>3

(* The version r uses changes when it reads the latest, and when it goes. *)
LEMMA SeenStep ==
    ASSUME TypeInv, ScopeInv, Step, NEW r \in Requests
    PROVE  \/ seen'[r] = 0
           \/ /\ seen'[r] = seen[r] /\ kind'[r] = kind[r] /\ arg'[r] = arg[r]
              /\ at[r] # "idle" /\ at'[r] # "idle"
           \/ /\ kind'[r] = "query" /\ arg'[r] = arg[r] /\ arg[r] \in Projects
              /\ at[r] # "idle" /\ at'[r] # "idle"
              /\ seen'[r] = belief[arg[r]] /\ belief' = belief
<1>1. RequestTypes /\ Fits(r) /\ ReadTypes /\ Scoped(r)
  BY DEF TypeInv, AccountInv, RequestsFit, ScopeInv
<1>2. ASSUME kind[r] \notin ReadKinds
      PROVE  seen[r] = 0
  BY <1>1, <1>2 DEF Scoped
<1>3. CASE Same(r)
  <2>1. at[r] = "idle" => kind[r] \notin ReadKinds
    BY <1>1 DEF Fits, KindFits, ReadKinds
  <2>2. QED
    BY <1>2, <1>3, <2>1 DEF Same, SameReads
<1>4. CASE BeginRead(r) \/ (UNCHANGED readVars /\ BeginsChange(r))
  BY <1>2, <1>4, Begun DEF SameReads
<1>5. CASE LeaveRead(r)
  BY <1>5, Gone
<1>6. CASE UNCHANGED readVars /\ Writes(r)
  BY <1>2, <1>6, Written DEF readVars
<1>7. CASE Read(r)
  <2>1. at[r] \in ReadPlaces /\ kind[r] \in ReadKinds
    BY <1>7, ReadGoes DEF TypeInv, AccountInv
  <2>2. Handler(r) # "idle"
    BY DEF Handler
  <2>3. at'[r] # "idle" /\ kind'[r] = kind[r] /\ arg'[r] = arg[r]
    BY <1>1, <1>7, <2>1, <2>2, ReadGoes DEF TypeInv, AccountInv, RequestTypes, requestVars, Answer,
                                           Go, ReadPlaces
  <2>4. CASE UNCHANGED seen
    BY <2>1, <2>3, <2>4 DEF ReadPlaces
  <2>5. CASE ~UNCHANGED seen
    <3>1. ReadLatest(r)
      BY <1>7, <2>5 DEF Read, Limit429, ReadTeams, ReadProjects, GetById, ListForUser,
                        ValidateQuery, ValidateCross, CheckSearch, SearchPoints, SearchFails,
                        EndSearch, GenerationFails, Generate, readVars
    <3>2. /\ arg[r] \in scope[r]
          /\ \E v \in {LatestVersion(arg[r]), 0} : seen' = [seen EXCEPT ![r] = v]
      BY <2>5, <3>1 DEF ReadLatest, Accessible
    <3>3. seen'[r] \in {belief[arg[r]], 0}
      BY <1>1, <3>2 DEF ReadTypes, LatestVersion
    <3>4. kind[r] = "query" /\ belief' = belief
      BY <1>1, <3>1 DEF ReadLatest, Fits, KindFits, NoChange, NoWrite, storeVars
    <3>5. QED
      BY <1>1, <2>1, <2>3, <3>2, <3>3, <3>4 DEF ReadTypes, ReadPlaces
  <2>6. QED
    BY <2>4, <2>5
<1>8. QED
  BY <1>3, <1>4, <1>5, <1>6, <1>7, StepCases

LEMMA FreshInvStep == TypeInv /\ ScopeInv /\ FreshInv /\ [Next]_vars => FreshInv'
<1>1. ASSUME TypeInv, ScopeInv, FreshInv, Next
      PROVE  FreshInv'
  <2>1. TypeInv' /\ Step /\ Remember
    BY <1>1, TypeInvStep DEF Next
  <2>2. BeliefsGo'
    BY <1>1, <2>1, BeliefsEvolve DEF FreshInv
  <2>3. ASSUME NEW r \in Requests
        PROVE  Fresh(r)'
    <3>1. /\ \A p \in Projects \ gone' : since'[r][p] <= belief'[p]
          /\ at[r] # "idle" /\ at'[r] # "idle" => since'[r] = since[r]
      BY <1>1, <2>1, SinceStep
    <3>2. ASSUME seen'[r] # 0
          PROVE  kind'[r] = "query" /\ seen'[r] >= since'[r][arg'[r]]
      <4>1. CASE /\ seen'[r] = seen[r] /\ kind'[r] = kind[r] /\ arg'[r] = arg[r]
                 /\ at[r] # "idle" /\ at'[r] # "idle"
        BY <1>1, <3>1, <3>2, <4>1 DEF FreshInv, Fresh
      <4>2. CASE /\ kind'[r] = "query" /\ arg'[r] = arg[r] /\ arg[r] \in Projects
                 /\ at[r] # "idle" /\ at'[r] # "idle"
                 /\ seen'[r] = belief[arg[r]] /\ belief' = belief
        <5>1. arg[r] \notin gone
          BY <1>1, <3>2, <4>2 DEF FreshInv, BeliefsGo
        <5>2. since[r][arg[r]] <= belief[arg[r]]
          BY <1>1, <4>2, <5>1 DEF FreshInv, Fresh
        <5>3. since[r][arg[r]] \in Nat /\ belief[arg[r]] \in Nat
          BY <1>1, <4>2, AccountsAssumption DEF TypeInv, AccountInv, StoreTypes, HistoryTypes,
                                                AccountsAssumption
        <5>4. QED
          BY <3>1, <4>2, <5>2, <5>3
      <4>3. QED
        BY <1>1, <2>1, <3>2, <4>1, <4>2, SeenStep
    <3>3. QED
      BY <3>1, <3>2 DEF Fresh
  <2>4. QED
    BY <2>2, <2>3 DEF FreshInv
<1>2. ASSUME FreshInv, UNCHANGED vars
      PROVE  FreshInv'
  BY <1>2 DEF FreshInv, Fresh, BeliefsGo, vars, accountVars, rowVars, storeVars, requestVars,
              readVars, historyVars
<1>3. QED
  BY <1>1, <1>2

LEMMA FreshInvInit == Init => FreshInv
<1>1. ASSUME Init
      PROVE  FreshInv
  <2>1. gone = {} /\ \A p \in Projects : belief[p] = 0
    BY <1>1 DEF Init, AccountsInit
  <2>2. \A r \in Requests : seen[r] = 0 /\ \A p \in Projects : since[r][p] = 0
    BY <1>1 DEF Init
  <2>3. QED
    BY <2>1, <2>2 DEF FreshInv, Fresh, BeliefsGo
<1>2. QED
  BY <1>1

LEMMA FreshHolds == Spec => []FreshInv
BY TypesHold, ScopeHolds, FreshInvInit, FreshInvStep, PTL DEF Spec

(* No answer rests on a belief state older than its request, whatever       *)
(* versions are written and projects deleted meanwhile.                     *)
THEOREM BeliefIsFreshHolds == Spec => []BeliefIsFresh
<1>1. FreshInv => BeliefIsFresh
  BY DEF FreshInv, Fresh, BeliefIsFresh
<1>2. QED
  BY <1>1, FreshHolds, PTL

-----------------------------------------------------------------------------
(* The canned answer.  During the search, each project asked about is still *)
(* to be searched, has given a source, or was seen without points.          *)

Asked(r) == IF kind[r] = "query" THEN {arg[r]} ELSE scope[r]

Canned(r) ==
    /\ at[r] = "search" => \A p \in Asked(r) :
           p \in unsearched[r] \/ p \in existing[r] \/ p \in found[r] \/ p \in bare[r]
    /\ at[r] = "generate" => found[r] # {} \/ seen[r] # 0
    /\ /\ status[r] = 200 /\ found[r] = {} /\ seen[r] = 0 /\ kind[r] \in {"query", "cross"}
       => \A p \in Asked(r) : p \in bare[r]

CannedInv == \A r \in Requests : Canned(r)

LEMMA CannedStays ==
    ASSUME TypeInv, Remember, NEW r \in Requests, Canned(r), Same(r)
    PROVE  Canned(r)'
<1>1. Asked(r)' = Asked(r)
  BY DEF Same, SameReads, Asked
<1>2. CASE kind[r] \in {"query", "cross"}
  <2>1. Fits(r)
    BY DEF TypeInv, AccountInv, RequestsFit
  <2>2. kind'[r] \in ReadKinds /\ at'[r] # "idle"
    BY <1>2, <2>1 DEF Same, Fits, KindFits, ReadKinds
  <2>3. bare'[r] = bare[r] \cup Bare'
    BY <2>2, Remembers DEF TypeInv
  <2>4. QED
    BY <1>1, <2>3 DEF Canned, Same, SameReads
<1>3. CASE kind[r] \notin {"query", "cross"}
  <2>1. at[r] \notin {"search", "generate"}
    BY <1>3 DEF TypeInv, AccountInv, RequestsFit, Fits, KindFits
  <2>2. QED
    BY <1>3, <2>1 DEF Canned, Same
<1>4. QED
  BY <1>2, <1>3

LEMMA CannedElsewhere ==
    ASSUME NEW r, at'[r] \notin {"search", "generate"},
           status'[r] # 200 \/ kind'[r] \notin {"query", "cross"}
    PROVE  Canned(r)'
BY DEF Canned

LEMMA CannedReads ==
    ASSUME TypeInv, Remember, NEW r \in Requests, Canned(r), Read(r)
    PROVE  Canned(r)'
<1>1. /\ at[r] \in ReadPlaces /\ kind[r] \in ReadKinds /\ status[r] = 0
      /\ Fits(r) /\ RequestTypes /\ ReadTypes
  BY ReadGoes DEF TypeInv, AccountInv, RequestsFit
<1>2. /\ at[r] \in {"search", "generate"} => kind[r] \in {"query", "cross"}
      /\ at[r] = "latest" => kind[r] = "query"
      /\ at[r] = "validate_cross" => kind[r] = "cross"
      /\ at[r] = "get" => kind[r] = "get"
      /\ at[r] = "list" => kind[r] = "list"
  BY <1>1, Zenon DEF Fits, KindFits
<1>3. kind'[r] = kind[r] /\ arg'[r] = arg[r] /\ at'[r] # "idle"
  <2>1. Handler(r) # "idle"
    BY DEF Handler
  <2>2. QED
    BY <1>1, <2>1, ReadGoes DEF TypeInv, AccountInv, RequestTypes, requestVars, Answer, Go,
                                ReadPlaces
<1>4. bare'[r] = bare[r] \cup Bare'
  BY <1>1, <1>3, Remembers DEF TypeInv
<1>5. CASE Limit429(r) \/ ReadTeams(r) \/ ReadProjects(r)
  <2>1. \/ UNCHANGED requestVars /\ at[r] = "limiter"
        \/ Go(r, "teams") \/ Go(r, "projects") \/ Go(r, Handler(r))
        \/ Answer(r, 429)
    BY <1>5 DEF Limit429, ReadTeams, ReadProjects
  <2>2. Handler(r) \notin {"search", "generate"}
    BY DEF Handler
  <2>3. at'[r] \notin {"search", "generate"} /\ status'[r] \in {0, 429}
    BY <1>1, <2>1, <2>2 DEF Go, Answer, requestVars, RequestTypes
  <2>4. QED
    BY <2>3, CannedElsewhere
<1>6. CASE GetById(r) \/ ListForUser(r)
  <2>1. kind[r] \in {"get", "list"} /\ at'[r] = "answered"
    BY <1>1, <1>2, <1>6 DEF GetById, ListForUser, Reply, Answer, RequestTypes
  <2>2. QED
    BY <1>3, <2>1, CannedElsewhere
<1>7. CASE ValidateQuery(r) \/ SearchFails(r) \/ GenerationFails(r)
  <2>1. \/ \E s \in {422, 500, 503} : Answer(r, s)
        \/ Go(r, "latest")
    BY <1>7 DEF ValidateQuery, SearchFails, GenerationFails
  <2>2. at'[r] \notin {"search", "generate"} /\ status'[r] # 200
    BY <1>1, <2>1 DEF Answer, Go, RequestTypes
  <2>3. QED
    BY <2>2, CannedElsewhere
<1>8. CASE ReadLatest(r)
  <2>1. CASE Accessible(r)
    <3>1. unsearched'[r] = {arg[r]} /\ at'[r] = "search" /\ status'[r] = 0
      BY <1>1, <1>8, <2>1 DEF ReadLatest, Go, RequestTypes, ReadTypes
    <3>2. Asked(r)' = {arg[r]}
      BY <1>2, <1>3, <1>8 DEF ReadLatest, Asked
    <3>3. QED
      BY <3>1, <3>2 DEF Canned
  <2>2. CASE ~Accessible(r)
    <3>1. at'[r] = "answered" /\ status'[r] = 403
      BY <1>1, <1>8, <2>2 DEF ReadLatest, Answer, RequestTypes
    <3>2. QED
      BY <3>1, CannedElsewhere
  <2>3. QED
    BY <2>1, <2>2
<1>9. CASE ValidateCross(r)
  <2>1. CASE Answer(r, 422)
    <3>1. at'[r] = "answered" /\ status'[r] = 422
      BY <1>1, <2>1 DEF Answer, RequestTypes
    <3>2. QED
      BY <3>1, CannedElsewhere
  <2>2. CASE Go(r, "search") /\ unsearched' = [unsearched EXCEPT ![r] = scope[r]]
    <3>1. unsearched'[r] = scope[r] /\ scope' = scope /\ at'[r] = "search" /\ status'[r] = 0
      BY <1>1, <1>9, <2>2 DEF ValidateCross, Go, RequestTypes, ReadTypes
    <3>2. Asked(r)' = scope[r]
      BY <1>2, <1>3, <1>9, <3>1 DEF ValidateCross, Asked
    <3>3. QED
      BY <3>1, <3>2 DEF Canned
  <2>3. QED
    BY <1>9, <2>1, <2>2 DEF ValidateCross
<1>10. ASSUME NEW p \in Projects, CheckSearch(r, p) \/ SearchPoints(r, p), status'[r] = 0
       PROVE  Canned(r)'
  <2>1. at[r] = "search" /\ at' = at /\ scope' = scope /\ points' = points
    <3>1. CASE CheckSearch(r, p)
      BY <3>1 DEF CheckSearch, requestVars, NoChange, NoWrite, storeVars
    <3>2. CASE SearchPoints(r, p)
      BY <1>1, <1>10, <3>2 DEF SearchPoints, Answer, RequestTypes, requestVars, NoChange, NoWrite,
                               storeVars
    <3>3. QED
      BY <1>10, <3>1, <3>2
  <2>2. Asked(r)' = Asked(r) /\ Bare' = Bare
    BY <1>3, <2>1 DEF Asked, Bare
  <2>3. ASSUME NEW a \in Asked(r)
        PROVE  \/ a \in unsearched'[r] \/ a \in existing'[r]
               \/ a \in found'[r] \/ a \in bare'[r]
    <3>1. a \in unsearched[r] \/ a \in existing[r] \/ a \in found[r] \/ a \in bare[r]
      BY <2>1, <2>3 DEF Canned
    <3>2. CASE CheckSearch(r, p)
      BY <1>1, <1>4, <2>2, <3>1, <3>2 DEF CheckSearch, ReadTypes, Bare
    <3>3. CASE SearchPoints(r, p)
      <4>1. points[p] # "none"
        BY <1>1, <1>10, <3>3 DEF SearchPoints, Answer, RequestTypes
      <4>2. QED
        BY <1>1, <1>4, <2>2, <3>1, <3>3, <4>1 DEF SearchPoints, ReadTypes, Bare
    <3>4. QED
      BY <1>10, <3>2, <3>3
  <2>4. QED
    BY <1>10, <2>1, <2>2, <2>3 DEF Canned
<1>11. ASSUME NEW p \in Projects, CheckSearch(r, p) \/ SearchPoints(r, p)
       PROVE  Canned(r)'
  <2>1. UNCHANGED requestVars \/ Answer(r, 500)
    BY <1>11 DEF CheckSearch, SearchPoints
  <2>2. CASE UNCHANGED requestVars
    BY <1>1, <1>10, <1>11, <2>2 DEF requestVars
  <2>3. CASE Answer(r, 500)
    <3>1. at'[r] = "answered" /\ status'[r] = 500
      BY <1>1, <2>3 DEF Answer, RequestTypes
    <3>2. QED
      BY <3>1, CannedElsewhere
  <2>4. QED
    BY <2>1, <2>2, <2>3
<1>12. CASE EndSearch(r)
  <2>1. /\ at[r] = "search" /\ unsearched[r] = {} /\ existing[r] = {}
        /\ scope' = scope /\ seen' = seen
    BY <1>12 DEF EndSearch
  <2>2. CASE found[r] = {} /\ seen[r] = 0
    <3>1. \A p \in Asked(r) : p \in bare[r]
      BY <2>1, <2>2 DEF Canned
    <3>2. Asked(r)' = Asked(r) /\ at'[r] = "answered"
      BY <1>1, <1>3, <1>12, <2>1, <2>2 DEF EndSearch, Reply, Answer, RequestTypes, Asked
    <3>3. QED
      BY <1>4, <3>1, <3>2 DEF Canned
  <2>3. CASE ~(found[r] = {} /\ seen[r] = 0)
    <3>1. at'[r] = "generate" /\ status'[r] = 0 /\ found' = found
      BY <1>1, <1>12, <2>3 DEF EndSearch, Go, RequestTypes
    <3>2. QED
      BY <2>1, <2>3, <3>1 DEF Canned
  <2>4. QED
    BY <2>2, <2>3
<1>13. CASE Generate(r)
  <2>1. PICK sources \in Merged(r) : Reply(r, sources)
    BY <1>13 DEF Generate
  <2>2. /\ at[r] = "generate" /\ seen' = seen /\ at'[r] = "answered"
        /\ found'[r] = sources
    BY <1>1, <1>13, <2>1 DEF Generate, Reply, Answer, RequestTypes, ReadTypes
  <2>3. found'[r] = {} => seen'[r] # 0
    BY <2>1, <2>2 DEF Merged, Canned
  <2>4. QED
    BY <2>2, <2>3 DEF Canned
<1>14. QED
  BY <1>5, <1>6, <1>7, <1>8, <1>9, <1>11, <1>12, <1>13 DEF Read

LEMMA CannedInvStep == TypeInv /\ CannedInv /\ [Next]_vars => CannedInv'
<1>1. ASSUME TypeInv, CannedInv, Next, NEW r \in Requests
      PROVE  Canned(r)'
  <2>1. Step /\ Remember /\ Canned(r)
    BY <1>1 DEF Next, CannedInv
  <2>2. CASE BeginRead(r) \/ (UNCHANGED readVars /\ BeginsChange(r))
    <3>1. at'[r] \notin {"search", "generate"}
      BY <1>1, <2>2, Begun
    <3>2. status'[r] # 200 \/ kind'[r] \notin {"query", "cross"}
      BY <1>1, <2>2, Begun DEF ReadKinds
    <3>3. QED
      BY <3>1, <3>2, CannedElsewhere
  <2>3. CASE LeaveRead(r)
    <3>1. at'[r] = "idle" /\ status'[r] = 0
      BY <1>1, <2>3, Gone
    <3>2. QED
      BY <3>1, CannedElsewhere
  <2>4. CASE UNCHANGED readVars /\ Writes(r)
    <3>1. at'[r] \notin {"search", "generate"} /\ kind'[r] \notin {"query", "cross"}
      BY <1>1, <2>4, Written DEF ReadKinds
    <3>2. QED
      BY <3>1, CannedElsewhere
  <2>5. QED
    BY <1>1, <2>1, <2>2, <2>3, <2>4, StepCases, CannedStays, CannedReads
<1>2. ASSUME CannedInv, UNCHANGED vars
      PROVE  CannedInv'
  BY <1>2 DEF CannedInv, Canned, Asked, vars, accountVars, requestVars, readVars, historyVars
<1>3. QED
  BY <1>1, <1>2 DEF CannedInv

LEMMA CannedInvInit == Init => CannedInv
<1>1. ASSUME Init, NEW r \in Requests
      PROVE  Canned(r)
  BY <1>1 DEF Init, AccountsInit, Canned
<1>2. QED
  BY <1>1 DEF CannedInv

(* "No indexed content" is only said of projects that held no points at     *)
(* some time of the request.                                                *)
THEOREM CannedIsTruthfulHolds == Spec => []CannedIsTruthful
<1>1. CannedInv /\ FreshInv => CannedIsTruthful
  <2>1. ASSUME CannedInv, FreshInv, NEW r \in Requests, status[r] = 200, found[r] = {}
        PROVE  /\ kind[r] = "query" /\ seen[r] = 0 => arg[r] \in bare[r]
               /\ kind[r] = "cross" => scope[r] \subseteq bare[r]
    <3>1. Canned(r) /\ Fresh(r)
      BY <2>1 DEF CannedInv, FreshInv
    <3>2. CASE kind[r] = "query"
      BY <2>1, <3>1, <3>2 DEF Canned, Asked
    <3>3. CASE kind[r] = "cross"
      <4>1. seen[r] = 0
        BY <3>1, <3>3 DEF Fresh
      <4>2. QED
        BY <2>1, <3>1, <3>3, <4>1 DEF Canned, Asked
    <3>4. QED
      BY <3>2, <3>3
  <2>2. QED
    BY <2>1 DEF CannedIsTruthful
<1>2. QED
  BY <1>1, TypesHold, FreshHolds, CannedInvInit, CannedInvStep, PTL DEF Spec

-----------------------------------------------------------------------------
(* Internal errors.  What an undisturbed request has looked at is still so  *)
(* when it writes; disturbed are all that a write of another may concern.   *)

Valid(r) ==
    /\ at[r] = "insert_user" => ~EmailTaken(arg[r])
    /\ at[r] = "insert_member" => arg[r] \notin members
    /\ at[r] \in {"save", "refresh"} => arg[r] \in Live
    /\ InFlight(r) => \A p \in existing[r] : points[p] # "none"

Undisturbed(r) ==
    /\ disturbed[r] \/ Valid(r)
    /\ status[r] = 500 => \/ disturbed[r]
                          \/ data[r] = "refused"
                          \/ kind[r] = "query" /\ arg[r] \notin Live

RaceInv == \A r \in Requests : Undisturbed(r)

(* What a step that does not disturb leaves valid. *)
Harmless ==
    /\ users' = users
    /\ members' \subseteq members
    /\ gone' = gone
    /\ \A p \in Projects : points[p] # "none" => points'[p] # "none"

(* A step of another request, or of a worker, is harmless or disturbs. *)
LEMMA HarmlessOrDisturbs ==
    ASSUME TypeInv, Step, NEW r \in Requests, Same(r)
    PROVE  /\ disturbed[r] => disturbed'[r]
           /\ InFlight(r) => disturbed'[r] \/ Harmless
<1>1. disturbed \in [Requests -> BOOLEAN] /\ RequestTypes
  BY DEF TypeInv, AccountInv, DisturbedType, RequestsFit
<1>2. CASE UNCHANGED <<rowVars, storeVars, disturbed>>
  BY <1>2 DEF rowVars, storeVars, Harmless
<1>3. ASSUME NEW q \in Requests, BeginRead(q)
      PROVE  UNCHANGED <<rowVars, storeVars, disturbed>>
  BY <1>3 DEF BeginRead, ListProjects, QueryCrossProject, GetProject, QueryProject, NoWrite
<1>4. ASSUME NEW q \in Requests, Read(q)
      PROVE  /\ disturbed[r] => disturbed'[r]
             /\ InFlight(r) => disturbed'[r] \/ Harmless
  <2>1. CASE SearchFails(q)
    <3>1. disturbed' = [disturbed EXCEPT ![q] = TRUE]
      BY <2>1 DEF SearchFails
    <3>2. disturbed[r] => disturbed'[r]
      BY <1>1, <3>1, Zenon
    <3>3. Harmless
      BY <2>1 DEF SearchFails, rowVars, storeVars, Harmless
    <3>4. QED
      BY <3>2, <3>3
  <2>2. CASE ~SearchFails(q)
    <3>1. UNCHANGED <<rowVars, storeVars, disturbed>>
      BY <1>4, <2>2 DEF Read, NoChange, NoWrite, Limit429, ReadTeams, ReadProjects, GetById,
                        ListForUser, ValidateQuery, ReadLatest, ValidateCross, CheckSearch,
                        SearchPoints, EndSearch, GenerationFails, Generate
    <3>2. QED
      BY <1>2, <3>1
  <2>3. QED
    BY <2>1, <2>2
<1>5. ASSUME NEW q \in Requests, LeaveRead(q)
      PROVE  /\ disturbed[r] => disturbed'[r]
             /\ InFlight(r) => disturbed'[r] \/ Harmless
  <2>1. q # r
    BY <1>1, <1>5, Gone DEF Same, LeaveRead, Leave
  <2>2. disturbed' = [disturbed EXCEPT ![q] = FALSE]
    BY <1>5 DEF LeaveRead, Leave
  <2>3. disturbed[r] => disturbed'[r]
    BY <1>1, <2>1, <2>2, Zenon
  <2>4. Harmless
    BY <1>5 DEF LeaveRead, Leave, rowVars, storeVars, Harmless
  <2>5. QED
    BY <2>3, <2>4
<1>6. ASSUME NEW q \in Requests, Disturb(q), q # r
      PROVE  /\ disturbed[r] => disturbed'[r]
             /\ InFlight(r) => disturbed'[r]
  BY <1>6, Zenon DEF Disturb
<1>7. ASSUME DisturbAll
      PROVE  /\ disturbed[r] => disturbed'[r]
             /\ InFlight(r) => disturbed'[r]
  BY <1>7, Zenon DEF DisturbAll
<1>8. ASSUME NEW q \in Requests, AccountRequest(q)
      PROVE  Disturb(q) \/ (Harmless /\ disturbed' = disturbed)
  <2>1. CASE InsertUser(q) \/ InsertMember(q)
    BY <2>1 DEF InsertUser, InsertMember, storeVars, Harmless
  <2>2. CASE DeleteMember(q) \/ DeleteRow(q) \/ DropCollection(q)
    BY <2>2 DEF DeleteMember, DeleteRow, DropCollection
  <2>3. CASE ~\/ InsertUser(q) \/ InsertMember(q) \/ DeleteMember(q) \/ DeleteRow(q)
              \/ DropCollection(q)
    <3>1. UNCHANGED <<users, members, gone, points, disturbed>>
      BY <1>8, <2>3 DEF AccountRequest, Refuse, Register, CreateTeam, AddMember, RemoveMember,
                        CreateProject, UpdateProject, DeleteProject, FindProject, SaveProject,
                        RefreshProject, CheckDrop, rowVars, storeVars
    <3>2. QED
      BY <3>1 DEF Harmless
  <2>4. QED
    BY <2>1, <2>2, <2>3
<1>9. ASSUME NEW q \in Requests, AccountRequest(q), UNCHANGED readVars
      PROVE  /\ disturbed[r] => disturbed'[r]
             /\ InFlight(r) => disturbed'[r] \/ Harmless
  <2>1. q # r
    <3>1. CASE BeginsChange(q)
      <4>1. at[q] = "idle" /\ at'[q] # "idle"
        BY <1>9, <3>1, Begun
      <4>2. QED
        BY <4>1 DEF Same
    <3>2. CASE Writes(q)
      <4>1. at'[q] # at[q]
        BY <1>1, <3>2 DEF Writes, InsertUser, InsertMember, DeleteMember, SaveProject,
                          RefreshProject, DeleteRow, CheckDrop, DropCollection, Answer, Go,
                          RequestTypes
      <4>2. QED
        BY <4>1 DEF Same
    <3>3. QED
      BY <1>9, <3>1, <3>2, ChangeBeginsOrWrites DEF TypeInv
  <2>2. CASE Disturb(q)
    BY <1>6, <2>1, <2>2
  <2>3. CASE Harmless /\ disturbed' = disturbed
    BY <2>3
  <2>4. QED
    BY <1>8, <1>9, <2>2, <2>3
<1>10. CASE Worker
  <2>1. DisturbAll \/ (Harmless /\ disturbed' = disturbed)
    <3>1. PICK p \in Projects : \/ CreateCollection(p) \/ FillCollection(p)
                                \/ ReindexDrops(p) \/ WriteBelief(p)
      BY <1>10 DEF Worker
    <3>2. points \in [Projects -> {"none", "empty", "filled"}]
      BY DEF TypeInv, AccountInv, StoreTypes
    <3>3. CASE CreateCollection(p) \/ FillCollection(p)
      BY <3>1, <3>2, <3>3 DEF CreateCollection, FillCollection, rowVars, Harmless
    <3>4. CASE ReindexDrops(p)
      BY <3>4 DEF ReindexDrops
    <3>5. CASE WriteBelief(p)
      BY <3>5 DEF WriteBelief, rowVars, Harmless
    <3>6. QED
      BY <3>1, <3>3, <3>4, <3>5
  <2>2. QED
    BY <1>7, <2>1
<1>11. CASE UNCHANGED accountVars
  BY <1>2, <1>11 DEF accountVars
<1>12. QED
  BY <1>2, <1>3, <1>4, <1>5, <1>9, <1>10, <1>11 DEF Step

LEMMA UndisturbedStays ==
    ASSUME TypeInv, Step, NEW r \in Requests, Undisturbed(r), Same(r)
    PROVE  Undisturbed(r)'
<1>1. /\ disturbed[r] => disturbed'[r]
      /\ InFlight(r) => disturbed'[r] \/ Harmless
  BY HarmlessOrDisturbs
<1>2. created \subseteq created' /\ gone \subseteq gone'
  BY RowsEvolve DEF Evolves
<1>3. status'[r] = 500 => \/ disturbed'[r]
                          \/ data'[r] = "refused"
                          \/ kind'[r] = "query" /\ arg'[r] \notin Live'
  <2>1. CASE status[r] = 500 /\ ~disturbed[r] /\ data[r] # "refused"
    <3>1. kind[r] = "query" /\ arg[r] \notin Live
      BY <2>1 DEF Undisturbed
    <3>2. arg[r] \in created
      BY <3>1 DEF TypeInv, AccountInv, RequestsFit, Fits, ArgFits
    <3>3. arg[r] \notin Live'
      BY <1>2, <3>1, <3>2 DEF Live
    <3>4. QED
      BY <3>1, <3>3 DEF Same
  <2>2. QED
    BY <1>1, <2>1 DEF Same
<1>4. disturbed'[r] \/ Valid(r)'
  <2>1. CASE ~InFlight(r)
    BY <2>1 DEF InFlight, Valid, Same
  <2>2. CASE InFlight(r) /\ ~disturbed'[r]
    <3>1. Harmless /\ Valid(r)
      BY <1>1, <2>2 DEF Undisturbed
    <3>2. /\ at'[r] = at[r] /\ arg'[r] = arg[r] /\ existing'[r] = existing[r]
      BY DEF Same, SameReads
    <3>3. EmailTaken(arg[r])' => EmailTaken(arg[r])
      BY <3>1, <3>2 DEF Harmless, EmailTaken
    <3>4. arg[r] \in Live => arg[r] \in Live'
      BY <1>2, <3>1 DEF Harmless, Live
    <3>5. existing[r] \in SUBSET Projects
      BY DEF TypeInv, ReadTypes
    <3>6. InFlight(r) => \A p \in existing'[r] : points'[p] # "none"
      BY <3>1, <3>2, <3>5 DEF Valid, Harmless
    <3>7. at'[r] = "insert_user" => ~EmailTaken(arg[r])'
      BY <3>1, <3>2, <3>3 DEF Valid
    <3>8. at'[r] = "insert_member" => arg'[r] \notin members'
      BY <3>1, <3>2 DEF Valid, Harmless
    <3>9. at'[r] \in {"save", "refresh"} => arg'[r] \in Live'
      BY <3>1, <3>2, <3>4 DEF Valid
    <3>10. QED
      BY <2>2, <3>6, <3>7, <3>8, <3>9 DEF Valid
  <2>3. QED
    BY <2>1, <2>2
<1>5. QED
  BY <1>3, <1>4 DEF Undisturbed

(* A request that holds nothing and is not about to write is valid. *)
LEMMA ValidElsewhere ==
    ASSUME NEW r, existing'[r] = {} \/ at'[r] \in {"idle", "answered"},
           at'[r] \notin {"insert_user", "insert_member", "save", "refresh"}
    PROVE  Valid(r)'
BY DEF Valid, InFlight

LEMMA UndisturbedBegins ==
    ASSUME TypeInv, ScopeInv, NEW r \in Requests,
           BeginRead(r) \/ (UNCHANGED readVars /\ BeginsChange(r))
    PROVE  Undisturbed(r)'
<1>1. RequestTypes
  BY DEF TypeInv, AccountInv, RequestsFit
<1>2. existing'[r] = {}
  <2>1. kind[r] \notin ReadKinds /\ SameReads(r)
    BY Begun
  <2>2. QED
    BY <2>1 DEF ScopeInv, Scoped, Held, SameReads
<1>3. status'[r] = 500 => data'[r] = "refused"
  BY Begun
<1>4. CASE BeginRead(r)
  <2>1. \E k \in ReadKinds, p \in {"teams", "limiter"} : \E a : Begin(r, k, a, p, 0)
    BY <1>4 DEF BeginRead, ListProjects, QueryCrossProject, GetProject, QueryProject, ReadKinds
  <2>2. at'[r] \in {"teams", "limiter"}
    BY <1>1, <2>1 DEF Begin, RequestTypes
  <2>3. Valid(r)'
    BY <1>2, <2>2, ValidElsewhere
  <2>4. QED
    BY <1>3, <2>3 DEF Undisturbed
<1>5. CASE UNCHANGED readVars /\ BeginsChange(r)
  <2>1. PICK k \in ChangeKinds, a \in Args, p \in Places, s \in Codes :
            /\ Begin(r, k, a, p, s)
            /\ p = "insert_user" => ~EmailTaken(a)'
            /\ p = "insert_member" => a \notin members'
            /\ p \in {"save", "refresh"} => a \in Live'
    BY <1>5 DEF BeginsChange
  <2>2. at'[r] = p /\ arg'[r] = a
    BY <1>1, <2>1 DEF Begin, RequestTypes
  <2>3. ~EmailTaken(a)' => ~EmailTaken(arg[r])'
    BY <2>2 DEF EmailTaken
  <2>4. Valid(r)'
    BY <1>2, <2>1, <2>2, <2>3 DEF Valid
  <2>5. QED
    BY <1>3, <2>4 DEF Undisturbed
<1>6. QED
  BY <1>4, <1>5

LEMMA UndisturbedWrites ==
    ASSUME TypeInv, ScopeInv, NEW r \in Requests, Undisturbed(r), UNCHANGED readVars, Writes(r)
    PROVE  Undisturbed(r)'
<1>1. /\ RequestTypes /\ Fits(r) /\ at[r] \in WritePlaces
      /\ disturbed \in [Requests -> BOOLEAN]
      /\ data'[r] = data[r]
  BY Written DEF TypeInv, AccountInv, RequestsFit, DisturbedType
<1>2. status[r] = 0 /\ InFlight(r)
  BY <1>1 DEF Fits, KindFits, WritePlaces, InFlight
<1>3. existing'[r] = {}
  BY Written DEF ScopeInv, Scoped, Held, readVars
<1>4. ASSUME NEW s, Answer(r, s), s = 500 => disturbed'[r] \/ data[r] = "refused"
      PROVE  Undisturbed(r)'
  <2>1. at'[r] = "answered" /\ status'[r] = s
    BY <1>1, <1>4 DEF Answer, RequestTypes
  <2>2. Valid(r)'
    BY <2>1, ValidElsewhere
  <2>3. QED
    BY <1>1, <1>4, <2>1, <2>2 DEF Undisturbed
<1>5. ASSUME NEW p, Go(r, p), p \notin {"insert_user", "insert_member", "save", "refresh"}
      PROVE  Undisturbed(r)'
  <2>1. at'[r] = p /\ status'[r] = 0
    BY <1>1, <1>2, <1>5 DEF Go, RequestTypes
  <2>2. Valid(r)'
    BY <1>3, <1>5, <2>1, ValidElsewhere
  <2>3. QED
    BY <2>1, <2>2 DEF Undisturbed
<1>6. CASE InsertUser(r)
  <2>1. CASE data[r] = "refused" \/ EmailTaken(arg[r])
    <3>1. /\ disturbed[r] \/ data[r] = "refused"
          /\ Answer(r, 500) /\ disturbed' = disturbed
      BY <1>6, <2>1 DEF InsertUser, Undisturbed, Valid
    <3>2. QED
      BY <1>4, <3>1
  <2>2. CASE ~(data[r] = "refused" \/ EmailTaken(arg[r]))
    BY <1>4, <1>6, <2>2 DEF InsertUser
  <2>3. QED
    BY <2>1, <2>2
<1>7. CASE InsertMember(r)
  <2>1. CASE arg[r] \in members
    <3>1. disturbed[r] /\ Answer(r, 500) /\ disturbed' = disturbed
      BY <1>7, <2>1 DEF InsertMember, Undisturbed, Valid
    <3>2. QED
      BY <1>4, <3>1
  <2>2. CASE arg[r] \notin members
    BY <1>4, <1>7, <2>2 DEF InsertMember
  <2>3. QED
    BY <2>1, <2>2
<1>8. CASE DeleteMember(r) \/ DropCollection(r)
  BY <1>4, <1>8 DEF DeleteMember, DropCollection
<1>9. CASE SaveProject(r)
  <2>1. /\ at[r] = "save" /\ disturbed' = disturbed
        /\ Live' = Live
    BY <1>9 DEF SaveProject, rowVars, Live
  <2>2. CASE data[r] = "storable" /\ arg[r] \in Live
    <3>1. at'[r] = "refresh" /\ arg'[r] = arg[r] /\ status'[r] = 0
      BY <1>1, <1>2, <1>9, <2>2 DEF SaveProject, Go, RequestTypes
    <3>2. Valid(r)'
      BY <1>3, <2>1, <2>2, <3>1 DEF Valid
    <3>3. QED
      BY <3>1, <3>2 DEF Undisturbed
  <2>3. CASE ~(data[r] = "storable" /\ arg[r] \in Live)
    <3>1. data[r] = "refused" \/ arg[r] \notin Live
      BY <1>1, <2>3 DEF RequestTypes
    <3>2. (disturbed[r] \/ data[r] = "refused") /\ Answer(r, 500)
      BY <1>9, <2>1, <2>3, <3>1 DEF SaveProject, Undisturbed, Valid
    <3>3. QED
      BY <1>4, <2>1, <3>2
  <2>4. QED
    BY <2>2, <2>3
<1>10. CASE RefreshProject(r)
  <2>1. /\ at[r] = "refresh" /\ disturbed' = disturbed
        /\ Answer(r, IF arg[r] \notin Live THEN 500 ELSE IF kind[r] = "create" THEN 201 ELSE 200)
    BY <1>10 DEF RefreshProject
  <2>2. arg[r] \notin Live => disturbed[r]
    BY <2>1 DEF Undisturbed, Valid
  <2>3. QED
    BY <1>4, <2>1, <2>2
<1>11. CASE DeleteRow(r)
  BY <1>5, <1>11 DEF DeleteRow
<1>12. CASE CheckDrop(r)
  BY <1>4, <1>5, <1>12 DEF CheckDrop
<1>13. QED
  BY <1>6, <1>7, <1>8, <1>9, <1>10, <1>11, <1>12 DEF Writes

LEMMA UndisturbedReads ==
    ASSUME TypeInv, NEW r \in Requests, Undisturbed(r), Read(r)
    PROVE  Undisturbed(r)'
<1>1. /\ RequestTypes /\ ReadTypes /\ Fits(r)
      /\ at[r] \in ReadPlaces /\ kind[r] \in ReadKinds /\ status[r] = 0
      /\ disturbed \in [Requests -> BOOLEAN]
  BY ReadGoes DEF TypeInv, AccountInv, RequestsFit, DisturbedType
<1>2. InFlight(r)
  BY <1>1 DEF InFlight, ReadPlaces
<1>3. ASSUME NEW s, Answer(r, s), s = 500 => disturbed'[r]
      PROVE  Undisturbed(r)'
  <2>1. at'[r] = "answered" /\ status'[r] = s
    BY <1>1, <1>3 DEF Answer, RequestTypes
  <2>2. Valid(r)'
    BY <2>1, ValidElsewhere
  <2>3. QED
    BY <1>3, <2>1, <2>2 DEF Undisturbed
<1>4. CASE SearchFails(r)
  <2>1. Answer(r, 500) /\ disturbed' = [disturbed EXCEPT ![r] = TRUE]
    BY <1>4 DEF SearchFails
  <2>2. disturbed'[r]
    BY <1>1, <2>1, Zenon
  <2>3. QED
    BY <1>3, <2>1, <2>2
<1>5. ASSUME Read(r), ~SearchFails(r)
      PROVE  UNCHANGED <<rowVars, storeVars, disturbed>>
  BY <1>5 DEF Read, NoChange, NoWrite, Limit429, ReadTeams, ReadProjects, GetById, ListForUser,
              ValidateQuery, ReadLatest, ValidateCross, CheckSearch, SearchPoints, EndSearch,
              GenerationFails, Generate
<1>6. ASSUME NEW p \in ReadPlaces, ~SearchFails(r),
             Go(r, p) \/ (UNCHANGED requestVars /\ p = at[r]),
             \A c \in existing'[r] : c \in existing[r] \/ points[c] # "none"
      PROVE  Undisturbed(r)'
  <2>1. at'[r] = p /\ status'[r] = 0
    BY <1>1, <1>6 DEF Go, requestVars, RequestTypes
  <2>2. disturbed' = disturbed /\ points' = points
    BY <1>5, <1>6 DEF storeVars
  <2>3. disturbed[r] \/ \A c \in existing'[r] : points'[c] # "none"
    BY <1>2, <1>6, <2>2 DEF Undisturbed, Valid
  <2>4. p \notin {"insert_user", "insert_member", "save", "refresh"}
    BY <1>6 DEF ReadPlaces
  <2>5. disturbed'[r] \/ Valid(r)'
    BY <2>1, <2>2, <2>3, <2>4 DEF Valid
  <2>6. QED
    BY <2>1, <2>5 DEF Undisturbed
<1>7. CASE \E p \in Projects : CheckSearch(r, p) \/ SearchPoints(r, p)
  <2>1. ASSUME NEW p \in Projects, CheckSearch(r, p), ~SearchFails(r)
        PROVE  Undisturbed(r)'
    <3>1. \A c \in existing'[r] : c \in existing[r] \/ points[c] # "none"
      BY <1>1, <2>1 DEF CheckSearch, ReadTypes
    <3>2. UNCHANGED requestVars
      BY <2>1 DEF CheckSearch
    <3>3. QED
      BY <1>1, <1>6, <2>1, <3>1, <3>2
  <2>2. ASSUME NEW p \in Projects, SearchPoints(r, p), ~SearchFails(r)
        PROVE  Undisturbed(r)'
    <3>1. CASE points[p] = "none"
      <4>1. Answer(r, 500) /\ p \in existing[r]
        BY <2>2, <3>1 DEF SearchPoints
      <4>2. disturbed[r]
        BY <1>2, <3>1, <4>1 DEF Undisturbed, Valid
      <4>3. disturbed' = disturbed
        BY <2>2 DEF SearchPoints, NoChange, NoWrite
      <4>4. QED
        BY <1>3, <4>1, <4>2, <4>3
    <3>2. CASE points[p] # "none"
      <4>1. UNCHANGED requestVars /\ \A c \in existing'[r] : c \in existing[r]
        BY <1>1, <2>2, <3>2 DEF SearchPoints, ReadTypes
      <4>2. QED
        BY <1>1, <1>6, <2>2, <4>1
    <3>3. QED
      BY <3>1, <3>2
  <2>3. QED
    BY <1>4, <1>7, <2>1, <2>2
<1>8. CASE ValidateQuery(r) /\ ~SearchFails(r)
  <2>1. CASE Answer(r, 422)
    BY <1>3, <2>1
  <2>2. CASE arg[r] \notin Live /\ Answer(r, 500)
    <3>1. /\ at'[r] = "answered" /\ status'[r] = 500
          /\ kind'[r] = kind[r] /\ arg'[r] = arg[r]
      BY <1>1, <2>2 DEF Answer, RequestTypes
    <3>2. kind[r] = "query"
      BY <1>1, <1>8 DEF ValidateQuery, Fits, KindFits
    <3>3. Live' = Live
      BY <1>5, <1>8 DEF Read, rowVars, Live
    <3>4. Valid(r)'
      BY <3>1, ValidElsewhere
    <3>5. QED
      BY <2>2, <3>1, <3>2, <3>3, <3>4 DEF Undisturbed
  <2>3. CASE Go(r, "latest")
    BY <1>6, <1>8, <2>3 DEF ValidateQuery, readVars, ReadPlaces
  <2>4. QED
    BY <1>8, <2>1, <2>2, <2>3 DEF ValidateQuery
<1>9. CASE /\ ~SearchFails(r)
           /\ \/ Limit429(r) \/ ReadTeams(r) \/ ReadProjects(r) \/ GetById(r) \/ ListForUser(r)
              \/ ReadLatest(r) \/ ValidateCross(r) \/ EndSearch(r) \/ GenerationFails(r)
              \/ Generate(r)
  <2>1. existing' = existing
    BY <1>9 DEF Limit429, ReadTeams, ReadProjects, GetById, ListForUser, ReadLatest,
                ValidateCross, EndSearch, GenerationFails, Generate, readVars
  <2>2. \/ UNCHANGED requestVars
        \/ \E s \in {200, 403, 404, 422, 429, 503} : Answer(r, s)
        \/ \E p \in {"teams", "projects", "search", "generate", Handler(r)} : Go(r, p)
    <3>1. CASE Limit429(r) \/ ReadTeams(r) \/ ReadProjects(r) \/ ReadLatest(r)
      BY <3>1 DEF Limit429, ReadTeams, ReadProjects, ReadLatest
    <3>2. CASE GetById(r) \/ ListForUser(r) \/ ValidateCross(r)
      BY <3>2 DEF GetById, ListForUser, ValidateCross, Reply
    <3>3. CASE EndSearch(r) \/ GenerationFails(r) \/ Generate(r)
      BY <3>3 DEF EndSearch, GenerationFails, Generate, Reply
    <3>4. QED
      BY <1>9, <3>1, <3>2, <3>3
  <2>3. {"teams", "projects", "search", "generate", Handler(r)} \subseteq ReadPlaces
    BY DEF ReadPlaces, Handler
  <2>4. CASE UNCHANGED requestVars
    BY <1>1, <1>6, <1>9, <2>1, <2>4
  <2>5. CASE \E s \in {200, 403, 404, 422, 429, 503} : Answer(r, s)
    BY <1>3, <2>5
  <2>6. CASE \E p \in {"teams", "projects", "search", "generate", Handler(r)} : Go(r, p)
    BY <1>6, <1>9, <2>1, <2>3, <2>6
  <2>7. QED
    BY <2>2, <2>4, <2>5, <2>6
<1>10. QED
  BY <1>4, <1>7, <1>8, <1>9 DEF Read

LEMMA RaceInvStep == TypeInv /\ ScopeInv /\ RaceInv /\ [Next]_vars => RaceInv'
<1>1. ASSUME TypeInv, ScopeInv, RaceInv, Next, NEW r \in Requests
      PROVE  Undisturbed(r)'
  <2>1. Step /\ Undisturbed(r)
    BY <1>1 DEF Next, RaceInv
  <2>2. CASE LeaveRead(r)
    <3>1. at'[r] = "idle" /\ status'[r] = 0
      BY <1>1, <2>2, Gone
    <3>2. Valid(r)'
      BY <3>1, ValidElsewhere
    <3>3. QED
      BY <3>1, <3>2 DEF Undisturbed
  <2>3. QED
    BY <1>1, <2>1, <2>2, StepCases, UndisturbedStays, UndisturbedBegins, UndisturbedWrites,
       UndisturbedReads
<1>2. ASSUME RaceInv, UNCHANGED vars
      PROVE  RaceInv'
  <2>1. ASSUME NEW r \in Requests
        PROVE  Undisturbed(r)'
    <3>1. Undisturbed(r)
      BY <1>2 DEF RaceInv
    <3>2. UNCHANGED <<users, members, created, gone, points, kind, arg, data, at, status,
                      disturbed, existing>>
      BY <1>2 DEF vars, accountVars, rowVars, storeVars, requestVars, readVars
    <3>3. Valid(r)' = Valid(r)
      BY <3>2 DEF Valid, EmailTaken, Live, InFlight
    <3>4. QED
      BY <3>1, <3>2, <3>3 DEF Undisturbed, Live
  <2>2. QED
    BY <2>1 DEF RaceInv
<1>3. QED
  BY <1>1, <1>2 DEF RaceInv

LEMMA RaceInvInit == Init => RaceInv
<1>1. ASSUME Init, NEW r \in Requests
      PROVE  Undisturbed(r)
  <2>1. at[r] = "idle" /\ status[r] = 0
    BY <1>1 DEF Init, AccountsInit
  <2>2. Valid(r)
    BY <2>1 DEF Valid, InFlight
  <2>3. QED
    BY <2>1, <2>2 DEF Undisturbed
<1>2. QED
  BY <1>1 DEF RaceInv

(* Every internal error has one of the four causes InternalErrorsAreExplained *)
(* names: what a request has looked at it may rely on, unless a write of     *)
(* another has marked it as disturbed.                                      *)
THEOREM InternalErrorsExplained == Spec => []InternalErrorsAreExplained
<1>1. RaceInv => InternalErrorsAreExplained
  BY DEF RaceInv, Undisturbed, InternalErrorsAreExplained
<1>2. QED
  BY <1>1, TypesHold, ScopeHolds, RaceInvInit, RaceInvStep, PTL DEF Spec
=============================================================================
