---------------------------- MODULE MCQueryPath -----------------------------
(* A finite instance of QueryPath for TLC, and of the limiter behind         *)
(* callers that do nothing else, so that many of them fit in.               *)
EXTENDS QueryPath, TLC

CONSTANTS r1, r2, t1, t2, p1, p2

Scenario(kinds, roles, reads, changes, work) ==
    [kinds |-> kinds, roles |-> roles, projects |-> TRUE, reads |-> reads,
     changes |-> changes, work |-> work, ticking |-> FALSE]

(* Queries at the limit, while time passes; nothing to read. *)
Limiting == {[kinds |-> {"query", "cross"}, roles |-> {"super_admin"}, projects |-> FALSE,
              reads |-> 2, changes |-> 0, work |-> 0, ticking |-> TRUE]}

(* A reading request among changes of what it may read, and among workers. *)
Reading == {Scenario({"query", "join", "leave", "delete"}, {"member"}, 1, 2, 0),
            Scenario({"query", "cross"}, {"admin"}, 1, 0, 2),
            Scenario(ReadKinds \cup {"create", "delete"}, {"member", "admin", "retired"}, 1, 1, 0)}

(* Changes of the same rows. *)
Changing == {Scenario({"register"}, {"member"}, 0, 3, 0),
             Scenario({"refused", "team", "join", "leave"}, {"member"}, 0, 3, 0),
             Scenario({"create", "update", "delete"}, {"admin"}, 0, 3, 0)}

(* Callers of the limiter, again and again, while time passes. *)
OnlyLimiting == [kinds |-> {}, roles |-> {"super_admin"}, projects |-> FALSE,
                 reads |-> 0, changes |-> 0, work |-> 0, ticking |-> TRUE]

MCScenarios == Limiting \cup Reading \cup Changing \cup {OnlyLimiting}

MCNext ==
    \/ Next
    \/ /\ left = OnlyLimiting
       /\ LimiterNext
       /\ UNCHANGED <<accountVars, readVars, historyVars>>

MCSpec == Init /\ [][MCNext]_vars

MCSymmetry == Permutations({r1, r2}) \cup Permutations({t1, t2}) \cup Permutations({p1, p2})
=============================================================================
