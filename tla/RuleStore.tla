----------------------------- MODULE RuleStore -------------------------------
(***************************************************************************)
(* The risk rules: rows in PostgreSQL that administrators edit             *)
(* (admin.go), the rule set in memory that RuleEvaluator.loadRules swaps   *)
(* in under its mutex after every edit and on a ticker (rules.go), and     *)
(* evaluations, which load the set twice: once to find the rules that hit, *)
(* once more to look up what those rules ask for.                          *)
(*                                                                         *)
(* A rule stands at its place in ORDER BY weight DESC.  Its body is what   *)
(* its row does to one request: nothing when the row is absent, disabled   *)
(* or unreadable, otherwise its name, whether the condition holds and the  *)
(* action.  No two rows have one name.                                     *)
(***************************************************************************)
EXTENDS Integers

CONSTANTS
    RuleCount,    \* number of places for rules
    Name,         \* what rules are called
    NoName,       \* what no rule is called
    Rows,         \* what enabled rows may say, a subset of AllRows
    Tables,       \* the contents of risk_rules when the process starts
    ScoreActions, \* the actions a score may ask for
    Admin,        \* concurrent requests to the admin API
    Poller,       \* the goroutine of pollLoop
    Evaluation,   \* concurrent calls of Engine.Evaluate
    MaxWrites     \* bound: number of edits committed

\* "other" stands for the values the column admits and no code knows.
AllActions == {"block", "escalate", "review", "other"}
AllRows == [name: Name, match: BOOLEAN, action: AllActions]

ASSUME RuleAssumption ==
    /\ RuleCount \in Nat /\ MaxWrites \in Nat
    /\ Rows \subseteq AllRows /\ NoName \notin Name
    /\ ScoreActions \subseteq AllActions \cup {"pass"}
    /\ Poller \notin Admin /\ "free" \notin Admin \cup {Poller}

Rule == 1..RuleCount
Off == [name |-> NoName, match |-> FALSE, action |-> "none"]
Body == Rows \cup {Off}

\* name VARCHAR(128) NOT NULL UNIQUE
Distinct(rs) ==
    \A r, s \in Rule: rs[r].name = rs[s].name /\ rs[r].name # NoName => r = s

ASSUME TableAssumption == Tables \subseteq {rs \in [Rule -> Body]: Distinct(rs)}

Loader == Admin \cup {Poller}

VARIABLES
    db,        \* risk_rules: the body of each rule
    version,   \* history: number of edits committed
    rules,     \* RuleEvaluator.rules
    loaded,    \* history: the version the rules were read at
    whole,     \* history: every row of it was read
    mutex,     \* who holds RuleEvaluator.mu, or "free"
    stopped,   \* stopCh is closed
    pc,        \* where each loader is
    wrote,     \* the version each admin request committed
    failed,    \* the load of each admin request did not read every row
    fetched,   \* the rows each loader has read, and their version
    at,        \* where each evaluation is
    hits,      \* the names of the rules that its first load saw hit
    verdict    \* its decision, at first what the score asks for

table == <<db, version>>
memory == <<rules, loaded, whole>>
loading == <<mutex, pc, wrote, failed, fetched>>
evaluating == <<at, hits, verdict>>
vars == <<table, memory, stopped, loading, evaluating>>

NoRules == [r \in Rule |-> Off]
Nothing == [rows |-> NoRules, version |-> 0, whole |-> FALSE]

Nobody == [r \in Rule |-> NoName]

\* What is read of the table when a row cannot be scanned and is skipped, or
\* the stream breaks and rows.Next ends the loop after n rows.
Broken(n) == {[r \in Rule |-> IF r <= n THEN db[r] ELSE Off],
              [r \in Rule |-> IF r # n THEN db[r] ELSE Off]}

\* NewRuleEvaluator: an empty set, then a first load, which may fail as any.
Init ==
    /\ db \in Tables /\ version = 0
    /\ \/ rules = db /\ whole = TRUE
       \/ rules \in {NoRules} \cup UNION {Broken(n): n \in 0..RuleCount} /\ whole = FALSE
    /\ loaded = 0
    /\ mutex = "free" /\ stopped = FALSE
    /\ pc = [p \in Loader |-> "idle"]
    /\ wrote = [p \in Admin |-> 0]
    /\ failed = [p \in Admin |-> FALSE]
    /\ fetched = [p \in Loader |-> Nothing]
    /\ at = [e \in Evaluation |-> "idle"]
    /\ hits = [e \in Evaluation |-> Nobody]
    /\ verdict = [e \in Evaluation |-> "pass"]

Go(p, from, to) == pc[p] = from /\ pc' = [pc EXCEPT ![p] = to]

-----------------------------------------------------------------------------
(* The admin API *)

Commit_NoReload(p, rows) ==
    /\ pc[p] = "idle" /\ version < MaxWrites
    /\ Distinct(rows) /\ db' = rows
    /\ version' = version + 1
    /\ wrote' = [wrote EXCEPT ![p] = version + 1]
    /\ pc' = [pc EXCEPT ![p] = "respond"]
    /\ UNCHANGED <<memory, stopped, mutex, failed, fetched, evaluating>>

Commit_Unchecked(p, rows) ==
    /\ pc[p] = "idle" /\ version < MaxWrites
    /\ wrote' = [wrote EXCEPT ![p] = version + 1]
    /\ pc' = [pc EXCEPT ![p] = "reload"]
    /\ UNCHANGED <<table, memory, stopped, mutex, failed, fetched, evaluating>>

\* The statement is committed and reported, or committed while its answer is
\* lost, which the handler answers with an error and without a reload.  The
\* row that auditLog adds is for people only, and its error is ignored.  One
\* that would give a name twice is refused.
Commit(p, rows) ==
    /\ pc[p] = "idle" /\ version < MaxWrites
    /\ Distinct(rows) /\ db' = rows
    /\ version' = version + 1
    /\ \/ /\ wrote' = [wrote EXCEPT ![p] = version + 1]
          /\ pc' = [pc EXCEPT ![p] = "reload"]
       \/ UNCHANGED <<wrote, pc>>
    /\ UNCHANGED <<memory, stopped, mutex, failed, fetched, evaluating>>

CreateRule(p) ==
    \E r \in Rule, b \in Body: db[r] = Off /\ Commit(p, [db EXCEPT ![r] = b])

\* An update may rename the rule, change its weight and so its place, disable
\* it, or enable it again.
UpdateRule(p) ==
    \E r, to \in Rule, b \in Body:
        /\ to = r \/ db[to] = Off
        /\ Commit(p, [db EXCEPT ![r] = Off, ![to] = b])

DeleteRule(p) == \E r \in Rule: Commit(p, [db EXCEPT ![r] = Off])

\* ReloadRules asks for a load without an edit.
ReloadRules(p) ==
    /\ Go(p, "idle", "reload")
    /\ UNCHANGED <<table, memory, stopped, mutex, wrote, failed, fetched,
                   evaluating>>

\* The handler answers; what it held is gone.
Respond(p) ==
    /\ Go(p, "respond", "idle")
    /\ wrote' = [wrote EXCEPT ![p] = 0]
    /\ failed' = [failed EXCEPT ![p] = FALSE]
    /\ UNCHANGED <<table, memory, stopped, mutex, fetched, evaluating>>

-----------------------------------------------------------------------------
(* RuleEvaluator *)

\* pollLoop: a tick of its ticker, or the closed channel.
Poll ==
    /\ Go(Poller, "idle", "reload")
    /\ UNCHANGED <<table, memory, stopped, mutex, wrote, failed, fetched,
                   evaluating>>

PollEnds ==
    /\ stopped
    /\ Go(Poller, "idle", "ended")
    /\ UNCHANGED <<table, memory, stopped, mutex, wrote, failed, fetched,
                   evaluating>>

Stop ==
    /\ ~stopped
    /\ stopped' = TRUE
    /\ UNCHANGED <<table, memory, loading, evaluating>>

Lock_Free(p) ==
    /\ Go(p, "reload", "query")
    /\ mutex' = p
    /\ UNCHANGED <<table, memory, stopped, wrote, failed, fetched, evaluating>>

\* loadRules waits for its mutex.
Lock(p) ==
    /\ Go(p, "reload", "query")
    /\ mutex = "free"
    /\ mutex' = p
    /\ UNCHANGED <<table, memory, stopped, wrote, failed, fetched, evaluating>>

Done(p) == IF p = Poller THEN "idle" ELSE "respond"

Failed(p) == IF p = Poller THEN failed ELSE [failed EXCEPT ![p] = TRUE]

QueryFails_Locked(p) ==
    /\ Go(p, "query", Done(p))
    /\ failed' = Failed(p)
    /\ UNCHANGED <<table, memory, stopped, mutex, wrote, fetched, evaluating>>

\* The query fails, or its five seconds are over: the rules stay.
QueryFails(p) ==
    /\ Go(p, "query", Done(p))
    /\ mutex' = "free"
    /\ failed' = Failed(p)
    /\ UNCHANGED <<table, memory, stopped, wrote, fetched, evaluating>>

\* The query reads a snapshot of the table, and the loop all of its rows.
ReadRows(p) ==
    /\ Go(p, "query", "store")
    /\ fetched' = [fetched EXCEPT ![p] = [rows |-> db, version |-> version, whole |-> TRUE]]
    /\ UNCHANGED <<table, memory, stopped, mutex, wrote, failed, evaluating>>

\* Nobody asks rows.Err.
ReadSome(p) ==
    /\ Go(p, "query", "store")
    /\ \E n \in 0..RuleCount: \E rows \in Broken(n):
        fetched' = [fetched EXCEPT ![p] =
                      [rows |-> rows, version |-> version, whole |-> FALSE]]
    /\ failed' = Failed(p)
    /\ UNCHANGED <<table, memory, stopped, mutex, wrote, evaluating>>

\* rules.Store, then the deferred Unlock.
StoreRules(p) ==
    /\ Go(p, "store", Done(p))
    /\ rules' = fetched[p].rows
    /\ loaded' = fetched[p].version /\ whole' = fetched[p].whole
    /\ fetched' = [fetched EXCEPT ![p] = Nothing]
    /\ mutex' = "free"
    /\ UNCHANGED <<table, stopped, wrote, failed, evaluating>>

-----------------------------------------------------------------------------
(* Engine.Evaluate *)

\* The names of the rules whose condition holds, at their places.
Hits(rs) == [r \in Rule |-> IF rs[r].match THEN rs[r].name ELSE NoName]

\* RuleEvaluator.Evaluate, the first load, when the scorers have given the
\* base action.
Hit(e) ==
    /\ at[e] = "idle"
    /\ \E a \in ScoreActions: verdict' = [verdict EXCEPT ![e] = a]
    /\ hits' = [hits EXCEPT ![e] = Hits(rules)]
    /\ at' = [at EXCEPT ![e] = "hit"]
    /\ UNCHANGED <<table, memory, stopped, loading>>

\* ruleMap: what the rule of that name asks for; one that is no longer there
\* asks for nothing.
ActionOf(name, rs) ==
    IF \E r \in Rule: rs[r].name = name
    THEN rs[CHOOSE r \in Rule: rs[r].name = name].action ELSE "none"

\* GetActionOverride: block wins, escalate replaces review, review comes
\* only first.
Prefer_Latest(so_far, action) == IF action \in {"block", "escalate", "review"}
                                   THEN action ELSE so_far

Prefer(so_far, action) ==
    CASE so_far = "block" \/ action = "block" -> "block"
      [] so_far # "block" /\ action = "escalate" -> "escalate"
      [] so_far = "none" /\ action = "review" -> "review"
      [] OTHER -> so_far

\* The hits in the order of their weights, each looked up in the rules rs.
Override(names, rs) ==
    LET upto[n \in 0..RuleCount] ==
            IF n = 0 THEN "none"
            ELSE IF names[n] # NoName THEN Prefer(upto[n - 1], ActionOf(names[n], rs))
            ELSE upto[n - 1]
    IN  upto[RuleCount]

\* The second load, and the decision.
Decide(e) ==
    /\ at[e] = "hit"
    /\ LET override == Override(hits[e], rules)
       IN  verdict' = [verdict EXCEPT ![e] =
                         IF override = "none" THEN @ ELSE override]
    /\ at' = [at EXCEPT ![e] = "decided"]
    /\ UNCHANGED <<table, memory, stopped, loading, hits>>

Finish(e) ==
    /\ at[e] = "decided"
    /\ at' = [at EXCEPT ![e] = "idle"]
    /\ hits' = [hits EXCEPT ![e] = Nobody]
    /\ verdict' = [verdict EXCEPT ![e] = "pass"]
    /\ UNCHANGED <<table, memory, stopped, loading>>

LoadRules(p) ==
    Lock(p) \/ QueryFails(p) \/ ReadRows(p) \/ ReadSome(p) \/ StoreRules(p)

Next ==
    \/ \E p \in Admin:
        CreateRule(p) \/ UpdateRule(p) \/ DeleteRule(p)
        \/ ReloadRules(p) \/ Respond(p)
    \/ Poll \/ PollEnds \/ Stop
    \/ \E p \in Loader: LoadRules(p)
    \/ \E e \in Evaluation: Hit(e) \/ Decide(e) \/ Finish(e)

Spec == Init /\ [][Next]_vars

\* The ticker fires, a mutex is handed to every waiter in the end
\* (sync.Mutex's starvation mode), a query ends within five seconds, and
\* PostgreSQL does not fail the poller for ever.
Fairness ==
    /\ WF_vars(Poll)
    /\ \A p \in Loader: SF_vars(Lock(p)) /\ WF_vars(LoadRules(p))
    /\ SF_vars(ReadRows(Poller))

FairSpec == Spec /\ Fairness

-----------------------------------------------------------------------------
(* What is claimed *)

TypeOK ==
    /\ db \in [Rule -> Body] /\ rules \in [Rule -> Body]
    /\ version \in 0..MaxWrites /\ loaded \in 0..version /\ whole \in BOOLEAN
    /\ mutex \in Loader \cup {"free"} /\ stopped \in BOOLEAN
    /\ pc \in [Loader -> {"idle", "reload", "query", "store",
                          "respond", "ended"}]
    /\ wrote \in [Admin -> 0..version] /\ failed \in [Admin -> BOOLEAN]
    /\ fetched \in [Loader -> [rows: [Rule -> Body], version: 0..version, whole: BOOLEAN]]
    /\ at \in [Evaluation -> {"idle", "hit", "decided"}]
    /\ hits \in [Evaluation -> [Rule -> Name \cup {NoName}]]
    /\ verdict \in [Evaluation -> AllActions \cup {"pass"}]

\* However the poller's loads and the administrators' interleave, the rules
\* in memory are never replaced by ones read earlier: query and swap are one
\* critical section (rules.go:204-237).
NeverOlder == [][loaded' >= loaded]_vars

\* An administrator who is told "created", "updated" or "deleted" can rely
\* on it: the rules in memory were read after that edit, unless the reload
\* failed, and they are the table's if nothing was edited since
\* (admin.go:333-411).
AcknowledgedIsLive ==
    \A p \in Admin: pc[p] = "respond" /\ ~failed[p] =>
        /\ loaded >= wrote[p]
        /\ loaded = version /\ whole => rules = db

\* Whatever edits, failed loads and truncated loads there were, the rules in
\* memory agree with the table again and again, as long as pollLoop runs
\* (rules.go:239-250).
RulesCatchUp == []<>(rules = db \/ stopped)

\* An evaluation that no reload disturbs decides what the severest rule that
\* hits asks for, and otherwise what the score asks for.  When a reload comes
\* between its two loads, each name that hit speaks through the rule that now
\* has it: one that was renamed or deleted is silent, one that changed, or took
\* the name over, counts as it now is (rules.go:71-121).
VerdictIsGrounded ==
    [][\A e \in Evaluation: at[e] = "hit" /\ at'[e] = "decided" =>
        LET names == {hits[e][r]: r \in Rule} \ {NoName}
            asked == {rules[r].action: r \in {i \in Rule: rules[i].name \in names}}
                       \cap {"block", "escalate", "review"}
        IN  /\ asked = {} => verdict'[e] = verdict[e]
            /\ "block" \in asked => verdict'[e] = "block"
            /\ "block" \notin asked /\ "escalate" \in asked
                 => verdict'[e] = "escalate"
            /\ asked = {"review"} => verdict'[e] = "review"]_vars

-----------------------------------------------------------------------------
(* What the documents say *)

\* architecture.md:105: without PostgreSQL the loading of rules is skipped, so
\* no outage takes a rule out of memory that is in the table.
OutageKeepsRules ==
    [][\A r \in Rule: rules[r] # Off /\ rules'[r] = Off /\ loaded' = version
         => db[r] = Off]_vars

=============================================================================
