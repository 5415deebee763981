----------------------------- MODULE Mutations ------------------------------
(***************************************************************************)
(* The write mutations of the GraphQL API (insert, update, delete and      *)
(* insertBatch on StarRocks): admission, statement, execution, audit and   *)
(* cache invalidation, while the switch mutations.enabled is reloaded.     *)
(*                                                                         *)
(* The arguments of a call are one record: the rows are those of a batch,  *)
(* the one row of an insert, or the SET values of an update; a filter has  *)
(* its values and says whether they came as a list.  A statement keeps     *)
(* its placeholders and its parameters apart: the driver binds them by     *)
(* position.                                                               *)
(***************************************************************************)
EXTENDS HotReload, Integers, Sequences, SequencesExt

CONSTANTS
    Threads,         \* requests served at once
    Workloads,       \* what happens around them: [args, edits, audit]
    Null,            \* JSON's and SQL's null; a caller without identity
    BadNames,        \* names that are no identifiers
    WritableTables,  \* writable_tables: table |-> [columns, operations]
    ReadableTables,  \* allowed_tables: table |-> columns
    MutationSource,  \* mutations.datasource_name
    MaxBatchSize,    \* mutations.max_batch_size
    MaxSQLLength,    \* mutations.max_sql_length, in words
    MaxAffectedRows  \* mutations.max_affected_rows

NullTests == {"IS_NULL", "IS_NOT_NULL"}
Memberships == {"IN", "NOT_IN"}
Comparisons == {"EQ", "NEQ", "GT", "GTE", "LT", "LTE", "LIKE"}

\* The data are numbers and null.  A comparison has one value.
Values == Int \cup {Null}
MutationFilterInput ==
    {f \in [field : STRING, op : NullTests \cup Memberships \cup Comparisons,
            vals : Seq(Values), list : BOOLEAN] :
        f.op \in Comparisons => Len(f.vals) = 1}

\* What the schema of the API makes of the arguments: an insert has one row,
\* and the SET of an update, pairs of a column and a value, another.
WellFormed(a) ==
    /\ DOMAIN a = {"op", "table", "cols", "rows", "filters", "who"}
    /\ a.op \in {"insert", "update", "delete", "insertBatch"}
    /\ a.cols \in Seq(STRING) /\ a.rows \in Seq(Seq(Values))
    /\ a.filters \in Seq(MutationFilterInput)
    /\ a.op \in {"insert", "update"} => Len(a.rows) = 1
    /\ a.op = "update" => Len(a.rows[1]) = Len(a.cols)

ASSUME MutationConstants ==
    /\ \A w \in Workloads : /\ w.edits \in 0..MaxEdits /\ w.audit \in BOOLEAN
                            /\ \A a \in w.args : WellFormed(a)
    /\ MaxBatchSize \in Nat /\ MaxSQLLength \in Nat /\ MaxAffectedRows \in Nat

VARIABLES
    clients,   \* the arguments clients send
    auditing,  \* the audit log is on: logging.audit.enabled
    built,     \* the mutation components exist: enabled when the process started
    call       \* the resolver calls

mutationVars == <<clients, auditing, built, call>>

NoStatement ==
    [verb |-> "none", table |-> "none", cols |-> <<>>, marks |-> 0, where |-> <<>>,
     params |-> <<>>]
NoCall == [step |-> "idle", arg |-> Null, stmt |-> NoStatement,
           applied |-> FALSE, log |-> <<>>, answer |-> "none"]

-----------------------------------------------------------------------------
(* Start-up                                                                *)

ValidateIdentifier(name) == name \notin BadNames

\* Every table and column is named properly and every operation known; a
\* table without allowed_operations takes all three.
ParseWritableTables(tables) ==
    \A t \in DOMAIN tables :
        /\ ValidateIdentifier(t)
        /\ tables[t].columns # {} /\ tables[t].operations # {}
        /\ \A c \in tables[t].columns : ValidateIdentifier(c)
        /\ tables[t].operations \subseteq {"insert", "update", "delete"}

ValidateWritableSubset(writable, allowed) ==
    \A t \in DOMAIN writable :
        t \in DOMAIN allowed /\ writable[t].columns \subseteq allowed[t]

\* With mutations enabled a bad whitelist ends the process; without them
\* nothing is parsed and no component built.
MutationInit ==
    /\ HotInit
    /\ built = enabled
    /\ built => /\ ParseWritableTables(WritableTables)
                /\ ValidateWritableSubset(WritableTables, ReadableTables)
    /\ \E w \in Workloads :
          clients = w.args /\ edits = w.edits /\ auditing = w.audit
    /\ call = [t \in Threads |-> NoCall]

-----------------------------------------------------------------------------
(* Admission                                                               *)

\* A null test drops its value; IN and NOT IN take a list with something in
\* it, the other operators a value that is not null.
convertMutationFilter(f) ==
    [f EXCEPT !.vals = IF f.op \in NullTests THEN <<>> ELSE f.vals]
FilterConverts(f) ==
    \/ f.op \in NullTests
    \/ f.op \in Memberships /\ f.list /\ f.vals # <<>>
    \/ f.op \in Comparisons /\ f.vals # <<Null>>

convertMutationFilters(fs) == [i \in DOMAIN fs |-> convertMutationFilter(fs[i])]
Converted(a) == [a EXCEPT !.filters = convertMutationFilters(@)]
FiltersConvert(fs) == \A i \in DOMAIN fs : FilterConverts(fs[i])

\* The token's operations, and its sources when it names any.
checkMutationAuth(who) ==
    /\ who # Null
    /\ "mutation" \in who.operations
    /\ who.sources = {} \/ MutationSource \in who.sources

ValidateMutationIdentifier(name) == name \notin BadNames

FilterFields(a) == {a.filters[i].field : i \in DOMAIN a.filters}

ValidateInsertInput(a) ==
    /\ ValidateMutationIdentifier(a.table)
    /\ a.rows[1] # <<>> /\ Len(a.cols) = Len(a.rows[1])
    /\ \A c \in ToSet(a.cols) : ValidateMutationIdentifier(c)

ValidateUpdateInput(a) ==
    /\ ValidateMutationIdentifier(a.table)
    /\ a.cols # <<>> /\ a.filters # <<>>
    /\ \A c \in ToSet(a.cols) \cup FilterFields(a) :
           ValidateMutationIdentifier(c)

ValidateDeleteInput(a) ==
    /\ ValidateMutationIdentifier(a.table)
    /\ a.filters # <<>>
    /\ \A c \in FilterFields(a) : ValidateMutationIdentifier(c)

\* A batch of no rows passes.
ValidateBatchInsertInput(a) ==
    /\ ValidateMutationIdentifier(a.table)
    /\ Len(a.rows) <= MaxBatchSize
    /\ a.cols # <<>>
    /\ \A c \in ToSet(a.cols) : ValidateMutationIdentifier(c)
    /\ \A i \in DOMAIN a.rows : Len(a.rows[i]) = Len(a.cols)

InputValid(a) ==
    CASE a.op = "insert" -> ValidateInsertInput(a)
      [] a.op = "update" -> ValidateUpdateInput(a)
      [] a.op = "delete" -> ValidateDeleteInput(a)
      [] a.op = "insertBatch" -> ValidateBatchInsertInput(a)

\* The operation of the whitelist: a batch is an insert.
Operation(a) == IF a.op = "insertBatch" THEN "insert" ELSE a.op

ValidateTable(a) == a.table \in DOMAIN WritableTables
ValidateOperation(a) == Operation(a) \in WritableTables[a.table].operations
ValidateWriteColumns(a) == ToSet(a.cols) \subseteq WritableTables[a.table].columns
ValidateFilterColumns(a) == FilterFields(a) \subseteq ReadableTables[a.table]

Whitelisted(a) ==
    /\ ValidateTable(a) /\ ValidateOperation(a) /\ ValidateWriteColumns(a)
    /\ ValidateFilterColumns(a)

\* Without components the first check that needs one dereferences a nil
\* pointer: the limits of a batch, or the whitelist.
Panics(a) ==
    ~built /\ IF a.op = "insertBatch" THEN ValidateMutationIdentifier(a.table)
              ELSE InputValid(a)

-----------------------------------------------------------------------------
(* The statement                                                           *)

\* The placeholders of a test, and what a WHERE clause has of them.
Marks(f) == CASE f.op \in NullTests -> 0
              [] f.op \in Memberships -> Len(f.vals)
              [] f.op \in Comparisons -> 1
Where(fs) ==
    [i \in DOMAIN fs |-> [field |-> fs[i].field, op |-> fs[i].op,
                          marks |-> Marks(fs[i])]]
WhereMarks(fs) == SumFunction([i \in DOMAIN fs |-> Marks(fs[i])])
WhereParams(fs) == FlattenSeq([i \in DOMAIN fs |-> fs[i].vals])

BuildInsert(a) ==
    [verb |-> "insert", table |-> a.table, cols |-> a.cols,
     marks |-> Len(a.rows[1]), where |-> <<>>, params |-> a.rows[1]]

\* Mutant: the WHERE parameters are bound before those of SET.
BuildUpdate_WhereFirst(a) ==
    [verb |-> "update", table |-> a.table, cols |-> a.cols,
     marks |-> Len(a.cols) + WhereMarks(a.filters), where |-> Where(a.filters),
     params |-> WhereParams(a.filters) \o a.rows[1]]

BuildUpdate(a) ==
    [verb |-> "update", table |-> a.table, cols |-> a.cols,
     marks |-> Len(a.cols) + WhereMarks(a.filters), where |-> Where(a.filters),
     params |-> a.rows[1] \o WhereParams(a.filters)]

BuildDelete(a) ==
    [verb |-> "delete", table |-> a.table, cols |-> <<>>,
     marks |-> WhereMarks(a.filters), where |-> Where(a.filters), params |-> WhereParams(a.filters)]

BuildBatchInsert(a) ==
    [verb |-> "insert", table |-> a.table, cols |-> a.cols,
     marks |-> Len(a.rows) * Len(a.cols), where |-> <<>>, params |-> FlattenSeq(a.rows)]

BuildStatement(a) ==
    CASE a.op = "insert" -> BuildInsert(a)
      [] a.op = "update" -> BuildUpdate(a)
      [] a.op = "delete" -> BuildDelete(a)
      [] a.op = "insertBatch" -> BuildBatchInsert(a)

\* The length of a statement, counted in names and placeholders.
ValidateSQLLength(s) == Len(s.cols) + Len(s.where) + s.marks <= MaxSQLLength

-----------------------------------------------------------------------------
(* The call                                                                *)

\* Nothing is written without a logger, or by a disabled one.
logMutationAudit(c, entries) == IF auditing THEN c.log \o entries ELSE c.log

\* The call ends with an error; audit is what it has to log, if anything.
Refuse(t, answer, audit) ==
    /\ call' = [call EXCEPT ![t].step = "answered", ![t].answer = answer,
                            ![t].log = logMutationAudit(call[t], audit)]
    /\ UNCHANGED <<reloadVars, clients, auditing, built>>

Arrive(t) ==
    /\ call[t].step = "idle"
    /\ \E a \in clients :
          call' = [call EXCEPT ![t] = [NoCall EXCEPT !.step = "called",
                                                     !.arg = a]]
    /\ UNCHANGED <<reloadVars, clients, auditing, built>>

\* Update and delete convert their filters before anything else, insertBatch
\* compares its size: both failures are audited, whoever the caller is.
MalformedCall(a) ==
    \/ a.op \in {"update", "delete"} /\ ~FiltersConvert(a.filters)
    \/ a.op = "insertBatch" /\ enabled /\ Len(a.rows) > MaxBatchSize

RefuseMalformed(t) ==
    /\ call[t].step = "called" /\ MalformedCall(call[t].arg)
    /\ Refuse(t, "invalid", <<"validation_failed">>)

\* The switch is read once, here, for the rest of the call.
Gate(a) == ~MalformedCall(a) /\ enabled

RefuseDisabled(t) ==
    /\ call[t].step = "called"
    /\ ~MalformedCall(call[t].arg) /\ ~enabled
    /\ Refuse(t, "disabled", <<>>)

\* The limiter of mutations exists with the other components.
RefuseLimited(t) ==
    /\ call[t].step = "called" /\ Gate(call[t].arg) /\ built
    /\ Refuse(t, "limited", <<>>)

RefuseCaller(t) ==
    /\ call[t].step = "called" /\ Gate(call[t].arg)
    /\ ~checkMutationAuth(call[t].arg.who)
    /\ Refuse(t, "denied", <<"authorization_denied">>)

Authorized(t) ==
    /\ call[t].step = "called" /\ Gate(call[t].arg)
    /\ checkMutationAuth(call[t].arg.who)

\* gqlgen recovers the panic and answers an internal error.
PanicInside(t) ==
    /\ Authorized(t) /\ Panics(call[t].arg)
    /\ Refuse(t, "internal", <<>>)

RefuseInvalid(t) ==
    /\ Authorized(t) /\ ~Panics(call[t].arg)
    /\ ~(InputValid(call[t].arg) /\ Whitelisted(call[t].arg))
    /\ Refuse(t, "invalid", <<"validation_failed">>)

Admitted(t) ==
    /\ Authorized(t) /\ built
    /\ InputValid(call[t].arg) /\ Whitelisted(call[t].arg)

\* No such source, or it is down, or it takes no writes.
SourceUnavailable(t) ==
    /\ Admitted(t)
    /\ Refuse(t, "failed", <<"execution_failed">>)

StatementTooLong(t) ==
    /\ Admitted(t)
    /\ ~ValidateSQLLength(BuildStatement(Converted(call[t].arg)))
    /\ Refuse(t, "invalid", <<"execution_failed">>)

\* The statement is on its way to the adapter.
BeginWrite(t) ==
    /\ Admitted(t)
    /\ LET s == BuildStatement(Converted(call[t].arg)) IN
       /\ ValidateSQLLength(s)
       /\ call' = [call EXCEPT ![t].step = "writing", ![t].stmt = s]
    /\ UNCHANGED <<reloadVars, clients, auditing, built>>

\* ExecuteWrite is never retried.  It fails before the database has seen the
\* statement (no connection, open breaker, an error of the statement) or
\* after it was applied (a lost answer, no count of affected rows).  VALUES
\* without rows is a syntax error.
ExecuteFails(t) ==
    /\ call[t].step = "writing"
    /\ \E applied \in {FALSE, call[t].stmt.marks > 0 \/ call[t].stmt.where # <<>>} :
          call' = [call EXCEPT ![t].step = "answered",
                      ![t].applied = applied, ![t].answer = "failed",
                      ![t].log = logMutationAudit(call[t], <<"execution_failed">>)]
    /\ UNCHANGED <<reloadVars, clients, auditing, built>>

ExecuteWrite(t) ==
    /\ call[t].step = "writing"
    /\ call[t].stmt.marks > 0 \/ call[t].stmt.where # <<>>
    /\ call' = [call EXCEPT ![t].step = "written", ![t].applied = TRUE]
    /\ UNCHANGED <<reloadVars, clients, auditing, built>>

checkAffectedRowsWarning(affected) == affected > MaxAffectedRows

\* Mutant: the entry is left to the end of the call, which never writes it.
AuditSuccess_Skipped(t) ==
    /\ call[t].step = "written"
    /\ call' = [call EXCEPT ![t].step = "audited", ![t].answer = "ok"]
    /\ UNCHANGED <<reloadVars, clients, auditing, built>>

\* The warning about many rows goes with the answer.
AuditSuccess(t) ==
    /\ call[t].step = "written"
    /\ \E affected \in {MaxAffectedRows, MaxAffectedRows + 1} :
          call' = [call EXCEPT ![t].step = "audited",
                      ![t].log = logMutationAudit(call[t], <<"success">>),
                      ![t].answer = IF checkAffectedRowsWarning(affected)
                                    THEN "warned" ELSE "ok"]
    /\ UNCHANGED <<reloadVars, clients, auditing, built>>

\* The answer is a success whether ClearByDatasource works or its error is
\* logged.  What it clears in the cache, CachedReads says: the entries under
\* the source's prefix, which template results are not.
invalidateCacheAfterMutation(t) ==
    /\ call[t].step = "audited"
    /\ call' = [call EXCEPT ![t].step = "answered"]
    /\ UNCHANGED <<reloadVars, clients, auditing, built>>

EndCall(t) ==
    /\ call[t].step = "answered"
    /\ call' = [call EXCEPT ![t] = NoCall]
    /\ UNCHANGED <<reloadVars, clients, auditing, built>>

ThreadStep(t) ==
    \/ RefuseMalformed(t) \/ RefuseDisabled(t) \/ RefuseLimited(t)
    \/ RefuseCaller(t) \/ PanicInside(t) \/ RefuseInvalid(t)
    \/ SourceUnavailable(t) \/ StatementTooLong(t) \/ BeginWrite(t)
    \/ ExecuteFails(t) \/ ExecuteWrite(t) \/ AuditSuccess(t)
    \/ invalidateCacheAfterMutation(t)

MutationNext ==
    \/ HotNext /\ UNCHANGED mutationVars
    \/ \E t \in Threads : Arrive(t) \/ ThreadStep(t) \/ EndCall(t)

\* Timers fire, goroutines run, and the request timeout ends every write.
MutationFairness ==
    /\ WF_reloadVars(WatchEvent)
    /\ \A r \in Reloads : WF_reloadVars(DebounceOver(r)) /\ WF_reloadVars(ReloadStep(r))
    /\ \A t \in Threads : WF_call(ThreadStep(t))

MutationSpec ==
    MutationInit /\ [][MutationNext]_<<reloadVars, mutationVars>> /\ MutationFairness

-----------------------------------------------------------------------------
(* Properties                                                              *)

Compare(op, v, w) ==
    v # Null /\ w # Null /\
    CASE op = "EQ" -> v = w [] op = "NEQ" -> v # w [] op = "LIKE" -> v = w
      [] op = "GT" -> v > w [] op = "GTE" -> v >= w
      [] op = "LT" -> v < w [] op = "LTE" -> v <= w

\* SQL: whether a cell satisfies a test with these arguments.
Satisfies(v, op, args) ==
    CASE op = "IS_NULL" -> v = Null
      [] op = "IS_NOT_NULL" -> v # Null
      [] op = "IN" -> v # Null /\ v \in ToSet(args)
      [] op = "NOT_IN" -> v # Null /\ Null \notin ToSet(args) /\ v \notin ToSet(args)
      [] OTHER -> Compare(op, v, args[1])

\* The parameters the driver binds to the i-th test of a statement.
Bound(s, i) ==
    LET marks == [j \in DOMAIN s.where |-> s.where[j].marks]
        before == Len(s.cols) + SumFunctionOnSet(marks, 1 .. i - 1)
    IN SubSeq(s.params, before + 1, before + s.where[i].marks)

\* The i-th row of values a statement writes: one parameter for each column.
Assigned(s, i) ==
    SubSeq(s.params, (i - 1) * Len(s.cols) + 1, (i - 1) * Len(s.cols) + Len(s.cols))

\* What a column of a table may hold, and the rows a table may have.
CellValues == {1, 2, Null}
TableRows(table) == [ReadableTables[table] -> CellValues]

\* The rows a statement touches, and those its caller means.
Touched(s, row) ==
    \A i \in DOMAIN s.where :
        Satisfies(row[s.where[i].field], s.where[i].op, Bound(s, i))
Meant(a, row) ==
    \A i \in DOMAIN a.filters :
        Satisfies(row[a.filters[i].field], a.filters[i].op, a.filters[i].vals)

\* The statement is of the kind and on the table asked for, binds as many
\* parameters as it has placeholders, writes the columns named, which are
\* writable, and every row of values given; an update or delete has a WHERE
\* clause on readable columns, and touches exactly the rows of the table that
\* satisfy every filter.
DoesWhatWasAsked(s, a) ==
    /\ a.table \in DOMAIN WritableTables /\ s.table = a.table
    /\ Operation(a) \in WritableTables[a.table].operations /\ s.verb = Operation(a)
    /\ Len(s.params) = s.marks
    /\ a.op # "delete" =>
          /\ s.cols = a.cols /\ ToSet(s.cols) \subseteq WritableTables[a.table].columns
          /\ \A i \in DOMAIN a.rows : Assigned(s, i) = a.rows[i]
    /\ a.op \in {"update", "delete"} =>
          /\ s.where # <<>>
          /\ \A i \in DOMAIN s.where : s.where[i].field \in ReadableTables[a.table]
          /\ \A row \in TableRows(a.table) : Touched(s, row) <=> Meant(a, row)

\* What reaches the database is what the client asked for
\* (buildMutationWhereClause, the four builders and the whitelist).
StatementsDoWhatWasAsked ==
    \A t \in Threads :
        call[t].step \in {"writing", "written", "audited"} =>
            DoesWhatWasAsked(call[t].stmt, call[t].arg)

\* Where the audit log is on, it tells the truth about every call that has
\* ended: one entry at most, "success" exactly when the client was told so, and
\* never without the write; and no write reaches the database without an entry.
AuditTellsTheTruth ==
    \A t \in Threads :
        LET c == call[t] IN
        auditing /\ c.step = "answered" =>
            /\ Len(c.log) <= 1
            /\ (c.log = <<"success">>) <=> (c.answer \in {"ok", "warned"})
            /\ c.log = <<"success">> => c.applied
            /\ c.applied => c.log # <<>>

\* The switch has settled on what the file says; where that is off, the writes
\* under way have come to an end.
SettledOn(c) ==
    /\ enabled = (c = "on")
    /\ c # "on" => \A t \in Threads : call[t].step # "writing"

\* Once the file says "on", or anything else readable, for good, the switch
\* settles on it (watchLoop, reload, the callback), provided that the last
\* change was an edit in place and no two reloads have overlapped.  A value from
\* the environment stands until the first reload that finds a change.
SwitchFollowsFile ==
    \A c \in Readable :
        /\ <>[](file = c /\ watching /\ named /\ ~overlapped)
        /\ override = "none" \/ <>(snapshot # c)
        => <>[]SettledOn(c)

\* "This allows toggling mutations on/off without restart": no call of an
\* authorised client ends in an internal error.
ToggledMutationsWork ==
    \A t \in Threads : call[t].answer # "internal"

-----------------------------------------------------------------------------
(* Inductive invariant                                                     *)

Steps == {"idle", "called", "writing", "written", "audited", "answered"}
OnTheirWay == {"writing", "written", "audited"}
Refusals == {"invalid", "disabled", "limited", "denied", "internal", "failed"}
Failures == {"validation_failed", "authorization_denied", "execution_failed"}

Calls ==
    [step : Steps, arg : clients \cup {Null},
     stmt : {NoStatement} \cup {BuildStatement(Converted(a)) : a \in clients},
     applied : BOOLEAN,
     log : {<<>>, <<"success">>} \cup {<<f>> : f \in Failures},
     answer : {"none", "ok", "warned"} \cup Refusals]

MutationTypeOK ==
    (\E w \in Workloads : clients = w.args /\ auditing = w.audit) /\ call \in [Threads -> Calls]

\* A statement that goes to the database comes from a caller who may write,
\* with arguments that passed every check, and is the one built from them; the
\* whitelist was parsed, whatever the switch says by now.
OnlyAdmittedWrites ==
    \A t \in Threads :
        LET a == call[t].arg  s == call[t].stmt IN
        call[t].step \in OnTheirWay =>
            /\ built /\ checkMutationAuth(a.who)
            /\ InputValid(a) /\ Whitelisted(a)
            /\ a.op \in {"update", "delete"} => FiltersConvert(a.filters)
            /\ s = BuildStatement(Converted(a)) /\ ValidateSQLLength(s)

\* What the log and the answer say while the call is under way.
AuditSoFar ==
    \A t \in Threads :
        LET c == call[t] IN
        /\ c.step # "idle" => c.arg \in clients
        /\ c.step \in {"idle", "called", "writing"} => c.log = <<>> /\ ~c.applied
        /\ c.step = "written" => c.log = <<>> /\ c.applied
        /\ c.step = "audited" =>
              /\ c.log = IF auditing THEN <<"success">> ELSE <<>>
              /\ c.applied /\ c.answer \in {"ok", "warned"}

MutationInv ==
    MutationTypeOK /\ OnlyAdmittedWrites /\ AuditSoFar /\ AuditTellsTheTruth
=============================================================================
