------------------------------- MODULE Session -------------------------------
(***************************************************************************)
(* A connection that executes queries, one at a time or in pipeline mode,  *)
(* with its cache of prepared statements and the server at the other end   *)
(* (psycopg/_cursor_base.py, _pipeline_base.py, generators.py).            *)
(*                                                                         *)
(* In pipeline mode a command is queued with an entry for its result; the  *)
(* client sends commands and reads results in the same loop, and the       *)
(* server answers when it likes: an error makes it skip everything up to   *)
(* the next sync.  Out of it a query is one round trip.  The connection is *)
(* in autocommit mode; its lock keeps other threads out meanwhile.         *)
(***************************************************************************)
EXTENDS Prepared, FiniteSets

CONSTANTS
    Queries,            \* keys of the cache: queries with their types
    Droppers,           \* those that DROP something, or ROLLBACK
    Empties,            \* those without a statement: '', or a comment alone
    Flags,              \* arguments prepare used: "auto", "always", "never"
    MaxLevel,           \* bound: nesting of pipeline()
    MaxNames,           \* bound: statement names given
    MaxErrors,          \* bound: errors of the server
    MaxPending          \* bound: results waited for

ASSUME SessionAssumption ==
    /\ Droppers \subseteq Queries
    /\ Empties \subseteq Queries \ Droppers
    /\ Flags \subseteq {"auto", "always", "never"}
    /\ MaxLevel \in Nat /\ MaxNames \in Nat /\ MaxErrors \in Nat /\ MaxPending \in Nat

VARIABLES
    cache,          \* conn._prepared
    level,          \* pipeline.level, 0 out of pipeline mode
    commands,       \* pipeline.command_queue
    pending,        \* pipeline.result_queue
    wire,           \* commands sent, not executed yet
    inbox,          \* results of the server not processed yet
    server,         \* names of the statements prepared on the server
    aborted,        \* the server skips commands up to the next sync
    errors,         \* errors of the server so far
    pc,             \* "idle", "communicate", "process" or "fetch"
    op,             \* the operation under way, "none" if idle
    fetched,        \* results fetched by _communicate_gen(), to process
    failed,         \* _communicate_gen() or _fetch_gen() will raise
    trouble,        \* history: an error, or a DROP in a pipeline, was seen
    missed,         \* history: queries evicted before their result, which was bad
    forgotten       \* history: statements of empty queries, not in the cache any more

pipeVars == <<commands, pending>>
netVars == <<wire, inbox>>
serverVars == <<server, aborted, errors>>
pcVars == <<pc, op, fetched, failed>>
histVars == <<trouble, missed, forgotten>>
vars == <<cache, level, pipeVars, netVars, serverVars, pcVars, histVars>>

-----------------------------------------------------------------------------
(* Commands, and the entries of result_queue *)

Command(what, k, name) == [what |-> what, key |-> k, name |-> name]

Sync == Command("sync", All, All)
Deallocate(name) ==
    Command(IF name = All THEN "deallocate" ELSE "close", All, name)

\* An entry remembers the command, to state what it should be matched with;
\* prep is "none" if validate() is not to be called
Entry(cmd, prep) == [cmd |-> cmd, prep |-> prep]
Plain(cmd) == Entry(cmd, "none")

Enqueue(cmds, entries) ==
    /\ commands' = commands \o cmds
    /\ pending' = pending \o entries

Init ==
    /\ cache = NewCache
    /\ level = 0
    /\ commands = <<>> /\ pending = <<>> /\ wire = <<>> /\ inbox = <<>>
    /\ server = {} /\ aborted = FALSE /\ errors = 0
    /\ pc = "idle" /\ op = "none" /\ fetched = 0 /\ failed = FALSE
    /\ trouble = FALSE /\ missed = 0 /\ forgotten = {}

-----------------------------------------------------------------------------
(* Out of pipeline mode *)

\* The result of a query that does not fail
Success(k) == CASE k \in Droppers -> "drop" [] k \in Empties -> "empty" [] OTHER -> "ok"

\* What the server may answer to the execution of a query.  Several statements
\* in a query can be executed only if it is not prepared.
Outcomes(k, prep, name) ==
    {"error"}
        \cup (IF prep = "yes" /\ name \notin server THEN {} ELSE {Success(k)})
        \cup (IF prep = "no" /\ k \notin Empties
              THEN {IF k \in Droppers THEN "multidrop" ELSE "multi"} ELSE {})
        \cup (IF prep = "no" /\ k \in Droppers THEN {"dropfail"} ELSE {})

\* The statements validate() removes from the cache, and does not deallocate,
\* because the result of the query is that it is empty
Lost(before, after, out) ==
    IF out = "empty" THEN Values(before.names) \ Values(after.names) ELSE {}

Flushed(flush, stmts) ==
    IF \E i \in DOMAIN flush : flush[i] = All THEN {}
    ELSE stmts \ {flush[i] : i \in DOMAIN flush}

\* execute(): prepare if needed, execute, update the cache, then deallocate
\* what is to be.  An error skips the rest.
Execute(k, flag) ==
    LET prep == Get(cache, k, flag)
        name == NameOf(cache, k, prep)
        p == NextName(cache, prep)
        stmts == server \cup (IF prep = "should" THEN {name} ELSE {})
    IN  /\ pc = "idle" /\ level = 0
        /\ p.idx <= MaxNames
        /\ \E out \in Outcomes(k, prep, name) :
              LET added == MaybeAdd(p, k, prep, name)
                  q == IF IsNew(p, k) THEN Validate(added, k, prep, out) ELSE added
              IN  /\ errors' = IF Raises(out) THEN errors + 1 ELSE errors
                  /\ trouble' = (trouble \/ Raises(out))
                  /\ forgotten' = forgotten \cup Lost(added, q, out)
                  /\ IF Raises(out)
                     THEN cache' = q /\ server' = stmts
                     ELSE /\ cache' = [q EXCEPT !.flush = <<>>]
                          /\ server' = Flushed(q.flush, stmts)
        /\ errors' <= MaxErrors
        /\ UNCHANGED <<level, pipeVars, netVars, aborted, pcVars, missed>>

\* ... the query can't be prepared: the cache is not updated
PrepareFails(k, flag) ==
    /\ pc = "idle" /\ level = 0
    /\ Get(cache, k, flag) = "should"
    /\ errors < MaxErrors /\ cache.idx < MaxNames
    /\ errors' = errors + 1 /\ trouble' = TRUE
    /\ cache' = NextName(cache, "should")
    /\ UNCHANGED <<level, pipeVars, netVars, server, aborted, pcVars, missed, forgotten>>

-----------------------------------------------------------------------------
(* Pipeline mode *)

Start(what) == pc' = "communicate" /\ op' = what

\* execute(): queue the commands, then communicate
PipelineExecute(k, flag) ==
    LET prep == Get(cache, k, flag)
        name == NameOf(cache, k, prep)
        p == NextName(cache, prep)
        prepare == Command("prepare", k, name)
        run == Command(IF prep = "no" THEN "query" ELSE "execute", k, name)
        entry == Entry(run, IF IsNew(p, k) THEN prep ELSE "none")
    IN  /\ pc = "idle" /\ level > 0
        /\ p.idx <= MaxNames
        /\ Len(pending) + (IF prep = "should" THEN 2 ELSE 1) <= MaxPending
        /\ cache' = MaybeAdd(p, k, prep, name)
        /\ IF prep = "should"
           THEN Enqueue(<<prepare, run>>, <<Plain(prepare), entry>>)
           ELSE Enqueue(<<run>>, <<entry>>)
        /\ Start("execute")
        /\ UNCHANGED <<level, netVars, serverVars, fetched, failed, histVars>>

\* mutant: the result of a sync is not expected
EnqueueSync_NoResult == Enqueue(<<Sync>>, <<>>)

EnqueueSync == Enqueue(<<Sync>>, <<Plain(Sync)>>)

\* sync()
PipelineSync ==
    /\ pc = "idle" /\ level > 0
    /\ Len(pending) < MaxPending
    /\ EnqueueSync
    /\ Start("sync")
    /\ UNCHANGED <<cache, level, netVars, serverVars, fetched, failed, histVars>>

\* __enter__(): sync first if a pipeline is open and something is going on.
\* Also a transaction that is not seen here may be active.
PipelineEnter ==
    /\ pc = "idle" /\ level < MaxLevel
    /\ \/ /\ level = 0 \/ commands = <<>>
          /\ level' = level + 1
          /\ UNCHANGED <<pipeVars, pcVars>>
       \/ /\ level > 0 /\ Len(pending) < MaxPending
          /\ EnqueueSync
          /\ Start("enter")
          /\ UNCHANGED <<level, fetched, failed>>
    /\ UNCHANGED <<cache, netVars, serverVars, histVars>>

\* __exit__(): sync, and fetch all there is whatever happens
PipelineExit ==
    /\ pc = "idle" /\ level > 0
    /\ EnqueueSync
    /\ Start("exit")
    /\ UNCHANGED <<cache, level, netVars, serverVars, fetched, failed, histVars>>

\* pipeline_communicate(): send a command ...
Send ==
    /\ pc = "communicate"
    /\ commands # <<>>
    /\ wire' = Append(wire, Head(commands))
    /\ commands' = Tail(commands)
    /\ UNCHANGED <<cache, level, pending, inbox, serverVars, pcVars, histVars>>

\* ... and, when all are sent, return the results received by then
Communicated(n) ==
    /\ pc = "communicate"
    /\ commands = <<>>
    /\ n <= Len(inbox)
    /\ fetched' = n
    /\ pc' = "process"
    /\ UNCHANGED <<cache, level, pipeVars, netVars, serverVars, op, failed, histVars>>

\* _process_results() of the next entry
ProcessNext ==
    LET e == Head(pending)
        out == Head(inbox).out
    IN  /\ pending' = Tail(pending)
        /\ inbox' = Tail(inbox)
        /\ cache' = IF e.prep = "none" THEN cache
                    ELSE Validate(cache, e.cmd.key, e.prep, out)
        /\ failed' = (failed \/ Raises(out))
        /\ trouble' = (trouble \/ Raises(out) \/ Drops(out))
        /\ missed' = IF e.prep # "none" /\ ~Good(out) /\ IsNew(cache, e.cmd.key)
                     THEN missed + 1 ELSE missed
        /\ forgotten' = forgotten \cup Lost(cache, cache', out)

\* _communicate_gen(): process what was fetched
Process ==
    /\ pc = "process"
    /\ fetched > 0
    /\ ProcessNext
    /\ fetched' = fetched - 1
    /\ UNCHANGED <<level, commands, wire, serverVars, pc, op>>

Finish == pc' = "idle" /\ op' = "none" /\ failed' = FALSE

\* mutant: an error in the block leaves the results uncollected
Processed_NotFinally ==
    /\ pc = "process"
    /\ fetched = 0
    /\ \/ /\ op = "execute" /\ ~failed
          /\ LET cmds == [i \in DOMAIN cache.flush |-> Deallocate(cache.flush[i])]
             IN  Enqueue(cmds, [i \in DOMAIN cmds |-> Plain(cmds[i])])
          /\ cache' = [cache EXCEPT !.flush = <<>>]
          /\ Finish
          /\ UNCHANGED level
       \/ /\ failed
          /\ Finish
          /\ level' = IF op = "exit" THEN level - 1 ELSE level
          /\ UNCHANGED <<cache, pipeVars>>
       \/ /\ op # "execute" /\ ~failed
          /\ pc' = "fetch"
          /\ UNCHANGED <<cache, pipeVars, op, failed, level>>
    /\ UNCHANGED <<netVars, serverVars, fetched, histVars>>

\* ... then maintain_gen() after a query, _fetch_gen() after a sync; an error
\* skips them, unless the pipeline is to be closed
Processed ==
    /\ pc = "process"
    /\ fetched = 0
    /\ \/ /\ op = "execute" /\ ~failed
          /\ LET cmds == [i \in DOMAIN cache.flush |-> Deallocate(cache.flush[i])]
             IN  Enqueue(cmds, [i \in DOMAIN cmds |-> Plain(cmds[i])])
          /\ cache' = [cache EXCEPT !.flush = <<>>]
          /\ Finish
       \/ /\ failed /\ op # "exit"
          /\ Finish
          /\ UNCHANGED <<cache, pipeVars>>
       \/ /\ op = "exit" \/ (op # "execute" /\ ~failed)
          /\ pc' = "fetch"
          /\ UNCHANGED <<cache, pipeVars, op, failed>>
    /\ UNCHANGED <<level, netVars, serverVars, fetched, histVars>>

\* _fetch_gen(): wait for a result and process it, as long as one is expected
Fetch ==
    /\ pc = "fetch"
    /\ pending # <<>> /\ inbox # <<>>
    /\ ProcessNext
    /\ UNCHANGED <<level, commands, wire, serverVars, pc, op, fetched>>

FetchEnd ==
    /\ pc = "fetch"
    /\ pending = <<>>
    /\ level' = CASE op = "exit" -> level - 1
                  [] op = "enter" -> IF failed THEN level ELSE level + 1
                  [] OTHER -> level
    /\ Finish
    /\ UNCHANGED <<cache, pipeVars, netVars, serverVars, fetched, histVars>>

-----------------------------------------------------------------------------
(* The server *)

Answer(cmd, out) ==
    /\ inbox' = Append(inbox, [cmd |-> cmd, out |-> out])
    /\ wire' = Tail(wire)

Serve ==
    LET cmd == Head(wire)
    IN  /\ wire # <<>>
        /\ \/ cmd.what = "sync" /\ aborted' = FALSE
              /\ Answer(cmd, "sync") /\ UNCHANGED <<server, errors>>
           \/ cmd.what # "sync" /\ aborted
              /\ Answer(cmd, "aborted") /\ UNCHANGED serverVars
           \/ /\ cmd.what # "sync" /\ ~aborted
              /\ cmd.what = "execute" => cmd.name \in server
              /\ Answer(cmd, IF cmd.what \in {"query", "execute"}
                             THEN Success(cmd.key) ELSE "ok")
              /\ server' = CASE cmd.what = "prepare" -> server \cup {cmd.name}
                             [] cmd.what = "close" -> server \ {cmd.name}
                             [] cmd.what = "deallocate" -> {}
                             [] OTHER -> server
              /\ UNCHANGED <<aborted, errors>>
           \/ /\ cmd.what \in {"prepare", "query", "execute"} /\ ~aborted
              /\ errors < MaxErrors \/ (cmd.what = "execute" /\ cmd.name \notin server)
              /\ Answer(cmd, "error")
              /\ aborted' = TRUE
              /\ errors' = IF errors < MaxErrors THEN errors + 1 ELSE errors
              /\ UNCHANGED server
        /\ UNCHANGED <<cache, level, pipeVars, pcVars, histVars>>

-----------------------------------------------------------------------------
ClientStep ==
    \/ Send \/ Process \/ Processed \/ Fetch \/ FetchEnd
    \/ \E n \in 0..Len(inbox) : Communicated(n)

Next ==
    \/ \E k \in Queries, flag \in Flags :
          Execute(k, flag) \/ PrepareFails(k, flag) \/ PipelineExecute(k, flag)
    \/ PipelineEnter \/ PipelineSync \/ PipelineExit
    \/ ClientStep
    \/ Serve

Spec == Init /\ [][Next]_vars

-----------------------------------------------------------------------------
(* Properties *)

PrepKinds == {"none", "no", "yes", "should"}

Dict(vals) == Seq([key : Queries, val : vals])

CacheType ==
    [counts : Dict(Nat), names : Dict(Nat), idx : Nat, flush : Seq(Nat \cup {All})]

Commands ==
    [what : {"prepare", "execute"}, key : Queries, name : Nat]
        \cup [what : {"query"}, key : Queries, name : {All}]
        \cup [what : {"close"}, key : {All}, name : Nat]
        \cup [what : {"deallocate", "sync"}, key : {All}, name : {All}]

Entries == [cmd : Commands, prep : PrepKinds]

Results ==
    [cmd : Commands, out : {"ok", "drop", "empty", "error", "aborted", "sync"}]

\* The types of the variables
TypeOK ==
    /\ cache \in CacheType
    /\ level \in 0..MaxLevel
    /\ commands \in Seq(Commands) /\ wire \in Seq(Commands)
    /\ pending \in Seq(Entries)
    /\ inbox \in Seq(Results)
    /\ server \subseteq Nat /\ aborted \in BOOLEAN /\ errors \in 0..MaxErrors
    /\ pc \in {"idle", "communicate", "process", "fetch"}
    /\ op \in {"none", "execute", "sync", "enter", "exit"}
    /\ fetched \in 0..Len(inbox)
    /\ failed \in BOOLEAN /\ trouble \in BOOLEAN /\ missed \in Nat
    /\ forgotten \subseteq Nat

CommandsOf(s) == [i \in DOMAIN s |-> s[i].cmd]

(***************************************************************************)
(* Each result reaches the cursor, or the internal command, it belongs to: *)
(* the entries of result_queue are those of the results received, of the   *)
(* commands the server has not executed yet and of the ones not sent, in   *)
(* this order, whatever raised in between (_pipeline_base.py:108-153).     *)
(***************************************************************************)
ResultMatching ==
    CommandsOf(pending) = CommandsOf(inbox) \o wire \o commands

(***************************************************************************)
(* Out of pipeline mode there is nothing left to send or to receive:       *)
(* exit_pipeline_mode() never finds uncollected results, also if the block *)
(* or a command has failed (_pipeline_base.py:79-106).                     *)
(***************************************************************************)
PipelineDrained ==
    level = 0 => commands = <<>> /\ pending = <<>> /\ wire = <<>> /\ inbox = <<>>

\* The names the cache and the commands under way refer to
NamesUsed ==
    Values(cache.names)
        \cup {cache.flush[i] : i \in DOMAIN cache.flush}
        \cup {wire[i].name : i \in DOMAIN wire}
        \cup {commands[i].name : i \in DOMAIN commands}

(***************************************************************************)
(* A query is counted or prepared, never both, and in one place; a name is *)
(* given to one query only, and a name that was given is not given again:  *)
(* PREPARE never meets a statement of the same name (_preparing.py:57-79). *)
(***************************************************************************)
CacheConsistent ==
    /\ Keys(cache.counts) \cap Keys(cache.names) = {}
    /\ \A i, j \in DOMAIN cache.names :
          i # j => /\ cache.names[i].key # cache.names[j].key
                   /\ cache.names[i].val # cache.names[j].val
    /\ \A n \in (server \cup NamesUsed) \ {All} : n < cache.idx

\* The new entries of the cache whose result is still to come
Unvalidated == Cardinality({i \in DOMAIN pending : pending[i].prep # "none"})

(***************************************************************************)
(* The cache is bounded, though a query promoted from the counts to the    *)
(* names makes room in one only and results come late in a pipeline.  It   *)
(* outgrows prepared_max by the queries evicted before their result came   *)
(* and failing then, or empty: validate() finds nothing to remove, and no  *)
(* other item leaves in their place (_preparing.py:108-167).               *)
(***************************************************************************)
CacheBounded ==
    Len(cache.counts) + Len(cache.names) <= 2 * PreparedMax + Unvalidated + missed

(***************************************************************************)
(* The cache and the server agree: a statement the cache will execute is   *)
(* on the server when the command gets there, and of those left on the     *)
(* server the cache does not know only the ones prepared for an empty      *)
(* query: its result is no success for validate(), which drops the name    *)
(* and deallocates nothing (_preparing.py:95-106, 163-165).  Unless there  *)
(* was an error, or a DROP or ROLLBACK was executed in a pipeline.         *)
(***************************************************************************)
CacheAgrees ==
    ~trouble =>
        /\ level = 0 => Flushed(cache.flush, server) \ forgotten = Values(cache.names)
        /\ wire # <<>> /\ ~aborted /\ Head(wire).what = "execute"
              => Head(wire).name \in server

(***************************************************************************)
(* The cache of prepared statements is consistent and bounded and, as long *)
(* as nothing failed, tells what is on the server (_preparing.py).         *)
(***************************************************************************)
CacheCorrect ==
    /\ TypeOK
    /\ CacheConsistent
    /\ CacheBounded
    /\ CacheAgrees

-----------------------------------------------------------------------------
(* What the documentation says, and the code does not always do *)

(***************************************************************************)
(* "psycopg will make sure that no more than prepared_max statements are   *)
(* planned" (docs/advanced/prepare.rst:17-19).                             *)
(***************************************************************************)
NoMoreThanMax == pc = "idle" /\ level = 0 => Cardinality(server) <= PreparedMax

(***************************************************************************)
(* get(): "The query was already prepared in this session" (_preparing.py: *)
(* 68): what the cache takes for prepared is prepared.                     *)
(***************************************************************************)
AlreadyPrepared == level = 0 => Values(cache.names) \subseteq server
=============================================================================
