------------------------------- MODULE Cursor -------------------------------
(***************************************************************************)
(* A client-side cursor (psycopg/_cursor_base.py and psycopg/cursor.py):   *)
(* its result sets and the position in them, executemany(), stream(), and  *)
(* the results that come later in pipeline mode.                           *)
(*                                                                         *)
(* A result is the call it answers, whether it has rows, and how many rows *)
(* it has or affected.  In pipeline mode the results of a call are         *)
(* processed in order by whatever call communicates with the server after  *)
(* they have arrived.                                                      *)
(***************************************************************************)
EXTENDS Integers, FiniteSets, Sequences

CONSTANTS
    MaxExecs,       \* bound: calls of execute(), executemany() and stream()
    Rows            \* numbers of rows that a statement returns or affects

ASSUME CursorAssumption == MaxExecs \in Nat /\ Rows \subseteq Nat

VARIABLES
    cur,            \* the attributes of the Cursor
    pipe,           \* the pipeline: its state and the results to come
    stream,         \* the stream() generator: "off" or "yielded"; results to come
    seen            \* history: the calls, the next row the program expects, etc.

cursorVars == <<cur, pipe, stream, seen>>

SumOf(ns) ==
    LET sum[i \in 0 .. Len(ns)] == IF i = 0 THEN 0 ELSE sum[i - 1] + ns[i]
    IN  sum[Len(ns)]

Result(call, kind, n) == [call |-> call, kind |-> kind, n |-> n]

\* _reset()
Reset(c) ==
    [c EXCEPT !.results = <<>>, !.selected = FALSE, !.pos = 0, !.ires = 1,
              !.rowcount = -1, !.many = "no", !.single = FALSE]

CursorInit ==
    /\ cur = [closed |-> FALSE, results |-> <<>>, selected |-> FALSE, ires |-> 1,
              pos |-> 0, rowcount |-> -1, many |-> "no", single |-> FALSE]
    /\ pipe = [on |-> FALSE, pending |-> <<>>]
    /\ stream = [at |-> "off", queue |-> <<>>]
    /\ seen = [calls |-> 0, next |-> 0, inorder |-> TRUE, overlap |-> FALSE,
               count |-> 0, foreign |-> FALSE]

\* _select_current_result()
Select(c, i) ==
    [c EXCEPT !.ires = i, !.selected = TRUE, !.single = FALSE, !.pos = 0,
              !.rowcount = c.results[i].n]

\* The rows that some results have or affected
RowsOf(rs) == SumOf([i \in DOMAIN rs |-> rs[i].n])

\* _set_results(): of execute(), of executemany() returning or not
SetResults(c, rs) ==
    CASE c.many = "no" -> Select([c EXCEPT !.results = rs], 1)
      [] c.many = "returning" ->
            IF c.results = <<>> THEN Select([c EXCEPT !.results = rs], 1)
            ELSE [c EXCEPT !.results = @ \o rs]
      [] c.many = "count" ->
            [c EXCEPT !.rowcount = @ + RowsOf(rs)]

\* _check_results() raises for an error, and nothing is set
Failed(rs) == \E i \in DOMAIN rs : rs[i].kind = "error"
Process(c, rs) == IF Failed(rs) THEN c ELSE SetResults(c, rs)
ProcessAll(c, batches) ==
    LET after[i \in 0 .. Len(batches)] ==
            IF i = 0 THEN c ELSE Process(after[i - 1], batches[i])
    IN  after[Len(batches)]

\* A COPY that stream() began: the libpq answers it for ever, and takes no
\* other command, as the connection stays ACTIVE
Copying == <<"copy">>

Free == stream.at = "off"
Asked == Free /\ ~cur.closed /\ seen.calls < MaxExecs
Callable == Asked /\ stream.queue # Copying

\* A call starts: the history forgets the one before
Called(batches) ==
    [calls |-> seen.calls + 1, next |-> 0, inorder |-> TRUE,
     overlap |-> pipe.pending # <<>>, foreign |-> FALSE,
     count |-> SumOf([i \in DOMAIN batches |-> RowsOf(batches[i])])]

\* The first k answers arrive and are processed
Arrive(c, pending, k) ==
    /\ cur' = ProcessAll(c, SubSeq(pending, 1, k))
    /\ pipe' = [pipe EXCEPT !.pending = SubSeq(pending, k + 1, Len(pending))]

\* execute() of a query with one statement or, out of a pipeline, more
Execute(rs) ==
    LET c == Reset(cur)
    IN  /\ Callable
        /\ Len(rs) = 1 \/ ~pipe.on
        /\ seen' = Called(<<rs>>)
        /\ IF pipe.on
           THEN \E k \in 0 .. Len(pipe.pending) + 1 :
                   Arrive(c, Append(pipe.pending, rs), k)
           ELSE cur' = Process(c, rs) /\ UNCHANGED pipe
        /\ UNCHANGED stream

\* The answers up to the first error: the statements after it are not executed
UntilError(batches) ==
    LET bad == {i \in DOMAIN batches : Failed(batches[i])}
    IN  IF bad = {} THEN batches
        ELSE SubSeq(batches, 1, CHOOSE i \in bad : \A j \in bad : i <= j)

\* executemany(): without a pipeline it makes one, and leaves with all the
\* results; in one, it waits for them only if they are wanted
ExecuteMany(batches, returning) ==
    LET c == [Reset(cur) EXCEPT !.many = IF returning THEN "returning" ELSE "count",
                                !.rowcount = IF returning THEN @ ELSE 0]
        sent == UntilError(batches)
        pending == pipe.pending \o sent
    IN  /\ Callable
        /\ seen' = Called(sent)
        /\ IF pipe.on
           THEN \E k \in (IF returning THEN {Len(pending)} ELSE 0 .. Len(pending)) :
                   Arrive(c, pending, k)
           ELSE cur' = ProcessAll(c, sent) /\ UNCHANGED pipe
        /\ UNCHANGED stream

\* With a COPY that is not over execute() and stream() fail to send, after
\* the _reset() of the cursor; executemany() and pipeline() do nothing
ExecuteRefused ==
    /\ Asked /\ stream.queue = Copying
    /\ cur' = Reset(cur)
    /\ seen' = Called(<<>>)
    /\ UNCHANGED <<pipe, stream>>

EnterPipeline ==
    /\ Free /\ ~pipe.on /\ stream.queue # Copying
    /\ pipe' = [pipe EXCEPT !.on = TRUE]
    /\ UNCHANGED <<cur, stream, seen>>

\* sync(), or the end of the block: all the answers come
SyncPipeline(exit) ==
    /\ Free /\ pipe.on
    /\ cur' = ProcessAll(cur, pipe.pending)
    /\ pipe' = [on |-> ~exit, pending |-> <<>>]
    /\ UNCHANGED <<stream, seen>>

-----------------------------------------------------------------------------
(***************************************************************************)
(* Fetching                                                                *)
(***************************************************************************)
\* _fetch_pipeline(): wait for the results, if there is none
Fetches == cur.many # "count" /\ ~cur.selected /\ ~cur.single /\ pipe.on
Fetched == IF Fetches THEN ProcessAll(cur, pipe.pending) ELSE cur
FetchPipeline == pipe' = IF Fetches THEN [pipe EXCEPT !.pending = <<>>] ELSE pipe

\* _check_result_for_fetch(): not closed, a current result, with rows
Fetchable(c) == ~c.closed /\ c.selected /\ c.results[c.ires].kind = "tuples"
Current(c) == c.results[c.ires]

\* The rows from pos on go to the program
Given(c, n) ==
    /\ cur' = [c EXCEPT !.pos = @ + n]
    /\ seen' = [seen EXCEPT !.next = c.pos + n,
                            !.inorder = @ /\ c.pos = seen.next,
                            !.foreign = @ \/ (n > 0 /\ Current(c).call # seen.calls)]

\* fetchone(), fetchmany(size) and fetchall(), which asks for all; next() is
\* fetchone()
Fetch(size) ==
    LET c == Fetched
        n == Current(c).n - c.pos
    IN  /\ Free
        /\ FetchPipeline
        /\ IF Fetchable(c) THEN Given(c, IF size < n THEN size ELSE n)
           ELSE cur' = c /\ UNCHANGED seen
        /\ UNCHANGED stream

\* scroll(): within the result set, else IndexError and nothing changes
Scroll(value, mode) ==
    LET c == Fetched
        newpos == IF mode = "relative" THEN c.pos + value ELSE value
    IN  /\ Free
        /\ FetchPipeline
        /\ IF Fetchable(c) /\ newpos \in 0 .. Current(c).n - 1
           THEN /\ cur' = [c EXCEPT !.pos = newpos]
                /\ seen' = [seen EXCEPT !.next = newpos]
           ELSE cur' = c /\ UNCHANGED seen
        /\ UNCHANGED stream

\* nextset() and set_result(): another result set, from its first row
SetResult(i) ==
    /\ Free
    /\ i \in DOMAIN cur.results
    /\ cur' = Select(cur, i)
    /\ seen' = [seen EXCEPT !.next = 0]
    /\ UNCHANGED <<pipe, stream>>

\* _loaders_changed(): the current result is selected again, in its place
LoadersChanged ==
    /\ Free
    /\ cur.ires <= Len(cur.results)
    /\ cur' = [Select(cur, cur.ires) EXCEPT !.pos = cur.pos]
    /\ UNCHANGED <<pipe, stream, seen>>

CloseCursor ==
    /\ Free /\ ~cur.closed
    /\ cur' = [Reset(cur) EXCEPT !.closed = TRUE]
    /\ UNCHANGED <<pipe, stream, seen>>

-----------------------------------------------------------------------------
(***************************************************************************)
(* stream(): the lock is held until the generator ends.  The results come  *)
(* one row each, then the end of the result or an error, then the null     *)
(* result that takes the connection out of the ACTIVE state.  The answer to *)
(* a COPY has no end.                                                      *)
(***************************************************************************)
Singles(n) == [i \in 1 .. n |-> "single"]
StreamAnswers(n) == {Singles(n) \o <<end, "null">> : end \in {"tuples", "error"}}
                    \cup {<<"command", "null">>, Copying}

StreamStart(queue) ==
    /\ Callable /\ ~pipe.on
    /\ cur' = Reset(cur)
    /\ stream' = [at |-> "yielded", queue |-> queue]
    /\ seen' = Called(<<>>)
    /\ UNCHANGED pipe

\* _stream_fetchone_gen(): the end of the rows is read to the null result
FetchOne(q) ==
    IF q = <<>> \/ Head(q) \in {"tuples", "command"} THEN <<>>
    ELSE IF Head(q) = "copy" THEN q ELSE Tail(q)

\* The results received are consumed, to the end or to an error
Consumed(q) ==
    LET rows == {i \in DOMAIN q : \A j \in 1 .. i : q[j] = "single"}
    IN  FetchOne(SubSeq(q, Cardinality(rows) + 1, Len(q)))

\* mutant: there is no attempt after an error
Recovered_Once(q) == Consumed(q)

\* After an error, a single attempt more
Recovered(q) == FetchOne(Consumed(q))

\* A row, or the end
StreamNext ==
    /\ stream.at = "yielded"
    /\ IF Head(stream.queue) = "single"
       THEN /\ stream' = [stream EXCEPT !.queue = Tail(@)]
            /\ cur' = [cur EXCEPT !.single = TRUE]
            /\ seen' = [seen EXCEPT !.next = @ + 1]
       ELSE /\ stream' = [at |-> "off",
                          queue |-> LET q == FetchOne(stream.queue)
                                    IN  IF q = <<>> THEN q ELSE Recovered(q)]
            /\ UNCHANGED <<cur, seen>>
    /\ UNCHANGED pipe

\* The generator is closed: the query is cancelled, when some rows more may
\* have been sent, or all of them
StreamClose ==
    /\ stream.at = "yielded"
    /\ \E q \in {stream.queue} \cup
               {SubSeq(stream.queue, 1, k) \o <<"error", "null">> :
                  k \in {i \in 0 .. Len(stream.queue) :
                           \A j \in 1 .. i : stream.queue[j] = "single"}} :
          stream' = [at |-> "off", queue |-> Recovered(q)]
    /\ UNCHANGED <<cur, pipe, seen>>

-----------------------------------------------------------------------------
\* What the statements of the next call may answer
Call == seen.calls + 1
Answers ==
    {<<Result(Call, k, n)>> : k \in {"tuples", "command"}, n \in Rows}
    \cup {<<Result(Call, "error", 0)>>}
Scripts == {<<Result(Call, "tuples", n), Result(Call, "tuples", m)>> : n, m \in Rows}

CursorNext ==
    \/ \E rs \in Answers \cup Scripts : Execute(rs)
    \/ \E r1, r2 \in Answers, returning \in BOOLEAN : ExecuteMany(<<r1, r2>>, returning)
    \/ ExecuteRefused \/ EnterPipeline \/ \E exit \in BOOLEAN : SyncPipeline(exit)
    \/ \E size \in {1, 2, 9} : Fetch(size)
    \/ \E v \in -1 .. 2, mode \in {"relative", "absolute"} : Scroll(v, mode)
    \/ \E i \in 1 .. 2 : SetResult(i)
    \/ LoadersChanged \/ CloseCursor
    \/ \E q \in UNION {StreamAnswers(n) : n \in Rows} : StreamStart(q)
    \/ StreamNext \/ StreamClose

-----------------------------------------------------------------------------
(***************************************************************************)
(* Between two moves of the program the rows of a result set come once     *)
(* each, in order, and the position counts them: fetchone(), fetchmany(),  *)
(* fetchall(), the change of a loader and the results that arrive in the   *)
(* meantime do not skip nor repeat any.                                    *)
(***************************************************************************)
RowsInOrder ==
    ~seen.overlap =>
        /\ seen.inorder
        /\ cur.selected /\ stream.at = "off" => cur.pos <= Current(cur).n

(***************************************************************************)
(* What is fetched answers the last call: unless that was made in a        *)
(* pipeline before the answers to another one had come, which are then     *)
(* taken for its own (_cursor_base.py:531-535).                            *)
(***************************************************************************)
AnswersLastCall ==
    ~seen.overlap =>
        ~seen.foreign /\ \A i \in DOMAIN cur.results : cur.results[i].call = seen.calls

(***************************************************************************)
(* After executemany() without results rowcount is the sum over all the    *)
(* statements executed, whether they came at once or in parts.             *)
(***************************************************************************)
CountsAll ==
    cur.many = "count" /\ pipe.pending = <<>> /\ ~seen.overlap => cur.rowcount = seen.count

(***************************************************************************)
(* When stream() is over, however it ends, the connection is not in the    *)
(* middle of a query (cursor.py:180-196), unless that was a COPY: neither  *)
(* of the attempts takes the connection out of it (generators.py:201-204). *)
(***************************************************************************)
StreamReleased == stream.at = "off" => stream.queue \in {<<>>, Copying}

(***************************************************************************)
(* The cursor shows the rows, the results and the count of the call it is  *)
(* asked about, and a stream() that is over leaves nothing behind, unless  *)
(* it was given a COPY (_cursor_base.py, cursor.py).                       *)
(***************************************************************************)
ResultsOfCall ==
    /\ RowsInOrder
    /\ AnswersLastCall
    /\ CountsAll
    /\ StreamReleased

(***************************************************************************)
(* In a pipeline too, what is fetched answers the last execute().          *)
(***************************************************************************)
PipelineLastCall == ~seen.foreign
=============================================================================
