-------------------------------- MODULE Copy --------------------------------
(***************************************************************************)
(* COPY operations (psycopg/_copy.py, _copy_base.py).                      *)
(*                                                                         *)
(* COPY ... FROM STDIN: the program writes rows, or blocks it has          *)
(* formatted; a formatter collects the rows in a buffer and adds the       *)
(* signature and the trailer of the binary format; a writer sends the      *)
(* buffers, in chunks if they are large, either by itself (LibpqWriter) or *)
(* through a bounded queue and a worker thread (QueuedLibpqWriter).        *)
(*                                                                         *)
(* COPY ... TO STDOUT: the program reads rows and may leave the block at   *)
(* any time.  Data are the marks of what they contain: a row or a piece of *)
(* a block is a number, in the order of the program's calls.               *)
(***************************************************************************)
EXTENDS Naturals, Sequences, SequencesExt, FiniteSetsExt

CONSTANTS
    BufferSize,     \* BUFFER_SIZE: rows are sent when the buffer is larger
    MaxBuffer,      \* MAX_BUFFER_SIZE: larger data are split
    QueueSize,      \* QUEUE_SIZE
    MaxCalls,       \* bound: calls of write() and write_row()
    MaxRows         \* bound: rows that a COPY TO sends

ASSUME CopyAssumption ==
    /\ BufferSize \in Nat /\ MaxBuffer \in Nat \ {0} /\ QueueSize \in Nat \ {0}
    /\ MaxCalls \in Nat /\ MaxRows \in Nat

VARIABLES
    cop,            \* the Copy object: how it was made and where the program is
    fmt,            \* the Formatter
    asked,          \* history: the items the program wrote, in order
    queue,          \* the queue of the writer
    worker,         \* its thread
    wire            \* the operation on the server: what it got or has to send

copyVars == <<cop, fmt, asked, queue, worker, wire>>
writeVars == <<asked, queue, worker>>

Sig == 0                        \* the signature of the binary format
Trailer == MaxCalls + 1         \* its trailer
End == <<>>                     \* the false value that stops the worker

CopyInit ==
    /\ cop = [dir |-> "none", binary |-> FALSE, queued |-> FALSE, at |-> "out",
              chunks |-> <<>>, exc |-> FALSE, finished |-> FALSE]
    /\ fmt = [buffer |-> <<>>, rows |-> FALSE, blocks |-> FALSE, signature |-> FALSE]
    /\ asked = <<>> /\ queue = <<>>
    /\ worker = [state |-> "none", data |-> End, error |-> FALSE]
    /\ wire = [state |-> "idle", got |-> <<>>, left |-> 0]

\* cursor.copy(): the direction and the format come from the result
StartCopy(dir, binary, queued, rows) ==
    /\ cop.at = "out"
    /\ cop' = [cop EXCEPT !.at = "block", !.dir = dir, !.binary = binary, !.queued = queued]
    /\ wire' = [state |-> "active", got |-> <<>>, left |-> rows]
    /\ UNCHANGED <<fmt, writeVars>>

-----------------------------------------------------------------------------
(***************************************************************************)
(* The writers                                                             *)
(***************************************************************************)

\* What is larger than MAX_BUFFER_SIZE is split
Chunks(data) ==
    [i \in 1 .. (Len(data) + MaxBuffer - 1) \div MaxBuffer |->
        SubSeq(data, (i - 1) * MaxBuffer + 1,
                     IF i * MaxBuffer < Len(data) THEN i * MaxBuffer ELSE Len(data))]

\* An error in the block goes through finish(); one in finish() leaves it
Raised(at) == IF at = "last" THEN "left" ELSE "finish"

\* write() of the writer: the worker starts at the first one, and its error is
\* raised. The data are then sent, or queued, chunk by chunk.
WriterWrite(data, at) ==
    IF cop.queued /\ worker.error
    THEN /\ cop' = [cop EXCEPT !.at = Raised(at), !.exc = TRUE]
         /\ UNCHANGED worker
    ELSE /\ cop' = [cop EXCEPT !.at = at, !.chunks = Chunks(data)]
         /\ worker' = IF cop.queued /\ worker.state = "none"
                      THEN [worker EXCEPT !.state = "running"] ELSE worker

\* LibpqWriter: one chunk is sent, or the connection fails
SendChunk(ok) ==
    /\ cop.at \in {"write", "last"} /\ ~cop.queued /\ cop.chunks # <<>>
    /\ IF ok
       THEN /\ wire' = [wire EXCEPT !.got = @ \o Head(cop.chunks)]
            /\ cop' = [cop EXCEPT !.chunks = Tail(@)]
       ELSE /\ wire' = [wire EXCEPT !.state = "lost"]
            /\ cop' = [cop EXCEPT !.chunks = <<>>, !.exc = TRUE, !.at = Raised(@)]
    /\ UNCHANGED <<fmt, writeVars>>

\* QueuedLibpqWriter: put() waits while the queue is full
PutChunk ==
    /\ cop.at \in {"write", "last"} /\ cop.queued /\ cop.chunks # <<>>
    /\ Len(queue) < QueueSize
    /\ queue' = Append(queue, Head(cop.chunks))
    /\ cop' = [cop EXCEPT !.chunks = Tail(@)]
    /\ UNCHANGED <<fmt, asked, worker, wire>>

\* write() returns
Written ==
    /\ cop.at \in {"write", "last"} /\ cop.chunks = <<>>
    /\ cop' = [cop EXCEPT !.at = IF @ = "write" THEN "block" ELSE "finish"]
    /\ UNCHANGED <<fmt, writeVars, wire>>

WorkerGet ==
    /\ worker.state = "running" /\ worker.data = End /\ queue # <<>>
    /\ queue' = Tail(queue)
    /\ worker' = IF Head(queue) = End THEN [worker EXCEPT !.state = "done"]
                 ELSE [worker EXCEPT !.data = Head(queue)]
    /\ UNCHANGED <<cop, fmt, asked, wire>>

\* copy_to() in the worker, or its error, that is kept for the other thread
WorkerSend(ok) ==
    /\ worker.state = "running" /\ worker.data # End
    /\ IF ok
       THEN /\ wire' = [wire EXCEPT !.got = @ \o worker.data]
            /\ worker' = [worker EXCEPT !.data = End]
       ELSE /\ wire' = [wire EXCEPT !.state = "lost"]
            /\ worker' = [state |-> "done", data |-> End, error |-> TRUE]
    /\ UNCHANGED <<cop, fmt, asked, queue>>

-----------------------------------------------------------------------------
(***************************************************************************)
(* The formatter                                                           *)
(***************************************************************************)
InBlock == cop.at = "block" /\ cop.dir = "in"

\* write_row(): the buffer is handed over when it is large enough
WriteRow ==
    LET mark == Len(asked) + 1
        signed == IF cop.binary /\ ~fmt.signature THEN Append(fmt.buffer, Sig) ELSE fmt.buffer
        buffer == Append(signed, mark)
    IN  /\ InBlock /\ Len(asked) < MaxCalls
        /\ asked' = Append(asked, mark)
        /\ fmt' = [fmt EXCEPT !.rows = TRUE, !.signature = cop.binary,
                              !.buffer = IF Len(buffer) > BufferSize THEN <<>> ELSE buffer]
        /\ IF Len(buffer) > BufferSize THEN WriterWrite(buffer, "write")
           ELSE UNCHANGED <<cop, worker>>
        /\ UNCHANGED <<queue, wire>>

\* write() of a block of n pieces: it does not go through the buffer
WriteBlock(n) ==
    LET data == [i \in 1 .. n |-> Len(asked) + i]
    IN  /\ InBlock /\ Len(asked) + n <= MaxCalls
        /\ asked' = asked \o data
        /\ fmt' = [fmt EXCEPT !.blocks = TRUE, !.signature = TRUE]
        /\ WriterWrite(data, "write")
        /\ UNCHANGED <<queue, wire>>

\* mutant: the trailer is not written
CopyEnded_Open ==
    CASE ~cop.binary -> fmt.buffer
      [] cop.binary /\ ~fmt.signature -> fmt.buffer \o <<Sig, Trailer>>
      [] OTHER -> fmt.buffer

\* end(): what is left in the buffer, and the trailer
CopyEnded ==
    CASE ~cop.binary -> fmt.buffer
      [] cop.binary /\ ~fmt.signature -> fmt.buffer \o <<Sig, Trailer>>
      [] cop.binary /\ fmt.signature /\ fmt.rows -> Append(fmt.buffer, Trailer)
      [] OTHER -> fmt.buffer

\* The block ends: finish(), that first sends the end of the data
ExitIn(exc) ==
    /\ InBlock
    /\ IF exc \/ CopyEnded = <<>>
       THEN cop' = [cop EXCEPT !.at = "finish", !.exc = exc] /\ UNCHANGED worker
       ELSE WriterWrite(CopyEnded, "last")
    /\ fmt' = IF exc THEN fmt ELSE [fmt EXCEPT !.buffer = <<>>]
    /\ UNCHANGED <<asked, queue, wire>>

\* mutant: the end marker is not queued
PutEnd_Silent ==
    /\ cop.at = "finish" /\ cop.queued
    /\ cop' = [cop EXCEPT !.at = "join"]
    /\ UNCHANGED <<fmt, asked, queue, worker, wire>>

\* finish() of the writer: the end marker is queued, then the worker is joined
PutEnd ==
    /\ cop.at = "finish" /\ cop.queued
    /\ Len(queue) < QueueSize
    /\ queue' = Append(queue, End)
    /\ cop' = [cop EXCEPT !.at = "join"]
    /\ UNCHANGED <<fmt, asked, worker, wire>>

Joined ==
    IF cop.queued THEN cop.at = "join" /\ worker.state \in {"none", "done"}
    ELSE cop.at = "finish"

\* copy_end(), with the error if there is one, unless the worker had its own
FinishIn(ok) ==
    /\ cop.dir = "in" /\ Joined
    /\ wire' = IF worker.error \/ wire.state = "lost" THEN wire
               ELSE [wire EXCEPT !.state = IF cop.exc THEN "aborted"
                                           ELSE IF ok THEN "copied" ELSE "lost"]
    /\ cop' = [cop EXCEPT !.at = "left", !.finished = ~worker.error]
    /\ UNCHANGED <<fmt, writeVars>>

-----------------------------------------------------------------------------
(***************************************************************************)
(* Reading.  left counts the rows the server has still to send; then comes *)
(* the trailer, in binary, and the result of the command.                  *)
(***************************************************************************)
OutBlock == cop.at = "block" /\ cop.dir = "out"

\* read() and read_row(): a row, or the result of the command. In binary
\* read_row() gets the trailer before, and reads again (_copy_base.py:161-169).
ReadRow ==
    /\ OutBlock /\ ~cop.finished /\ wire.state = "active"
    /\ IF wire.left > 0
       THEN /\ wire' = [wire EXCEPT !.left = @ - 1, !.got = Append(@, Len(@) + 1)]
            /\ UNCHANGED cop
       ELSE /\ wire' = [wire EXCEPT !.state = "copied"]
            /\ cop' = [cop EXCEPT !.finished = TRUE]
    /\ UNCHANGED <<fmt, writeVars>>

\* The server fails in the middle: the error leaves the block
ReadFailed ==
    /\ OutBlock /\ ~cop.finished /\ wire.state = "active"
    /\ wire' = [wire EXCEPT !.state = "aborted"]
    /\ cop' = [cop EXCEPT !.at = "left", !.exc = TRUE]
    /\ UNCHANGED <<fmt, writeVars>>

\* finish(): with an exception, and the server still sending, the query is
\* cancelled and the rest is read. Without one nothing is done.
ExitOut(exc) ==
    /\ OutBlock
    /\ wire' = IF exc /\ wire.state = "active"
               THEN [wire EXCEPT !.state = "aborted"] ELSE wire
    /\ cop' = [cop EXCEPT !.at = "left", !.exc = exc]
    /\ UNCHANGED <<fmt, writeVars>>

-----------------------------------------------------------------------------
Producer ==
    \/ \E ok \in BOOLEAN : SendChunk(ok) \/ FinishIn(ok)
    \/ PutChunk \/ Written \/ PutEnd

Consumer == WorkerGet \/ \E ok \in BOOLEAN : WorkerSend(ok)

CopyNext ==
    \/ \E dir \in {"in", "out"}, binary, queued \in BOOLEAN, rows \in 0 .. MaxRows :
          StartCopy(dir, binary, queued, rows)
    \/ WriteRow \/ \E n \in 1 .. MaxCalls : WriteBlock(n)
    \/ \E exc \in BOOLEAN : ExitIn(exc) \/ ExitOut(exc)
    \/ ReadRow \/ ReadFailed
    \/ Producer \/ Consumer

-----------------------------------------------------------------------------
\* What the server must get if the program only writes rows, or only blocks
Expected ==
    IF cop.binary /\ ~fmt.blocks THEN <<Sig>> \o asked \o <<Trailer>> ELSE asked

(***************************************************************************)
(* A COPY FROM that ends without an error has copied what the program      *)
(* wrote, each piece once, in order, in a well formed stream, through the  *)
(* buffer, the chunks, the queue and the worker (_copy.py:190-288,         *)
(* _copy_base.py:278-312).  Order is not promised when the program mixes   *)
(* rows and blocks: blocks overtake the rows in the buffer.                *)
(***************************************************************************)
CopiedExactly ==
    cop.at = "left" /\ cop.dir = "in" /\ wire.state = "copied" =>
        IF fmt.rows /\ fmt.blocks
        THEN Range(asked) \subseteq Range(wire.got)
        ELSE wire.got = Expected

(***************************************************************************)
(* Until then, what was sent is a part of it, from its beginning: a        *)
(* failure never leaves a gap followed by more data.                       *)
(***************************************************************************)
SentPrefix ==
    cop.dir = "in" /\ ~(fmt.rows /\ fmt.blocks) => IsPrefix(wire.got, Expected)

(***************************************************************************)
(* A COPY TO block left because of an exception, or read to its end, does  *)
(* not leave the connection busy (_copy.py:144-156).  One left early       *)
(* without an exception does.                                              *)
(***************************************************************************)
OutReleased ==
    cop.at = "left" /\ cop.dir = "out" /\ (cop.exc \/ cop.finished) =>
        wire.state # "active"

(***************************************************************************)
(* A COPY that succeeds has moved what was written or asked for, nothing   *)
(* else; one that fails or is left early has sent a part of it only and    *)
(* leaves the connection free (_copy.py, _copy_base.py).                   *)
(***************************************************************************)
CopyFaithful ==
    /\ CopiedExactly
    /\ SentPrefix
    /\ OutReleased

(***************************************************************************)
(* finish() ends, and so does write(): unless the worker dies, which       *)
(* leaves the queue as it is (_copy.py:258-278).                           *)
(***************************************************************************)
WriterEnds == cop.at \in {"write", "last", "finish", "join"} ~>
                  (cop.at \in {"block", "left"} \/ worker.error)

(***************************************************************************)
(* What the code says of an error of the worker: "re-raise it to the       *)
(* caller" (_copy.py:263).                                                 *)
(***************************************************************************)
WorkerErrorRaised == worker.error ~> cop.at = "left"

CopySpec ==
    CopyInit /\ [][CopyNext]_copyVars
    /\ WF_copyVars(Producer) /\ WF_copyVars(Consumer)
    /\ WF_copyVars(\E exc \in BOOLEAN : ExitIn(exc))
=============================================================================
