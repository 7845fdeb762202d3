---------------------------- MODULE SessionProofs ----------------------------
(***************************************************************************)
(* The session keeps its types, every result is matched with its request,  *)
(* a closed pipeline leaves nothing behind, and the cache of prepared      *)
(* statements is consistent, bounded and tells what is on the server as    *)
(* long as nothing failed, for every set of queries and every bound.  Then *)
(* how a session begins (Connect): the attempts that are made, in what     *)
(* order and until when, for any lists of hosts and any servers; and what  *)
(* arrives besides results (Notifies), for any number of notifications and *)
(* any values of stop_after.                                               *)
(***************************************************************************)
EXTENDS Session, Connect, Notifies, Counting, SequenceTheorems, TLAPS

-----------------------------------------------------------------------------
(* Sequences *)

-----------------------------------------------------------------------------
(* The commands of a sequence of entries or of results *)

\* A sequence of records that have a command
LEMMA CommandsOfType ==
    ASSUME NEW S, NEW C, \A x \in S : x.cmd \in C, NEW s \in Seq(S)
    PROVE  /\ CommandsOf(s) \in Seq(C)
           /\ Len(CommandsOf(s)) = Len(s)
           /\ \A i \in 1 .. Len(s) : CommandsOf(s)[i] = s[i].cmd
           /\ CommandsOf(s) = <<>> <=> s = <<>>
<1>1. Len(s) \in Nat /\ DOMAIN s = 1 .. Len(s) /\ \A i \in 1 .. Len(s) : s[i] \in S
  BY LenProperties, ElementOfSeq
<1>2. CommandsOf(s) = [i \in 1 .. Len(s) |-> s[i].cmd]
  BY <1>1 DEF CommandsOf
<1>3. CommandsOf(s) \in Seq(C) /\ Len(CommandsOf(s)) = Len(s)
  BY <1>1, <1>2
<1> QED
  BY <1>1, <1>2, <1>3, EmptySeq

\* The commands of two queues one after the other
LEMMA CommandsOfConcat ==
    ASSUME NEW S, NEW C, \A x \in S : x.cmd \in C, NEW s \in Seq(S), NEW t \in Seq(S)
    PROVE  CommandsOf(s \o t) = CommandsOf(s) \o CommandsOf(t)
<1> DEFINE c == s \o t
           u == CommandsOf(c)
           a == CommandsOf(s)
           b == CommandsOf(t)
           v == a \o b
<1>1. /\ c \in Seq(S) /\ Len(c) = Len(s) + Len(t)
      /\ \A i \in 1 .. Len(s) + Len(t) :
            c[i] = IF i <= Len(s) THEN s[i] ELSE t[i - Len(s)]
      /\ Len(s) \in Nat /\ Len(t) \in Nat
  BY ConcatProperties, LenProperties
<1>2. /\ u \in Seq(C) /\ Len(u) = Len(c)
      /\ \A i \in 1 .. Len(c) : u[i] = c[i].cmd
  <2> HIDE DEF c
  <2> QED BY <1>1, CommandsOfType
<1>3. /\ a \in Seq(C) /\ Len(a) = Len(s)
      /\ \A i \in 1 .. Len(s) : a[i] = s[i].cmd
  BY CommandsOfType
<1>4. /\ b \in Seq(C) /\ Len(b) = Len(t)
      /\ \A i \in 1 .. Len(t) : b[i] = t[i].cmd
  BY CommandsOfType
<1>5. /\ v \in Seq(C) /\ Len(v) = Len(s) + Len(t)
      /\ \A i \in 1 .. Len(s) + Len(t) :
            v[i] = IF i <= Len(s) THEN a[i] ELSE b[i - Len(s)]
  <2> HIDE DEF a, b
  <2>1. a \in Seq(C) /\ b \in Seq(C)
    BY <1>3, <1>4
  <2>2. /\ v \in Seq(C) /\ Len(v) = Len(a) + Len(b)
        /\ \A i \in 1 .. Len(a) + Len(b) :
              v[i] = IF i <= Len(a) THEN a[i] ELSE b[i - Len(a)]
    BY <2>1, ConcatProperties
  <2> HIDE DEF v
  <2> QED
    BY <2>2, <1>3, <1>4
<1>6. ASSUME NEW i \in 1 .. Len(u) PROVE u[i] = v[i]
  <2> HIDE DEF u, v, a, b, c
  <2>1. i \in 1 .. Len(s) + Len(t) /\ u[i] = c[i].cmd
    BY <1>1, <1>2
  <2>2. CASE i <= Len(s)
    <3>1. i \in 1 .. Len(s)
      BY <2>1, <2>2, <1>1
    <3> QED
      BY <2>1, <2>2, <3>1, <1>1, <1>3, <1>5
  <2>3. CASE ~(i <= Len(s))
    <3>1. i - Len(s) \in 1 .. Len(t)
      BY <2>1, <2>3, <1>1
    <3> QED
      BY <2>1, <2>3, <3>1, <1>1, <1>4, <1>5
  <2> QED
    BY <2>2, <2>3
<1> QED
  <2> HIDE DEF u, v, a, b, c
  <2>1. u = v
    BY <1>1, <1>2, <1>5, <1>6, SeqEqual
  <2> QED
    BY <2>1 DEF u, v, a, b, c

\* ... of a queue without its first element
LEMMA CommandsOfTail ==
    ASSUME NEW S, NEW C, \A x \in S : x.cmd \in C, NEW s \in Seq(S), s # <<>>
    PROVE  CommandsOf(Tail(s)) = Tail(CommandsOf(s))
<1> DEFINE u == CommandsOf(Tail(s))
           a == CommandsOf(s)
           v == Tail(a)
<1>1. /\ Tail(s) \in Seq(S) /\ Len(Tail(s)) = Len(s) - 1
      /\ Len(s) \in Nat \ {0}
      /\ \A i \in 1 .. Len(s) - 1 : Tail(s)[i] = s[i + 1]
  BY HeadTailProperties, EmptySeq
<1>2. /\ u \in Seq(C) /\ Len(u) = Len(s) - 1
      /\ \A i \in 1 .. Len(s) - 1 : u[i] = Tail(s)[i].cmd
  BY <1>1, CommandsOfType
<1>3. /\ a \in Seq(C) /\ Len(a) = Len(s) /\ a # <<>>
      /\ \A i \in 1 .. Len(s) : a[i] = s[i].cmd
  <2>1. CommandsOf(s) # <<>>
    BY CommandsOfType
  <2> QED
    BY <2>1, CommandsOfType
<1>4. /\ v \in Seq(C) /\ Len(v) = Len(s) - 1
      /\ \A i \in 1 .. Len(s) - 1 : v[i] = a[i + 1]
  <2> HIDE DEF a
  <2> QED BY <1>3, HeadTailProperties
<1>5. ASSUME NEW i \in 1 .. Len(u) PROVE u[i] = v[i]
  <2> HIDE DEF u, v, a
  <2>1. i \in 1 .. Len(s) - 1 /\ i + 1 \in 1 .. Len(s)
    BY <1>1, <1>2
  <2> QED
    BY <2>1, <1>1, <1>2, <1>3, <1>4
<1> QED
  <2> HIDE DEF u, v, a
  <2>1. u = v
    BY <1>2, <1>4, <1>5, SeqEqual
  <2> QED
    BY <2>1 DEF u, v, a

-----------------------------------------------------------------------------
(* The cache keeps its type *)

\* An item of an ordered dictionary
LEMMA AtType ==
    ASSUME NEW d \in Dict(Nat), NEW k \in Keys(d)
    PROVE  At(d, k) \in Nat
<1> DEFINE i == CHOOSE j \in DOMAIN d : d[j].key = k
<1>1. \E j \in DOMAIN d : d[j].key = k
  BY DEF Keys
<1>2. i \in DOMAIN d
  BY <1>1
<1>3. d[i] \in [key : Queries, val : Nat]
  <2> HIDE DEF i
  <2> QED BY <1>2, LenProperties, ElementOfSeq DEF Dict
<1> QED
  <2> HIDE DEF i
  <2>1. At(d, k) = d[i].val
    BY DEF At, i
  <2> QED BY <2>1, <1>3

\* A dictionary without a key
LEMMA WithoutType ==
    ASSUME NEW d \in Dict(Nat), NEW k
    PROVE  Without(d, k) \in Dict(Nat)
<1> DEFINE S == [key : Queries, val : Nat]
           i == CHOOSE j \in DOMAIN d : d[j].key = k
<1>1. CASE k \notin Keys(d)
  BY <1>1 DEF Without
<1>2. CASE k \in Keys(d)
  <2>1. \E j \in DOMAIN d : d[j].key = k
    BY <1>2 DEF Keys
  <2>2. i \in DOMAIN d
    BY <2>1
  <2>3. Without(d, k) = SubSeq(d, 1, i - 1) \o SubSeq(d, i + 1, Len(d))
    BY <1>2 DEF Without
  <2> HIDE DEF i
  <2>4. /\ d \in Seq(S) /\ Len(d) \in Nat /\ i \in 1 .. Len(d)
        /\ \A j \in 1 .. Len(d) : d[j] \in S
    BY <2>2, LenProperties, ElementOfSeq DEF Dict
  <2> HIDE DEF S
  <2>5. SubSeq(d, 1, i - 1) \in Seq(S)
    <3>1. i - 1 \in Int /\ \A j \in 1 .. i - 1 : d[j] \in S
      BY <2>4
    <3> QED BY <3>1, SubSeqProperties
  <2>6. SubSeq(d, i + 1, Len(d)) \in Seq(S)
    <3>1. i + 1 \in Int /\ \A j \in i + 1 .. Len(d) : d[j] \in S
      BY <2>4
    <3> QED BY <2>4, <3>1, SubSeqProperties
  <2>7. Without(d, k) \in Seq(S)
    BY <2>3, <2>5, <2>6, ConcatProperties
  <2> QED
    BY <2>7 DEF S, Dict
<1> QED
  BY <1>1, <1>2

\* A dictionary with an item at its end
LEMMA PutType ==
    ASSUME NEW d \in Dict(Nat), NEW k \in Queries, NEW v \in Nat
    PROVE  Put(d, k, v) \in Dict(Nat)
<1>1. Without(d, k) \in Dict(Nat)
  BY WithoutType
<1>2. [key |-> k, val |-> v] \in [key : Queries, val : Nat]
  OBVIOUS
<1> QED
  BY <1>1, <1>2, AppendProperties DEF Put, Dict

\* A dictionary without its oldest item
LEMMA DictTail ==
    ASSUME NEW d \in Dict(Nat), d # <<>>
    PROVE  Tail(d) \in Dict(Nat) /\ Head(d).val \in Nat
<1>1. Tail(d) \in Dict(Nat) /\ Head(d) \in [key : Queries, val : Nat]
  BY HeadTailProperties DEF Dict
<1> QED
  BY <1>1

\* What get() returns
LEMMA GetType ==
    ASSUME NEW p \in CacheType, NEW k, NEW flag
    PROVE  /\ Get(p, k, flag) \in {"no", "yes", "should"}
           /\ Get(p, k, flag) = "yes" => k \in Keys(p.names)
  BY DEF Get

\* A query that is not executed unprepared has a name
LEMMA NameType ==
    ASSUME NEW p \in CacheType, NEW k, NEW flag
    PROVE  NameOf(p, k, Get(p, k, flag))
              \in IF Get(p, k, flag) = "no" THEN {All} ELSE Nat
<1> DEFINE prep == Get(p, k, flag)
<1>1. prep \in {"no", "yes", "should"} /\ (prep = "yes" => k \in Keys(p.names))
  BY GetType
<1>2. p.names \in Dict(Nat) /\ p.idx \in Nat
  BY DEF CacheType
<1> SUFFICES NameOf(p, k, prep) \in IF prep = "no" THEN {All} ELSE Nat
  OBVIOUS
<1> HIDE DEF prep
<1>3. CASE prep = "yes"
  BY <1>1, <1>2, <1>3, AtType DEF NameOf
<1>4. CASE prep = "should"
  BY <1>2, <1>4 DEF NameOf
<1>5. CASE prep = "no"
  BY <1>5 DEF NameOf
<1> QED
  BY <1>1, <1>3, <1>4, <1>5

\* The counter of the names
LEMMA NextNameType ==
    ASSUME NEW p \in CacheType, NEW prep
    PROVE  NextName(p, prep) \in CacheType
  BY DEF NextName, CacheType

\* maybe_add_to_cache() keeps the types
LEMMA MaybeAddType ==
    ASSUME NEW p \in CacheType, NEW k \in Queries, NEW prep, NEW name,
           prep = "should" => name \in Nat
    PROVE  MaybeAdd(p, k, prep, name) \in CacheType
<1>1. p.names \in Dict(Nat) /\ p.counts \in Dict(Nat)
  BY DEF CacheType
<1>2. CASE prep = "should"
  <2>1. Without(p.counts, k) \in Dict(Nat) /\ Put(p.names, k, name) \in Dict(Nat)
    BY <1>1, <1>2, WithoutType, PutType
  <2> QED
    BY <1>2, <2>1 DEF MaybeAdd, CacheType
<1>3. CASE prep # "should" /\ k \in Keys(p.names) \ Keys(p.counts)
  <2>1. Put(p.names, k, At(p.names, k)) \in Dict(Nat)
    BY <1>1, <1>3, AtType, PutType
  <2> QED
    BY <1>3, <2>1 DEF MaybeAdd, CacheType
<1>4. CASE prep # "should" /\ k \notin Keys(p.names) \ Keys(p.counts)
  <2>1. Counted(p, k) \in Nat
    <3>1. k \in Keys(p.counts) => At(p.counts, k) \in Nat
      BY <1>1, AtType
    <3> QED
      BY <3>1 DEF Counted
  <2>2. Put(p.counts, k, Counted(p, k)) \in Dict(Nat)
    BY <1>1, <2>1, PutType
  <2> QED
    BY <1>4, <2>2 DEF MaybeAdd, CacheType
<1> QED
  BY <1>2, <1>3, <1>4

\* clear() keeps the types
LEMMA ClearType ==
    ASSUME NEW p \in CacheType
    PROVE  Clear(p) \in CacheType
<1>1. <<>> \in Dict(Nat)
  BY DEF Dict
<1>2. <<All>> \in Seq(Nat \cup {All})
  OBVIOUS
<1> QED
  BY <1>1, <1>2 DEF Clear, CacheType

\* _rotate() keeps the types
LEMMA RotateType ==
    ASSUME NEW p \in CacheType
    PROVE  Rotate(p) \in CacheType
<1>1. p.names \in Dict(Nat) /\ p.counts \in Dict(Nat)
      /\ p.flush \in Seq(Nat \cup {All})
  BY DEF CacheType
<1>2. Len(p.counts) > PreparedMax => Tail(p.counts) \in Dict(Nat)
  <2>1. Len(p.counts) > PreparedMax => p.counts # <<>>
    BY PreparedAssumption, EmptySeq
  <2> QED BY <1>1, <2>1, DictTail
<1>3. Len(p.names) > PreparedMax
        => Tail(p.names) \in Dict(Nat) /\ Head(p.names).val \in Nat
  <2>1. Len(p.names) > PreparedMax => p.names # <<>>
    BY PreparedAssumption, EmptySeq
  <2> QED BY <1>1, <2>1, DictTail
<1>4. Len(p.names) > PreparedMax
        => Append(p.flush, Head(p.names).val) \in Seq(Nat \cup {All})
  BY <1>1, <1>3, AppendProperties
<1> QED
  BY <1>1, <1>2, <1>3, <1>4 DEF Rotate, CacheType

\* validate() keeps the types
LEMMA ValidateType ==
    ASSUME NEW p \in CacheType, NEW k, NEW prep, NEW out
    PROVE  Validate(p, k, prep, out) \in CacheType
<1> DEFINE discard == Drops(out) /\ (p.names # <<>> \/ prep = "should")
           q == IF discard THEN Clear(p) ELSE p
           popped == [q EXCEPT !.counts = Without(@, k), !.names = Without(@, k)]
<1>1. q \in CacheType
  BY ClearType
<1>2. Rotate(q) \in CacheType
  <2> HIDE DEF q
  <2> QED BY <1>1, RotateType
<1>3. popped \in CacheType
  <2> HIDE DEF q
  <2>1. Without(q.counts, k) \in Dict(Nat) /\ Without(q.names, k) \in Dict(Nat)
    BY <1>1, WithoutType DEF CacheType
  <2> QED BY <1>1, <2>1 DEF CacheType
<1>4. Validate(p, k, prep, out) \in {q, Rotate(q), popped}
  BY DEF Validate
<1> QED
  <2> HIDE DEF q, popped
  <2> QED BY <1>1, <1>2, <1>3, <1>4

-----------------------------------------------------------------------------
(* The inductive invariant *)

\* The statements that are forgotten have numbers for names
LEMMA LostType ==
    ASSUME NEW p \in CacheType, NEW v, NEW out
    PROVE  Lost(p, v, out) \subseteq Nat
<1>1. \A d \in Dict(Nat) : Values(d) \subseteq Nat
  <2> SUFFICES ASSUME NEW d \in Dict(Nat), NEW i \in DOMAIN d
               PROVE  d[i].val \in Nat
    BY DEF Values
  <2>1. d[i] \in [key : Queries, val : Nat]
    BY LenProperties, ElementOfSeq DEF Dict
  <2> QED BY <2>1
<1>2. Values(p.names) \subseteq Nat
  <2>1. p.names \in Dict(Nat)
    BY DEF CacheType
  <2> QED BY <1>1, <2>1
<1>3. Lost(p, v, out) \subseteq Values(p.names)
  BY DEF Lost
<1> QED BY <1>2, <1>3

\* The result of a query that does not fail
LEMMA SuccessResult == ASSUME NEW k PROVE Success(k) \in {"ok", "drop", "empty"}
  BY DEF Success

\* Where an operation is under way there is a pipeline, and one that will
\* be nested has room; results are processed as soon as they are fetched
Busy ==
    /\ pc # "idle" => level > 0
    /\ pc = "idle" => op = "none"
    /\ op = "enter" => level < MaxLevel
    /\ pc # "process" => fetched = 0

IInv == TypeOK /\ Busy /\ ResultMatching /\ PipelineDrained

\* Entries and results have the command they belong to
LEMMA Typed ==
    /\ \A x \in Entries : x.cmd \in Commands
    /\ \A x \in Results : x.cmd \in Commands
  BY DEF Entries, Results

\* Commands queued with their entries keep the match
LEMMA EnqueueMatches ==
    ASSUME TypeOK, ResultMatching, NEW cmds \in Seq(Commands), NEW entries \in Seq(Entries),
           CommandsOf(entries) = cmds, Enqueue(cmds, entries), UNCHANGED <<wire, inbox>>
    PROVE  ResultMatching' /\ commands' \in Seq(Commands) /\ pending' \in Seq(Entries)
<1> DEFINE a == CommandsOf(inbox) \o wire
<1>1. /\ commands \in Seq(Commands) /\ wire \in Seq(Commands)
      /\ pending \in Seq(Entries) /\ inbox \in Seq(Results)
  BY DEF TypeOK
<1>2. commands' = commands \o cmds /\ pending' = pending \o entries
  BY DEF Enqueue
<1>3. commands' \in Seq(Commands) /\ pending' \in Seq(Entries)
  BY <1>1, <1>2, ConcatProperties
<1>4. CommandsOf(pending') = CommandsOf(pending) \o cmds
  BY <1>1, <1>2, Typed, CommandsOfConcat
<1>5. a \in Seq(Commands)
  BY <1>1, Typed, CommandsOfType, ConcatProperties
<1>6. CommandsOf(pending) = a \o commands
  BY DEF ResultMatching
<1>7. (a \o commands) \o cmds = a \o (commands \o cmds)
  <2>1. \A x, y, z \in Seq(Commands) : (x \o y) \o z = x \o (y \o z)
    BY ConcatAssociative
  <2> HIDE DEF a
  <2> QED BY <1>1, <1>5, <2>1, Zenon
<1>8. CommandsOf(pending') = a \o commands'
  <2> HIDE DEF a
  <2> QED BY <1>2, <1>4, <1>6, <1>7
<1> QED
  BY <1>3, <1>8 DEF ResultMatching

\* A result processed with its entry keeps the match
LEMMA ProcessMatches ==
    ASSUME TypeOK, ResultMatching, inbox # <<>>, ProcessNext, UNCHANGED <<wire, commands>>
    PROVE  /\ ResultMatching'
           /\ pending # <<>>
           /\ Len(inbox') = Len(inbox) - 1
           /\ pending' \in Seq(Entries) /\ inbox' \in Seq(Results)
           /\ cache' \in CacheType /\ failed' \in BOOLEAN /\ trouble' \in BOOLEAN
           /\ missed' \in Nat /\ forgotten' \subseteq Nat
<1> DEFINE a == CommandsOf(inbox)
           b == wire \o commands
<1>1. /\ commands \in Seq(Commands) /\ wire \in Seq(Commands)
      /\ pending \in Seq(Entries) /\ inbox \in Seq(Results) /\ cache \in CacheType
      /\ failed \in BOOLEAN /\ trouble \in BOOLEAN
      /\ missed \in Nat /\ forgotten \subseteq Nat
  BY DEF TypeOK
<1>2. a \in Seq(Commands) /\ a # <<>> /\ b \in Seq(Commands)
  BY <1>1, Typed, CommandsOfType, ConcatProperties
<1>3. CommandsOf(pending) = a \o b
  <2>1. CommandsOf(pending) = (a \o wire) \o commands
    BY DEF ResultMatching
  <2> HIDE DEF a
  <2>2. a \in Seq(Commands)
    BY <1>2
  <2>3. (a \o wire) \o commands = a \o (wire \o commands)
    BY <1>1, <2>2, ConcatAssociative, SMTT(40)
  <2> QED BY <2>1, <2>3
<1>4. pending # <<>>
  <2> HIDE DEF a, b
  <2>1. a \o b # <<>>
    BY <1>2, ConcatEqualIffEmpty
  <2>2. CommandsOf(pending) # <<>>
    BY <1>3, <2>1
  <2> QED BY <2>2, <1>1, Typed, CommandsOfType
<1>5. /\ pending' = Tail(pending) /\ inbox' = Tail(inbox)
      /\ \/ cache' = cache
         \/ \E k, prep, out : cache' = Validate(cache, k, prep, out)
      /\ failed' \in BOOLEAN /\ trouble' \in BOOLEAN
      /\ missed' \in Nat
  BY <1>1 DEF ProcessNext
<1>6. cache' \in CacheType /\ forgotten' \subseteq Nat
  <2>1. \E out : forgotten' = forgotten \cup Lost(cache, cache', out)
    BY DEF ProcessNext
  <2> QED BY <1>1, <1>5, <2>1, ValidateType, LostType
<1>7. /\ pending' \in Seq(Entries) /\ inbox' \in Seq(Results)
      /\ Len(inbox') = Len(inbox) - 1
  BY <1>1, <1>4, <1>5, HeadTailProperties
<1>8. CommandsOf(pending') = Tail(a \o b)
  BY <1>1, <1>3, <1>4, <1>5, Typed, CommandsOfTail
<1>9. CommandsOf(inbox') = Tail(a)
  BY <1>1, <1>5, Typed, CommandsOfTail
<1>10. Tail(a \o b) = Tail(a) \o b
  <2> HIDE DEF a, b
  <2> QED BY <1>2, TailConcat
<1>11. Tail(a) \in Seq(Commands)
  <2> HIDE DEF a
  <2> QED BY <1>2, HeadTailProperties
<1>12. (Tail(a) \o wire) \o commands = Tail(a) \o b
  <2> DEFINE t == Tail(a)
  <2>1. t \in Seq(Commands)
    BY <1>11
  <2> HIDE DEF t
  <2>2. (t \o wire) \o commands = t \o (wire \o commands)
    BY <1>1, <2>1, ConcatAssociative, SMTT(40)
  <2> QED BY <2>2 DEF t
<1>13. CommandsOf(pending') = (CommandsOf(inbox') \o wire') \o commands'
  <2> HIDE DEF a, b
  <2> QED BY <1>8, <1>9, <1>10, <1>12
<1> QED
  BY <1>4, <1>5, <1>6, <1>7, <1>13 DEF ResultMatching

\* An answer of the server keeps the match
LEMMA AnswerMatches ==
    ASSUME TypeOK, ResultMatching, wire # <<>>,
           NEW out \in {"ok", "drop", "empty", "error", "aborted", "sync"},
           Answer(Head(wire), out), UNCHANGED <<commands, pending>>
    PROVE  /\ ResultMatching'
           /\ Head(wire) \in Commands
           /\ wire' \in Seq(Commands) /\ inbox' \in Seq(Results)
           /\ Len(inbox') = Len(inbox) + 1
<1> DEFINE a == CommandsOf(inbox)
           r == [cmd |-> Head(wire), out |-> out]
<1>1. /\ commands \in Seq(Commands) /\ wire \in Seq(Commands)
      /\ pending \in Seq(Entries) /\ inbox \in Seq(Results)
  BY DEF TypeOK
<1>2. Head(wire) \in Commands /\ Tail(wire) \in Seq(Commands)
  BY <1>1, HeadTailProperties
<1>3. r \in Results
  BY <1>2 DEF Results
<1>4. inbox' = Append(inbox, r) /\ wire' = Tail(wire)
  BY DEF Answer
<1>5. inbox' \in Seq(Results) /\ Len(inbox') = Len(inbox) + 1
  <2> HIDE DEF r
  <2> QED BY <1>1, <1>3, <1>4, AppendProperties
<1>6. a \in Seq(Commands)
  BY <1>1, Typed, CommandsOfType
<1>7. CommandsOf(inbox') = Append(a, Head(wire))
  <2>1. inbox' = inbox \o <<r>> /\ <<r>> \in Seq(Results)
    BY <1>1, <1>3, <1>4, AppendIsConcat
  <2>2. CommandsOf(inbox') = a \o CommandsOf(<<r>>)
    <3> HIDE DEF r
    <3> QED BY <2>1, <1>1, Typed, CommandsOfConcat
  <2>3. CommandsOf(<<r>>) = <<Head(wire)>>
    BY DEF CommandsOf
  <2>4. Append(a, Head(wire)) = a \o <<Head(wire)>>
    <3> HIDE DEF a
    <3> QED BY <1>2, <1>6, AppendIsConcat
  <2> QED BY <2>2, <2>3, <2>4
<1>8. Append(a, Head(wire)) \o Tail(wire) = a \o wire
  <2> HIDE DEF a
  <2> QED BY <1>1, <1>6, MoveHead
<1>9. CommandsOf(pending') = (CommandsOf(inbox') \o wire') \o commands'
  <2>1. CommandsOf(pending) = (a \o wire) \o commands
    BY DEF ResultMatching
  <2> HIDE DEF a
  <2> QED BY <2>1, <1>4, <1>7, <1>8
<1> QED
  BY <1>2, <1>4, <1>5, <1>9 DEF ResultMatching

-----------------------------------------------------------------------------
(* Every action preserves it *)

\* A cache whose commands to deallocate were executed
LEMMA FlushedType ==
    ASSUME NEW q \in CacheType
    PROVE  [q EXCEPT !.flush = <<>>] \in CacheType
<1>1. <<>> \in Seq(Nat \cup {All})
  BY EmptySeq
<1> QED
  BY <1>1 DEF CacheType

\* execute() out of a pipeline
LEMMA ExecutePreserves ==
    ASSUME IInv, NEW k \in Queries, NEW flag \in Flags, Execute(k, flag)
    PROVE  IInv'
<1> DEFINE prep == Get(cache, k, flag)
           name == NameOf(cache, k, prep)
           p == NextName(cache, prep)
           stmts == server \cup (IF prep = "should" THEN {name} ELSE {})
           added == MaybeAdd(p, k, prep, name)
           Q(out) == IF IsNew(p, k) THEN Validate(added, k, prep, out) ELSE added
<1>1. cache \in CacheType /\ server \subseteq Nat /\ errors \in 0 .. MaxErrors
      /\ trouble \in BOOLEAN /\ forgotten \subseteq Nat
  BY DEF IInv, TypeOK
<1>2. p \in CacheType /\ (prep = "should" => name \in Nat)
  BY <1>1, NextNameType, NameType
<1>3. stmts \subseteq Nat
  <2> HIDE DEF prep, name
  <2> QED BY <1>1, <1>2
<1>4. added \in CacheType
  <2> HIDE DEF prep, name, p
  <2> QED BY <1>2, MaybeAddType
<1>5. \A out : Q(out) \in CacheType
  <2> HIDE DEF prep, name, p, added
  <2> QED BY <1>4, ValidateType
<1>6. \E out : /\ errors' = IF Raises(out) THEN errors + 1 ELSE errors
               /\ trouble' = (trouble \/ Raises(out))
               /\ forgotten' = forgotten \cup Lost(added, Q(out), out)
               /\ \/ cache' = Q(out) /\ server' = stmts
                  \/ /\ cache' = [Q(out) EXCEPT !.flush = <<>>]
                     /\ server' = Flushed(Q(out).flush, stmts)
  BY DEF Execute
<1>7. cache' \in CacheType /\ server' \subseteq Nat /\ trouble' \in BOOLEAN
      /\ errors' \in Nat /\ forgotten' \subseteq Nat
  <2> HIDE DEF Q, stmts, added
  <2>1. PICK out : /\ errors' = IF Raises(out) THEN errors + 1 ELSE errors
                   /\ trouble' = (trouble \/ Raises(out))
                   /\ forgotten' = forgotten \cup Lost(added, Q(out), out)
                   /\ \/ cache' = Q(out) /\ server' = stmts
                      \/ /\ cache' = [Q(out) EXCEPT !.flush = <<>>]
                         /\ server' = Flushed(Q(out).flush, stmts)
    BY <1>6
  <2>2. Q(out) \in CacheType
    BY <1>5
  <2>3. trouble' \in BOOLEAN /\ errors' \in Nat
    BY <1>1, <2>1 DEF Raises
  <2>4. Flushed(Q(out).flush, stmts) \subseteq stmts
    BY DEF Flushed
  <2>5. [Q(out) EXCEPT !.flush = <<>>] \in CacheType
    BY <2>2, FlushedType
  <2>6. forgotten' \subseteq Nat
    BY <1>1, <1>4, <2>1, LostType
  <2> QED BY <2>1, <2>2, <2>3, <2>4, <2>5, <2>6, <1>3
<1>8. errors' <= MaxErrors /\ UNCHANGED <<level, pipeVars, netVars, aborted, pcVars, missed>>
  BY DEF Execute
<1> QED
  BY <1>7, <1>8, SessionAssumption
  DEF IInv, TypeOK, Busy, ResultMatching, PipelineDrained, pipeVars, netVars, pcVars, histVars

\* ... whose preparation fails
LEMMA PrepareFailsPreserves ==
    ASSUME IInv, NEW k \in Queries, NEW flag \in Flags, PrepareFails(k, flag)
    PROVE  IInv'
<1>1. cache' \in CacheType
  BY NextNameType DEF PrepareFails, IInv, TypeOK
<1>2. errors' \in 0 .. MaxErrors /\ trouble' = TRUE
  BY SessionAssumption DEF PrepareFails, IInv, TypeOK
<1> QED
  BY <1>1, <1>2
  DEF PrepareFails, IInv, TypeOK, Busy, ResultMatching, PipelineDrained,
      pipeVars, netVars, pcVars, histVars

\* execute() in a pipeline
LEMMA PipelineExecutePreserves ==
    ASSUME IInv, NEW k \in Queries, NEW flag \in Flags, PipelineExecute(k, flag)
    PROVE  IInv'
<1> DEFINE prep == Get(cache, k, flag)
           name == NameOf(cache, k, prep)
           p == NextName(cache, prep)
           prepare == Command("prepare", k, name)
           run == Command(IF prep = "no" THEN "query" ELSE "execute", k, name)
           entry == Entry(run, IF IsNew(p, k) THEN prep ELSE "none")
<1>1. cache \in CacheType
  BY DEF IInv, TypeOK
<1>2. /\ p \in CacheType
      /\ name \in IF prep = "no" THEN {All} ELSE Nat
      /\ prep \in {"no", "yes", "should"}
  BY <1>1, NextNameType, NameType, GetType
<1>3. MaybeAdd(p, k, prep, name) \in CacheType
  <2> HIDE DEF prep, name, p
  <2> QED BY <1>2, MaybeAddType
<1>4. run \in Commands /\ (prep = "should" => prepare \in Commands)
  <2> HIDE DEF prep, name
  <2> QED BY <1>2 DEF Command, Commands
<1>5. entry \in Entries /\ entry.cmd = run
  <2> HIDE DEF prep, name, p, run
  <2> QED BY <1>2, <1>4 DEF Entry, Entries, PrepKinds
<1>6. /\ prep = "should" => Plain(prepare) \in Entries
      /\ Plain(prepare).cmd = prepare
  <2> HIDE DEF prep, name, prepare
  <2> QED BY <1>4 DEF Plain, Entry, Entries, PrepKinds
<1>7. /\ pc = "idle" /\ level > 0
      /\ cache' = MaybeAdd(p, k, prep, name)
      /\ IF prep = "should"
         THEN Enqueue(<<prepare, run>>, <<Plain(prepare), entry>>)
         ELSE Enqueue(<<run>>, <<entry>>)
      /\ pc' = "communicate" /\ op' = "execute"
      /\ UNCHANGED <<level, netVars, serverVars, fetched, failed, trouble, missed, forgotten>>
  BY DEF PipelineExecute, Start, histVars
<1>8. ResultMatching' /\ commands' \in Seq(Commands) /\ pending' \in Seq(Entries)
  <2>0. TypeOK /\ ResultMatching /\ UNCHANGED <<wire, inbox>>
    BY <1>7 DEF IInv, netVars, histVars
  <2> HIDE DEF prep, name, p, prepare, run, entry
  <2>1. CASE prep = "should"
    <3>1. /\ <<prepare, run>> \in Seq(Commands)
          /\ <<Plain(prepare), entry>> \in Seq(Entries)
      BY <2>1, <1>4, <1>5, <1>6
    <3>2. CommandsOf(<<Plain(prepare), entry>>) = <<prepare, run>>
      BY <1>5, <1>6 DEF CommandsOf
    <3> QED BY <2>0, <2>1, <3>1, <3>2, <1>7, EnqueueMatches
  <2>2. CASE prep # "should"
    <3>1. <<run>> \in Seq(Commands) /\ <<entry>> \in Seq(Entries)
      BY <1>4, <1>5
    <3>2. CommandsOf(<<entry>>) = <<run>>
      BY <1>5 DEF CommandsOf
    <3> QED BY <2>0, <2>2, <3>1, <3>2, <1>7, EnqueueMatches
  <2> QED BY <2>1, <2>2
<1> QED
  <2> HIDE DEF prep, name, p, prepare, run, entry
  <2> QED
    BY <1>3, <1>7, <1>8
    DEF IInv, TypeOK, Busy, PipelineDrained, netVars, serverVars, histVars

\* A sync is queued with its entry
LEMMA SyncMatches ==
    ASSUME TypeOK, ResultMatching, EnqueueSync, UNCHANGED <<wire, inbox>>
    PROVE  ResultMatching' /\ commands' \in Seq(Commands) /\ pending' \in Seq(Entries)
<1>1. Sync \in Commands
  BY DEF Sync, Command, Commands
<1>2. Plain(Sync) \in Entries /\ Plain(Sync).cmd = Sync
  BY <1>1 DEF Plain, Entry, Entries, PrepKinds
<1>3. <<Sync>> \in Seq(Commands) /\ <<Plain(Sync)>> \in Seq(Entries)
  BY <1>1, <1>2
<1>4. CommandsOf(<<Plain(Sync)>>) = <<Sync>>
  BY <1>2 DEF CommandsOf
<1> QED
  BY <1>3, <1>4, EnqueueMatches DEF EnqueueSync

\* Entering a pipeline
LEMMA PipelineEnterPreserves ==
    ASSUME IInv, PipelineEnter
    PROVE  IInv'
<1>1. CASE level' = level + 1 /\ UNCHANGED <<pipeVars, pcVars>>
  BY <1>1, SessionAssumption, SMTT(40)
  DEF PipelineEnter, IInv, TypeOK, Busy, ResultMatching, PipelineDrained,
      pipeVars, netVars, serverVars, pcVars, histVars
<1>2. CASE /\ level > 0 /\ EnqueueSync /\ Start("enter")
           /\ UNCHANGED <<level, fetched, failed>>
  <2>1. ResultMatching' /\ commands' \in Seq(Commands) /\ pending' \in Seq(Entries)
    BY <1>2, SyncMatches DEF PipelineEnter, IInv, netVars, histVars
  <2> QED
    BY <1>2, <2>1
    DEF PipelineEnter, Start, IInv, TypeOK, Busy, PipelineDrained, netVars, serverVars, histVars
<1> QED
  BY <1>1, <1>2 DEF PipelineEnter

\* pipeline.sync()
LEMMA PipelineSyncPreserves ==
    ASSUME IInv, PipelineSync \/ PipelineExit
    PROVE  IInv'
<1>1. ResultMatching' /\ commands' \in Seq(Commands) /\ pending' \in Seq(Entries)
  BY SyncMatches DEF PipelineSync, PipelineExit, IInv, netVars, histVars
<1>2. /\ pc = "idle" /\ level > 0 /\ pc' = "communicate" /\ op' \in {"sync", "exit"}
      /\ UNCHANGED <<cache, level, netVars, serverVars, fetched, failed, trouble, missed, forgotten>>
  BY DEF PipelineSync, PipelineExit, Start, histVars
<1> QED
  BY <1>1, <1>2 DEF IInv, TypeOK, Busy, PipelineDrained, netVars, serverVars, histVars

\* Sending a command
LEMMA SendPreserves ==
    ASSUME IInv, Send
    PROVE  IInv'
<1> DEFINE a == CommandsOf(inbox)
<1>1. /\ commands \in Seq(Commands) /\ wire \in Seq(Commands)
      /\ pending \in Seq(Entries) /\ inbox \in Seq(Results)
  BY DEF IInv, TypeOK
<1>2. /\ commands # <<>> /\ pc = "communicate"
      /\ wire' = Append(wire, Head(commands)) /\ commands' = Tail(commands)
      /\ UNCHANGED <<cache, level, pending, inbox, serverVars, pcVars, trouble, missed, forgotten>>
  BY DEF Send, histVars
<1>3. Head(commands) \in Commands /\ Tail(commands) \in Seq(Commands)
  BY <1>1, <1>2, HeadTailProperties
<1>4. wire' \in Seq(Commands) /\ commands' \in Seq(Commands)
  BY <1>1, <1>2, <1>3, AppendProperties
<1>5. wire' \o commands' = wire \o commands
  BY <1>1, <1>2, MoveHead
<1>6. a \in Seq(Commands)
  BY <1>1, Typed, CommandsOfType
<1>7. /\ (a \o wire) \o commands = a \o (wire \o commands)
      /\ (a \o wire') \o commands' = a \o (wire' \o commands')
  <2>1. \A x, y, z \in Seq(Commands) : (x \o y) \o z = x \o (y \o z)
    BY ConcatAssociative
  <2> HIDE DEF a
  <2> QED BY <1>1, <1>4, <1>6, <2>1, Zenon
<1>8. ResultMatching'
  <2>1. CommandsOf(pending) = (a \o wire) \o commands
    BY DEF IInv, ResultMatching
  <2>2. CommandsOf(pending') = (CommandsOf(inbox') \o wire') \o commands'
    <3> HIDE DEF a
    <3>1. CommandsOf(inbox') = a /\ pending' = pending
      BY <1>2 DEF a
    <3> QED BY <2>1, <3>1, <1>5, <1>7
  <2> QED BY <2>2 DEF ResultMatching
<1> QED
  BY <1>2, <1>4, <1>8 DEF IInv, TypeOK, Busy, PipelineDrained, serverVars, pcVars, histVars

\* The results received are going to be processed
LEMMA CommunicatedPreserves ==
    ASSUME IInv, NEW n \in 0 .. Len(inbox), Communicated(n)
    PROVE  IInv'
  BY DEF Communicated, IInv, TypeOK, Busy, ResultMatching, PipelineDrained,
         pipeVars, netVars, serverVars, histVars

\* Processing a result
LEMMA ProcessPreserves ==
    ASSUME IInv, Process
    PROVE  IInv'
<1>1. /\ pc = "process" /\ fetched > 0 /\ ProcessNext /\ fetched' = fetched - 1
      /\ UNCHANGED <<level, commands, wire, serverVars, pc, op>>
  BY DEF Process
<1>2. inbox \in Seq(Results) /\ Len(inbox) \in Nat /\ fetched \in 0 .. Len(inbox)
  BY LenProperties DEF IInv, TypeOK
<1>3. inbox # <<>>
  BY <1>1, <1>2, EmptySeq
<1>4. /\ ResultMatching' /\ Len(inbox') = Len(inbox) - 1
      /\ pending' \in Seq(Entries) /\ inbox' \in Seq(Results)
      /\ cache' \in CacheType /\ failed' \in BOOLEAN /\ trouble' \in BOOLEAN
      /\ missed' \in Nat /\ forgotten' \subseteq Nat
  BY <1>1, <1>3, ProcessMatches DEF IInv
<1>5. fetched' \in 0 .. Len(inbox')
  BY <1>1, <1>2, <1>4
<1> QED
  BY <1>1, <1>4, <1>5 DEF IInv, TypeOK, Busy, PipelineDrained, serverVars, histVars

\* Fetching a result
LEMMA FetchPreserves ==
    ASSUME IInv, Fetch
    PROVE  IInv'
<1>1. /\ pc = "fetch" /\ inbox # <<>> /\ ProcessNext
      /\ UNCHANGED <<level, commands, wire, serverVars, pc, op, fetched>>
  BY DEF Fetch
<1>2. inbox \in Seq(Results) /\ Len(inbox) \in Nat \ {0}
  BY <1>1, EmptySeq DEF IInv, TypeOK
<1>4. /\ ResultMatching' /\ Len(inbox') = Len(inbox) - 1
      /\ pending' \in Seq(Entries) /\ inbox' \in Seq(Results)
      /\ cache' \in CacheType /\ failed' \in BOOLEAN /\ trouble' \in BOOLEAN
      /\ missed' \in Nat /\ forgotten' \subseteq Nat
  BY <1>1, ProcessMatches DEF IInv
<1>5. fetched = 0 /\ fetched' \in 0 .. Len(inbox')
  BY <1>1, <1>2, <1>4 DEF IInv, Busy
<1> QED
  BY <1>1, <1>4, <1>5 DEF IInv, TypeOK, Busy, PipelineDrained, serverVars, histVars

\* The end of the processing of the results
LEMMA ProcessedPreserves ==
    ASSUME IInv, Processed
    PROVE  IInv'
<1> DEFINE cmds == [i \in DOMAIN cache.flush |-> Deallocate(cache.flush[i])]
           entries == [i \in DOMAIN cmds |-> Plain(cmds[i])]
<1>1. /\ pc = "process" /\ fetched = 0
      /\ UNCHANGED <<level, netVars, serverVars, fetched, trouble, missed, forgotten>>
  BY DEF Processed, histVars
<1>2. CASE Enqueue(cmds, entries) /\ cache' = [cache EXCEPT !.flush = <<>>] /\ Finish
  <2>1. cache' \in CacheType
    BY <1>2, FlushedType DEF IInv, TypeOK
  <2>2. cache.flush \in Seq(Nat \cup {All})
    BY DEF IInv, TypeOK, CacheType
  <2>3. /\ DOMAIN cache.flush = 1 .. Len(cache.flush) /\ Len(cache.flush) \in Nat
        /\ \A i \in 1 .. Len(cache.flush) : cache.flush[i] \in Nat \cup {All}
    BY <2>2, LenProperties, ElementOfSeq
  <2>4. \A x \in Nat \cup {All} : Deallocate(x) \in Commands
    BY PreparedAssumption DEF Deallocate, Command, Commands
  <2>5. /\ cmds \in Seq(Commands) /\ DOMAIN cmds = 1 .. Len(cache.flush)
        /\ \A i \in 1 .. Len(cache.flush) : cmds[i] \in Commands
    <3> DEFINE n == Len(cache.flush)
    <3>1. cmds = [i \in 1 .. n |-> Deallocate(cache.flush[i])]
      BY <2>3
    <3>2. \A i \in 1 .. n : Deallocate(cache.flush[i]) \in Commands
      BY <2>3, <2>4
    <3>3. n \in Nat
      BY <2>3
    <3> HIDE DEF n, cmds
    <3>4. cmds \in Seq(Commands) /\ DOMAIN cmds = 1 .. n
          /\ \A i \in 1 .. n : cmds[i] \in Commands
      BY <3>1, <3>2, <3>3
    <3> QED BY <3>4 DEF n
  <2> HIDE DEF cmds
  <2>6. \A x \in Commands : Plain(x) \in Entries /\ Plain(x).cmd = x
    BY DEF Plain, Entry, Entries, PrepKinds
  <2>7. entries \in Seq(Entries) /\ DOMAIN entries = DOMAIN cmds
        /\ \A i \in DOMAIN cmds : entries[i] = Plain(cmds[i])
    BY <2>3, <2>5, <2>6
  <2> HIDE DEF entries
  <2>8. CommandsOf(entries) = cmds
    <3>1. CommandsOf(entries) = [i \in DOMAIN cmds |-> cmds[i]]
      BY <2>5, <2>6, <2>7 DEF CommandsOf
    <3>2. cmds = [i \in DOMAIN cmds |-> cmds[i]]
      BY <2>5
    <3> QED BY <3>1, <3>2
  <2>9. ResultMatching' /\ commands' \in Seq(Commands) /\ pending' \in Seq(Entries)
    BY <1>1, <1>2, <2>5, <2>7, <2>8, EnqueueMatches DEF IInv, netVars, histVars
  <2>10. pc' = "idle" /\ op' = "none" /\ failed' = FALSE
    BY <1>2 DEF Finish
  <2>11. level > 0
    BY <1>1 DEF IInv, Busy
  <2>12. Busy' /\ PipelineDrained'
    BY <1>1, <2>10, <2>11 DEF Busy, PipelineDrained
  <2>13. TypeOK'
    <3>1. TypeOK /\ UNCHANGED <<level, wire, inbox, server, aborted, errors, fetched, trouble, missed, forgotten>>
      BY <1>1 DEF IInv, netVars, serverVars, histVars
    <3> QED
      BY <2>1, <2>9, <2>10, <3>1 DEF TypeOK
  <2> QED
    BY <2>9, <2>12, <2>13 DEF IInv
<1>3. CASE Finish /\ UNCHANGED <<cache, pipeVars>>
  BY <1>1, <1>3
  DEF IInv, TypeOK, Busy, ResultMatching, PipelineDrained, Finish,
      pipeVars, netVars, serverVars, histVars
<1>4. CASE pc' = "fetch" /\ UNCHANGED <<cache, pipeVars, op, failed>>
  BY <1>1, <1>4
  DEF IInv, TypeOK, Busy, ResultMatching, PipelineDrained, pipeVars, netVars, serverVars, histVars
<1> QED
  BY <1>2, <1>3, <1>4 DEF Processed

\* The last entry is gone: by the matching, so are the commands and the results
LEMMA FetchEndPreserves ==
    ASSUME IInv, FetchEnd
    PROVE  IInv'
<1>1. /\ pc = "fetch" /\ pending = <<>> /\ Finish
      /\ UNCHANGED <<cache, pipeVars, netVars, serverVars, fetched, trouble, missed, forgotten>>
      /\ level' = CASE op = "exit" -> level - 1
                    [] op = "enter" -> IF failed THEN level ELSE level + 1
                    [] OTHER -> level
  BY DEF FetchEnd, histVars
<1>2. /\ commands \in Seq(Commands) /\ wire \in Seq(Commands)
      /\ pending \in Seq(Entries) /\ inbox \in Seq(Results)
  BY DEF IInv, TypeOK
<1>3. level > 0 /\ level \in 0 .. MaxLevel /\ (op = "enter" => level < MaxLevel)
  BY <1>1 DEF IInv, Busy, TypeOK
<1>4. level' \in 0 .. MaxLevel
  BY <1>1, <1>3, SessionAssumption
<1>5. commands = <<>> /\ wire = <<>> /\ inbox = <<>>
  <2> DEFINE a == CommandsOf(inbox)
  <2>1. a \in Seq(Commands) /\ (a = <<>> <=> inbox = <<>>)
    BY <1>2, Typed, CommandsOfType
  <2>2. (a \o wire) \o commands = <<>>
    <3>1. CommandsOf(pending) = <<>>
      BY <1>1, <1>2, Typed, CommandsOfType
    <3> QED BY <3>1 DEF IInv, ResultMatching
  <2> HIDE DEF a
  <2>3. a \o wire \in Seq(Commands)
    BY <1>2, <2>1, ConcatProperties
  <2>4. a \o wire = <<>> /\ commands = <<>>
    BY <1>2, <2>2, <2>3, ConcatEqualIffEmpty
  <2>5. a = <<>> /\ wire = <<>>
    BY <1>2, <2>1, <2>4, ConcatEqualIffEmpty
  <2> QED BY <2>1, <2>4, <2>5
<1> QED
  BY <1>1, <1>3, <1>4, <1>5
  DEF IInv, TypeOK, Busy, ResultMatching, PipelineDrained, Finish,
      pipeVars, netVars, serverVars, histVars

\* The server executes a command
LEMMA ServePreserves ==
    ASSUME IInv, Serve
    PROVE  IInv'
<1>1. /\ wire # <<>>
      /\ UNCHANGED <<cache, level, pipeVars, pcVars, trouble, missed, forgotten>>
      /\ \E out \in {"ok", "drop", "empty", "error", "aborted", "sync"} : Answer(Head(wire), out)
  <2> DEFINE cmd == Head(wire)
             good == IF cmd.what \in {"query", "execute"} THEN Success(cmd.key) ELSE "ok"
  <2>1. good \in {"ok", "drop", "empty"}
    BY SuccessResult
  <2>2. /\ wire # <<>>
        /\ UNCHANGED <<cache, level, pipeVars, pcVars, histVars>>
        /\ \/ Answer(cmd, "sync") \/ Answer(cmd, "aborted")
           \/ Answer(cmd, good) \/ Answer(cmd, "error")
    BY DEF Serve
  <2> HIDE DEF good
  <2> QED BY <2>1, <2>2 DEF histVars
<1>2. /\ ResultMatching' /\ Head(wire) \in Commands
      /\ wire' \in Seq(Commands) /\ inbox' \in Seq(Results)
      /\ Len(inbox') = Len(inbox) + 1
  BY <1>1, AnswerMatches DEF IInv, pipeVars
<1>3. /\ aborted' \in BOOLEAN /\ errors' \in 0 .. MaxErrors /\ server' \subseteq Nat
  <2>1. /\ server \subseteq Nat /\ aborted \in BOOLEAN /\ errors \in 0 .. MaxErrors
    BY DEF IInv, TypeOK
  <2>2. Head(wire).what = "prepare" => Head(wire).name \in Nat
    BY <1>2 DEF Commands
  <2>3. /\ aborted' \in {TRUE, FALSE, aborted}
        /\ errors' = errors \/ (errors < MaxErrors /\ errors' = errors + 1)
    BY DEF Serve, serverVars, histVars
  <2>4. \/ server' = server
        \/ Head(wire).what = "prepare" /\ server' = server \cup {Head(wire).name}
        \/ server' = server \ {Head(wire).name}
        \/ server' = {}
    BY DEF Serve, serverVars, histVars
  <2>5. server' \subseteq Nat
    BY <2>1, <2>2, <2>4
  <2>6. errors' \in 0 .. MaxErrors
    BY <2>1, <2>3, SessionAssumption
  <2>7. aborted' \in BOOLEAN
    BY <2>1, <2>3
  <2> QED BY <2>5, <2>6, <2>7
<1>4. level # 0
  BY <1>1 DEF IInv, PipelineDrained
<1>5. fetched' \in 0 .. Len(inbox')
  BY <1>1, <1>2, LenProperties DEF IInv, TypeOK, pcVars, histVars
<1> QED
  BY <1>1, <1>2, <1>3, <1>4, <1>5
  DEF IInv, TypeOK, Busy, PipelineDrained, pipeVars, pcVars, histVars

-----------------------------------------------------------------------------
\* The inductive invariant holds at the beginning ...
LEMMA InitInv == Init => IInv
<1>1. NewCache \in CacheType
  BY EmptySeq DEF NewCache, CacheType, Dict
<1>2. CommandsOf(<<>>) = <<>>
  BY DEF CommandsOf
<1> SUFFICES ASSUME Init PROVE IInv
  OBVIOUS
<1>3. TypeOK
  <2>1. Len(inbox) = 0 /\ \A S : <<>> \in Seq(S)
    BY EmptySeq DEF Init
  <2>2. MaxLevel \in Nat /\ MaxErrors \in Nat
    BY SessionAssumption
  <2>3. 0 \in 0 .. MaxLevel /\ 0 \in 0 .. MaxErrors /\ 0 \in 0 .. Len(inbox)
    BY <2>1, <2>2
  <2> QED
    BY <1>1, <2>1, <2>3 DEF Init, TypeOK
<1>4. Busy /\ PipelineDrained
  BY DEF Init, Busy, PipelineDrained
<1>5. ResultMatching
  <2>1. <<>> \o <<>> \o <<>> = <<>>
    OBVIOUS
  <2> QED
    BY <1>2, <2>1 DEF Init, ResultMatching
<1> QED
  BY <1>3, <1>4, <1>5 DEF IInv

\* ... and every step keeps it
LEMMA NextInv == IInv /\ [Next]_vars => IInv'
<1> SUFFICES ASSUME IInv, [Next]_vars PROVE IInv'
  OBVIOUS
<1>1. CASE UNCHANGED vars
  BY <1>1
  DEF vars, IInv, TypeOK, Busy, ResultMatching, PipelineDrained,
      pipeVars, netVars, serverVars, pcVars, histVars
<1>2. CASE \E k \in Queries, flag \in Flags :
              Execute(k, flag) \/ PrepareFails(k, flag) \/ PipelineExecute(k, flag)
  BY <1>2, ExecutePreserves, PrepareFailsPreserves, PipelineExecutePreserves
<1>3. CASE PipelineEnter \/ PipelineSync \/ PipelineExit
  BY <1>3, PipelineEnterPreserves, PipelineSyncPreserves
<1>4. CASE ClientStep
  BY <1>4, SendPreserves, ProcessPreserves, ProcessedPreserves, FetchPreserves,
     FetchEndPreserves, CommunicatedPreserves DEF ClientStep
<1>5. CASE Serve
  BY <1>5, ServePreserves
<1> QED
  BY <1>1, <1>2, <1>3, <1>4, <1>5 DEF Next

\* The state of the session keeps its types, the cache, the queues and what is
\* on the wire included (_preparing.py, _pipeline_base.py)
THEOREM TypeCorrect == Spec => []TypeOK
<1>1. Spec => []IInv
  BY InitInv, NextInv, PTL DEF Spec
<1>2. IInv => TypeOK
  BY DEF IInv
<1> QED
  BY <1>1, <1>2, PTL

\* A result is always matched with the request it answers, however sends,
\* receives and errors interleave (_pipeline_base.py:108-176)
THEOREM MatchingCorrect == Spec => []ResultMatching
<1>1. Spec => []IInv
  BY InitInv, NextInv, PTL DEF Spec
<1>2. IInv => ResultMatching
  BY DEF IInv
<1> QED
  BY <1>1, <1>2, PTL

\* When the outermost pipeline block is left nothing is in flight
\* (_pipeline_base.py:79-106)
THEOREM DrainedCorrect == Spec => []PipelineDrained
<1>1. Spec => []IInv
  BY InitInv, NextInv, PTL DEF Spec
<1>2. IInv => PipelineDrained
  BY DEF IInv
<1> QED
  BY <1>1, <1>2, PTL
-----------------------------------------------------------------------------
(* Dictionaries *)

\* The keys of a dictionary, or the values, are all different
Unique(d) == \A i, j \in DOMAIN d : d[i].key = d[j].key => i = j
UniqueVals(d) == \A i, j \in DOMAIN d : d[i].val = d[j].val => i = j

\* The items of a dictionary
LEMMA DictItems ==
    ASSUME NEW d \in Dict(Nat)
    PROVE  /\ Len(d) \in Nat /\ DOMAIN d = 1 .. Len(d)
           /\ \A i \in 1 .. Len(d) : d[i].key \in Queries /\ d[i].val \in Nat
           /\ Values(d) \subseteq Nat
<1>1. d \in Seq([key : Queries, val : Nat])
  BY DEF Dict
<1>2. /\ Len(d) \in Nat /\ DOMAIN d = 1 .. Len(d)
      /\ \A i \in 1 .. Len(d) : d[i] \in [key : Queries, val : Nat]
  BY <1>1, LenProperties, ElementOfSeq
<1> QED BY <1>2 DEF Values

\* A dictionary without a key has the other items in the same order
LEMMA WithoutItems ==
    ASSUME NEW d \in Dict(Nat), NEW k \in Keys(d)
    PROVE  \E i \in 1 .. Len(d) :
              /\ d[i].key = k /\ At(d, k) = d[i].val
              /\ Len(Without(d, k)) = Len(d) - 1
              /\ \A j \in 1 .. Len(d) - 1 :
                    Without(d, k)[j] = IF j < i THEN d[j] ELSE d[j + 1]
<1> DEFINE S == [key : Queries, val : Nat]
           i == CHOOSE j \in DOMAIN d : d[j].key = k
           w == Without(d, k)
<1>1. d \in Seq(S) /\ Len(d) \in Nat /\ DOMAIN d = 1 .. Len(d)
  BY DictItems DEF Dict
<1>2. i \in 1 .. Len(d) /\ d[i].key = k
  <2>1. \E j \in DOMAIN d : d[j].key = k
    BY DEF Keys
  <2>2. i \in DOMAIN d /\ d[i].key = k
    BY <2>1
  <2> HIDE DEF i
  <2> QED BY <1>1, <2>2
<1>3. At(d, k) = d[i].val /\ w = SubSeq(d, 1, i - 1) \o SubSeq(d, i + 1, Len(d))
  BY DEF At, Without
<1> HIDE DEF i, S, w
<1> DEFINE a == SubSeq(d, 1, i - 1)
           b == SubSeq(d, i + 1, Len(d))
<1>4. a \in Seq(S) /\ Len(a) = i - 1 /\ \A j \in 1 .. i - 1 : a[j] = d[j]
  BY <1>1, <1>2
<1>5. /\ b \in Seq(S) /\ Len(b) = Len(d) - i
      /\ \A j \in 1 .. Len(d) - i : b[j] = d[i + j]
  <2> DEFINE m == i + 1
  <2>1. /\ m \in Int /\ Len(d) \in Int /\ \A j \in m .. Len(d) : d[j] \in S
        /\ m <= Len(d) + 1
    <3>1. \A j \in 1 .. Len(d) : d[j] \in S
      BY <1>1
    <3> QED BY <1>1, <1>2, <3>1
  <2> HIDE DEF m, b
  <2>2. /\ SubSeq(d, m, Len(d)) \in Seq(S)
        /\ Len(SubSeq(d, m, Len(d))) = IF m <= Len(d) THEN Len(d) - m + 1 ELSE 0
        /\ \A j \in 1 .. Len(d) - m + 1 : SubSeq(d, m, Len(d))[j] = d[m + j - 1]
    BY <2>1, SubSeqProperties
  <2>3. b = SubSeq(d, m, Len(d))
    BY DEF b, m
  <2>4. \A j \in 1 .. Len(d) - i : j \in 1 .. Len(d) - m + 1 /\ m + j - 1 = i + j
    BY <1>1, <1>2 DEF m
  <2>5. Len(b) = Len(d) - i
    <3>1. Len(b) = IF m <= Len(d) THEN Len(d) - m + 1 ELSE 0
      BY <2>2, <2>3
    <3>2. m = i + 1
      BY DEF m
    <3>3. \A n \in Nat : \A h \in 1 .. n :
             (IF h + 1 <= n THEN n - (h + 1) + 1 ELSE 0) = n - h
      OBVIOUS
    <3> QED BY <1>1, <1>2, <3>1, <3>2, <3>3
  <2>6. \A j \in 1 .. Len(d) - i : b[j] = d[i + j]
    <3> SUFFICES ASSUME NEW j \in 1 .. Len(d) - i PROVE b[j] = d[i + j]
      OBVIOUS
    <3>1. j \in 1 .. Len(d) - m + 1 /\ m + j - 1 = i + j
      BY <2>4
    <3>2. b[j] = d[m + j - 1]
      BY <2>2, <2>3, <3>1
    <3> QED BY <3>1, <3>2
  <2> QED BY <2>2, <2>3, <2>5, <2>6
<1>6. w = a \o b
  BY <1>3
<1> HIDE DEF a, b
<1>7. /\ Len(w) = Len(a) + Len(b)
      /\ \A j \in 1 .. Len(a) + Len(b) :
            w[j] = IF j <= Len(a) THEN a[j] ELSE b[j - Len(a)]
  BY <1>4, <1>5, <1>6, ConcatProperties
<1>8. Len(w) = Len(d) - 1
  BY <1>1, <1>2, <1>4, <1>5, <1>7
<1>9. ASSUME NEW j \in 1 .. Len(d) - 1
      PROVE  w[j] = IF j < i THEN d[j] ELSE d[j + 1]
  <2>1. CASE j < i
    <3>1. j \in 1 .. i - 1 /\ j <= Len(a) /\ j \in 1 .. Len(a) + Len(b)
      BY <1>1, <1>2, <1>4, <1>5, <2>1
    <3> QED BY <2>1, <3>1, <1>4, <1>7
  <2>2. CASE ~(j < i)
    <3>1. /\ j - Len(a) \in 1 .. Len(d) - i /\ i + (j - Len(a)) = j + 1
          /\ ~(j <= Len(a)) /\ j \in 1 .. Len(a) + Len(b)
      BY <1>1, <1>2, <1>4, <1>5, <2>2
    <3> QED BY <2>2, <3>1, <1>5, <1>7
  <2> QED BY <2>1, <2>2
<1> QED BY <1>2, <1>3, <1>8, <1>9 DEF w

\* ... so it has one key and one value less
LEMMA WithoutDoes ==
    ASSUME NEW d \in Dict(Nat), Unique(d), NEW k \in Keys(d)
    PROVE  LET w == Without(d, k)
           IN  /\ w \in Dict(Nat) /\ Len(w) = Len(d) - 1
               /\ Unique(w) /\ Keys(w) = Keys(d) \ {k}
               /\ Values(w) \subseteq Values(d) /\ At(d, k) \in Values(d)
               /\ UniqueVals(d) => UniqueVals(w) /\ Values(w) = Values(d) \ {At(d, k)}
<1> DEFINE w == Without(d, k)
<1>1. w \in Dict(Nat)
  BY WithoutType
<1>2. PICK i \in 1 .. Len(d) :
        /\ d[i].key = k /\ At(d, k) = d[i].val
        /\ Len(w) = Len(d) - 1
        /\ \A j \in 1 .. Len(d) - 1 : w[j] = IF j < i THEN d[j] ELSE d[j + 1]
  BY WithoutItems
<1> HIDE DEF w
<1>3. /\ Len(d) \in Nat /\ DOMAIN d = 1 .. Len(d) /\ DOMAIN w = 1 .. Len(d) - 1
  BY <1>1, <1>2, DictItems
<1> DEFINE f(j) == IF j < i THEN j ELSE j + 1
<1>4. \A j \in DOMAIN w : f(j) \in DOMAIN d /\ f(j) # i /\ w[j] = d[f(j)]
  BY <1>2, <1>3
<1>5. \A h \in DOMAIN d : h # i => \E j \in DOMAIN w : f(j) = h
  <2> SUFFICES ASSUME NEW h \in DOMAIN d, h # i PROVE \E j \in DOMAIN w : f(j) = h
    OBVIOUS
  <2>1. CASE h < i
    <3>1. h \in DOMAIN w /\ f(h) = h
      BY <1>3, <2>1
    <3> QED BY <3>1
  <2>2. CASE h > i
    <3>1. h - 1 \in DOMAIN w /\ f(h - 1) = h
      BY <1>3, <2>2
    <3> QED BY <3>1
  <2> QED BY <1>3, <2>1, <2>2
<1>6. \A j, h \in DOMAIN w : f(j) = f(h) => j = h
  BY <1>3
<1> HIDE DEF f
<1>7. Unique(w)
  BY <1>4, <1>6 DEF Unique
<1>8. Keys(w) = Keys(d) \ {k}
  <2>1. \A h \in DOMAIN d : d[h].key = k => h = i
    BY <1>2, <1>3 DEF Unique
  <2> QED BY <1>2, <1>3, <1>4, <1>5, <2>1 DEF Keys
<1>9. Values(w) \subseteq Values(d) /\ At(d, k) \in Values(d)
  BY <1>2, <1>3, <1>4 DEF Values
<1>10. ASSUME UniqueVals(d)
       PROVE  UniqueVals(w) /\ Values(w) = Values(d) \ {At(d, k)}
  <2>1. \A h \in DOMAIN d : d[h].val = At(d, k) => h = i
    BY <1>2, <1>3, <1>10 DEF UniqueVals
  <2>2. UniqueVals(w)
    BY <1>4, <1>6, <1>10 DEF UniqueVals
  <2> QED BY <1>2, <1>3, <1>4, <1>5, <2>1, <2>2 DEF Values
<1> QED BY <1>1, <1>2, <1>7, <1>8, <1>9, <1>10 DEF w

\* The oldest item goes
LEMMA DictTailDoes ==
    ASSUME NEW d \in Dict(Nat), Unique(d), d # <<>>
    PROVE  /\ Tail(d) \in Dict(Nat) /\ Len(Tail(d)) = Len(d) - 1
           /\ Unique(Tail(d)) /\ Keys(Tail(d)) \subseteq Keys(d)
           /\ Head(d).val \in Values(d)
           /\ UniqueVals(d) => /\ UniqueVals(Tail(d))
                               /\ Values(Tail(d)) = Values(d) \ {Head(d).val}
<1> DEFINE t == Tail(d)
<1>1. /\ t \in Dict(Nat) /\ Len(t) = Len(d) - 1 /\ Len(d) \in Nat \ {0}
      /\ Head(d) = d[1] /\ \A j \in 1 .. Len(d) - 1 : t[j] = d[j + 1]
  BY HeadTailProperties, EmptySeq, DictTail, DictItems DEF Dict
<1> HIDE DEF t
<1>2. DOMAIN d = 1 .. Len(d) /\ DOMAIN t = 1 .. Len(d) - 1
  BY <1>1, DictItems
<1>3. \A j \in DOMAIN t : j + 1 \in DOMAIN d /\ j + 1 # 1 /\ t[j] = d[j + 1]
  BY <1>1, <1>2
<1>4. \A h \in DOMAIN d : h # 1 => h - 1 \in DOMAIN t /\ (h - 1) + 1 = h
  BY <1>1, <1>2
<1>5. \A j, h \in DOMAIN t : j + 1 = h + 1 => j = h
  BY <1>2
<1>6. Unique(t)
  BY <1>3, <1>5 DEF Unique
<1>7. 1 \in DOMAIN d
  BY <1>1, <1>2
<1>8. Keys(t) \subseteq Keys(d) /\ Head(d).val \in Values(d)
  BY <1>1, <1>3, <1>7 DEF Keys, Values
<1>9. ASSUME UniqueVals(d)
      PROVE  UniqueVals(t) /\ Values(t) = Values(d) \ {Head(d).val}
  <2>1. \A h \in DOMAIN d : d[h].val = Head(d).val => h = 1
    BY <1>1, <1>7, <1>9 DEF UniqueVals
  <2>2. UniqueVals(t)
    BY <1>3, <1>5, <1>9 DEF UniqueVals
  <2>3. ASSUME NEW v \in Values(t) PROVE v \in Values(d) /\ v # Head(d).val
    BY <1>3, <2>1, <2>3 DEF Values
  <2>4. ASSUME NEW v \in Values(d), v # Head(d).val PROVE v \in Values(t)
    <3>1. PICK h \in DOMAIN d : v = d[h].val
      BY DEF Values
    <3>2. h # 1
      BY <1>1, <2>4, <3>1
    <3>3. h - 1 \in DOMAIN t /\ t[h - 1] = d[h]
      BY <1>3, <1>4, <3>2
    <3> QED BY <3>1, <3>3 DEF Values
  <2> QED BY <2>2, <2>3, <2>4
<1> QED BY <1>1, <1>6, <1>8, <1>9 DEF t

\* An item is set as the most recent one
LEMMA AppendItem ==
    ASSUME NEW d \in Dict(Nat), Unique(d), NEW k \in Queries, NEW v \in Nat, k \notin Keys(d)
    PROVE  LET a == Append(d, [key |-> k, val |-> v])
           IN  /\ a \in Dict(Nat) /\ Len(a) = Len(d) + 1
               /\ Unique(a) /\ Keys(a) = Keys(d) \cup {k} /\ Values(a) = Values(d) \cup {v}
               /\ UniqueVals(d) /\ v \notin Values(d) => UniqueVals(a)
<1> DEFINE x == [key |-> k, val |-> v]
           a == Append(d, x)
           n == Len(d) + 1
<1>1. x \in [key : Queries, val : Nat] /\ x.key = k /\ x.val = v
  OBVIOUS
<1> HIDE DEF x
<1>2. /\ a \in Dict(Nat) /\ Len(a) = Len(d) + 1 /\ Len(d) \in Nat
      /\ a[n] = x /\ \A j \in 1 .. Len(d) : a[j] = d[j]
  BY <1>1, AppendProperties, DictItems DEF Dict
<1> HIDE DEF a
<1>3. DOMAIN d = 1 .. Len(d) /\ DOMAIN a = DOMAIN d \cup {n} /\ n \notin DOMAIN d
  <2>1. DOMAIN d = 1 .. Len(d) /\ DOMAIN a = 1 .. n
    BY <1>2, DictItems
  <2> QED BY <1>2, <2>1
<1>4. \A j \in DOMAIN d : a[j] = d[j]
  BY <1>2, <1>3
<1> HIDE DEF n
<1>5. Keys(a) = Keys(d) \cup {k} /\ Values(a) = Values(d) \cup {v}
  BY <1>1, <1>2, <1>3, <1>4 DEF Keys, Values
<1>6. \A j \in DOMAIN d : d[j].key # k
  BY DEF Keys
<1>7. Unique(a)
  BY <1>1, <1>2, <1>3, <1>4, <1>6 DEF Unique
<1>8. ASSUME UniqueVals(d), v \notin Values(d) PROVE UniqueVals(a)
  <2>1. \A j \in DOMAIN d : d[j].val # v
    BY <1>8 DEF Values
  <2> QED BY <1>1, <1>2, <1>3, <1>4, <1>8, <2>1 DEF UniqueVals
<1> QED BY <1>2, <1>5, <1>7, <1>8 DEF a, x

\* Setting a new key
LEMMA PutNew ==
    ASSUME NEW d \in Dict(Nat), Unique(d), NEW k \in Queries, NEW v \in Nat, k \notin Keys(d)
    PROVE  LET q == Put(d, k, v)
           IN  /\ q \in Dict(Nat) /\ Len(q) = Len(d) + 1
               /\ Unique(q) /\ Keys(q) = Keys(d) \cup {k} /\ Values(q) = Values(d) \cup {v}
               /\ UniqueVals(d) /\ v \notin Values(d) => UniqueVals(q)
<1>1. Put(d, k, v) = Append(d, [key |-> k, val |-> v])
  BY DEF Put, Without
<1> QED BY <1>1, AppendItem

\* ... and one that is there
LEMMA PutOld ==
    ASSUME NEW d \in Dict(Nat), Unique(d), NEW k \in Keys(d), NEW v \in Nat
    PROVE  LET q == Put(d, k, v)
           IN  /\ q \in Dict(Nat) /\ Len(q) = Len(d)
               /\ Unique(q) /\ Keys(q) = Keys(d)
               /\ UniqueVals(d) /\ v = At(d, k)
                     => UniqueVals(q) /\ Values(q) = Values(d)
<1> DEFINE w == Without(d, k)
           q == Append(w, [key |-> k, val |-> v])
<1>1. /\ w \in Dict(Nat) /\ Len(w) = Len(d) - 1
      /\ Unique(w) /\ Keys(w) = Keys(d) \ {k} /\ At(d, k) \in Values(d)
      /\ UniqueVals(d) => UniqueVals(w) /\ Values(w) = Values(d) \ {At(d, k)}
  BY WithoutDoes
<1>2. k \in Queries /\ Len(d) \in Nat
  BY DictItems DEF Keys
<1>3. k \notin Keys(w)
  BY <1>1
<1> HIDE DEF w
<1>4. /\ q \in Dict(Nat) /\ Len(q) = Len(w) + 1
      /\ Unique(q) /\ Keys(q) = Keys(w) \cup {k} /\ Values(q) = Values(w) \cup {v}
      /\ UniqueVals(w) /\ v \notin Values(w) => UniqueVals(q)
  BY <1>1, <1>2, <1>3, AppendItem
<1>5. Put(d, k, v) = q
  BY DEF Put, w
<1>6. Len(q) = Len(d)
  BY <1>1, <1>2, <1>4
<1>7. Keys(q) = Keys(d)
  BY <1>1, <1>4
<1>8. ASSUME UniqueVals(d), v = At(d, k) PROVE UniqueVals(q) /\ Values(q) = Values(d)
  BY <1>1, <1>4, <1>8
<1> HIDE DEF q
<1> QED BY <1>4, <1>5, <1>6, <1>7, <1>8

-----------------------------------------------------------------------------
(* The cache *)

\* A query is counted or prepared, and has a name of its own that was given
Sound(p) ==
    /\ Unique(p.counts) /\ Unique(p.names) /\ UniqueVals(p.names)
    /\ Keys(p.counts) \cap Keys(p.names) = {}
    /\ \A v \in Values(p.names) : v < p.idx
    /\ \A i \in DOMAIN p.flush : p.flush[i] # All => p.flush[i] < p.idx

Size(p) == Len(p.counts) + Len(p.names)

\* The number of queries in the cache
LEMMA SizeIs ==
    ASSUME NEW p, NEW d, NEW e, p.counts = d, p.names = e
    PROVE  Size(p) = Len(d) + Len(e)
  BY DEF Size

\* How the size changes with the dictionaries
LEMMA SizeChange ==
    ASSUME NEW p \in CacheType, NEW d, NEW e, p.counts = d, p.names = e
    PROVE  /\ Len(d) \in Nat /\ Len(e) \in Nat /\ Size(p) \in Nat
           /\ Size(p) = Len(d) + Len(e)
<1>1. d \in Dict(Nat) /\ e \in Dict(Nat)
  BY DEF CacheType
<1>2. Len(d) \in Nat /\ Len(e) \in Nat
  BY <1>1, DictItems
<1> QED BY <1>2, SizeIs

\* The fields of a cache
LEMMA CacheFields ==
    ASSUME NEW p \in CacheType
    PROVE  /\ p.counts \in Dict(Nat) /\ p.names \in Dict(Nat) /\ p.idx \in Nat
           /\ p.flush \in Seq(Nat \cup {All})
           /\ Len(p.counts) \in Nat /\ Len(p.names) \in Nat /\ Size(p) \in Nat
<1>1. /\ p.counts \in Dict(Nat) /\ p.names \in Dict(Nat) /\ p.idx \in Nat
      /\ p.flush \in Seq(Nat \cup {All})
  BY DEF CacheType
<1>2. Len(p.counts) \in Nat /\ Len(p.names) \in Nat
  BY <1>1, DictItems
<1>3. Size(p) \in Nat
  BY SizeChange
<1> QED BY <1>1, <1>2, <1>3

\* The name of a query that is executed prepared
LEMMA NameKnown ==
    ASSUME NEW p \in CacheType, NEW k, k \in Keys(p.names)
    PROVE  At(p.names, k) \in Values(p.names)
<1> DEFINE i == CHOOSE j \in DOMAIN p.names : p.names[j].key = k
<1>1. \E j \in DOMAIN p.names : p.names[j].key = k
  BY DEF Keys
<1>2. i \in DOMAIN p.names
  BY <1>1
<1>3. At(p.names, k) = p.names[i].val
  BY DEF At
<1> HIDE DEF i
<1> QED BY <1>2, <1>3 DEF Values

\* a is the cache c after a query k was added to it, to be executed as prep with name
Adds(c, k, prep, name, a) ==
    /\ a \in CacheType /\ Sound(a) /\ a.flush = c.flush
    /\ a.idx = IF prep = "should" THEN c.idx + 1 ELSE c.idx
    /\ Size(a) = Size(c) + (IF IsNew(c, k) THEN 1 ELSE 0)
    /\ prep = "should" => name = c.idx /\ Values(a.names) = Values(c.names) \cup {name}
    /\ prep = "yes" => name \in Values(c.names)
    /\ prep = "no" => name = All
    /\ prep # "should" => Values(a.names) = Values(c.names)
    /\ IsNew(c, k) => ~IsNew(a, k)
    /\ IsNew(c, k) /\ prep = "no" => k \notin Keys(a.names)

\* maybe_add_to_cache() adds a new query to the counts, or to the names with a new
\* name, or moves one that is there
LEMMA MaybeAddDoes ==
    ASSUME NEW c \in CacheType, Sound(c), NEW k \in Queries, NEW flag
    PROVE  LET prep == Get(c, k, flag)
               name == NameOf(c, k, prep)
               p == NextName(c, prep)
           IN  /\ Adds(c, k, prep, name, MaybeAdd(p, k, prep, name))
               /\ IsNew(p, k) <=> IsNew(c, k)
               /\ prep \in {"no", "yes", "should"}
               /\ IsNew(c, k) => prep # "yes"
<1> DEFINE prep == Get(c, k, flag)
           name == NameOf(c, k, prep)
           p == NextName(c, prep)
           a == MaybeAdd(p, k, prep, name)
<1>1. prep \in {"no", "yes", "should"} /\ (prep = "yes" <=> k \in Keys(c.names) /\ flag # "never")
  BY DEF Get
<1>2. prep = "should" => k \notin Keys(c.names)
  BY DEF Get
<1>3. /\ prep = "yes" => name \in Values(c.names)
      /\ prep = "should" => name = c.idx
      /\ prep = "no" => name = All
  <2>1. prep = "yes" => name = At(c.names, k)
    BY <1>1 DEF NameOf
  <2>2. prep = "should" => name = c.idx
    BY DEF NameOf
  <2>3. prep = "no" => name = All
    BY DEF NameOf
  <2> HIDE DEF prep, name
  <2> QED BY <1>1, <2>1, <2>2, <2>3, NameKnown
<1>4. /\ p \in CacheType
      /\ p.counts = c.counts /\ p.names = c.names /\ p.flush = c.flush
      /\ p.idx = IF prep = "should" THEN c.idx + 1 ELSE c.idx
  <2> HIDE DEF prep
  <2> QED BY NextNameType DEF NextName, CacheType
<1>5. a = MaybeAdd(p, k, prep, name)
  OBVIOUS
<1> SUFFICES /\ Adds(c, k, prep, name, a) /\ (IsNew(p, k) <=> IsNew(c, k))
             /\ prep \in {"no", "yes", "should"} /\ (IsNew(c, k) => prep # "yes")
  OBVIOUS
<1> HIDE DEF prep, name, p, a
<1>6. (IsNew(p, k) <=> IsNew(c, k)) /\ prep \in {"no", "yes", "should"}
  BY <1>1, <1>4 DEF IsNew
<1>7. IsNew(c, k) => prep # "yes"
  BY <1>1 DEF IsNew
<1>8. PICK d, e : d = c.counts /\ e = c.names
  OBVIOUS
<1>9. /\ d \in Dict(Nat) /\ Unique(d) /\ Len(d) \in Nat
      /\ e \in Dict(Nat) /\ Unique(e) /\ UniqueVals(e) /\ Len(e) \in Nat
      /\ c.idx \in Nat /\ \A v \in Values(e) : v < c.idx /\ v \in Nat
      /\ Keys(d) \cap Keys(e) = {}
      /\ Size(c) = Len(d) + Len(e)
  <2>1. d \in Dict(Nat) /\ e \in Dict(Nat) /\ c.idx \in Nat
    BY <1>8, CacheFields
  <2>2. Len(d) \in Nat /\ Len(e) \in Nat /\ Size(c) = Len(d) + Len(e)
    BY <1>8, SizeChange
  <2> QED BY <1>8, <2>1, <2>2, DictItems DEF Sound
<1>10. IsNew(c, k) <=> k \notin Keys(d) /\ k \notin Keys(e)
  BY <1>8 DEF IsNew
<1>11. \A i \in DOMAIN c.flush :
         c.flush[i] # All => c.flush[i] < c.idx /\ c.flush[i] < c.idx + 1
  <2>1. \A i \in DOMAIN c.flush : c.flush[i] # All => c.flush[i] \in Nat
    BY CacheFields
  <2> QED BY <1>9, <2>1 DEF Sound
<1>12. CASE prep = "should"
  <2> DEFINE w == Without(d, k)
             q == Put(e, k, name)
             n == IF k \in Keys(d) THEN 1 ELSE 0
  <2>1. name = c.idx /\ name \in Nat /\ name \notin Values(e) /\ k \notin Keys(e)
    BY <1>2, <1>3, <1>8, <1>9, <1>12
  <2>2. /\ q \in Dict(Nat) /\ Len(q) = Len(e) + 1
        /\ Unique(q) /\ Keys(q) = Keys(e) \cup {k}
        /\ Values(q) = Values(e) \cup {name} /\ UniqueVals(q)
    BY <1>9, <2>1, PutNew
  <2>3. /\ w \in Dict(Nat) /\ Unique(w) /\ Keys(w) = Keys(d) \ {k}
        /\ Len(w) = Len(d) - n
    <3>1. CASE k \in Keys(d)
      BY <1>9, <3>1, WithoutDoes
    <3>2. CASE k \notin Keys(d)
      <4>1. w = d
        BY <3>2 DEF Without
      <4> QED BY <1>9, <3>2, <4>1
    <3> QED BY <3>1, <3>2
  <2>4. a = [p EXCEPT !.counts = w, !.names = q]
    BY <1>4, <1>5, <1>8, <1>12 DEF MaybeAdd
  <2>5. n = (IF IsNew(c, k) THEN 0 ELSE 1) /\ n \in 0 .. 1
    BY <1>10, <2>1
  <2> HIDE DEF w, q, n
  <2>6. /\ a \in CacheType /\ a.counts = w /\ a.names = q /\ a.flush = c.flush
        /\ a.idx = c.idx + 1
    BY <1>4, <1>12, <2>2, <2>3, <2>4 DEF CacheType
  <2>7. \A v \in Values(q) : v < c.idx + 1
    BY <1>9, <2>1, <2>2
  <2>8. Sound(a)
    BY <1>9, <1>11, <2>2, <2>3, <2>6, <2>7 DEF Sound
  <2>9. Size(a) = Size(c) + (1 - n)
    <3>1. Size(a) = Len(w) + Len(q)
      BY <2>6, SizeChange
    <3> QED BY <1>9, <2>2, <2>3, <2>5, <3>1
  <2>10. Size(a) = Size(c) + (IF IsNew(c, k) THEN 1 ELSE 0)
    BY <2>5, <2>9
  <2>11. ~IsNew(a, k) /\ Values(a.names) = Values(c.names) \cup {name}
    BY <1>8, <2>2, <2>6 DEF IsNew
  <2>12. a.idx = IF prep = "should" THEN c.idx + 1 ELSE c.idx
    BY <1>12, <2>6
  <2>13. name = c.idx /\ prep # "yes" /\ prep # "no"
    BY <1>12, <2>1
  <2>14. Adds(c, k, prep, name, a)
    BY <1>12, <2>6, <2>8, <2>10, <2>11, <2>12, <2>13, Zenon DEF Adds
  <2> QED BY <1>6, <1>7, <2>14
<1>13. CASE prep # "should" /\ k \in Keys(e)
  <2> DEFINE q == Put(e, k, At(e, k))
  <2>1. k \notin Keys(d) /\ At(e, k) \in Nat
    BY <1>9, <1>13, AtType
  <2>2. /\ q \in Dict(Nat) /\ Len(q) = Len(e)
        /\ Unique(q) /\ Keys(q) = Keys(e)
        /\ UniqueVals(q) /\ Values(q) = Values(e)
    BY <1>9, <1>13, <2>1, PutOld
  <2>3. a = [p EXCEPT !.names = q]
    BY <1>4, <1>5, <1>8, <1>13, <2>1 DEF MaybeAdd
  <2> HIDE DEF q
  <2>4. /\ a \in CacheType /\ a.counts = d /\ a.names = q /\ a.flush = c.flush
        /\ a.idx = c.idx
    BY <1>4, <1>8, <1>13, <2>2, <2>3 DEF CacheType
  <2>5. Sound(a)
    BY <1>9, <1>11, <2>2, <2>4 DEF Sound
  <2>6. ~IsNew(c, k)
    BY <1>10, <1>13
  <2>7. Size(a) = Size(c) + 0
    <3>1. Size(a) = Len(d) + Len(q)
      BY <2>4, SizeChange
    <3> QED BY <1>9, <2>2, <3>1
  <2>8. Values(a.names) = Values(c.names)
    BY <1>8, <2>2, <2>4
  <2>9. /\ Size(a) = Size(c) + (IF IsNew(c, k) THEN 1 ELSE 0)
        /\ a.idx = IF prep = "should" THEN c.idx + 1 ELSE c.idx
    BY <1>13, <2>4, <2>6, <2>7
  <2>10. Adds(c, k, prep, name, a)
    BY <1>3, <1>13, <2>4, <2>5, <2>6, <2>8, <2>9, Zenon DEF Adds
  <2> QED BY <1>6, <1>7, <2>10
<1>14. CASE prep # "should" /\ k \notin Keys(e)
  <2> DEFINE v == Counted(p, k)
             q == Put(d, k, v)
             n == IF k \in Keys(d) THEN 0 ELSE 1
  <2>1. v \in Nat
    <3>1. k \in Keys(p.counts) => At(p.counts, k) \in Nat
      BY <1>4, <1>8, <1>9, AtType
    <3> QED BY <3>1 DEF Counted
  <2>2. a = [p EXCEPT !.counts = q]
    BY <1>4, <1>5, <1>8, <1>14 DEF MaybeAdd
  <2> HIDE DEF v
  <2>3. /\ q \in Dict(Nat) /\ Unique(q) /\ Keys(q) = Keys(d) \cup {k}
        /\ Len(q) = Len(d) + n
    <3>1. CASE k \in Keys(d)
      <4>1. /\ q \in Dict(Nat) /\ Unique(q) /\ Keys(q) = Keys(d)
            /\ Len(q) = Len(d)
        BY <1>9, <2>1, <3>1, PutOld
      <4> QED BY <1>9, <3>1, <4>1
    <3>2. CASE k \notin Keys(d)
      BY <1>9, <2>1, <3>2, PutNew
    <3> QED BY <3>1, <3>2
  <2>4. n = (IF IsNew(c, k) THEN 1 ELSE 0) /\ n \in 0 .. 1
    BY <1>10, <1>14
  <2> HIDE DEF q, n
  <2>5. /\ a \in CacheType /\ a.counts = q /\ a.names = e /\ a.flush = c.flush
        /\ a.idx = c.idx
    BY <1>4, <1>8, <1>14, <2>2, <2>3 DEF CacheType
  <2>6. Sound(a)
    BY <1>9, <1>11, <1>14, <2>3, <2>5 DEF Sound
  <2>7. Size(a) = Size(c) + n
    <3>1. Size(a) = Len(q) + Len(e)
      BY <2>5, SizeChange
    <3> QED BY <1>9, <2>3, <2>4, <3>1
  <2>8. /\ Size(a) = Size(c) + (IF IsNew(c, k) THEN 1 ELSE 0)
        /\ a.idx = IF prep = "should" THEN c.idx + 1 ELSE c.idx
    BY <1>14, <2>4, <2>5, <2>7
  <2>9. /\ ~IsNew(a, k) /\ k \notin Keys(a.names)
        /\ Values(a.names) = Values(c.names)
    BY <1>8, <1>14, <2>3, <2>5 DEF IsNew
  <2>10. Adds(c, k, prep, name, a)
    BY <1>3, <1>14, <2>5, <2>6, <2>8, <2>9, Zenon DEF Adds
  <2> QED BY <1>6, <1>7, <2>10
<1> QED BY <1>12, <1>13, <1>14

\* A dictionary without items
LEMMA EmptyDict ==
    /\ <<>> \in Dict(Nat) /\ Len(<<>>) = 0 /\ Keys(<<>>) = {} /\ Values(<<>>) = {}
    /\ Unique(<<>>) /\ UniqueVals(<<>>)
  BY DEF Dict, Keys, Values, Unique, UniqueVals

\* What was prepared is still known with v as with p, or was cleared, or its oldest
\* item is to be deallocated
Keeps(p, v) == v.flush = p.flush /\ Values(v.names) = Values(p.names)
Clears(v) == v.flush = <<All>> /\ Values(v.names) = {}
Evicts(p, v) ==
    \E n \in Values(p.names) :
        v.flush = Append(p.flush, n) /\ Values(v.names) = Values(p.names) \ {n}

\* clear()
LEMMA ClearDoes ==
    ASSUME NEW p \in CacheType, Sound(p)
    PROVE  LET v == Clear(p)
           IN  /\ v \in CacheType /\ Sound(v) /\ v.idx = p.idx /\ Size(v) = 0
               /\ v.counts = <<>> /\ v.names = <<>>
               /\ p.names = <<>> => Keeps(p, v)
               /\ p.names # <<>> => Clears(v)
<1> DEFINE v == Clear(p)
<1>1. v \in CacheType
  BY ClearType
<1>2. v = IF p.names = <<>> THEN [p EXCEPT !.counts = <<>>]
          ELSE [p EXCEPT !.counts = <<>>, !.names = <<>>, !.flush = <<All>>]
  BY DEF Clear
<1> HIDE DEF v
<1>3. /\ v.counts = <<>> /\ v.names = <<>> /\ v.idx = p.idx
      /\ v.flush = IF p.names = <<>> THEN p.flush ELSE <<All>>
  BY <1>2 DEF CacheType
<1>4. Sound(v)
  <2>1. \A i \in DOMAIN v.flush : v.flush[i] # All => v.flush[i] < v.idx
    BY <1>3 DEF Sound
  <2> QED BY <1>3, <2>1, EmptyDict DEF Sound
<1>5. Size(v) = 0
  <2>1. Size(v) = Len(<<>>) + Len(<<>>)
    BY <1>1, <1>3, SizeChange
  <2> QED BY <2>1
<1>6. /\ p.names = <<>> => Keeps(p, v)
      /\ p.names # <<>> => Clears(v)
  BY <1>3, EmptyDict DEF Keeps, Clears
<1> QED BY <1>1, <1>3, <1>4, <1>5, <1>6 DEF v

\* _rotate()
LEMMA RotateDoes ==
    ASSUME NEW p \in CacheType, Sound(p)
    PROVE  LET v == Rotate(p)
           IN  /\ v \in CacheType /\ Sound(v) /\ v.idx = p.idx /\ Size(v) <= Size(p)
               /\ Size(p) > 2 * PreparedMax => Size(v) <= Size(p) - 1
               /\ Keeps(p, v) \/ Evicts(p, v)
<1> DEFINE v == Rotate(p)
<1>1. PICK d, e : d = p.counts /\ e = p.names
  OBVIOUS
<1>2. /\ d \in Dict(Nat) /\ Unique(d) /\ Len(d) \in Nat
      /\ e \in Dict(Nat) /\ Unique(e) /\ UniqueVals(e) /\ Len(e) \in Nat
      /\ p.idx \in Nat /\ \A n \in Values(e) : n < p.idx /\ n \in Nat
      /\ Keys(d) \cap Keys(e) = {}
      /\ Size(p) = Len(d) + Len(e)
  <2>1. d \in Dict(Nat) /\ e \in Dict(Nat) /\ p.idx \in Nat
    BY <1>1, CacheFields
  <2>2. Len(d) \in Nat /\ Len(e) \in Nat /\ Size(p) = Len(d) + Len(e)
    BY <1>1, SizeChange
  <2> QED BY <1>1, <2>1, <2>2, DictItems DEF Sound
<1> DEFINE long(s) == Len(s) > PreparedMax
           cut(s) == IF long(s) THEN Tail(s) ELSE s
           f == IF long(e) THEN Append(p.flush, Head(e).val) ELSE p.flush
<1>3. v = [p EXCEPT !.counts = cut(d), !.names = cut(e), !.flush = f]
  BY <1>1 DEF Rotate, CacheType
<1>4. v \in CacheType
  BY RotateType
<1> HIDE DEF v
<1>5. /\ v.counts = cut(d) /\ v.names = cut(e) /\ v.flush = f /\ v.idx = p.idx
  BY <1>3 DEF CacheType
<1>6. \A s \in Dict(Nat) :
         Unique(s) => /\ cut(s) \in Dict(Nat) /\ Unique(cut(s)) /\ Keys(cut(s)) \subseteq Keys(s)
                      /\ Len(cut(s)) = Len(s) - (IF long(s) THEN 1 ELSE 0)
                      /\ UniqueVals(s) => UniqueVals(cut(s))
                      /\ long(s) => /\ Head(s).val \in Values(s)
                                    /\ UniqueVals(s)
                                          => Values(cut(s)) = Values(s) \ {Head(s).val}
  <2> SUFFICES ASSUME NEW s \in Dict(Nat), Unique(s)
               PROVE  /\ cut(s) \in Dict(Nat) /\ Unique(cut(s)) /\ Keys(cut(s)) \subseteq Keys(s)
                      /\ Len(cut(s)) = Len(s) - (IF long(s) THEN 1 ELSE 0)
                      /\ UniqueVals(s) => UniqueVals(cut(s))
                      /\ long(s) => /\ Head(s).val \in Values(s)
                                    /\ UniqueVals(s)
                                          => Values(cut(s)) = Values(s) \ {Head(s).val}
    OBVIOUS
  <2>1. Len(s) \in Nat
    BY DictItems
  <2>2. CASE long(s)
    <3>1. s # <<>>
      BY <2>1, <2>2, PreparedAssumption, EmptySeq
    <3>2. cut(s) = Tail(s)
      BY <2>2
    <3> HIDE DEF cut
    <3> QED BY <2>2, <3>1, <3>2, DictTailDoes
  <2>3. CASE ~long(s)
    BY <2>1, <2>3
  <2> QED BY <2>2, <2>3
<1> HIDE DEF cut
<1>7. ~long(e) => cut(e) = e
  BY DEF cut
<1>8. PICK x, y : x = cut(d) /\ y = cut(e)
  OBVIOUS
<1>9. /\ Unique(x) /\ Keys(x) \subseteq Keys(d) /\ Unique(y) /\ Keys(y) \subseteq Keys(e)
      /\ UniqueVals(y)
      /\ Len(x) = Len(d) - (IF long(d) THEN 1 ELSE 0)
      /\ Len(y) = Len(e) - (IF long(e) THEN 1 ELSE 0)
      /\ long(e) => Head(e).val \in Values(e) /\ Values(y) = Values(e) \ {Head(e).val}
      /\ ~long(e) => y = e
  BY <1>2, <1>6, <1>7, <1>8
<1>10. v.counts = x /\ v.names = y
  BY <1>5, <1>8
<1>11. Size(v) <= Size(p) /\ (Size(p) > 2 * PreparedMax => Size(v) <= Size(p) - 1)
  <2>1. Size(v) = Len(x) + Len(y)
    BY <1>4, <1>10, SizeChange
  <2>2. \A m, n, b, r, t \in Nat :
           /\ r = m - (IF m > b THEN 1 ELSE 0) /\ t = n - (IF n > b THEN 1 ELSE 0)
           => r + t <= m + n /\ (m + n > 2 * b => r + t <= m + n - 1)
    OBVIOUS
  <2>3. Len(x) \in Nat /\ Len(y) \in Nat /\ PreparedMax \in Nat
    BY <1>4, <1>10, SizeChange, PreparedAssumption
  <2>4. /\ Len(x) = Len(d) - (IF Len(d) > PreparedMax THEN 1 ELSE 0)
        /\ Len(y) = Len(e) - (IF Len(e) > PreparedMax THEN 1 ELSE 0)
    BY <1>9
  <2>5. /\ Len(x) + Len(y) <= Len(d) + Len(e)
        /\ (Len(d) + Len(e) > 2 * PreparedMax => Len(x) + Len(y) <= Len(d) + Len(e) - 1)
    BY <1>2, <2>2, <2>3, <2>4
  <2> QED BY <1>2, <2>1, <2>5
<1>12. \A i \in DOMAIN f : f[i] # All => f[i] < p.idx
  <2>1. CASE long(e)
    <3>1. f = Append(p.flush, Head(e).val) /\ Head(e).val < p.idx
      BY <1>2, <1>9, <2>1
    <3>2. /\ p.flush \in Seq(Nat \cup {All}) /\ Head(e).val \in Nat
          /\ \A i \in DOMAIN p.flush : p.flush[i] # All => p.flush[i] < p.idx
      BY <1>2, <1>9, <2>1, CacheFields DEF Sound
    <3> HIDE DEF f
    <3> QED BY <3>1, <3>2
  <2>2. CASE ~long(e)
    BY <2>2 DEF Sound
  <2> QED BY <2>1, <2>2
<1>13. Keeps(p, v) \/ Evicts(p, v)
  <2>1. CASE long(e)
    BY <1>1, <1>5, <1>9, <1>10, <2>1 DEF Evicts
  <2>2. CASE ~long(e)
    BY <1>1, <1>5, <1>9, <1>10, <2>2 DEF Keeps
  <2> QED BY <2>1, <2>2
<1>14. Sound(v)
  <2>1. \A n \in Values(y) : n < p.idx
    BY <1>2, <1>9
  <2> HIDE DEF f, long
  <2> QED BY <1>2, <1>5, <1>9, <1>10, <1>12, <2>1 DEF Sound
<1> HIDE DEF f, long
<1> QED BY <1>4, <1>5, <1>11, <1>13, <1>14 DEF v

\* A query that failed is removed
LEMMA PopDoes ==
    ASSUME NEW p \in CacheType, Sound(p), NEW k
    PROVE  LET v == [p EXCEPT !.counts = Without(@, k), !.names = Without(@, k)]
           IN  /\ v \in CacheType /\ Sound(v) /\ v.idx = p.idx /\ v.flush = p.flush
               /\ Size(v) = Size(p) - (IF IsNew(p, k) THEN 0 ELSE 1)
               /\ Values(v.names) \subseteq Values(p.names)
               /\ k \notin Keys(p.names) => Keeps(p, v)
<1> DEFINE v == [p EXCEPT !.counts = Without(p.counts, k), !.names = Without(p.names, k)]
<1>1. PICK d, e : d = p.counts /\ e = p.names
  OBVIOUS
<1>2. /\ d \in Dict(Nat) /\ Unique(d) /\ Len(d) \in Nat
      /\ e \in Dict(Nat) /\ Unique(e) /\ UniqueVals(e) /\ Len(e) \in Nat
      /\ Keys(d) \cap Keys(e) = {}
      /\ Size(p) = Len(d) + Len(e)
      /\ \A n \in Values(e) : n < p.idx
  <2>1. d \in Dict(Nat) /\ e \in Dict(Nat)
    BY <1>1, CacheFields
  <2>2. Len(d) \in Nat /\ Len(e) \in Nat /\ Size(p) = Len(d) + Len(e)
    BY <1>1, SizeChange
  <2> QED BY <1>1, <2>1, <2>2 DEF Sound
<1>3. \A s \in Dict(Nat) :
         Unique(s) => /\ Without(s, k) \in Dict(Nat) /\ Unique(Without(s, k))
                      /\ Keys(Without(s, k)) \subseteq Keys(s)
                      /\ Values(Without(s, k)) \subseteq Values(s)
                      /\ Len(Without(s, k)) = Len(s) - (IF k \in Keys(s) THEN 1 ELSE 0)
                      /\ UniqueVals(s) => UniqueVals(Without(s, k))
                      /\ k \notin Keys(s) => Without(s, k) = s
  <2> SUFFICES ASSUME NEW s \in Dict(Nat), Unique(s)
               PROVE  /\ Without(s, k) \in Dict(Nat) /\ Unique(Without(s, k))
                      /\ Keys(Without(s, k)) \subseteq Keys(s)
                      /\ Values(Without(s, k)) \subseteq Values(s)
                      /\ Len(Without(s, k)) = Len(s) - (IF k \in Keys(s) THEN 1 ELSE 0)
                      /\ UniqueVals(s) => UniqueVals(Without(s, k))
                      /\ k \notin Keys(s) => Without(s, k) = s
    OBVIOUS
  <2>1. CASE k \in Keys(s)
    BY <2>1, WithoutDoes
  <2>2. CASE k \notin Keys(s)
    <3>1. Without(s, k) = s /\ Len(s) \in Nat
      BY <2>2, DictItems DEF Without
    <3> QED BY <2>2, <3>1
  <2> QED BY <2>1, <2>2
<1>4. PICK x, y : x = Without(d, k) /\ y = Without(e, k)
  OBVIOUS
<1>5. /\ x \in Dict(Nat) /\ y \in Dict(Nat)
      /\ Unique(x) /\ Keys(x) \subseteq Keys(d) /\ Unique(y) /\ Keys(y) \subseteq Keys(e)
      /\ UniqueVals(y) /\ Values(y) \subseteq Values(e)
      /\ Len(x) = Len(d) - (IF k \in Keys(d) THEN 1 ELSE 0)
      /\ Len(y) = Len(e) - (IF k \in Keys(e) THEN 1 ELSE 0)
      /\ k \notin Keys(e) => y = e
  BY <1>2, <1>3, <1>4
<1>6. v = [p EXCEPT !.counts = x, !.names = y]
  BY <1>1, <1>4
<1> SUFFICES /\ v \in CacheType /\ Sound(v) /\ v.idx = p.idx /\ v.flush = p.flush
             /\ Size(v) = Size(p) - (IF IsNew(p, k) THEN 0 ELSE 1)
             /\ Values(v.names) \subseteq Values(p.names)
             /\ k \notin Keys(p.names) => Keeps(p, v)
  OBVIOUS
<1> HIDE DEF v
<1>7. /\ v \in CacheType /\ v.counts = x /\ v.names = y
      /\ v.idx = p.idx /\ v.flush = p.flush
  BY <1>5, <1>6 DEF CacheType
<1>8. Size(v) = Size(p) - (IF IsNew(p, k) THEN 0 ELSE 1)
  <2>1. Size(v) = Len(x) + Len(y)
    BY <1>7, SizeChange
  <2>2. IsNew(p, k) <=> k \notin Keys(d) /\ k \notin Keys(e)
    BY <1>1 DEF IsNew
  <2>3. CASE k \in Keys(d)
    <3>1. k \notin Keys(e) /\ ~IsNew(p, k)
      BY <1>2, <2>2, <2>3
    <3> QED BY <1>2, <1>5, <2>1, <2>3, <3>1
  <2>4. CASE k \notin Keys(d) /\ k \in Keys(e)
    BY <1>2, <1>5, <2>1, <2>2, <2>4
  <2>5. CASE k \notin Keys(d) /\ k \notin Keys(e)
    BY <1>2, <1>5, <2>1, <2>2, <2>5
  <2> QED BY <2>3, <2>4, <2>5
<1>9. k \notin Keys(p.names) => Keeps(p, v)
  BY <1>1, <1>5, <1>7 DEF Keeps
<1>11. Values(v.names) \subseteq Values(p.names)
  BY <1>1, <1>5, <1>7
<1>10. Sound(v)
  <2>1. \A i \in DOMAIN v.flush : v.flush[i] # All => v.flush[i] < v.idx
    BY <1>7 DEF Sound
  <2>2. \A n \in Values(y) : n < v.idx
    BY <1>2, <1>5, <1>7
  <2> QED BY <1>2, <1>5, <1>7, <2>1, <2>2 DEF Sound
<1> QED BY <1>7, <1>8, <1>9, <1>10, <1>11

\* validate() of a query k makes room for it, removes it or clears all
Validates(p, k, out, v) ==
    /\ v \in CacheType /\ Sound(v) /\ v.idx = p.idx /\ Size(v) <= Size(p)
    /\ Good(out) /\ Size(p) > 2 * PreparedMax => Size(v) <= Size(p) - 1
    /\ ~Good(out) /\ ~IsNew(p, k) => Size(v) <= Size(p) - 1
    /\ \/ Drops(out) /\ Clears(v)
       \/ Keeps(p, v) \/ Evicts(p, v)
       \/ /\ ~Good(out) /\ k \in Keys(p.names) /\ v.flush = p.flush
          /\ Values(v.names) \subseteq Values(p.names)

\* A cache in which a query is has items
LEMMA NotEmpty ==
    ASSUME NEW p \in CacheType
    PROVE  /\ Size(p) \in Nat
           /\ Size(p) = 0 <=> p.counts = <<>> /\ p.names = <<>>
           /\ \A k : ~IsNew(p, k) => Size(p) # 0
<1>1. PICK d, e : d = p.counts /\ e = p.names
  OBVIOUS
<1>2. /\ d \in Dict(Nat) /\ Len(d) \in Nat /\ e \in Dict(Nat) /\ Len(e) \in Nat
      /\ Size(p) = Len(d) + Len(e)
  <2>1. d \in Dict(Nat) /\ e \in Dict(Nat)
    BY <1>1, CacheFields
  <2> QED BY <1>1, <2>1, SizeChange
<1>3. (Len(d) = 0 <=> d = <<>>) /\ (Len(e) = 0 <=> e = <<>>)
  BY <1>2, EmptySeq DEF Dict
<1>4. /\ Size(p) = 0 <=> d = <<>> /\ e = <<>>
      /\ Size(p) \in Nat
  BY <1>2, <1>3
<1>5. ASSUME NEW k, ~IsNew(p, k) PROVE d # <<>> \/ e # <<>>
  BY <1>1, <1>5, EmptyDict DEF IsNew
<1> QED BY <1>1, <1>4, <1>5

\* validate() is one of these
LEMMA ValidateDoes ==
    ASSUME NEW p \in CacheType, Sound(p), NEW k, NEW prep, NEW out
    PROVE  Validates(p, k, out, Validate(p, k, prep, out))
<1> DEFINE discard == Drops(out) /\ (p.names # <<>> \/ prep = "should")
           q == IF discard THEN Clear(p) ELSE p
           popped == [q EXCEPT !.counts = Without(@, k), !.names = Without(@, k)]
           v == Validate(p, k, prep, out)
<1>1. v = IF discard /\ p.names # <<>> THEN q ELSE IF Good(out) THEN Rotate(q) ELSE popped
  BY DEF Validate
<1>2. /\ Size(p) \in Nat /\ (\A x : ~IsNew(p, x) => Size(p) # 0)
      /\ Size(p) = 0 <=> p.counts = <<>> /\ p.names = <<>>
  BY NotEmpty
<1>3. CASE discard /\ p.names # <<>>
  <2>1. v = Clear(p)
    BY <1>1, <1>3
  <2> HIDE DEF v
  <2>2. v \in CacheType /\ Sound(v) /\ v.idx = p.idx /\ Size(v) = 0 /\ Clears(v)
    BY <1>3, <2>1, ClearDoes
  <2>3. Size(p) # 0 /\ Drops(out)
    BY <1>2, <1>3
  <2> HIDE DEF discard, q, popped
  <2>4. Size(v) <= Size(p) /\ Size(v) <= Size(p) - 1
    BY <1>2, <2>2, <2>3
  <2>5. Validates(p, k, out, v)
    BY <2>2, <2>3, <2>4 DEF Validates
  <2> QED BY <2>5 DEF v
<1>4. CASE ~(discard /\ p.names # <<>>)
  <2>1. /\ q \in CacheType /\ Sound(q) /\ q.idx = p.idx /\ Keeps(p, q)
        /\ q.names = p.names
        /\ q = p \/ Size(q) = 0
    <3>1. CASE discard
      <4>1. q = Clear(p) /\ p.names = <<>>
        BY <1>4, <3>1
      <4> HIDE DEF q
      <4> QED BY <4>1, ClearDoes
    <3>2. CASE ~discard
      BY <3>2 DEF Keeps
    <3> QED BY <3>1, <3>2
  <2>2. v = IF Good(out) THEN Rotate(q) ELSE popped
    BY <1>1, <1>4
  <2> HIDE DEF v, q, discard
  <2>3. CASE Good(out)
    <3>1. v = Rotate(q)
      BY <2>2, <2>3
    <3> HIDE DEF popped
    <3>2. /\ v \in CacheType /\ Sound(v) /\ v.idx = q.idx /\ Size(v) <= Size(q)
          /\ Size(q) > 2 * PreparedMax => Size(v) <= Size(q) - 1
          /\ Keeps(q, v) \/ Evicts(q, v)
      BY <2>1, <3>1, RotateDoes
    <3>3. Keeps(p, v) \/ Evicts(p, v)
      BY <2>1, <3>2 DEF Keeps, Evicts
    <3>4. /\ Size(v) <= Size(p)
          /\ Size(p) > 2 * PreparedMax => Size(v) <= Size(p) - 1
      <4>1. CASE q = p
        BY <3>2, <4>1
      <4>2. CASE Size(q) = 0
        <5>1. Size(v) = 0
          BY <3>2, <4>2, NotEmpty
        <5> QED BY <1>2, <5>1, PreparedAssumption
      <4> QED BY <2>1, <4>1, <4>2
    <3>5. Validates(p, k, out, v)
      BY <2>1, <2>3, <3>2, <3>3, <3>4 DEF Validates
    <3> QED BY <3>5 DEF v
  <2>4. CASE ~Good(out)
    <3>1. v = popped
      BY <2>2, <2>4
    <3>2. /\ v \in CacheType /\ Sound(v) /\ v.idx = q.idx /\ v.flush = q.flush
          /\ Size(v) = Size(q) - (IF IsNew(q, k) THEN 0 ELSE 1)
          /\ Values(v.names) \subseteq Values(q.names)
          /\ k \notin Keys(q.names) => Keeps(q, v)
      BY <2>1, <3>1, PopDoes
    <3> HIDE DEF popped
    <3>3. /\ Size(v) <= Size(p)
          /\ ~IsNew(p, k) => Size(v) <= Size(p) - 1
      <4>1. Size(q) \in Nat /\ Size(v) \in Nat
        BY <2>1, <3>2, NotEmpty
      <4>2. CASE q = p
        BY <1>2, <3>2, <4>2
      <4>3. CASE Size(q) = 0
        BY <1>2, <3>2, <4>1, <4>3
      <4> QED BY <2>1, <4>2, <4>3
    <3>4. /\ v.flush = p.flush /\ Values(v.names) \subseteq Values(p.names)
          /\ k \notin Keys(p.names) => Keeps(p, v)
      BY <2>1, <3>2 DEF Keeps
    <3>5. Validates(p, k, out, v)
      BY <2>1, <2>4, <3>2, <3>3, <3>4 DEF Validates
    <3> QED BY <3>5 DEF v
  <2> QED BY <2>3, <2>4
<1> QED BY <1>3, <1>4

-----------------------------------------------------------------------------
(* The names given, and the size of the cache *)

\* The names of commands were given before n
Used(s, n) == \A i \in DOMAIN s : s[i].name # All => s[i].name < n

Given ==
    /\ \A n \in server \cup forgotten : n < cache.idx
    /\ Used(wire, cache.idx) /\ Used(commands, cache.idx)

CacheInv == Sound(cache) /\ Given /\ CacheBounded

\* A command has a number for a name, or none
LEMMA CommandName == \A x \in Commands : x.name \in Nat \cup {All}
  BY DEF Commands

\* The entries that will be validated
Fresh == {e \in Entries : e.prep # "none"}

\* They are the places of fresh entries
LEMMA UnvalidatedIs ==
    ASSUME NEW s \in Seq(Entries)
    PROVE  {i \in DOMAIN s : s[i].prep # "none"} = Indices(s, Fresh)
<1>1. \A i \in DOMAIN s : s[i] \in Entries
  OBVIOUS
<1> QED BY <1>1 DEF Indices, Fresh

\* More names were given, and commands were queued
LEMMA UsedMore ==
    ASSUME NEW s \in Seq(Commands), NEW n \in Nat, NEW m \in Nat, n <= m, Used(s, n)
    PROVE  Used(s, m)
<1> SUFFICES ASSUME NEW i \in DOMAIN s, s[i].name # All PROVE s[i].name < m
  BY DEF Used
<1>1. s[i] \in Commands
  OBVIOUS
<1>2. s[i].name \in Nat
  BY <1>1, CommandName
<1>3. s[i].name < n
  BY DEF Used
<1> QED BY <1>2, <1>3

\* Two queues with given names
LEMMA UsedConcat ==
    ASSUME NEW s \in Seq(Commands), NEW t \in Seq(Commands), NEW n,
           Used(s, n), Used(t, n)
    PROVE  Used(s \o t, n)
<1> DEFINE c == s \o t
<1>1. /\ DOMAIN c = 1 .. Len(s) + Len(t) /\ Len(s) \in Nat /\ Len(t) \in Nat
      /\ DOMAIN s = 1 .. Len(s) /\ DOMAIN t = 1 .. Len(t)
      /\ \A i \in 1 .. Len(s) + Len(t) : c[i] = IF i <= Len(s) THEN s[i] ELSE t[i - Len(s)]
  OBVIOUS
<1> HIDE DEF c
<1>2. ASSUME NEW i \in DOMAIN c
      PROVE  (\E j \in DOMAIN s : c[i] = s[j]) \/ (\E j \in DOMAIN t : c[i] = t[j])
  <2>1. CASE i <= Len(s)
    <3>1. i \in DOMAIN s /\ c[i] = s[i]
      BY <1>1, <2>1
    <3> QED BY <3>1
  <2>2. CASE ~(i <= Len(s))
    <3>1. i - Len(s) \in DOMAIN t /\ c[i] = t[i - Len(s)]
      BY <1>1, <2>2
    <3> QED BY <3>1
  <2> QED BY <2>1, <2>2
<1> QED BY <1>2 DEF Used, c

\* One more command with a given name
LEMMA UsedAppend ==
    ASSUME NEW s \in Seq(Commands), NEW x \in Commands, NEW n,
           Used(s, n), x.name # All => x.name < n
    PROVE  Used(Append(s, x), n)
<1>1. /\ DOMAIN Append(s, x) = DOMAIN s \cup {Len(s) + 1}
      /\ Append(s, x)[Len(s) + 1] = x
      /\ \A i \in DOMAIN s : Append(s, x)[i] = s[i]
  OBVIOUS
<1> QED BY <1>1 DEF Used

\* The first command of a queue has a given name
LEMMA UsedTail ==
    ASSUME NEW s \in Seq(Commands), s # <<>>, NEW n, Used(s, n)
    PROVE  Used(Tail(s), n) /\ Head(s) \in Commands /\ (Head(s).name # All => Head(s).name < n)
<1>1. /\ Len(s) \in Nat \ {0} /\ DOMAIN s = 1 .. Len(s) /\ Head(s) = s[1]
      /\ DOMAIN Tail(s) = 1 .. Len(s) - 1 /\ Head(s) \in Commands
      /\ \A i \in 1 .. Len(s) - 1 : Tail(s)[i] = s[i + 1]
  OBVIOUS
<1>2. 1 \in DOMAIN s /\ \A i \in DOMAIN Tail(s) : i + 1 \in DOMAIN s /\ Tail(s)[i] = s[i + 1]
  BY <1>1
<1> QED BY <1>1, <1>2 DEF Used

\* Nothing is left to deallocate
LEMMA FlushDoes ==
    ASSUME NEW q \in CacheType, Sound(q)
    PROVE  LET v == [q EXCEPT !.flush = <<>>]
           IN  /\ v \in CacheType /\ Sound(v) /\ Size(v) = Size(q)
               /\ v.idx = q.idx /\ v.names = q.names /\ v.flush = <<>>
<1> DEFINE v == [q EXCEPT !.flush = <<>>]
<1>1. v \in CacheType
  BY FlushedType
<1>2. /\ v.counts = q.counts /\ v.names = q.names /\ v.idx = q.idx /\ v.flush = <<>>
  BY DEF CacheType
<1> HIDE DEF v
<1>3. Sound(v)
  <2>1. DOMAIN v.flush = {}
    BY <1>2
  <2> QED BY <1>2, <2>1 DEF Sound
<1>4. Size(v) = Size(q)
  BY <1>2 DEF Size
<1> QED BY <1>1, <1>2, <1>3, <1>4 DEF v

\* What was on the server with the one statement prepared, if prep says so
More(S, prep, name) == S \cup (IF prep = "should" THEN {name} ELSE {})

\* q is the cache after a query was executed out of a pipeline; lost is forgotten
Executes(q, prep, name, out, lost) ==
    /\ q \in CacheType /\ Sound(q)
    /\ q.idx = IF prep = "should" THEN cache.idx + 1 ELSE cache.idx
    /\ Size(q) <= Size(cache) \/ Size(q) <= 2 * PreparedMax
    /\ prep = "should" => name = cache.idx
    /\ lost \subseteq More(Values(cache.names), prep, name)
    /\ ~Raises(out) =>
          LET vals == More(Values(cache.names), prep, name)
          IN  \/ Clears(q)
              \/ q.flush = cache.flush /\ Values(q.names) = vals \ lost
              \/ \E n \in vals : /\ q.flush = Append(cache.flush, n)
                                 /\ Values(q.names) = vals \ {n} /\ lost \subseteq {n}

\* execute() out of a pipeline does this
LEMMA ExecuteDoes ==
    ASSUME IInv, CacheInv, NEW k \in Queries, NEW flag \in Flags, Execute(k, flag)
    PROVE  \E q, prep, name, out, lost :
              /\ Executes(q, prep, name, out, lost)
              /\ trouble' = (trouble \/ Raises(out))
              /\ forgotten' = forgotten \cup lost
              /\ IF Raises(out)
                 THEN cache' = q /\ server' = More(server, prep, name)
                 ELSE /\ cache' = [q EXCEPT !.flush = <<>>]
                      /\ server' = Flushed(q.flush, More(server, prep, name))
<1> DEFINE prep == Get(cache, k, flag)
           name == NameOf(cache, k, prep)
           p == NextName(cache, prep)
           a == MaybeAdd(p, k, prep, name)
           Q(out) == IF IsNew(p, k) THEN Validate(a, k, prep, out) ELSE a
<1>1. PICK out : /\ out \in Outcomes(k, prep, name)
                 /\ trouble' = (trouble \/ Raises(out))
                 /\ forgotten' = forgotten \cup Lost(a, Q(out), out)
                 /\ IF Raises(out)
                    THEN cache' = Q(out) /\ server' = More(server, prep, name)
                    ELSE /\ cache' = [Q(out) EXCEPT !.flush = <<>>]
                         /\ server' = Flushed(Q(out).flush, More(server, prep, name))
  BY DEF Execute, More
<1>2. PICK c : c = cache
  OBVIOUS
<1>3. /\ c \in CacheType /\ Sound(c) /\ Size(c) \in Nat
  BY <1>2, CacheFields DEF IInv, TypeOK, CacheInv
<1>4. /\ Adds(c, k, prep, name, a) /\ (IsNew(p, k) <=> IsNew(c, k))
      /\ prep \in {"no", "yes", "should"} /\ (IsNew(c, k) => prep # "yes")
  BY <1>2, <1>3, MaybeAddDoes
<1>5. Validates(a, k, out, Validate(a, k, prep, out))
  <2> HIDE DEF a, prep
  <2> QED BY <1>4, ValidateDoes DEF Adds
<1> DEFINE q == Q(out)
<1>6. /\ IsNew(c, k) => q = Validate(a, k, prep, out)
      /\ ~IsNew(c, k) => q = a
  <2> HIDE DEF a, prep, p
  <2> QED BY <1>4
<1> DEFINE success == Success(k)
<1>6a. success \in {"ok", "drop", "empty"}
  BY SuccessResult
<1>6b. \/ out \in {"error", success}
       \/ prep = "no" /\ out \in {"multi", "multidrop", "dropfail"}
  <2> HIDE DEF prep, name
  <2> QED BY <1>1 DEF Outcomes
<1> HIDE DEF success
<1>7. out \in {"multi", "multidrop"} => prep = "no"
  BY <1>6a, <1>6b
<1>8. ~Raises(out) /\ ~Good(out) => out \in {"multi", "multidrop", "empty"}
  BY <1>6a, <1>6b DEF Raises, Good
<1> HIDE DEF prep, name, p, a, Q
<1>9. q = Q(out)
  OBVIOUS
<1> HIDE DEF q
<1>10. a \in CacheType /\ Size(a) \in Nat
  BY <1>4, CacheFields DEF Adds
<1>11. /\ q \in CacheType /\ Sound(q) /\ q.idx = a.idx
  BY <1>4, <1>5, <1>6 DEF Adds, Validates
<1>12. Size(q) <= Size(c) \/ Size(q) <= 2 * PreparedMax
  <2>1. CASE IsNew(c, k)
    <3>1. Size(a) = Size(c) + 1 /\ ~IsNew(a, k)
      BY <1>4, <2>1 DEF Adds
    <3>2. /\ Size(q) <= Size(a)
          /\ Good(out) /\ Size(a) > 2 * PreparedMax => Size(q) <= Size(a) - 1
          /\ ~Good(out) => Size(q) <= Size(a) - 1
      BY <1>5, <1>6, <2>1, <3>1 DEF Validates
    <3>3. Size(q) \in Nat
      BY <1>11, CacheFields
    <3> QED BY <1>3, <1>10, <3>1, <3>2, <3>3, PreparedAssumption
  <2>2. CASE ~IsNew(c, k)
    <3>1. Size(q) = Size(c) + 0
      BY <1>4, <1>6, <2>2 DEF Adds
    <3> QED BY <1>3, <3>1
  <2> QED BY <2>1, <2>2
<1> DEFINE lost == Lost(a, q, out)
           vals == More(Values(c.names), prep, name)
<1>13. /\ lost \subseteq vals
       /\ ~Raises(out) =>
             \/ Clears(q)
             \/ q.flush = c.flush /\ Values(q.names) = vals \ lost
             \/ \E n \in vals : /\ q.flush = Append(c.flush, n)
                                /\ Values(q.names) = vals \ {n} /\ lost \subseteq {n}
  <2> HIDE DEF vals
  <2>1. a.flush = c.flush /\ Values(a.names) = vals
    BY <1>4 DEF Adds, More, vals
  <2>2. /\ lost \subseteq vals \ Values(q.names)
        /\ out = "empty" => lost = vals \ Values(q.names)
    BY <2>1 DEF Lost
  <2> HIDE DEF lost
  <2>3. CASE ~IsNew(c, k)
    BY <1>6, <2>1, <2>2, <2>3
  <2>4. CASE IsNew(c, k)
    <3>1. ASSUME ~Raises(out)
          PROVE  \/ Clears(q) \/ Keeps(a, q) \/ Evicts(a, q)
                 \/ out = "empty" /\ q.flush = a.flush /\ Values(q.names) \subseteq vals
      <4>1. \/ Clears(q) \/ Keeps(a, q) \/ Evicts(a, q)
            \/ /\ ~Good(out) /\ k \in Keys(a.names) /\ q.flush = a.flush
               /\ Values(q.names) \subseteq Values(a.names)
        BY <1>5, <1>6, <2>4 DEF Validates
      <4>2. ~Good(out) /\ k \in Keys(a.names) => out = "empty"
        BY <1>4, <1>7, <1>8, <2>4, <3>1 DEF Adds
      <4> QED BY <2>1, <4>1, <4>2
    <3>2. CASE Keeps(a, q)
      BY <2>1, <2>2, <3>2 DEF Keeps
    <3>3. CASE Evicts(a, q)
      BY <2>1, <2>2, <3>3 DEF Evicts
    <3>4. CASE out = "empty" /\ q.flush = a.flush /\ Values(q.names) \subseteq vals
      BY <2>1, <2>2, <3>4
    <3> QED BY <2>2, <3>1, <3>2, <3>3, <3>4
  <2> QED BY <2>3, <2>4
<1> HIDE DEF lost
<1>14. Executes(q, prep, name, out, lost)
  BY <1>2, <1>4, <1>11, <1>12, <1>13 DEF Executes, Adds
<1>15. forgotten' = forgotten \cup lost
  BY <1>1, <1>9 DEF lost
<1> QED BY <1>1, <1>9, <1>14, <1>15

\* Entries to be validated
FreshIn(s) == Cardinality(Indices(s, Fresh))

\* Their number, as the model counts it
LEMMA FreshInIs ==
    ASSUME NEW s \in Seq(Entries)
    PROVE  /\ Cardinality({i \in DOMAIN s : s[i].prep # "none"}) = FreshIn(s)
           /\ FreshIn(s) \in Nat
  BY UnvalidatedIs, IndicesFinite DEF FreshIn

\* What the invariant says of the size
LEMMA SizeNow ==
    ASSUME IInv, CacheInv
    PROVE  /\ cache \in CacheType /\ Sound(cache) /\ Given
           /\ Size(cache) \in Nat /\ FreshIn(pending) \in Nat /\ missed \in Nat
           /\ Size(cache) <= 2 * PreparedMax + FreshIn(pending) + missed
<1>1. cache \in CacheType /\ pending \in Seq(Entries) /\ missed \in Nat
  BY DEF IInv, TypeOK
<1>2. Sound(cache) /\ Given /\ CacheBounded
  BY DEF CacheInv
<1>3. Size(cache) \in Nat /\ Unvalidated = FreshIn(pending) /\ FreshIn(pending) \in Nat
  BY <1>1, FreshInIs, CacheFields DEF Unvalidated
<1> QED BY <1>1, <1>2, <1>3 DEF CacheBounded, Size

\* ... and what shows that it holds again
LEMMA SizeNext ==
    ASSUME IInv', Sound(cache'), Given',
           Size(cache') <= 2 * PreparedMax + FreshIn(pending') + missed'
    PROVE  CacheInv'
<1>1. pending' \in Seq(Entries)
  BY DEF IInv, TypeOK
<1>2. Unvalidated' = FreshIn(pending')
  <2>1. Unvalidated' = Cardinality({i \in DOMAIN pending' : pending'[i].prep # "none"})
    BY DEF Unvalidated
  <2> QED BY <1>1, <2>1, FreshInIs
<1>3. CacheBounded'
  BY <1>2 DEF CacheBounded, Size
<1> QED BY <1>3 DEF CacheInv

\* New names on the server are given names
LEMMA GivenMore ==
    ASSUME IInv, IInv', Given, cache.idx <= cache'.idx, UNCHANGED <<wire, commands>>,
           \A n \in server' \cup forgotten' : n \in server \cup forgotten \/ n < cache'.idx
    PROVE  Given'
<1>1. /\ cache.idx \in Nat /\ cache'.idx \in Nat
      /\ server \subseteq Nat /\ forgotten \subseteq Nat
      /\ wire \in Seq(Commands) /\ commands \in Seq(Commands)
  BY CacheFields DEF IInv, TypeOK
<1>2. /\ \A n \in server \cup forgotten : n < cache.idx
      /\ Used(wire, cache.idx) /\ Used(commands, cache.idx)
  BY DEF Given
<1>3. Used(wire, cache'.idx) /\ Used(commands, cache'.idx)
  BY <1>1, <1>2, UsedMore
<1>4. \A n \in server' \cup forgotten' : n < cache'.idx
  <2> SUFFICES ASSUME NEW n \in server' \cup forgotten', n \in server \cup forgotten
               PROVE  n < cache'.idx
    OBVIOUS
  <2> QED BY <1>1, <1>2
<1> QED BY <1>3, <1>4 DEF Given

\* execute() out of a pipeline
LEMMA ExecuteCache ==
    ASSUME IInv, IInv', CacheInv, NEW k \in Queries, NEW flag \in Flags, Execute(k, flag)
    PROVE  CacheInv'
<1>1. PICK q, prep, name, out, lost :
        /\ Executes(q, prep, name, out, lost)
        /\ trouble' = (trouble \/ Raises(out))
        /\ forgotten' = forgotten \cup lost
        /\ IF Raises(out)
           THEN cache' = q /\ server' = More(server, prep, name)
           ELSE /\ cache' = [q EXCEPT !.flush = <<>>]
                /\ server' = Flushed(q.flush, More(server, prep, name))
  BY ExecuteDoes
<1>2. /\ q \in CacheType /\ Sound(q)
      /\ q.idx = IF prep = "should" THEN cache.idx + 1 ELSE cache.idx
      /\ Size(q) <= Size(cache) \/ Size(q) <= 2 * PreparedMax
      /\ prep = "should" => name = cache.idx
      /\ lost \subseteq More(Values(cache.names), prep, name)
  BY <1>1 DEF Executes
<1>3. UNCHANGED <<pending, commands, wire, missed>>
  BY DEF Execute, pipeVars, netVars, histVars
<1>4. /\ cache \in CacheType /\ Sound(cache) /\ Given /\ Size(cache) \in Nat
      /\ FreshIn(pending) \in Nat /\ missed \in Nat
      /\ Size(cache) <= 2 * PreparedMax + FreshIn(pending) + missed
  BY SizeNow
<1>5. Sound(cache') /\ Size(cache') = Size(q) /\ cache'.idx = q.idx
  BY <1>1, <1>2, FlushDoes
<1>6. cache.idx \in Nat
  BY <1>4, CacheFields
<1>7. Given'
  <2>1. server' \subseteq More(server, prep, name)
    BY <1>1 DEF Flushed
  <2>2. \A n \in server' : n \in server \/ n < cache'.idx
    BY <1>2, <1>5, <1>6, <2>1 DEF More
  <2>3. cache.idx <= cache'.idx
    BY <1>2, <1>5, <1>6
  <2>4. \A n \in lost : n < cache'.idx
    <3>1. \A n \in Values(cache.names) : n \in Nat /\ n < cache.idx
      BY <1>4, CacheFields, DictItems DEF Sound
    <3>2. \A n \in lost : n \in Values(cache.names) \/ (prep = "should" /\ n = cache.idx)
      BY <1>2 DEF More
    <3> QED BY <1>2, <1>5, <1>6, <3>1, <3>2
  <2>5. \A n \in server' \cup forgotten' : n \in server \cup forgotten \/ n < cache'.idx
    BY <1>1, <2>2, <2>4
  <2> QED BY <1>3, <1>4, <2>3, <2>5, GivenMore
<1>8. Size(q) \in Nat
  BY <1>2, CacheFields
<1>9. Size(cache') <= 2 * PreparedMax + FreshIn(pending) + missed
  BY <1>2, <1>4, <1>5, <1>8, PreparedAssumption
<1> QED BY <1>3, <1>5, <1>7, <1>9, SizeNext

\* ... whose preparation fails
LEMMA PrepareFailsCache ==
    ASSUME IInv, IInv', CacheInv, NEW k \in Queries, NEW flag \in Flags, PrepareFails(k, flag)
    PROVE  CacheInv'
<1>1. /\ cache' = NextName(cache, "should")
      /\ UNCHANGED <<pending, commands, wire, server, missed, forgotten>>
  BY DEF PrepareFails, pipeVars, netVars, histVars
<1>2. /\ cache \in CacheType /\ Sound(cache) /\ Given
      /\ Size(cache) <= 2 * PreparedMax + FreshIn(pending) + missed
  BY SizeNow
<1>3. cache.idx \in Nat /\ cache.names \in Dict(Nat) /\ cache.flush \in Seq(Nat \cup {All})
  BY <1>2, CacheFields
<1>4. /\ cache'.idx = cache.idx + 1 /\ cache'.counts = cache.counts
      /\ cache'.names = cache.names /\ cache'.flush = cache.flush
  BY <1>1, <1>2 DEF NextName, CacheType
<1>5. Sound(cache')
  <2>1. \A v \in Values(cache.names) : v < cache.idx + 1
    <3>1. \A v \in Values(cache.names) : v < cache.idx /\ v \in Nat
      BY <1>2, <1>3, DictItems DEF Sound
    <3> QED BY <1>3, <3>1
  <2>2. \A i \in DOMAIN cache.flush : cache.flush[i] # All => cache.flush[i] < cache.idx + 1
    <3>1. \A i \in DOMAIN cache.flush :
             cache.flush[i] # All => cache.flush[i] < cache.idx /\ cache.flush[i] \in Nat
      BY <1>2, <1>3 DEF Sound
    <3> QED BY <1>3, <3>1
  <2> QED BY <1>2, <1>4, <2>1, <2>2 DEF Sound
<1>6. Given'
  BY <1>1, <1>2, <1>3, <1>4, GivenMore
<1>7. Size(cache') = Size(cache)
  BY <1>4 DEF Size
<1> QED BY <1>1, <1>2, <1>5, <1>6, <1>7, SizeNext

\* One more entry
LEMMA FreshInAppend ==
    ASSUME NEW s \in Seq(Entries), NEW e \in Entries
    PROVE  FreshIn(s \o <<e>>) = FreshIn(s) + (IF e.prep # "none" THEN 1 ELSE 0)
<1>1. s \o <<e>> = Append(s, e)
  BY AppendIsConcat
<1>2. e \in Fresh <=> e.prep # "none"
  BY DEF Fresh
<1> QED BY <1>1, <1>2, IndicesAppend DEF FreshIn

\* Entries that are not to be validated
LEMMA FreshInPlain ==
    ASSUME NEW s \in Seq(Entries), NEW t \in Seq(Entries),
           \A i \in DOMAIN t : t[i].prep = "none"
    PROVE  FreshIn(s \o t) = FreshIn(s)
<1>1. Indices(t, Fresh) = {}
  BY DEF Indices, Fresh
<1>2. Cardinality(Indices(t, Fresh)) = 0
  BY <1>1, FS_EmptySet
<1>3. Cardinality(Indices(s, Fresh)) \in Nat
  BY IndicesFinite
<1> QED BY <1>2, <1>3, IndicesConcat DEF FreshIn

\* The commands that execute() queues in a pipeline
Queues(k, prep, name) ==
    LET prepare == Command("prepare", k, name)
        run == Command(IF prep = "no" THEN "query" ELSE "execute", k, name)
        entry == Entry(run, IF IsNew(cache, k) THEN prep ELSE "none")
    IN  /\ Adds(cache, k, prep, name, cache')
        /\ run \in Commands /\ entry \in Entries
        /\ prep = "should" => prepare \in Commands /\ Plain(prepare) \in Entries
        /\ prep = "should" => Enqueue(<<prepare, run>>, <<Plain(prepare), entry>>)
        /\ prep # "should" => Enqueue(<<run>>, <<entry>>)

\* execute() in a pipeline queues them
LEMMA PipelineExecuteDoes ==
    ASSUME IInv, CacheInv, NEW k \in Queries, NEW flag \in Flags, PipelineExecute(k, flag)
    PROVE  \E prep \in {"no", "yes", "should"}, name \in Nat \cup {All} :
              Queues(k, prep, name)
<1> DEFINE prep == Get(cache, k, flag)
           name == NameOf(cache, k, prep)
           p == NextName(cache, prep)
           prepare == Command("prepare", k, name)
           run == Command(IF prep = "no" THEN "query" ELSE "execute", k, name)
           entry == Entry(run, IF IsNew(cache, k) THEN prep ELSE "none")
<1>1. cache \in CacheType /\ Sound(cache)
  BY SizeNow
<1>2. /\ Adds(cache, k, prep, name, MaybeAdd(p, k, prep, name))
      /\ IsNew(p, k) <=> IsNew(cache, k)
      /\ prep \in {"no", "yes", "should"}
  BY <1>1, MaybeAddDoes
<1>3. name \in IF prep = "no" THEN {All} ELSE Nat
  BY <1>1, NameType
<1>4. /\ cache' = MaybeAdd(p, k, prep, name)
      /\ prep = "should" => Enqueue(<<prepare, run>>, <<Plain(prepare), entry>>)
      /\ prep # "should" => Enqueue(<<run>>, <<entry>>)
  <2>1. /\ cache' = MaybeAdd(p, k, prep, name)
        /\ IF prep = "should"
           THEN Enqueue(<<prepare, run>>,
                        <<Plain(prepare), Entry(run, IF IsNew(p, k) THEN prep ELSE "none")>>)
           ELSE Enqueue(<<run>>, <<Entry(run, IF IsNew(p, k) THEN prep ELSE "none")>>)
    BY DEF PipelineExecute
  <2> HIDE DEF prep, name, p, prepare, run
  <2>2. entry = Entry(run, IF IsNew(p, k) THEN prep ELSE "none")
    BY <1>2
  <2> HIDE DEF entry
  <2> QED BY <2>1, <2>2
<1>5. run \in Commands /\ (prep = "should" => prepare \in Commands)
  <2> HIDE DEF prep, name
  <2> QED BY <1>2, <1>3 DEF Command, Commands
<1>6. entry \in Entries /\ (prep = "should" => Plain(prepare) \in Entries)
  <2> HIDE DEF prep, name, run, prepare
  <2> QED BY <1>2, <1>5 DEF Entry, Plain, Entries, PrepKinds
<1>7. name \in Nat \cup {All}
  BY <1>3
<1>8. Queues(k, prep, name)
  <2> HIDE DEF prep, name, p
  <2> QED BY <1>2, <1>4, <1>5, <1>6 DEF Queues
<1> HIDE DEF prep, name, p
<1> QED BY <1>2, <1>7, <1>8

\* execute() in a pipeline
LEMMA PipelineExecuteCache ==
    ASSUME IInv, IInv', CacheInv, NEW k \in Queries, NEW flag \in Flags,
           PipelineExecute(k, flag)
    PROVE  CacheInv'
<1>1. PICK prep \in {"no", "yes", "should"}, name \in Nat \cup {All} : Queues(k, prep, name)
  BY PipelineExecuteDoes
<1> DEFINE prepare == Command("prepare", k, name)
           run == Command(IF prep = "no" THEN "query" ELSE "execute", k, name)
           entry == Entry(run, IF IsNew(cache, k) THEN prep ELSE "none")
<1>2. /\ Adds(cache, k, prep, name, cache')
      /\ run \in Commands /\ entry \in Entries
      /\ prep = "should" => prepare \in Commands /\ Plain(prepare) \in Entries
      /\ prep = "should" => Enqueue(<<prepare, run>>, <<Plain(prepare), entry>>)
      /\ prep # "should" => Enqueue(<<run>>, <<entry>>)
  BY <1>1 DEF Queues
<1>3. UNCHANGED <<wire, server, missed, forgotten>>
  BY DEF PipelineExecute, netVars, serverVars, histVars
<1>4. /\ cache \in CacheType /\ Sound(cache) /\ Given
      /\ Size(cache) \in Nat /\ FreshIn(pending) \in Nat /\ missed \in Nat
      /\ Size(cache) <= 2 * PreparedMax + FreshIn(pending) + missed
  BY SizeNow
<1>5. /\ cache' \in CacheType /\ Sound(cache')
      /\ cache'.idx = IF prep = "should" THEN cache.idx + 1 ELSE cache.idx
      /\ Size(cache') = Size(cache) + (IF IsNew(cache, k) THEN 1 ELSE 0)
      /\ prep = "should" => name = cache.idx
      /\ prep = "yes" => name \in Values(cache.names)
      /\ prep = "no" => name = All
  BY <1>2 DEF Adds
<1>6. cache.idx \in Nat /\ cache'.idx \in Nat
  BY <1>4, <1>5, CacheFields
<1>7. name # All => name < cache'.idx
  BY <1>4, <1>5, <1>6 DEF Sound
<1>8. /\ commands \in Seq(Commands) /\ pending \in Seq(Entries) /\ wire \in Seq(Commands)
      /\ server \subseteq Nat /\ forgotten \subseteq Nat
  BY DEF IInv, TypeOK
<1>9. run.name = name /\ prepare.name = name
  BY DEF Command
<1>10. entry.prep = (IF IsNew(cache, k) THEN prep ELSE "none") /\ Plain(prepare).prep = "none"
  BY DEF Entry, Plain
<1> HIDE DEF prepare, run, entry
<1>11. /\ Used(wire, cache'.idx) /\ Used(commands, cache'.idx)
       /\ \A n \in server' \cup forgotten' : n < cache'.idx
  <2>1. cache.idx <= cache'.idx
    BY <1>5, <1>6
  <2>2. /\ Used(wire, cache.idx) /\ Used(commands, cache.idx)
        /\ \A n \in server \cup forgotten : n < cache.idx
    BY <1>4 DEF Given
  <2>3. Used(wire, cache'.idx) /\ Used(commands, cache'.idx)
    BY <1>6, <1>8, <2>1, <2>2, UsedMore
  <2> QED BY <1>3, <1>6, <1>8, <2>1, <2>2, <2>3
<1>12. /\ Used(commands', cache'.idx)
       /\ FreshIn(pending') = FreshIn(pending) + (IF IsNew(cache, k) THEN 1 ELSE 0)
  <2>1. entry.prep # "none" <=> IsNew(cache, k)
    BY <1>10
  <2>2. CASE prep = "should"
    <3>1. /\ commands' = commands \o <<prepare, run>>
          /\ pending' = pending \o <<Plain(prepare), entry>>
          /\ prepare \in Commands /\ Plain(prepare) \in Entries
      BY <1>2, <2>2 DEF Enqueue
    <3>2. Used(<<prepare, run>>, cache'.idx)
      BY <1>7, <1>9 DEF Used
    <3>3. <<prepare, run>> \in Seq(Commands)
      BY <1>2, <3>1
    <3>4. Used(commands', cache'.idx)
      BY <1>8, <1>11, <3>1, <3>2, <3>3, UsedConcat
    <3> DEFINE x == Plain(prepare)
    <3>5. x \in Entries /\ entry \in Entries /\ x.prep = "none"
      BY <1>2, <1>10, <3>1
    <3> HIDE DEF x
    <3>6. /\ pending \o <<x>> \in Seq(Entries)
          /\ pending \o <<x, entry>> = (pending \o <<x>>) \o <<entry>>
      <4>1. <<x>> \in Seq(Entries) /\ <<entry>> \in Seq(Entries)
        BY <3>5
      <4>2. <<x, entry>> = <<x>> \o <<entry>>
        BY <3>5
      <4> DEFINE a == <<x>>
                 b == <<entry>>
      <4>3. a \in Seq(Entries) /\ b \in Seq(Entries)
        BY <4>1
      <4> HIDE DEF a, b
      <4>4. pending \o a \in Seq(Entries) /\ pending \o (a \o b) = (pending \o a) \o b
        BY <1>8, <4>3, ConcatProperties, ConcatAssociative, SMTT(40)
      <4> QED BY <4>2, <4>4 DEF a, b
    <3>7. FreshIn(pending \o <<x>>) = FreshIn(pending)
      BY <1>4, <1>8, <3>5, FreshInAppend
    <3>8. FreshIn(pending \o <<x, entry>>) = FreshIn(pending) + (IF entry.prep # "none" THEN 1 ELSE 0)
      BY <3>5, <3>6, <3>7, FreshInAppend
    <3> QED BY <2>1, <3>1, <3>4, <3>8 DEF x
  <2>3. CASE prep # "should"
    <3>1. commands' = commands \o <<run>> /\ pending' = pending \o <<entry>>
      BY <1>2, <2>3 DEF Enqueue
    <3>2. Used(<<run>>, cache'.idx)
      BY <1>7, <1>9 DEF Used
    <3>3. <<run>> \in Seq(Commands)
      BY <1>2
    <3>4. Used(commands', cache'.idx)
      BY <1>8, <1>11, <3>1, <3>2, <3>3, UsedConcat
    <3> QED BY <1>2, <1>8, <2>1, <3>1, <3>4, FreshInAppend
  <2> QED BY <2>2, <2>3
<1>13. Given'
  BY <1>3, <1>11, <1>12 DEF Given
<1>14. Size(cache') <= 2 * PreparedMax + FreshIn(pending') + missed'
  <2>1. CASE IsNew(cache, k)
    BY <1>3, <1>4, <1>5, <1>12, <2>1, PreparedAssumption
  <2>2. CASE ~IsNew(cache, k)
    BY <1>3, <1>4, <1>5, <1>12, <2>2, PreparedAssumption
  <2> QED BY <2>1, <2>2
<1> QED BY <1>5, <1>13, <1>14, SizeNext

\* The cache is as it was, and commands without a name of their own may be queued
LEMMA SameCache ==
    ASSUME IInv, IInv', CacheInv, UNCHANGED <<cache, wire, server, missed, forgotten>>,
           \/ UNCHANGED <<commands, pending>>
           \/ EnqueueSync
    PROVE  CacheInv'
<1>1. /\ cache \in CacheType /\ Sound(cache) /\ Given
      /\ Size(cache) \in Nat /\ FreshIn(pending) \in Nat /\ missed \in Nat
      /\ Size(cache) <= 2 * PreparedMax + FreshIn(pending) + missed
  BY SizeNow
<1>2. commands \in Seq(Commands) /\ pending \in Seq(Entries)
  BY DEF IInv, TypeOK
<1>3. Used(commands', cache.idx) /\ FreshIn(pending') = FreshIn(pending)
  <2>1. CASE UNCHANGED <<commands, pending>>
    BY <1>1, <2>1 DEF Given
  <2>2. CASE EnqueueSync
    <3>1. commands' = commands \o <<Sync>> /\ pending' = pending \o <<Plain(Sync)>>
      BY <2>2 DEF EnqueueSync, Enqueue
    <3>2. Sync \in Commands /\ Sync.name = All
      BY DEF Sync, Command, Commands
    <3>3. Plain(Sync) \in Entries /\ Plain(Sync).prep = "none"
      BY <3>2 DEF Plain, Entry, Entries, PrepKinds
    <3>4. Used(<<Sync>>, cache.idx) /\ <<Sync>> \in Seq(Commands)
      BY <3>2 DEF Used
    <3>5. Used(commands', cache.idx)
      BY <1>1, <1>2, <3>1, <3>4, UsedConcat DEF Given
    <3>6. FreshIn(pending') = FreshIn(pending)
      BY <1>1, <1>2, <3>1, <3>3, FreshInAppend
    <3> QED BY <3>5, <3>6
  <2> QED BY <2>1, <2>2
<1>4. Given'
  BY <1>1, <1>3 DEF Given
<1> QED BY <1>1, <1>3, <1>4, SizeNext

\* A command is sent
LEMMA SendCache ==
    ASSUME IInv, IInv', CacheInv, Send
    PROVE  CacheInv'
<1>1. /\ commands # <<>> /\ wire' = Append(wire, Head(commands)) /\ commands' = Tail(commands)
      /\ UNCHANGED <<cache, pending, server, missed, forgotten>>
  BY DEF Send, serverVars, histVars
<1>2. /\ Sound(cache) /\ Given
      /\ Size(cache) <= 2 * PreparedMax + FreshIn(pending) + missed
  BY SizeNow
<1>3. commands \in Seq(Commands) /\ wire \in Seq(Commands)
  BY DEF IInv, TypeOK
<1>4. Used(commands', cache.idx) /\ Used(wire', cache.idx)
  BY <1>1, <1>2, <1>3, UsedTail, UsedAppend DEF Given
<1>5. Given'
  BY <1>1, <1>2, <1>4 DEF Given
<1> QED BY <1>1, <1>2, <1>5, SizeNext

\* The server executes a command
LEMMA ServeCache ==
    ASSUME IInv, IInv', CacheInv, Serve
    PROVE  CacheInv'
<1>1. /\ wire # <<>> /\ wire' = Tail(wire)
      /\ UNCHANGED <<cache, commands, pending, missed, forgotten>>
      /\ \/ server' \subseteq server
         \/ Head(wire).what = "prepare" /\ server' = server \cup {Head(wire).name}
  BY DEF Serve, Answer, serverVars, pipeVars, histVars
<1>2. /\ Sound(cache) /\ Given
      /\ Size(cache) <= 2 * PreparedMax + FreshIn(pending) + missed
  BY SizeNow
<1>3. wire \in Seq(Commands)
  BY DEF IInv, TypeOK
<1>4. /\ Used(wire', cache.idx) /\ Head(wire) \in Commands
      /\ Head(wire).name # All => Head(wire).name < cache.idx
  BY <1>1, <1>2, <1>3, UsedTail DEF Given
<1>5. Head(wire).what = "prepare" => Head(wire).name # All
  BY <1>4, PreparedAssumption DEF Commands
<1>6. Given'
  BY <1>1, <1>2, <1>4, <1>5 DEF Given
<1> QED BY <1>1, <1>2, <1>6, SizeNext

\* A result is processed with its entry
LEMMA ProcessNextDoes ==
    ASSUME IInv, CacheInv, ProcessNext, inbox # <<>>, pending # <<>>
    PROVE  LET e == Head(pending)
               out == Head(inbox).out
           IN  /\ e \in Entries /\ out \in {"ok", "drop", "empty", "error", "aborted", "sync"}
               /\ e.prep = "none" => cache' = cache
               /\ e.prep # "none" => Validates(cache, e.cmd.key, out, cache')
               /\ pending' = Tail(pending) /\ inbox' = Tail(inbox)
               /\ trouble' = (trouble \/ Raises(out) \/ Drops(out))
               /\ forgotten' = forgotten \cup Lost(cache, cache', out)
               /\ missed' = IF e.prep # "none" /\ ~Good(out) /\ IsNew(cache, e.cmd.key)
                            THEN missed + 1 ELSE missed
<1> DEFINE e == Head(pending)
           r == Head(inbox)
<1>1. cache \in CacheType /\ Sound(cache)
  BY SizeNow
<1>2. e \in Entries /\ r \in Results
  BY HeadTailProperties DEF IInv, TypeOK
<1> HIDE DEF e, r
<1>3. r.out \in {"ok", "drop", "empty", "error", "aborted", "sync"}
  BY <1>2 DEF Results
<1>4. /\ cache' = IF e.prep = "none" THEN cache ELSE Validate(cache, e.cmd.key, e.prep, r.out)
      /\ pending' = Tail(pending) /\ inbox' = Tail(inbox)
      /\ trouble' = (trouble \/ Raises(r.out) \/ Drops(r.out))
      /\ forgotten' = forgotten \cup Lost(cache, cache', r.out)
      /\ missed' = IF e.prep # "none" /\ ~Good(r.out) /\ IsNew(cache, e.cmd.key)
                   THEN missed + 1 ELSE missed
  BY DEF ProcessNext, e, r
<1>5. e.prep # "none" => Validates(cache, e.cmd.key, r.out, cache')
  BY <1>1, <1>4, ValidateDoes
<1> QED BY <1>2, <1>3, <1>4, <1>5 DEF e, r

\* The cache stays bounded when a result is processed
LEMMA ProcessNextCache ==
    ASSUME IInv, IInv', CacheInv, ProcessNext, inbox # <<>>, pending # <<>>,
           UNCHANGED <<wire, commands, server>>
    PROVE  CacheInv'
<1>1. PICK e, out :
         /\ e = Head(pending) /\ e \in Entries
         /\ e.prep = "none" => cache' = cache
         /\ e.prep # "none" => Validates(cache, e.cmd.key, out, cache')
         /\ pending' = Tail(pending)
         /\ forgotten' = forgotten \cup Lost(cache, cache', out)
         /\ missed' = IF e.prep # "none" /\ ~Good(out) /\ IsNew(cache, e.cmd.key)
                      THEN missed + 1 ELSE missed
  BY ProcessNextDoes
<1>2. /\ cache \in CacheType /\ Sound(cache) /\ Given
      /\ Size(cache) \in Nat /\ FreshIn(pending) \in Nat /\ missed \in Nat
      /\ Size(cache) <= 2 * PreparedMax + FreshIn(pending) + missed
  BY SizeNow
<1>3. pending \in Seq(Entries)
  BY DEF IInv, TypeOK
<1>7. \A n \in forgotten' : n < cache.idx
  <2>1. \A n \in Values(cache.names) : n < cache.idx
    BY <1>2 DEF Sound
  <2>2. Lost(cache, cache', out) \subseteq Values(cache.names)
    BY DEF Lost
  <2> QED BY <1>1, <1>2, <2>1, <2>2 DEF Given
<1>4. FreshIn(pending') = FreshIn(pending) - (IF e.prep # "none" THEN 1 ELSE 0)
  <2>1. e \in Fresh <=> e.prep # "none"
    BY <1>1 DEF Fresh
  <2> QED BY <1>1, <1>3, <2>1, IndicesTail DEF FreshIn
<1>5. CASE e.prep = "none"
  <2>1. Given'
    BY <1>1, <1>2, <1>5, <1>7 DEF Given
  <2>2. cache' = cache /\ missed' = missed /\ FreshIn(pending') = FreshIn(pending)
    BY <1>1, <1>2, <1>4, <1>5
  <2> QED BY <1>2, <2>1, <2>2, SizeNext
<1>6. CASE e.prep # "none"
  <2> DEFINE k == e.cmd.key
  <2>1. /\ cache' \in CacheType /\ Sound(cache') /\ cache'.idx = cache.idx
        /\ Size(cache') <= Size(cache)
        /\ Good(out) /\ Size(cache) > 2 * PreparedMax => Size(cache') <= Size(cache) - 1
        /\ ~Good(out) /\ ~IsNew(cache, k) => Size(cache') <= Size(cache) - 1
    BY <1>1, <1>6 DEF Validates
  <2>2. Given'
    BY <1>2, <1>7, <2>1 DEF Given
  <2>3. FreshIn(pending') = FreshIn(pending) - 1
    BY <1>4, <1>6
  <2>4. missed' = IF ~Good(out) /\ IsNew(cache, k) THEN missed + 1 ELSE missed
    BY <1>1, <1>6
  <2>5. Size(cache') \in Nat /\ FreshIn(pending') \in Nat
    BY <2>1, CacheFields, FreshInIs DEF IInv, TypeOK
  <2> HIDE DEF k
  <2>6. Size(cache') <= 2 * PreparedMax + FreshIn(pending') + missed'
    <3>1. CASE Good(out)
      <4>1. missed' = missed
        BY <2>4, <3>1
      <4> QED BY <1>2, <2>1, <2>3, <2>5, <3>1, <4>1, PreparedAssumption
    <3>2. CASE ~Good(out) /\ IsNew(cache, k)
      BY <1>2, <2>1, <2>3, <2>4, <2>5, <3>2, PreparedAssumption
    <3>3. CASE ~Good(out) /\ ~IsNew(cache, k)
      BY <1>2, <2>1, <2>3, <2>4, <2>5, <3>3, PreparedAssumption
    <3> QED BY <3>1, <3>2, <3>3
  <2> QED BY <2>1, <2>2, <2>6, SizeNext
<1> QED BY <1>5, <1>6

\* The commands to deallocate statements that are queued
Deallocates(q) == [i \in DOMAIN q.flush |-> Deallocate(q.flush[i])]

\* Each is a command with its entry, which is not validated
LEMMA DeallocatesDoes ==
    ASSUME NEW q \in CacheType
    PROVE  LET cmds == Deallocates(q)
               entries == [i \in DOMAIN cmds |-> Plain(cmds[i])]
           IN  /\ cmds \in Seq(Commands) /\ Len(cmds) = Len(q.flush)
               /\ DOMAIN cmds = DOMAIN q.flush
               /\ \A i \in DOMAIN q.flush : cmds[i] = Deallocate(q.flush[i])
               /\ entries \in Seq(Entries)
               /\ \A i \in DOMAIN entries : entries[i].prep = "none"
<1> DEFINE cmds == Deallocates(q)
           entries == [i \in DOMAIN cmds |-> Plain(cmds[i])]
<1>1. PICK f : f = q.flush
  OBVIOUS
<1>2. f \in Seq(Nat \cup {All})
  BY <1>1, CacheFields
<1>3. /\ Len(f) \in Nat /\ DOMAIN f = 1 .. Len(f)
      /\ \A i \in 1 .. Len(f) : f[i] \in Nat \cup {All}
  BY <1>2, LenProperties, ElementOfSeq
<1>4. \A x \in Nat \cup {All} : Deallocate(x) \in Commands
  BY PreparedAssumption DEF Deallocate, Command, Commands
<1>5. cmds = [i \in 1 .. Len(f) |-> Deallocate(f[i])]
  BY <1>1, <1>3 DEF Deallocates
<1>6. \A x \in Commands : Plain(x) \in Entries /\ Plain(x).prep = "none"
  BY DEF Plain, Entry, Entries, PrepKinds
<1> HIDE DEF cmds
<1>7. /\ cmds \in Seq(Commands) /\ Len(cmds) = Len(f) /\ DOMAIN cmds = 1 .. Len(f)
      /\ \A i \in 1 .. Len(f) : cmds[i] = Deallocate(f[i]) /\ cmds[i] \in Commands
  <2> DEFINE n == Len(f)
  <2>1. n \in Nat /\ \A i \in 1 .. n : Deallocate(f[i]) \in Commands
    BY <1>3, <1>4
  <2>2. cmds = [i \in 1 .. n |-> Deallocate(f[i])]
    BY <1>5
  <2> HIDE DEF n
  <2>3. /\ cmds \in Seq(Commands) /\ Len(cmds) = n /\ DOMAIN cmds = 1 .. n
        /\ \A i \in 1 .. n : cmds[i] = Deallocate(f[i]) /\ cmds[i] \in Commands
    BY <2>1, <2>2
  <2> QED BY <2>3 DEF n
<1>8. entries \in Seq(Entries) /\ \A i \in DOMAIN entries : entries[i].prep = "none"
  <2> DEFINE n == Len(f)
  <2>1. n \in Nat /\ entries = [i \in 1 .. n |-> Plain(cmds[i])]
    BY <1>3, <1>7
  <2>2. \A i \in 1 .. n : Plain(cmds[i]) \in Entries /\ Plain(cmds[i]).prep = "none"
    BY <1>6, <1>7
  <2> HIDE DEF n, entries
  <2> QED BY <2>1, <2>2
<1> QED BY <1>1, <1>3, <1>7, <1>8 DEF cmds

\* The results are processed: the statements evicted are to be deallocated
LEMMA ProcessedCache ==
    ASSUME IInv, IInv', CacheInv, Processed
    PROVE  CacheInv'
<1>1. UNCHANGED <<wire, server, missed, forgotten>>
  BY DEF Processed, netVars, serverVars, histVars
<1>2. CASE UNCHANGED <<cache, pipeVars>>
  BY <1>1, <1>2, SameCache DEF pipeVars
<1>3. CASE /\ cache' = [cache EXCEPT !.flush = <<>>]
           /\ Enqueue(Deallocates(cache),
                      [i \in DOMAIN Deallocates(cache) |-> Plain(Deallocates(cache)[i])])
  <2>1. /\ cache \in CacheType /\ Sound(cache) /\ Given
        /\ FreshIn(pending) \in Nat
        /\ Size(cache) <= 2 * PreparedMax + FreshIn(pending) + missed
    BY SizeNow
  <2>2. Sound(cache') /\ Size(cache') = Size(cache) /\ cache'.idx = cache.idx
    BY <1>3, <2>1, FlushDoes
  <2>3. commands \in Seq(Commands) /\ pending \in Seq(Entries)
    BY DEF IInv, TypeOK
  <2> DEFINE cmds == Deallocates(cache)
             entries == [i \in DOMAIN cmds |-> Plain(cmds[i])]
  <2>4. /\ cmds \in Seq(Commands) /\ entries \in Seq(Entries)
        /\ DOMAIN cmds = DOMAIN cache.flush
        /\ \A i \in DOMAIN cache.flush : cmds[i] = Deallocate(cache.flush[i])
        /\ \A i \in DOMAIN entries : entries[i].prep = "none"
    BY <2>1, DeallocatesDoes
  <2>5. commands' = commands \o cmds /\ pending' = pending \o entries
    BY <1>3 DEF Enqueue
  <2> HIDE DEF cmds, entries
  <2>6. Used(cmds, cache.idx)
    <3>1. \A x : Deallocate(x).name = x
      BY DEF Deallocate, Command
    <3> QED BY <2>1, <2>4, <3>1 DEF Used, Sound
  <2>7. Used(commands', cache.idx)
    BY <2>1, <2>3, <2>4, <2>5, <2>6, UsedConcat DEF Given
  <2>8. Given'
    BY <1>1, <2>1, <2>2, <2>7 DEF Given
  <2>9. FreshIn(pending') = FreshIn(pending)
    BY <2>3, <2>4, <2>5, FreshInPlain
  <2> QED BY <1>1, <2>1, <2>2, <2>8, <2>9, SizeNext
<1> QED BY <1>2, <1>3 DEF Processed, Deallocates, pipeVars

\* The cache stays sound, and bounded
LEMMA NextCache ==
    ASSUME IInv, IInv', CacheInv, [Next]_vars
    PROVE  CacheInv'
<1>1. CASE UNCHANGED vars
  BY <1>1, SameCache DEF vars, pipeVars, netVars, serverVars, histVars
<1>2. CASE \E k \in Queries, flag \in Flags :
              Execute(k, flag) \/ PrepareFails(k, flag) \/ PipelineExecute(k, flag)
  BY <1>2, ExecuteCache, PrepareFailsCache, PipelineExecuteCache
<1>3. CASE PipelineEnter \/ PipelineSync \/ PipelineExit
  BY <1>3, SameCache
  DEF PipelineEnter, PipelineSync, PipelineExit, pipeVars, netVars, serverVars, histVars
<1>4. CASE Send
  BY <1>4, SendCache
<1>5. CASE Process \/ Fetch
  <2>1. ProcessNext /\ UNCHANGED <<wire, commands, server>> /\ inbox # <<>>
    <3>1. Process => inbox # <<>>
      BY LenProperties, EmptySeq DEF Process, IInv, TypeOK
    <3> QED BY <1>5, <3>1 DEF Process, Fetch, serverVars, histVars
  <2>2. pending # <<>>
    BY <2>1, ProcessMatches DEF IInv
  <2> QED BY <2>1, <2>2, ProcessNextCache
<1>6. CASE Processed
  BY <1>6, ProcessedCache
<1>7. CASE FetchEnd \/ \E n \in 0 .. Len(inbox) : Communicated(n)
  BY <1>7, SameCache DEF FetchEnd, Communicated, pipeVars, netVars, serverVars, histVars
<1>8. CASE Serve
  BY <1>8, ServeCache
<1> QED BY <1>1, <1>2, <1>3, <1>4, <1>5, <1>6, <1>7, <1>8 DEF Next, ClientStep

\* A new session has an empty cache
LEMMA InitCache == Init => CacheInv
<1> SUFFICES ASSUME Init PROVE CacheInv
  OBVIOUS
<1>1. /\ cache.counts = <<>> /\ cache.names = <<>> /\ cache.flush = <<>>
      /\ pending = <<>> /\ server = {} /\ wire = <<>> /\ commands = <<>>
      /\ forgotten = {}
  BY DEF Init, NewCache
<1>2. Sound(cache) /\ Given
  BY <1>1, EmptyDict DEF Sound, Given, Used
<1>3. Unvalidated = 0
  <2>1. {i \in DOMAIN pending : pending[i].prep # "none"} = {}
    BY <1>1
  <2> QED BY <2>1, FS_EmptySet DEF Unvalidated
<1>4. CacheBounded
  BY <1>1, <1>3, PreparedAssumption DEF Init, CacheBounded
<1> QED BY <1>2, <1>4 DEF CacheInv

\* What is sound is consistent
LEMMA SoundConsistent ==
    ASSUME IInv, CacheInv
    PROVE  CacheConsistent
<1>1. cache \in CacheType /\ Sound(cache) /\ Given
  BY SizeNow
<1>2. cache.names \in Dict(Nat)
  BY <1>1, CacheFields
<1>3. \A n \in (server \cup NamesUsed) \ {All} : n < cache.idx
  BY <1>1 DEF NamesUsed, Sound, Given, Used
<1> QED BY <1>1, <1>3 DEF CacheConsistent, Sound, Unique, UniqueVals

\* A query is counted or prepared in one place, and the names of the statements
\* are never given twice (_preparing.py:57-79)
THEOREM ConsistentCorrect == Spec => []CacheConsistent
<1>1. IInv /\ CacheInv /\ [Next]_vars => IInv' /\ CacheInv'
  BY NextInv, NextCache
<1>2. Spec => [](IInv /\ CacheInv)
  BY <1>1, InitInv, InitCache, PTL DEF Spec
<1> QED BY <1>2, SoundConsistent, PTL

\* The cache outgrows prepared_max only by the queries whose results are late, or
\* were evicted before they failed or turned out to be empty (_preparing.py:108-167)
THEOREM BoundedCorrect == Spec => []CacheBounded
<1>1. IInv /\ CacheInv /\ [Next]_vars => IInv' /\ CacheInv'
  BY NextInv, NextCache
<1>2. Spec => [](IInv /\ CacheInv)
  BY <1>1, InitInv, InitCache, PTL DEF Spec
<1>3. CacheInv => CacheBounded
  BY DEF CacheInv
<1> QED BY <1>2, <1>3, PTL

-----------------------------------------------------------------------------
(* What the commands will make of the server *)

Asks(q, what, n) == \E i \in DOMAIN q : q[i].what = what /\ q[i].name = n

\* No statement is used, or prepared again, after it was closed ...
Ordered(q) ==
    \A i, j \in DOMAIN q :
        i < j /\ q[i].what = "close" /\ q[j].what \in {"prepare", "execute"}
            => q[i].name # q[j].name

\* ... and one that is used is on the server S by then
Served(q, S) ==
    \A j \in DOMAIN q :
        q[j].what = "execute" =>
            \/ q[j].name \in S
            \/ \E i \in DOMAIN q : i < j /\ q[i].what = "prepare" /\ q[i].name = q[j].name

\* The names N of the cache are those on the server once the queue q was executed,
\* and what is to be flushed, F
Known(q, S, N, F) ==
    \A n \in Nat :
        n \in N <=> /\ n \in S \/ Asks(q, "prepare", n)
                    /\ ~Asks(q, "close", n)
                    /\ n \notin F

Follows(q, S, N, F) ==
    /\ \A i \in DOMAIN q : q[i].what # "deallocate"
    /\ All \notin F
    /\ Ordered(q) /\ Served(q, S) /\ Known(q, S, N, F)

\* Nothing is queued
LEMMA FollowsEmpty ==
    ASSUME NEW S, NEW N, NEW F, All \notin F, \A n \in Nat : n \in N <=> n \in S /\ n \notin F
    PROVE  Follows(<<>>, S, N, F)
  BY DEF Follows, Ordered, Served, Known, Asks

\* The items of two sequences one after the other
LEMMA ConcatItems ==
    ASSUME NEW T, NEW s \in Seq(T), NEW t \in Seq(T)
    PROVE  /\ \A i \in DOMAIN s : i \in DOMAIN (s \o t) /\ (s \o t)[i] = s[i]
           /\ \A i \in DOMAIN t : /\ Len(s) + i \in DOMAIN (s \o t)
                                  /\ (s \o t)[Len(s) + i] = t[i]
           /\ \A i \in DOMAIN (s \o t) :
                 i \in DOMAIN s \/ \E j \in DOMAIN t : i = Len(s) + j
           /\ \A i \in DOMAIN s, j \in DOMAIN t : i < Len(s) + j /\ ~(Len(s) + j < i)
           /\ \A i, j \in DOMAIN t : Len(s) + i < Len(s) + j <=> i < j
<1> DEFINE c == s \o t
<1>1. /\ DOMAIN c = 1 .. Len(s) + Len(t) /\ Len(s) \in Nat /\ Len(t) \in Nat
      /\ DOMAIN s = 1 .. Len(s) /\ DOMAIN t = 1 .. Len(t)
      /\ \A i \in 1 .. Len(s) + Len(t) : c[i] = IF i <= Len(s) THEN s[i] ELSE t[i - Len(s)]
  OBVIOUS
<1> HIDE DEF c
<1>2. \A i \in DOMAIN s : i \in DOMAIN c /\ c[i] = s[i]
  BY <1>1
<1>3. ASSUME NEW i \in DOMAIN t PROVE Len(s) + i \in DOMAIN c /\ c[Len(s) + i] = t[i]
  <2>1. /\ Len(s) + i \in 1 .. Len(s) + Len(t) /\ ~(Len(s) + i <= Len(s))
        /\ (Len(s) + i) - Len(s) = i
    BY <1>1
  <2> QED BY <1>1, <2>1
<1>4. ASSUME NEW i \in DOMAIN c, i \notin DOMAIN s PROVE \E j \in DOMAIN t : i = Len(s) + j
  <2>1. i - Len(s) \in DOMAIN t /\ i = Len(s) + (i - Len(s))
    BY <1>1, <1>4
  <2> QED BY <2>1
<1>5. /\ \A i \in DOMAIN s, j \in DOMAIN t : i < Len(s) + j /\ ~(Len(s) + j < i)
      /\ \A i, j \in DOMAIN t : Len(s) + i < Len(s) + j <=> i < j
  BY <1>1
<1> QED BY <1>2, <1>3, <1>4, <1>5 DEF c

\* More commands are queued
LEMMA FollowsMore ==
    ASSUME NEW q \in Seq(Commands), NEW t \in Seq(Commands),
           NEW S, NEW N, NEW F, NEW M, NEW G,
           Follows(q, S, N, F), All \notin G,
           \A i \in DOMAIN t : t[i].what # "deallocate",
           \A n \in Nat :
               n \in M <=> /\ n \in S \/ Asks(q, "prepare", n) \/ Asks(t, "prepare", n)
                           /\ ~Asks(q, "close", n) /\ ~Asks(t, "close", n)
                           /\ n \notin G,
           Ordered(t),
           \A j \in DOMAIN t :
               t[j].what \in {"prepare", "execute"} => ~Asks(q, "close", t[j].name),
           \A j \in DOMAIN t :
               t[j].what = "execute" =>
                   \/ t[j].name \in S \/ Asks(q, "prepare", t[j].name)
                   \/ \E i \in DOMAIN t :
                         i < j /\ t[i].what = "prepare" /\ t[i].name = t[j].name
    PROVE  Follows(q \o t, S, M, G)
<1> DEFINE c == q \o t
           m == Len(q)
<1>1. /\ \A i \in DOMAIN q : i \in DOMAIN c /\ c[i] = q[i]
      /\ \A i \in DOMAIN t : m + i \in DOMAIN c /\ c[m + i] = t[i]
      /\ \A i \in DOMAIN c : i \in DOMAIN q \/ \E j \in DOMAIN t : i = m + j
      /\ \A i \in DOMAIN q, j \in DOMAIN t : i < m + j /\ ~(m + j < i)
      /\ \A i, j \in DOMAIN t : m + i < m + j <=> i < j
  BY ConcatItems
<1> HIDE DEF c, m
<1>2. \A i \in DOMAIN c : c[i].what # "deallocate"
  BY <1>1 DEF Follows
<1>3. \A what, n : Asks(c, what, n) <=> Asks(q, what, n) \/ Asks(t, what, n)
  BY <1>1 DEF Asks
<1>4. Ordered(c)
  <2> SUFFICES ASSUME NEW i \in DOMAIN c, NEW j \in DOMAIN c, i < j,
                      c[i].what = "close", c[j].what \in {"prepare", "execute"}
               PROVE  c[i].name # c[j].name
    BY DEF Ordered
  <2>1. CASE i \in DOMAIN q /\ j \in DOMAIN q
    BY <1>1, <2>1 DEF Follows, Ordered
  <2>2. ASSUME i \in DOMAIN q, NEW h \in DOMAIN t, j = m + h PROVE c[i].name # c[j].name
    <3>1. c[i] = q[i] /\ c[j] = t[h]
      BY <1>1, <2>2
    <3> QED BY <2>2, <3>1 DEF Asks
  <2>3. ASSUME NEW g \in DOMAIN t, i = m + g, NEW h \in DOMAIN t, j = m + h
        PROVE  c[i].name # c[j].name
    <3>1. c[i] = t[g] /\ c[j] = t[h] /\ g < h
      BY <1>1, <2>3
    <3> QED BY <3>1 DEF Ordered
  <2>4. ~(j \in DOMAIN q /\ \E g \in DOMAIN t : i = m + g)
    BY <1>1
  <2> QED BY <1>1, <2>1, <2>2, <2>3, <2>4
<1>5. Served(c, S)
  <2> SUFFICES ASSUME NEW j \in DOMAIN c, c[j].what = "execute", c[j].name \notin S
               PROVE  \E i \in DOMAIN c :
                         i < j /\ c[i].what = "prepare" /\ c[i].name = c[j].name
    BY DEF Served
  <2>1. CASE j \in DOMAIN q
    <3>1. PICK i \in DOMAIN q : i < j /\ q[i].what = "prepare" /\ q[i].name = q[j].name
      BY <1>1, <2>1 DEF Follows, Served
    <3> QED BY <1>1, <2>1, <3>1
  <2>2. ASSUME NEW h \in DOMAIN t, j = m + h
        PROVE  \E i \in DOMAIN c : i < j /\ c[i].what = "prepare" /\ c[i].name = c[j].name
    <3>1. c[j] = t[h]
      BY <1>1, <2>2
    <3>2. CASE Asks(q, "prepare", t[h].name)
      BY <1>1, <2>2, <3>1, <3>2 DEF Asks
    <3>3. ASSUME NEW i \in DOMAIN t, i < h, t[i].what = "prepare", t[i].name = t[h].name
          PROVE  \E g \in DOMAIN c : g < j /\ c[g].what = "prepare" /\ c[g].name = c[j].name
      <4>1. m + i \in DOMAIN c /\ m + i < j /\ c[m + i] = t[i]
        BY <1>1, <2>2, <3>3
      <4> QED BY <3>1, <3>3, <4>1
    <3> QED BY <3>1, <3>2, <3>3
  <2> QED BY <1>1, <2>1, <2>2
<1>6. Known(c, S, M, G)
  BY <1>3 DEF Known
<1> QED BY <1>2, <1>4, <1>5, <1>6 DEF Follows, c

\* A command is executed
LEMMA FollowsTail ==
    ASSUME NEW q \in Seq(Commands), q # <<>>, NEW S, NEW N, NEW F, NEW R,
           Follows(q, S, N, F),
           R = CASE Head(q).what = "prepare" -> S \cup {Head(q).name}
                 [] Head(q).what = "close" -> S \ {Head(q).name}
                 [] OTHER -> S
    PROVE  Follows(Tail(q), R, N, F)
<1> DEFINE t == Tail(q)
           x == Head(q)
<1>1. /\ Len(q) \in Nat \ {0} /\ DOMAIN q = 1 .. Len(q) /\ x = q[1]
      /\ DOMAIN t = 1 .. Len(q) - 1
      /\ \A i \in 1 .. Len(q) - 1 : t[i] = q[i + 1]
  OBVIOUS
<1>2. /\ \A i \in DOMAIN t : i + 1 \in DOMAIN q /\ 1 < i + 1 /\ t[i] = q[i + 1]
      /\ \A i \in DOMAIN q : i = 1 \/ \E j \in DOMAIN t : i = j + 1
      /\ \A i, j \in DOMAIN t : i + 1 < j + 1 <=> i < j
      /\ 1 \in DOMAIN q /\ x = q[1]
  <2>1. \A i \in DOMAIN q : i # 1 => i - 1 \in DOMAIN t /\ i = (i - 1) + 1
    BY <1>1
  <2> QED BY <1>1, <2>1
<1> HIDE DEF t, x
<1>3. R = CASE x.what = "prepare" -> S \cup {x.name}
            [] x.what = "close" -> S \ {x.name}
            [] OTHER -> S
  BY DEF x
<1>4. \A what, n : Asks(q, what, n) <=> Asks(t, what, n) \/ (x.what = what /\ x.name = n)
  BY <1>2 DEF Asks
<1>5. /\ x.what = "prepare" => R = S \cup {x.name}
      /\ x.what = "close" => R = S \ {x.name}
      /\ x.what \notin {"prepare", "close"} => R = S
  BY <1>3
<1>6. Ordered(t)
  BY <1>2 DEF Follows, Ordered
<1>7. x.what = "close" =>
        /\ ~Asks(t, "prepare", x.name)
        /\ \A j \in DOMAIN t : t[j].what = "execute" => t[j].name # x.name
  BY <1>2 DEF Follows, Ordered, Asks
<1>8. Served(t, R)
  <2> SUFFICES ASSUME NEW j \in DOMAIN t, t[j].what = "execute", t[j].name \notin R
               PROVE  \E i \in DOMAIN t :
                         i < j /\ t[i].what = "prepare" /\ t[i].name = t[j].name
    BY DEF Served
  <2>1. t[j].name \notin S
    BY <1>5, <1>7
  <2>2. j + 1 \in DOMAIN q /\ t[j] = q[j + 1]
    BY <1>2
  <2>3. PICK i \in DOMAIN q : i < j + 1 /\ q[i].what = "prepare" /\ q[i].name = t[j].name
    BY <2>1, <2>2 DEF Follows, Served
  <2>4. i # 1
    BY <1>2, <1>5, <2>3
  <2>5. PICK h \in DOMAIN t : i = h + 1
    BY <1>2, <2>4
  <2> QED BY <1>2, <2>3, <2>5
<1>9. Known(t, R, N, F)
  <2> SUFFICES ASSUME NEW n \in Nat
               PROVE  n \in N <=> /\ n \in R \/ Asks(t, "prepare", n)
                                  /\ ~Asks(t, "close", n)
                                  /\ n \notin F
    BY DEF Known
  <2>1. n \in N <=> /\ n \in S \/ Asks(q, "prepare", n)
                    /\ ~Asks(q, "close", n)
                    /\ n \notin F
    BY DEF Follows, Known
  <2>2. CASE x.what = "prepare"
    BY <1>4, <1>5, <2>1, <2>2
  <2>3. CASE x.what = "close" /\ x.name = n
    BY <1>4, <1>5, <1>7, <2>1, <2>3
  <2>4. CASE x.what = "close" /\ x.name # n
    BY <1>4, <1>5, <2>1, <2>4
  <2>5. CASE x.what \notin {"prepare", "close"}
    BY <1>4, <1>5, <2>1, <2>5
  <2> QED BY <2>2, <2>3, <2>4, <2>5
<1>10. \A i \in DOMAIN t : t[i].what # "deallocate"
  BY <1>2 DEF Follows
<1> QED BY <1>6, <1>8, <1>9, <1>10 DEF Follows, t

-----------------------------------------------------------------------------
(* The cache and the server agree *)

Bad == {"error", "aborted"}

Queue == wire \o commands

\* The items of a list of names to deallocate
Names(f) == {f[i] : i \in DOMAIN f}

\* What the cache takes for gone from the server, or about to be
Gone == Names(cache.flush) \cup forgotten

\* Nothing failed, and no error is under way
Clean == ~trouble /\ ~aborted /\ \A i \in DOMAIN inbox : inbox[i].out \notin Bad

\* As long as nothing failed the cache follows the server
Follow == Clean => Follows(Queue, server, Values(cache.names), Gone)

\* A sync is the last command queued, and what waits for its result is no query:
\* the results are fetched up to it before another operation
SyncLast ==
    ~trouble =>
        \A i \in DOMAIN pending :
            pending[i].cmd.what = "sync" => i = Len(pending) /\ pc # "idle" /\ op # "execute"

SyncPlain == \A i \in DOMAIN pending : pending[i].cmd.what = "sync" => pending[i].prep = "none"

SyncAnswer == \A i \in DOMAIN inbox : inbox[i].out = "sync" => inbox[i].cmd.what = "sync"

\* An error was seen, or will be; the commands after it are skipped up to a sync
FailedSeen == failed => trouble

ErrorSeen == aborted => trouble \/ \E i \in DOMAIN inbox : inbox[i].out \in Bad

ErrorEnds ==
    \A i \in DOMAIN inbox :
        inbox[i].out \in Bad => aborted \/ \E j \in DOMAIN inbox : i < j /\ inbox[j].out = "sync"

Syncs == SyncLast /\ SyncPlain /\ SyncAnswer

Errors == FailedSeen /\ ErrorSeen /\ ErrorEnds

\* The first and the other items of a sequence
LEMMA TailItems ==
    ASSUME NEW T, NEW s \in Seq(T), s # <<>>
    PROVE  /\ 1 \in DOMAIN s /\ Head(s) = s[1] /\ Tail(s) \in Seq(T)
           /\ \A i \in DOMAIN Tail(s) : i + 1 \in DOMAIN s /\ Tail(s)[i] = s[i + 1] /\ i + 1 # 1
           /\ \A i \in DOMAIN s : i = 1 \/ \E j \in DOMAIN Tail(s) : i = j + 1
           /\ \A i, j \in DOMAIN Tail(s) : i + 1 < j + 1 <=> i < j
           /\ \A i \in DOMAIN Tail(s) : i + 1 = Len(s) <=> i = Len(Tail(s))
           /\ \A i \in DOMAIN s : ~(i < 1)
<1> DEFINE t == Tail(s)
<1>1. /\ Len(s) \in Nat \ {0} /\ DOMAIN s = 1 .. Len(s) /\ Head(s) = s[1]
      /\ DOMAIN t = 1 .. Len(s) - 1 /\ Len(t) = Len(s) - 1 /\ t \in Seq(T)
      /\ \A i \in 1 .. Len(s) - 1 : t[i] = s[i + 1]
  OBVIOUS
<1> HIDE DEF t
<1>2. \A i \in DOMAIN s : i # 1 => i - 1 \in DOMAIN t /\ i = (i - 1) + 1
  BY <1>1
<1>3. /\ \A i \in DOMAIN t : i + 1 \in DOMAIN s /\ t[i] = s[i + 1] /\ i + 1 # 1
      /\ \A i, j \in DOMAIN t : i + 1 < j + 1 <=> i < j
      /\ \A i \in DOMAIN t : i + 1 = Len(s) <=> i = Len(t)
      /\ \A i \in DOMAIN s : ~(i < 1)
      /\ 1 \in DOMAIN s
  BY <1>1
<1> QED BY <1>1, <1>2, <1>3 DEF t

\* ... the last and the others
LEMMA AppendItems ==
    ASSUME NEW T, NEW s \in Seq(T), NEW x \in T
    PROVE  LET a == Append(s, x)
               n == Len(s) + 1
           IN  /\ DOMAIN a = DOMAIN s \cup {n} /\ a[n] = x /\ n \notin DOMAIN s /\ Len(a) = n
               /\ \A i \in DOMAIN s : a[i] = s[i] /\ i < n
  OBVIOUS

\* A result that is processed is that of its entry
LEMMA HeadsMatch ==
    ASSUME IInv, inbox # <<>>, pending # <<>>
    PROVE  Head(pending).cmd = Head(inbox).cmd
<1>1. /\ commands \in Seq(Commands) /\ wire \in Seq(Commands)
      /\ pending \in Seq(Entries) /\ inbox \in Seq(Results)
  BY DEF IInv, TypeOK
<1> DEFINE a == CommandsOf(inbox)
<1>2. /\ a \in Seq(Commands) /\ Len(a) = Len(inbox)
      /\ \A i \in 1 .. Len(inbox) : a[i] = inbox[i].cmd
  BY <1>1, Typed, CommandsOfType
<1>3. \A i \in 1 .. Len(pending) : CommandsOf(pending)[i] = pending[i].cmd
  BY <1>1, Typed, CommandsOfType
<1>4. 1 \in 1 .. Len(inbox) /\ 1 \in 1 .. Len(pending)
  BY <1>1, EmptySeq, LenProperties
<1>5. CommandsOf(pending) = (a \o wire) \o commands
  BY DEF IInv, ResultMatching
<1> HIDE DEF a
<1>6. a \o wire \in Seq(Commands) /\ 1 \in DOMAIN (a \o wire) /\ (a \o wire)[1] = a[1]
  <2>1. 1 \in DOMAIN a
    BY <1>2, <1>4
  <2> QED BY <1>1, <1>2, <2>1, ConcatProperties, ConcatItems
<1>7. ((a \o wire) \o commands)[1] = (a \o wire)[1]
  <2> DEFINE b == a \o wire
  <2>1. b \in Seq(Commands) /\ 1 \in DOMAIN b
    BY <1>6
  <2> HIDE DEF b
  <2>2. (b \o commands)[1] = b[1]
    BY <1>1, <2>1, ConcatItems
  <2> QED BY <2>2 DEF b
<1>8. Head(pending) = pending[1] /\ Head(inbox) = inbox[1]
  BY <1>1, TailItems
<1> QED BY <1>2, <1>3, <1>4, <1>5, <1>6, <1>7, <1>8

\* A result received has its entry, before those of the commands not executed yet
LEMMA ResultEntry ==
    ASSUME IInv, NEW j \in DOMAIN inbox
    PROVE  /\ j \in DOMAIN pending /\ pending[j].cmd = inbox[j].cmd
           /\ wire # <<>> => j # Len(pending)
<1>1. /\ commands \in Seq(Commands) /\ wire \in Seq(Commands)
      /\ pending \in Seq(Entries) /\ inbox \in Seq(Results)
  BY DEF IInv, TypeOK
<1> DEFINE a == CommandsOf(inbox)
           p == CommandsOf(pending)
           b == a \o wire
<1>2. a \in Seq(Commands) /\ Len(a) = Len(inbox) /\ Len(p) = Len(pending)
  BY <1>1, Typed, CommandsOfType
<1>3. /\ DOMAIN a = DOMAIN inbox /\ DOMAIN p = DOMAIN pending
      /\ \A i \in DOMAIN inbox : a[i] = inbox[i].cmd
      /\ \A i \in DOMAIN pending : p[i] = pending[i].cmd
  BY DEF CommandsOf
<1>4. p = b \o commands
  BY DEF IInv, ResultMatching
<1> HIDE DEF a, p
<1>5. /\ b \in Seq(Commands) /\ j \in DOMAIN b /\ b[j] = a[j]
      /\ Len(b) = Len(a) + Len(wire)
  <2>1. b \in Seq(Commands) /\ Len(b) = Len(a) + Len(wire)
    BY <1>1, <1>2, ConcatProperties
  <2>2. j \in DOMAIN a
    BY <1>3
  <2>3. j \in DOMAIN b /\ b[j] = a[j]
    BY <1>1, <1>2, <2>2, ConcatItems
  <2> QED BY <2>1, <2>3
<1> HIDE DEF b
<1>6. j \in DOMAIN p /\ p[j] = b[j] /\ Len(p) = Len(b) + Len(commands)
  <2>1. Len(p) = Len(b) + Len(commands)
    BY <1>1, <1>4, <1>5, ConcatProperties
  <2>2. j \in DOMAIN p /\ p[j] = b[j]
    BY <1>1, <1>4, <1>5, ConcatItems
  <2> QED BY <2>1, <2>2
<1>7. wire # <<>> => j # Len(pending)
  <2>1. /\ Len(a) \in Nat /\ DOMAIN a = 1 .. Len(a)
        /\ Len(commands) \in Nat /\ Len(wire) \in Nat
        /\ wire # <<>> => Len(wire) > 0
    BY <1>1, <1>2, LenProperties, EmptySeq
  <2> QED BY <1>2, <1>3, <1>5, <1>6, <2>1
<1> QED BY <1>3, <1>5, <1>6, <1>7

Agree == Follow /\ Syncs /\ Errors

\* Nothing was received, and nothing raised that was not known to
LEMMA SameErrors ==
    ASSUME Errors, UNCHANGED <<inbox, aborted>>, failed' => failed, trouble => trouble'
    PROVE  Errors'
<1>1. FailedSeen'
  BY DEF Errors, FailedSeen
<1>2. ErrorSeen'
  BY DEF Errors, ErrorSeen
<1>3. ErrorEnds'
  BY DEF Errors, ErrorEnds
<1> QED BY <1>1, <1>2, <1>3 DEF Errors

\* Nothing was queued or received, and the operation is the same
LEMMA SameSyncs ==
    ASSUME Syncs, UNCHANGED <<pending, inbox, pc, op>>, trouble => trouble'
    PROVE  Syncs'
<1>1. SyncLast'
  BY DEF Syncs, SyncLast
<1>2. SyncPlain' /\ SyncAnswer'
  BY DEF Syncs, SyncPlain, SyncAnswer
<1> QED BY <1>1, <1>2 DEF Syncs

\* Statements are evicted, or forgotten
LEMMA FollowsEvict ==
    ASSUME NEW q, NEW S, NEW N, NEW F, Follows(q, S, N, F),
           NEW L \in SUBSET Nat, L \subseteq N
    PROVE  Follows(q, S, N \ L, F \cup L)
<1>1. All \notin L
  BY PreparedAssumption
<1>2. Known(q, S, N \ L, F \cup L)
  <2> SUFFICES ASSUME NEW m \in Nat
               PROVE  m \in N \ L <=> /\ m \in S \/ Asks(q, "prepare", m)
                                      /\ ~Asks(q, "close", m)
                                      /\ m \notin F \cup L
    BY DEF Known
  <2>1. m \in N <=> /\ m \in S \/ Asks(q, "prepare", m)
                    /\ ~Asks(q, "close", m)
                    /\ m \notin F
    BY DEF Follows, Known
  <2> QED BY <2>1
<1> QED BY <1>1, <1>2 DEF Follows

\* One more name to deallocate
LEMMA NamesAppend ==
    ASSUME NEW f \in Seq(Nat \cup {All}), NEW n \in Nat \cup {All}
    PROVE  Names(Append(f, n)) = Names(f) \cup {n}
<1>1. /\ DOMAIN Append(f, n) = DOMAIN f \cup {Len(f) + 1} /\ Len(f) + 1 \notin DOMAIN f
      /\ Append(f, n)[Len(f) + 1] = n
      /\ \A i \in DOMAIN f : Append(f, n)[i] = f[i]
  BY AppendItems
<1> QED BY <1>1 DEF Names

\* The errors seen when a result is processed
LEMMA ProcessNextErrors ==
    ASSUME IInv, Errors, ProcessNext, inbox # <<>>, pending # <<>>, aborted' = aborted
    PROVE  Errors'
<1>1. /\ inbox' = Tail(inbox)
      /\ failed' = (failed \/ Raises(Head(inbox).out))
      /\ trouble' = (trouble \/ Raises(Head(inbox).out) \/ Drops(Head(inbox).out))
  BY DEF ProcessNext
<1>2. inbox \in Seq(Results)
  BY DEF IInv, TypeOK
<1> DEFINE t == Tail(inbox)
<1>3. /\ 1 \in DOMAIN inbox /\ Head(inbox) = inbox[1]
      /\ \A i \in DOMAIN t : i + 1 \in DOMAIN inbox /\ t[i] = inbox[i + 1] /\ i + 1 # 1
      /\ \A i \in DOMAIN inbox : i = 1 \/ \E j \in DOMAIN t : i = j + 1
      /\ \A i, j \in DOMAIN t : i + 1 < j + 1 <=> i < j
      /\ \A i \in DOMAIN inbox : ~(i < 1)
  BY <1>2, TailItems
<1>4. inbox' = t
  BY <1>1
<1> HIDE DEF t
<1>5. FailedSeen'
  BY <1>1 DEF Errors, FailedSeen
<1>6. ErrorSeen'
  <2> SUFFICES ASSUME aborted, ~trouble'
               PROVE  \E i \in DOMAIN t : t[i].out \in Bad
    BY <1>4 DEF ErrorSeen
  <2>1. ~trouble /\ ~Raises(inbox[1].out)
    BY <1>1, <1>3
  <2>2. PICK i \in DOMAIN inbox : inbox[i].out \in Bad
    BY <2>1 DEF Errors, ErrorSeen
  <2>3. i # 1
    BY <2>1, <2>2 DEF Raises, Bad
  <2> QED BY <1>3, <2>2, <2>3
<1>7. ErrorEnds'
  <2> SUFFICES ASSUME NEW i \in DOMAIN t, t[i].out \in Bad, ~aborted
               PROVE  \E j \in DOMAIN t : i < j /\ t[j].out = "sync"
    BY <1>4 DEF ErrorEnds
  <2>1. i + 1 \in DOMAIN inbox /\ inbox[i + 1].out \in Bad
    BY <1>3
  <2>2. PICK j \in DOMAIN inbox : i + 1 < j /\ inbox[j].out = "sync"
    BY <2>1 DEF Errors, ErrorEnds
  <2>3. j # 1
    BY <1>3, <2>1, <2>2
  <2> QED BY <1>3, <2>2, <2>3
<1> QED BY <1>5, <1>6, <1>7 DEF Errors

\* ... the syncs
LEMMA ProcessNextSyncs ==
    ASSUME IInv, Syncs, ProcessNext, inbox # <<>>, pending # <<>>, UNCHANGED <<pc, op>>
    PROVE  Syncs'
<1>1. inbox' = Tail(inbox) /\ pending' = Tail(pending) /\ (trouble => trouble')
  BY DEF ProcessNext
<1>2. inbox \in Seq(Results) /\ pending \in Seq(Entries)
  BY DEF IInv, TypeOK
<1>3. SyncAnswer'
  <2>1. \A i \in DOMAIN Tail(inbox) :
           i + 1 \in DOMAIN inbox /\ Tail(inbox)[i] = inbox[i + 1]
    BY <1>2, TailItems
  <2> QED BY <1>1, <2>1 DEF Syncs, SyncAnswer
<1>4. SyncPlain' /\ SyncLast'
  <2>1. \A i \in DOMAIN Tail(pending) :
           /\ i + 1 \in DOMAIN pending /\ Tail(pending)[i] = pending[i + 1]
           /\ i + 1 = Len(pending) <=> i = Len(Tail(pending))
    BY <1>2, TailItems
  <2>2. SyncPlain'
    BY <1>1, <2>1 DEF Syncs, SyncPlain
  <2>3. SyncLast'
    BY <1>1, <2>1 DEF Syncs, SyncLast
  <2> QED BY <2>2, <2>3
<1> QED BY <1>3, <1>4 DEF Syncs

\* ... and the cache, which follows the server
LEMMA ProcessNextFollows ==
    ASSUME IInv, CacheInv, Agree, ProcessNext, inbox # <<>>, pending # <<>>,
           UNCHANGED <<wire, commands, server, aborted>>
    PROVE  Follow'
<1> SUFFICES ASSUME Clean'
             PROVE  Follows(Queue, server, Values(cache'.names), Gone')
  BY DEF Follow, Queue
<1>1. PICK e, out :
         /\ e = Head(pending) /\ out = Head(inbox).out
         /\ out \in {"ok", "drop", "empty", "error", "aborted", "sync"}
         /\ e.prep = "none" => cache' = cache
         /\ e.prep # "none" => Validates(cache, e.cmd.key, out, cache')
         /\ inbox' = Tail(inbox)
         /\ forgotten' = forgotten \cup Lost(cache, cache', out)
         /\ trouble' = (trouble \/ Raises(out) \/ Drops(out))
  BY ProcessNextDoes
<1>2. inbox \in Seq(Results) /\ pending \in Seq(Entries) /\ cache \in CacheType
  BY DEF IInv, TypeOK
<1>3. /\ 1 \in DOMAIN inbox /\ Head(inbox) = inbox[1]
      /\ 1 \in DOMAIN pending /\ Head(pending) = pending[1]
  BY <1>2, TailItems
<1>4. ~trouble /\ ~aborted /\ ~Raises(out) /\ ~Drops(out)
  BY <1>1 DEF Clean
<1>5. \A i \in DOMAIN inbox : inbox[i].out \notin Bad
  <2> DEFINE t == Tail(inbox)
  <2>1. /\ \A i \in DOMAIN t : i + 1 \in DOMAIN inbox /\ t[i] = inbox[i + 1]
        /\ \A i \in DOMAIN inbox : i = 1 \/ \E j \in DOMAIN t : i = j + 1
    BY <1>2, TailItems
  <2>2. \A i \in DOMAIN t : t[i].out \notin Bad
    BY <1>1 DEF Clean
  <2> HIDE DEF t
  <2>3. inbox[1].out \notin Bad
    BY <1>1, <1>3, <1>4 DEF Raises, Bad
  <2> QED BY <2>1, <2>2, <2>3
<1>6. Follows(Queue, server, Values(cache.names), Gone)
  BY <1>4, <1>5 DEF Agree, Follow, Clean
<1> DEFINE N == Values(cache.names)
           M == Values(cache'.names)
           lost == Lost(cache, cache', out)
<1>9. lost \subseteq N \ M /\ (out = "empty" => lost = N \ M)
  BY DEF Lost
<1>10. N \in SUBSET Nat /\ cache.flush \in Seq(Nat \cup {All})
  BY <1>2, CacheFields, DictItems
<1>11. Gone' = Names(cache'.flush) \cup forgotten \cup lost
  BY <1>1 DEF Gone
<1> HIDE DEF N, M, lost
<1>12. Follows(Queue, server, N, Gone)
  BY <1>6 DEF N
<1> SUFFICES Follows(Queue, server, M, Gone')
  BY DEF M
<1>7. CASE e.prep = "none"
  <2>1. cache' = cache /\ M = N /\ lost = {}
    BY <1>1, <1>7, <1>9 DEF M, N
  <2>2. Gone' = Gone
    BY <1>11, <2>1 DEF Gone
  <2> QED BY <1>12, <2>1, <2>2
<1>8. CASE e.prep # "none"
  <2>1. out # "sync"
    <3>1. out = "sync" => e.cmd.what = "sync"
      BY <1>1, <1>3, HeadsMatch DEF Agree, Syncs, SyncAnswer
    <3>2. e.cmd.what = "sync" => e.prep = "none"
      BY <1>1, <1>3 DEF Agree, Syncs, SyncPlain
    <3> QED BY <1>8, <3>1, <3>2
  <2>2. Good(out) \/ out = "empty"
    BY <1>1, <1>4, <2>1 DEF Raises, Drops, Good
  <2>3. \/ Keeps(cache, cache') \/ Evicts(cache, cache')
        \/ out = "empty" /\ cache'.flush = cache.flush /\ M \subseteq N
    BY <1>1, <1>4, <1>8, <2>2 DEF Validates, M, N
  <2>4. CASE Keeps(cache, cache')
    <3>1. cache'.flush = cache.flush /\ M = N
      BY <2>4 DEF Keeps, M, N
    <3>2. Gone' = Gone
      BY <1>9, <1>11, <3>1 DEF Gone
    <3> QED BY <1>12, <3>1, <3>2
  <2>5. CASE Evicts(cache, cache')
    <3>1. PICK n \in N : cache'.flush = Append(cache.flush, n) /\ M = N \ {n}
      BY <2>5 DEF Evicts, M, N
    <3>2. n \in Nat
      BY <1>10
    <3>3. Names(cache'.flush) = Names(cache.flush) \cup {n}
      BY <1>10, <3>1, <3>2, NamesAppend
    <3>4. Gone' = Gone \cup {n}
      BY <1>9, <1>11, <3>1, <3>3 DEF Gone
    <3> DEFINE L == {n}
    <3>5. L \in SUBSET Nat /\ L \subseteq N /\ M = N \ L /\ Gone' = Gone \cup L
      BY <3>1, <3>2, <3>4
    <3> HIDE DEF L
    <3> QED BY <1>12, <3>5, FollowsEvict
  <2>6. CASE out = "empty" /\ cache'.flush = cache.flush /\ M \subseteq N
    <3>1. lost \in SUBSET Nat /\ lost \subseteq N /\ M = N \ lost
      BY <1>9, <1>10, <2>6
    <3>2. Gone' = Gone \cup lost
      BY <1>11, <2>6 DEF Gone
    <3> QED BY <1>12, <3>1, <3>2, FollowsEvict
  <2> QED BY <2>3, <2>4, <2>5, <2>6
<1> QED BY <1>7, <1>8

\* The answer of the server
Answers(out) ==
    /\ Answer(Head(wire), out)
    /\ out \in {"ok", "drop", "empty", "error", "aborted", "sync"}
    /\ out = "sync" => aborted' = FALSE /\ Head(wire).what = "sync"
    /\ out \in Bad => aborted'
    /\ out \notin Bad \cup {"sync"} => aborted' = aborted /\ ~aborted

\* The server answers one of these
LEMMA ServeAnswers ==
    ASSUME Serve
    PROVE  \E out : Answers(out)
<1> DEFINE x == Head(wire)
           good == IF x.what \in {"query", "execute"} THEN Success(x.key) ELSE "ok"
<1>1. CASE x.what = "sync" /\ aborted' = FALSE /\ Answer(x, "sync")
  <2>1. Answers("sync")
    BY <1>1 DEF Answers, Bad
  <2> QED BY <2>1
<1>2. CASE aborted /\ Answer(x, "aborted") /\ aborted' = aborted
  <2>1. Answers("aborted")
    BY <1>2 DEF Answers, Bad
  <2> QED BY <2>1
<1>3. CASE ~aborted /\ Answer(x, good) /\ aborted' = aborted
  <2>1. good \in {"ok", "drop", "empty"}
    BY DEF Success
  <2> HIDE DEF good
  <2>2. Answers(good)
    BY <1>3, <2>1 DEF Answers, Bad
  <2> QED BY <2>2
<1>4. CASE Answer(x, "error") /\ aborted' = TRUE
  <2>1. Answers("error")
    BY <1>4 DEF Answers, Bad
  <2> QED BY <2>1
<1>5. \/ x.what = "sync" /\ aborted' = FALSE /\ Answer(x, "sync")
      \/ aborted /\ Answer(x, "aborted") /\ aborted' = aborted
      \/ ~aborted /\ Answer(x, good) /\ aborted' = aborted
      \/ Answer(x, "error") /\ aborted' = TRUE
  BY DEF Serve, serverVars, histVars
<1> HIDE DEF x, good
<1> QED BY <1>1, <1>2, <1>3, <1>4, <1>5

\* The errors of the server
LEMMA ServeErrors ==
    ASSUME IInv, Errors, Serve
    PROVE  Errors'
<1>1. UNCHANGED <<failed, trouble>>
  BY DEF Serve, pcVars, histVars
<1>2. PICK out : /\ inbox' = Append(inbox, [cmd |-> Head(wire), out |-> out])
                 /\ out \in {"ok", "drop", "empty", "error", "aborted", "sync"}
                 /\ out = "sync" => aborted' = FALSE
                 /\ out \in Bad => aborted'
                 /\ out \notin Bad \cup {"sync"} => aborted' = aborted /\ ~aborted
  BY ServeAnswers DEF Answers, Answer
<1> DEFINE r == [cmd |-> Head(wire), out |-> out]
           n == Len(inbox) + 1
<1>3. inbox \in Seq(Results) /\ wire \in Seq(Commands) /\ wire # <<>> /\ aborted \in BOOLEAN
  BY DEF IInv, TypeOK, Serve
<1>4. r \in Results /\ r.out = out
  BY <1>2, <1>3, HeadTailProperties DEF Results
<1> HIDE DEF r
<1>5. inbox' = Append(inbox, r)
  BY <1>2 DEF r
<1>6. /\ DOMAIN inbox' = DOMAIN inbox \cup {n} /\ inbox'[n] = r
      /\ \A i \in DOMAIN inbox : inbox'[i] = inbox[i] /\ i < n
  BY <1>3, <1>4, <1>5, AppendItems
<1> HIDE DEF n
<1>7. FailedSeen'
  BY <1>1 DEF Errors, FailedSeen
<1>8. ErrorSeen'
  <2> SUFFICES ASSUME aborted' PROVE \E i \in DOMAIN inbox' : inbox'[i].out \in Bad
    BY DEF ErrorSeen
  <2>1. out \in Bad
    BY <1>2
  <2> QED BY <1>4, <1>6, <2>1
<1>9. ErrorEnds'
  <2> SUFFICES ASSUME NEW i \in DOMAIN inbox', inbox'[i].out \in Bad, ~aborted'
               PROVE  \E j \in DOMAIN inbox' : i < j /\ inbox'[j].out = "sync"
    BY DEF ErrorEnds
  <2>1. i # n
    BY <1>2, <1>4, <1>6
  <2>2. i \in DOMAIN inbox /\ inbox[i].out \in Bad
    BY <1>6, <2>1
  <2>3. CASE out = "sync"
    BY <1>4, <1>6, <2>2, <2>3
  <2>4. CASE out # "sync"
    <3>1. ~aborted
      BY <1>2, <2>4
    <3>2. PICK j \in DOMAIN inbox : i < j /\ inbox[j].out = "sync"
      BY <2>2, <3>1 DEF Errors, ErrorEnds
    <3> QED BY <1>6, <3>2
  <2> QED BY <2>3, <2>4
<1> QED BY <1>7, <1>8, <1>9 DEF Errors

\* ... its answers
LEMMA ServeSyncs ==
    ASSUME IInv, Syncs, Serve
    PROVE  Syncs'
<1>1. UNCHANGED <<pending, pc, op, trouble>>
  BY DEF Serve, pcVars, pipeVars, histVars
<1>2. PICK out : /\ inbox' = Append(inbox, [cmd |-> Head(wire), out |-> out])
                 /\ out \in {"ok", "drop", "empty", "error", "aborted", "sync"}
                 /\ out = "sync" => Head(wire).what = "sync"
  BY ServeAnswers DEF Answers, Answer
<1> DEFINE r == [cmd |-> Head(wire), out |-> out]
<1>3. inbox \in Seq(Results) /\ wire \in Seq(Commands) /\ wire # <<>>
  BY DEF IInv, TypeOK, Serve
<1>4. r \in Results /\ r.out = out /\ r.cmd = Head(wire)
  BY <1>2, <1>3, HeadTailProperties DEF Results
<1> HIDE DEF r
<1>5. inbox' = Append(inbox, r)
  BY <1>2 DEF r
<1>6. SyncAnswer'
  <2> DEFINE n == Len(inbox) + 1
  <2>1. /\ DOMAIN inbox' = DOMAIN inbox \cup {n} /\ inbox'[n] = r
        /\ \A i \in DOMAIN inbox : inbox'[i] = inbox[i]
    BY <1>3, <1>4, <1>5, AppendItems
  <2> HIDE DEF n
  <2> QED BY <1>2, <1>4, <2>1 DEF Syncs, SyncAnswer
<1>7. SyncLast' /\ SyncPlain'
  BY <1>1 DEF Syncs, SyncLast, SyncPlain
<1> QED BY <1>6, <1>7 DEF Syncs

\* ... and the statements it prepares and closes
LEMMA ServeFollows ==
    ASSUME IInv, Agree, Serve
    PROVE  Follow'
<1>1. UNCHANGED <<cache, commands, trouble, forgotten>>
  BY DEF Serve, pipeVars, histVars
<1>2. wire' = Tail(wire) /\ wire # <<>>
  BY DEF Serve, Answer
<1> SUFFICES ASSUME Clean'
             PROVE  Follows(Queue', server', Values(cache.names), Gone)
  BY <1>1 DEF Follow, Gone
<1>3. /\ inbox \in Seq(Results) /\ wire \in Seq(Commands) /\ commands \in Seq(Commands)
  BY DEF IInv, TypeOK
<1>4. ~trouble /\ \A i \in DOMAIN inbox : inbox[i].out \notin Bad
  <2>1. \E r : inbox' = Append(inbox, r) /\ r \in Results
    <3> DEFINE cmd == Head(wire)
               good == IF cmd.what \in {"query", "execute"} THEN Success(cmd.key) ELSE "ok"
    <3>1. good \in {"ok", "drop", "empty"}
      BY SuccessResult
    <3>2. \/ Answer(cmd, "sync") \/ Answer(cmd, "aborted")
          \/ Answer(cmd, good) \/ Answer(cmd, "error")
      BY DEF Serve
    <3>3. cmd \in Commands
      BY <1>2, <1>3, HeadTailProperties
    <3> HIDE DEF cmd, good
    <3> QED BY <3>1, <3>2, <3>3 DEF Answer, Results
  <2>2. \A i \in DOMAIN inbox : i \in DOMAIN inbox' /\ inbox'[i] = inbox[i]
    BY <1>3, <2>1, AppendItems
  <2> QED BY <1>1, <2>2 DEF Clean
<1>5. ~aborted
  BY <1>4 DEF Agree, Errors, ErrorSeen
<1>6. Follows(Queue, server, Values(cache.names), Gone)
  BY <1>4, <1>5 DEF Agree, Follow, Clean
<1>7. /\ Queue' = Tail(Queue) /\ Head(Queue) = Head(wire)
      /\ Queue \in Seq(Commands) /\ Queue # <<>>
  <2>1. Queue' = Tail(Queue) /\ Head(Queue) = Head(wire) /\ Queue \in Seq(Commands)
    BY <1>1, <1>2, <1>3, TailConcat, ConcatProperties DEF Queue
  <2>2. Queue # <<>>
    BY <1>2, <1>3, ConcatEqualIffEmpty DEF Queue
  <2> QED BY <2>1, <2>2
<1>8. Head(wire).what # "deallocate"
  <2>1. 1 \in DOMAIN Queue /\ Head(Queue) = Queue[1]
    BY <1>7, TailItems
  <2> QED BY <1>6, <1>7, <2>1 DEF Follows
<1>9. server' = CASE Head(wire).what = "prepare" -> server \cup {Head(wire).name}
                  [] Head(wire).what = "close" -> server \ {Head(wire).name}
                  [] OTHER -> server
  <2>1. ~aborted'
    BY DEF Clean
  <2> DEFINE x == Head(wire)
  <2>2. \/ x.what = "sync" /\ UNCHANGED server
        \/ server' = CASE x.what = "prepare" -> server \cup {x.name}
                       [] x.what = "close" -> server \ {x.name}
                       [] x.what = "deallocate" -> {}
                       [] OTHER -> server
    BY <1>5, <2>1 DEF Serve
  <2>3. x.what # "deallocate"
    BY <1>8
  <2> HIDE DEF x
  <2>4. server' = CASE x.what = "prepare" -> server \cup {x.name}
                    [] x.what = "close" -> server \ {x.name}
                    [] OTHER -> server
    BY <2>2, <2>3
  <2> QED BY <2>4 DEF x
<1> DEFINE q == Queue
<1>10. q \in Seq(Commands) /\ q # <<>> /\ Follows(q, server, Values(cache.names), Gone)
  BY <1>6, <1>7
<1>11. server' = CASE Head(q).what = "prepare" -> server \cup {Head(q).name}
                   [] Head(q).what = "close" -> server \ {Head(q).name}
                   [] OTHER -> server
  BY <1>7, <1>9
<1>12. Queue' = Tail(q)
  BY <1>7
<1> HIDE DEF q
<1> QED BY <1>10, <1>11, <1>12, FollowsTail

\* Out of a pipeline nothing is queued
LEMMA OutOfPipeline ==
    ASSUME IInv, Agree, level = 0
    PROVE  /\ wire = <<>> /\ commands = <<>> /\ inbox = <<>> /\ pending = <<>>
           /\ Queue = <<>>
           /\ ~trouble => ~aborted /\ Clean
<1>1. wire = <<>> /\ commands = <<>> /\ inbox = <<>> /\ pending = <<>>
  BY DEF IInv, PipelineDrained
<1>2. Queue = <<>>
  BY <1>1 DEF Queue
<1>3. ~trouble => ~aborted
  BY <1>1 DEF Agree, Errors, ErrorSeen
<1> QED BY <1>1, <1>2, <1>3 DEF Clean

\* The names of what is on the server, and to be flushed, out of a pipeline
LEMMA FollowsNow ==
    ASSUME NEW S \in SUBSET Nat, NEW N \in SUBSET Nat, NEW F
    PROVE  Follows(<<>>, S, N, F) <=> All \notin F /\ N = S \ F
<1>1. ASSUME Follows(<<>>, S, N, F) PROVE All \notin F /\ N = S \ F
  <2>1. \A n \in Nat : n \in N <=> n \in S /\ n \notin F
    BY <1>1 DEF Follows, Known, Asks
  <2> QED BY <1>1, <2>1 DEF Follows
<1>2. ASSUME All \notin F, N = S \ F PROVE Follows(<<>>, S, N, F)
  BY <1>2, FollowsEmpty
<1> QED BY <1>1, <1>2

\* execute() out of a pipeline: the statement prepared, or evicted, is known to both
LEMMA ExecuteFollows ==
    ASSUME IInv, IInv', CacheInv, Agree, NEW k \in Queries, NEW flag \in Flags,
           Execute(k, flag)
    PROVE  Follow'
<1>1. PICK q, prep, name, out, lost :
        /\ Executes(q, prep, name, out, lost)
        /\ trouble' = (trouble \/ Raises(out))
        /\ forgotten' = forgotten \cup lost
        /\ IF Raises(out)
           THEN cache' = q /\ server' = More(server, prep, name)
           ELSE /\ cache' = [q EXCEPT !.flush = <<>>]
                /\ server' = Flushed(q.flush, More(server, prep, name))
  BY ExecuteDoes
<1>2. level = 0 /\ UNCHANGED <<wire, commands, inbox>>
  BY DEF Execute, pipeVars, netVars, histVars
<1>3. Queue' = <<>>
  BY <1>2, OutOfPipeline DEF Queue
<1> SUFFICES ASSUME ~trouble'
             PROVE  Follows(<<>>, server', Values(cache'.names), Gone')
  BY <1>3 DEF Follow, Clean
<1>4. ~Raises(out) /\ ~trouble
  BY <1>1
<1> DEFINE S == server
           N == Values(cache.names)
           F == Names(cache.flush)
           G == forgotten
           R == More(S, prep, name)
           M == More(N, prep, name)
           A == Values(q.names)
<1>5. cache \in CacheType /\ Sound(cache) /\ Given /\ cache.idx \in Nat
  BY SizeNow, CacheFields
<1>6. Follows(<<>>, S, N, F \cup G)
  BY <1>2, <1>4, OutOfPipeline DEF Agree, Follow, Gone
<1>7. S \in SUBSET Nat /\ N \in SUBSET Nat /\ G \in SUBSET Nat
  <2>1. cache.names \in Dict(Nat)
    BY <1>5, CacheFields
  <2> QED BY <2>1, DictItems DEF IInv, TypeOK
<1>8. All \notin F /\ N = S \ (F \cup G)
  BY <1>6, <1>7, FollowsNow
<1>9. /\ q \in CacheType /\ (prep = "should" => name = cache.idx) /\ lost \subseteq M
      /\ \/ Clears(q)
         \/ q.flush = cache.flush /\ A = M \ lost
         \/ \E n \in M : q.flush = Append(cache.flush, n) /\ A = M \ {n} /\ lost \subseteq {n}
  BY <1>1, <1>4 DEF Executes
<1>10. cache'.names = q.names /\ cache'.flush = <<>>
       /\ server' = Flushed(q.flush, R) /\ forgotten' = G \cup lost
  BY <1>1, <1>4, <1>9 DEF CacheType
<1>11. cache.idx \notin F \cup G
  <2>1. \A i \in DOMAIN cache.flush : cache.flush[i] # cache.idx
    <3>1. \A i \in DOMAIN cache.flush : cache.flush[i] # All => cache.flush[i] < cache.idx
      BY <1>5 DEF Sound
    <3> QED BY <1>5, <3>1, PreparedAssumption
  <2>2. cache.idx \notin G
    BY <1>5 DEF Given
  <2> QED BY <2>1, <2>2 DEF Names
<1>12. M = R \ (F \cup G) /\ M \subseteq Nat
  BY <1>5, <1>7, <1>8, <1>9, <1>11 DEF More
<1>13. \A f : All \notin Names(f) => Flushed(f, R) = R \ Names(f)
  BY DEF Flushed, Names
<1>14. A = server' \ forgotten'
  <2> HIDE DEF S, N, F, G, R, M, A
  <2>1. CASE Clears(q)
    <3>1. q.flush = <<All>> /\ A = {}
      BY <2>1 DEF Clears, A
    <3>2. Flushed(<<All>>, R) = {}
      BY DEF Flushed
    <3> QED BY <1>10, <3>1, <3>2
  <2>2. CASE q.flush = cache.flush /\ A = M \ lost
    <3>1. server' = R \ F
      BY <1>8, <1>10, <1>13, <2>2 DEF F
    <3> QED BY <1>10, <1>12, <2>2, <3>1
  <2>3. ASSUME NEW n \in M, q.flush = Append(cache.flush, n), A = M \ {n}, lost \subseteq {n}
        PROVE  A = server' \ forgotten'
    <3>1. n \in Nat /\ cache.flush \in Seq(Nat \cup {All})
      BY <1>5, <1>12, CacheFields
    <3>2. Names(q.flush) = F \cup {n}
      BY <2>3, <3>1, NamesAppend DEF F
    <3>3. All \notin F \cup {n}
      BY <1>8, <3>1, PreparedAssumption
    <3>4. server' = R \ (F \cup {n})
      BY <1>10, <1>13, <3>2, <3>3
    <3> QED BY <1>10, <1>12, <2>3, <3>4
  <2> QED BY <1>9, <2>1, <2>2, <2>3
<1>15. A \in SUBSET Nat /\ server' \in SUBSET Nat /\ forgotten' \in SUBSET Nat
  BY <1>9, CacheFields, DictItems DEF IInv, TypeOK
<1>16. Gone' = forgotten'
  <2>1. Names(<<>>) = {}
    BY DEF Names
  <2> QED BY <1>10, <2>1 DEF Gone
<1>17. All \notin forgotten'
  BY <1>15, PreparedAssumption
<1>18. Follows(<<>>, server', A, forgotten')
  <2> HIDE DEF A
  <2> QED BY <1>14, <1>15, <1>17, FollowsNow
<1> QED BY <1>10, <1>16, <1>18

\* The names of the commands queued are given names
LEMMA QueueUsed ==
    ASSUME IInv, CacheInv
    PROVE  /\ Queue \in Seq(Commands) /\ Used(Queue, cache.idx)
           /\ \A n \in Nat : n >= cache.idx =>
                 /\ n \notin server /\ n \notin Gone
                 /\ \A what : ~Asks(Queue, what, n)
<1>1. wire \in Seq(Commands) /\ commands \in Seq(Commands) /\ server \subseteq Nat
  BY DEF IInv, TypeOK
<1>2. Given /\ Sound(cache) /\ cache.idx \in Nat /\ cache \in CacheType
  BY SizeNow, CacheFields
<1>3. Queue \in Seq(Commands) /\ Used(Queue, cache.idx)
  BY <1>1, <1>2, UsedConcat, ConcatProperties DEF Queue, Given
<1>4. ASSUME NEW n \in Nat, n >= cache.idx
      PROVE  /\ n \notin server /\ n \notin Gone
             /\ \A what : ~Asks(Queue, what, n)
  <2>1. n # All /\ ~(n < cache.idx)
    BY <1>2, <1>4, PreparedAssumption
  <2>2. n \notin server /\ n \notin forgotten
    BY <1>2, <2>1 DEF Given
  <2>3. n \notin Gone
    BY <1>2, <2>1, <2>2 DEF Sound, Names, Gone
  <2>4. \A what : ~Asks(Queue, what, n)
    BY <1>3, <2>1 DEF Used, Asks
  <2> QED BY <2>2, <2>3, <2>4
<1> QED BY <1>3, <1>4

\* Commands are queued behind the others
LEMMA QueueMore ==
    ASSUME IInv, UNCHANGED wire, NEW t \in Seq(Commands), commands' = commands \o t
    PROVE  Queue' = Queue \o t
<1>1. wire \in Seq(Commands) /\ commands \in Seq(Commands)
  BY DEF IInv, TypeOK
<1>2. wire \o (commands \o t) = (wire \o commands) \o t
  BY <1>1, ConcatAssociative, SMTT(40)
<1> QED BY <1>2 DEF Queue

\* execute() in a pipeline
LEMMA PipelineExecuteFollows ==
    ASSUME IInv, IInv', CacheInv, Agree, NEW k \in Queries, NEW flag \in Flags,
           PipelineExecute(k, flag)
    PROVE  Follow'
<1>1. PICK prep \in {"no", "yes", "should"}, name \in Nat \cup {All} : Queues(k, prep, name)
  BY PipelineExecuteDoes
<1> DEFINE prepare == Command("prepare", k, name)
           run == Command(IF prep = "no" THEN "query" ELSE "execute", k, name)
           entry == Entry(run, IF IsNew(cache, k) THEN prep ELSE "none")
           q == Queue
           N == Values(cache.names)
           F == Gone
<1>2. /\ Adds(cache, k, prep, name, cache')
      /\ run \in Commands
      /\ prep = "should" => prepare \in Commands
      /\ prep = "should" => Enqueue(<<prepare, run>>, <<Plain(prepare), entry>>)
      /\ prep # "should" => Enqueue(<<run>>, <<entry>>)
  BY <1>1 DEF Queues
<1>3. UNCHANGED <<wire, inbox, server, aborted, trouble, forgotten>>
  BY DEF PipelineExecute, netVars, serverVars, histVars
<1> SUFFICES ASSUME Clean'
             PROVE  Follows(Queue', server, Values(cache'.names), Gone')
  BY <1>3 DEF Follow
<1>4. Follows(q, server, N, F)
  BY <1>3 DEF Agree, Follow, Clean
<1>5. /\ q \in Seq(Commands)
      /\ \A n \in Nat : n >= cache.idx =>
            /\ n \notin server /\ n \notin F /\ \A what : ~Asks(q, what, n)
  BY QueueUsed
<1>6. /\ cache'.flush = cache.flush
      /\ prep = "should" => name = cache.idx /\ Values(cache'.names) = N \cup {name}
      /\ prep = "yes" => name \in N
      /\ prep # "should" => Values(cache'.names) = N
  BY <1>2 DEF Adds
<1>7. cache \in CacheType /\ cache.idx \in Nat /\ N \subseteq Nat
  BY SizeNow, CacheFields, DictItems
<1>8. /\ prepare.name = name /\ prepare.what = "prepare"
      /\ run.name = name /\ run.what = IF prep = "no" THEN "query" ELSE "execute"
  BY DEF Command
<1>9. All \notin F /\ Known(q, server, N, F)
  BY <1>4 DEF Follows
<1>10. \A t \in Seq(Commands) : commands' = commands \o t => Queue' = q \o t
  BY <1>3, QueueMore
<1> HIDE DEF prepare, run, entry, q, N, F
<1>11. CASE prep = "should"
  <2> DEFINE t == <<prepare, run>>
  <2>1. /\ t \in Seq(Commands) /\ DOMAIN t = {1, 2} /\ t[1] = prepare /\ t[2] = run
        /\ 1 < 2 /\ ~(1 < 1) /\ ~(2 < 1) /\ ~(2 < 2)
    BY <1>2, <1>11
  <2>2. commands' = commands \o t
    BY <1>2, <1>11 DEF Enqueue
  <2> HIDE DEF t
  <2>3. /\ name \in Nat /\ name \notin server /\ name \notin F
        /\ \A what : ~Asks(q, what, name)
    BY <1>5, <1>6, <1>7, <1>11
  <2>4. \A n : /\ Asks(t, "prepare", n) <=> n = name
               /\ ~Asks(t, "close", n)
    BY <1>8, <1>11, <2>1 DEF Asks
  <2>5. Ordered(t)
    BY <1>8, <1>11, <2>1 DEF Ordered
  <2>6. \A n \in Nat :
           n \in N \cup {name}
             <=> /\ n \in server \/ Asks(q, "prepare", n) \/ Asks(t, "prepare", n)
                 /\ ~Asks(q, "close", n) /\ ~Asks(t, "close", n)
                 /\ n \notin F
    BY <1>9, <2>3, <2>4 DEF Known
  <2>7. /\ \A j \in DOMAIN t : t[j].what # "deallocate"
        /\ \A j \in DOMAIN t :
              t[j].what \in {"prepare", "execute"} => ~Asks(q, "close", t[j].name)
        /\ \A j \in DOMAIN t :
              t[j].what = "execute" =>
                  \/ t[j].name \in server \/ Asks(q, "prepare", t[j].name)
                  \/ \E i \in DOMAIN t :
                        i < j /\ t[i].what = "prepare" /\ t[i].name = t[j].name
    BY <1>8, <1>11, <2>1, <2>3
  <2>8. Follows(q \o t, server, N \cup {name}, F)
    BY <1>4, <1>5, <1>9, <2>1, <2>5, <2>6, <2>7, FollowsMore
  <2>9. Queue' = q \o t /\ Values(cache'.names) = N \cup {name} /\ Gone' = F
    BY <1>3, <1>6, <1>10, <1>11, <2>1, <2>2 DEF F, Gone
  <2> QED BY <2>8, <2>9
<1>12. CASE prep # "should"
  <2> DEFINE t == <<run>>
  <2>1. t \in Seq(Commands) /\ DOMAIN t = {1} /\ t[1] = run /\ ~(1 < 1)
    BY <1>2
  <2>2. commands' = commands \o t
    BY <1>2, <1>12 DEF Enqueue
  <2> HIDE DEF t
  <2>3. run.what = "execute" =>
           /\ ~Asks(q, "close", name)
           /\ name \in server \/ Asks(q, "prepare", name)
    BY <1>6, <1>7, <1>8, <1>9, <1>12 DEF Known
  <2>4. run.what \in {"query", "execute"}
    BY <1>8
  <2>5. \A n : ~Asks(t, "prepare", n) /\ ~Asks(t, "close", n)
    BY <2>1, <2>4 DEF Asks
  <2>6. Ordered(t)
    BY <2>1 DEF Ordered
  <2>7. \A n \in Nat :
           n \in N
             <=> /\ n \in server \/ Asks(q, "prepare", n) \/ Asks(t, "prepare", n)
                 /\ ~Asks(q, "close", n) /\ ~Asks(t, "close", n)
                 /\ n \notin F
    BY <1>9, <2>5 DEF Known
  <2>8. /\ \A j \in DOMAIN t : t[j].what # "deallocate"
        /\ \A j \in DOMAIN t :
              t[j].what \in {"prepare", "execute"} => ~Asks(q, "close", t[j].name)
        /\ \A j \in DOMAIN t :
              t[j].what = "execute" =>
                  \/ t[j].name \in server \/ Asks(q, "prepare", t[j].name)
                  \/ \E i \in DOMAIN t :
                        i < j /\ t[i].what = "prepare" /\ t[i].name = t[j].name
    BY <1>8, <2>1, <2>3, <2>4
  <2>9. Follows(q \o t, server, N, F)
    BY <1>4, <1>5, <1>9, <2>1, <2>6, <2>7, <2>8, FollowsMore
  <2>10. Queue' = q \o t /\ Values(cache'.names) = N /\ Gone' = F
    BY <1>3, <1>6, <1>10, <1>12, <2>1, <2>2 DEF F, Gone
  <2> QED BY <2>9, <2>10
<1> QED BY <1>11, <1>12

\* A sync is queued
LEMMA SyncFollows ==
    ASSUME IInv, Agree, CacheInv, EnqueueSync,
           UNCHANGED <<cache, wire, inbox, server, aborted, trouble, forgotten>>
    PROVE  Follow'
<1> SUFFICES ASSUME Clean'
             PROVE  Follows(Queue', server, Values(cache.names), Gone)
  BY DEF Follow, Gone
<1> DEFINE q == Queue
           N == Values(cache.names)
           F == Gone
           t == <<Sync>>
<1>1. Follows(q, server, N, F) /\ q \in Seq(Commands)
  BY QueueUsed DEF Agree, Follow, Clean
<1>2. Sync \in Commands /\ Sync.what = "sync"
  BY DEF Sync, Command, Commands
<1>3. t \in Seq(Commands) /\ DOMAIN t = {1} /\ t[1] = Sync
  BY <1>2
<1>4. commands' = commands \o t
  BY DEF EnqueueSync, Enqueue
<1>5. Queue' = q \o t
  BY <1>3, <1>4, QueueMore
<1> HIDE DEF q, N, F, t
<1>6. \A what, n : what # "sync" => ~Asks(t, what, n)
  BY <1>2, <1>3 DEF Asks
<1>7. Ordered(t) /\ \A j \in DOMAIN t : t[j].what = "sync"
  BY <1>2, <1>3 DEF Ordered
<1>8. All \notin F /\ Known(q, server, N, F)
  BY <1>1 DEF Follows
<1>9. \A n \in Nat :
         n \in N
           <=> /\ n \in server \/ Asks(q, "prepare", n) \/ Asks(t, "prepare", n)
               /\ ~Asks(q, "close", n) /\ ~Asks(t, "close", n)
               /\ n \notin F
  BY <1>6, <1>8 DEF Known
<1>10. /\ \A j \in DOMAIN t : t[j].what # "deallocate"
       /\ \A j \in DOMAIN t :
             t[j].what \in {"prepare", "execute"} => ~Asks(q, "close", t[j].name)
       /\ \A j \in DOMAIN t :
             t[j].what = "execute" =>
                 \/ t[j].name \in server \/ Asks(q, "prepare", t[j].name)
                 \/ \E i \in DOMAIN t :
                       i < j /\ t[i].what = "prepare" /\ t[i].name = t[j].name
  BY <1>7
<1>11. Follows(q \o t, server, N, F)
  BY <1>1, <1>3, <1>7, <1>8, <1>9, <1>10, FollowsMore
<1> QED BY <1>5, <1>11 DEF N, F

\* The statements evicted are to be closed
LEMMA FlushFollows ==
    ASSUME IInv, Agree, CacheInv, cache' = [cache EXCEPT !.flush = <<>>],
           commands' = commands \o Deallocates(cache),
           UNCHANGED <<wire, inbox, server, aborted, trouble, forgotten>>
    PROVE  Follow'
<1>1. cache \in CacheType /\ Sound(cache)
  BY SizeNow
<1>2. cache'.flush = <<>> /\ cache'.names = cache.names
  BY <1>1, FlushDoes
<1> SUFFICES ASSUME Clean'
             PROVE  Follows(Queue', server, Values(cache.names), Gone')
  BY <1>2 DEF Follow
<1> DEFINE q == Queue
           N == Values(cache.names)
           F == Names(cache.flush)
           G == forgotten
           t == Deallocates(cache)
<1>3. Follows(q, server, N, F \cup G) /\ q \in Seq(Commands)
  BY QueueUsed DEF Agree, Follow, Clean, Gone
<1>4. All \notin F \cup G /\ Known(q, server, N, F \cup G)
  BY <1>3 DEF Follows
<1>5. /\ t \in Seq(Commands) /\ DOMAIN t = DOMAIN cache.flush
      /\ \A i \in DOMAIN t : t[i] = Deallocate(cache.flush[i])
  BY <1>1, DeallocatesDoes
<1>6. Queue' = q \o t
  BY <1>5, QueueMore
<1>7. Gone' = G
  BY <1>2 DEF Names, Gone
<1>8. /\ \A i \in DOMAIN t : t[i].what = "close" /\ t[i].name \in F
      /\ \A n \in F : \E i \in DOMAIN t : t[i].name = n
  <2>1. \A n : Deallocate(n).name = n /\ (n # All => Deallocate(n).what = "close")
    BY DEF Deallocate, Command
  <2> HIDE DEF t
  <2> QED BY <1>4, <1>5, <2>1 DEF Names
<1> HIDE DEF q, N, F, G, t
<1>9. \A n : ~Asks(t, "prepare", n) /\ (Asks(t, "close", n) <=> n \in F)
  BY <1>8 DEF Asks
<1>10. Ordered(t)
  BY <1>8 DEF Ordered
<1>11. \A n \in Nat :
          n \in N
            <=> /\ n \in server \/ Asks(q, "prepare", n) \/ Asks(t, "prepare", n)
                /\ ~Asks(q, "close", n) /\ ~Asks(t, "close", n)
                /\ n \notin G
  BY <1>4, <1>9 DEF Known
<1>12. /\ \A j \in DOMAIN t : t[j].what # "deallocate"
       /\ \A j \in DOMAIN t :
             t[j].what \in {"prepare", "execute"} => ~Asks(q, "close", t[j].name)
       /\ \A j \in DOMAIN t :
             t[j].what = "execute" =>
                 \/ t[j].name \in server \/ Asks(q, "prepare", t[j].name)
                 \/ \E i \in DOMAIN t :
                       i < j /\ t[i].what = "prepare" /\ t[i].name = t[j].name
  BY <1>8
<1>13. Follows(q \o t, server, N, G)
  BY <1>3, <1>4, <1>5, <1>10, <1>11, <1>12, FollowsMore
<1> QED BY <1>6, <1>7, <1>13 DEF N

\* No sync is waited for by an operation that starts, if there was no error
LEMMA NoSync ==
    ASSUME Syncs, pc = "idle" \/ op = "execute", ~trouble
    PROVE  \A i \in DOMAIN pending : pending[i].cmd.what # "sync"
  BY DEF Syncs, SyncLast

\* Entries of other commands are queued
LEMMA MoreSyncs ==
    ASSUME IInv, Syncs, UNCHANGED inbox, trouble => trouble',
           NEW t \in Seq(Entries), pending' = pending \o t,
           \A i \in DOMAIN t : t[i].cmd.what # "sync",
           pc = "idle" \/ op = "execute"
    PROVE  Syncs'
<1>1. pending \in Seq(Entries)
  BY DEF IInv, TypeOK
<1>2. \A i \in DOMAIN pending' :
         \/ i \in DOMAIN pending /\ pending'[i] = pending[i]
         \/ \E j \in DOMAIN t : pending'[i] = t[j]
  BY <1>1, ConcatItems
<1>3. ASSUME ~trouble' PROVE \A i \in DOMAIN pending' : pending'[i].cmd.what # "sync"
  BY <1>2, <1>3, NoSync
<1>4. SyncLast'
  BY <1>3 DEF SyncLast
<1>5. SyncPlain'
  BY <1>2 DEF SyncPlain, Syncs
<1>6. SyncAnswer'
  BY DEF SyncAnswer, Syncs
<1> QED BY <1>4, <1>5, <1>6 DEF Syncs

\* ... of a sync
LEMMA OneSync ==
    ASSUME IInv, Syncs, UNCHANGED <<inbox, trouble>>, EnqueueSync, pc = "idle",
           pc' # "idle", op' # "execute"
    PROVE  Syncs'
<1> DEFINE x == Plain(Sync)
<1>1. pending \in Seq(Entries)
  BY DEF IInv, TypeOK
<1>2. x \in Entries /\ x.prep = "none" /\ pending' = pending \o <<x>>
  <2>1. Sync \in Commands
    BY DEF Sync, Command, Commands
  <2> QED BY <2>1 DEF EnqueueSync, Enqueue, Plain, Entry, Entries, PrepKinds
<1> HIDE DEF x
<1>3. pending' = Append(pending, x)
  BY <1>1, <1>2, AppendIsConcat
<1> DEFINE n == Len(pending) + 1
<1>4. /\ DOMAIN pending' = DOMAIN pending \cup {n} /\ pending'[n] = x /\ Len(pending') = n
      /\ \A i \in DOMAIN pending : pending'[i] = pending[i]
  BY <1>1, <1>2, <1>3, AppendItems
<1> HIDE DEF n
<1>5. SyncLast'
  <2> SUFFICES ASSUME ~trouble', NEW i \in DOMAIN pending', pending'[i].cmd.what = "sync"
               PROVE  i = Len(pending') /\ pc' # "idle" /\ op' # "execute"
    BY DEF SyncLast
  <2>1. i \notin DOMAIN pending
    BY <1>4, NoSync
  <2> QED BY <1>4, <2>1
<1>6. SyncPlain'
  BY <1>2, <1>4 DEF SyncPlain, Syncs
<1>7. SyncAnswer'
  BY DEF SyncAnswer, Syncs
<1> QED BY <1>5, <1>6, <1>7 DEF Syncs

\* Nothing that the cache and the commands tell has changed
LEMMA SameFollows ==
    ASSUME Agree, UNCHANGED <<cache, inbox, server, aborted, forgotten>>, trouble => trouble',
           Queue' = Queue
    PROVE  Follow'
<1> SUFFICES ASSUME Clean'
             PROVE  Follows(Queue, server, Values(cache.names), Gone)
  BY DEF Follow, Gone
<1> QED BY DEF Agree, Follow, Clean

\* Queries out of a pipeline
LEMMA ExecuteAgrees ==
    ASSUME IInv, IInv', CacheInv, Agree, NEW k \in Queries, NEW flag \in Flags,
           Execute(k, flag) \/ PrepareFails(k, flag)
    PROVE  Agree'
<1>1. /\ UNCHANGED <<pending, inbox, aborted, pc, op, failed>>
      /\ trouble => trouble'
  BY DEF Execute, PrepareFails, pipeVars, netVars, pcVars, histVars
<1>2. Errors' /\ Syncs'
  BY <1>1, SameErrors, SameSyncs DEF Agree
<1>3. Follow'
  <2>1. CASE Execute(k, flag)
    BY <2>1, ExecuteFollows
  <2>2. CASE PrepareFails(k, flag)
    BY <2>2 DEF PrepareFails, Follow, Clean
  <2> QED BY <2>1, <2>2
<1> QED BY <1>2, <1>3 DEF Agree

\* ... in a pipeline
LEMMA PipelineExecuteAgrees ==
    ASSUME IInv, IInv', CacheInv, Agree, NEW k \in Queries, NEW flag \in Flags,
           PipelineExecute(k, flag)
    PROVE  Agree'
<1>1. pc = "idle" /\ UNCHANGED <<inbox, aborted, failed, trouble>>
  BY DEF PipelineExecute, netVars, serverVars, histVars
<1>2. Errors'
  BY <1>1, SameErrors DEF Agree
<1>3. Syncs'
  <2>1. PICK prep \in {"no", "yes", "should"}, name \in Nat \cup {All} : Queues(k, prep, name)
    BY PipelineExecuteDoes
  <2> DEFINE prepare == Command("prepare", k, name)
             run == Command(IF prep = "no" THEN "query" ELSE "execute", k, name)
             entry == Entry(run, IF IsNew(cache, k) THEN prep ELSE "none")
             x == Plain(prepare)
  <2>2. /\ entry \in Entries
        /\ prep = "should" => x \in Entries
        /\ prep = "should" => pending' = pending \o <<x, entry>>
        /\ prep # "should" => pending' = pending \o <<entry>>
    BY <2>1 DEF Queues, Enqueue
  <2>3. entry.cmd.what # "sync" /\ x.cmd.what # "sync"
    BY DEF Entry, Plain, Command
  <2> HIDE DEF entry, x
  <2>4. CASE prep = "should"
    <3> DEFINE t == <<x, entry>>
    <3>1. t \in Seq(Entries) /\ \A i \in DOMAIN t : t[i].cmd.what # "sync"
      BY <2>2, <2>3, <2>4
    <3>2. pending' = pending \o t
      BY <2>2, <2>4
    <3> HIDE DEF t
    <3> QED BY <1>1, <3>1, <3>2, MoreSyncs DEF Agree
  <2>5. CASE prep # "should"
    <3> DEFINE t == <<entry>>
    <3>1. t \in Seq(Entries) /\ \A i \in DOMAIN t : t[i].cmd.what # "sync"
      BY <2>2, <2>3
    <3>2. pending' = pending \o t
      BY <2>2, <2>5
    <3> HIDE DEF t
    <3> QED BY <1>1, <3>1, <3>2, MoreSyncs DEF Agree
  <2> QED BY <2>4, <2>5
<1>4. Follow'
  BY PipelineExecuteFollows
<1> QED BY <1>2, <1>3, <1>4 DEF Agree

\* A sync, by itself or around a block
LEMMA SyncAgrees ==
    ASSUME IInv, CacheInv, Agree, PipelineEnter \/ PipelineSync \/ PipelineExit
    PROVE  Agree'
<1>1. pc = "idle" /\ UNCHANGED <<cache, wire, inbox, server, aborted, failed, trouble, forgotten>>
  BY DEF PipelineEnter, PipelineSync, PipelineExit, netVars, serverVars, pcVars, histVars
<1>2. Errors'
  BY <1>1, SameErrors DEF Agree
<1>3. CASE UNCHANGED <<commands, pending, pc, op>>
  <2>1. Syncs'
    BY <1>1, <1>3, SameSyncs DEF Agree
  <2>2. Queue' = Queue
    BY <1>1, <1>3 DEF Queue
  <2>3. Follow'
    BY <1>1, <2>2, SameFollows
  <2> QED BY <1>2, <2>1, <2>3 DEF Agree
<1>4. CASE EnqueueSync /\ pc' = "communicate" /\ op' \in {"enter", "sync", "exit"}
  <2>1. Syncs'
    BY <1>1, <1>4, OneSync DEF Agree
  <2>2. Follow'
    BY <1>1, <1>4, SyncFollows
  <2> QED BY <1>2, <2>1, <2>2 DEF Agree
<1> QED BY <1>3, <1>4 DEF PipelineEnter, PipelineSync, PipelineExit, Start, pipeVars, pcVars, histVars

\* A command is sent, the results are received
LEMMA SendAgrees ==
    ASSUME IInv, Agree, Send
    PROVE  Agree'
<1>1. /\ commands # <<>> /\ wire' = Append(wire, Head(commands)) /\ commands' = Tail(commands)
      /\ UNCHANGED <<cache, pending, inbox, server, aborted, pc, op, failed, trouble, forgotten>>
  BY DEF Send, serverVars, pcVars, histVars
<1>2. Errors' /\ Syncs'
  BY <1>1, SameErrors, SameSyncs DEF Agree
<1>3. Queue' = Queue
  BY <1>1, MoveHead DEF Queue, IInv, TypeOK
<1>4. Follow'
  BY <1>1, <1>3, SameFollows
<1> QED BY <1>2, <1>4 DEF Agree

\* The results received are taken
LEMMA CommunicatedAgrees ==
    ASSUME IInv, Agree, NEW n \in 0 .. Len(inbox), Communicated(n)
    PROVE  Agree'
<1>1. /\ pc' = "process"
      /\ UNCHANGED <<cache, commands, wire, pending, inbox, server, aborted, op, failed, trouble, forgotten>>
  BY DEF Communicated, serverVars, pipeVars, netVars, histVars
<1>2. Errors'
  BY <1>1, SameErrors DEF Agree
<1>3. Syncs'
  <2>1. SyncLast'
    BY <1>1 DEF Agree, Syncs, SyncLast
  <2>2. SyncPlain' /\ SyncAnswer'
    BY <1>1 DEF Agree, Syncs, SyncPlain, SyncAnswer
  <2> QED BY <2>1, <2>2 DEF Syncs
<1>4. Follow'
  <2>1. Queue' = Queue
    BY <1>1 DEF Queue
  <2> QED BY <1>1, <2>1, SameFollows
<1> QED BY <1>2, <1>3, <1>4 DEF Agree

\* A result is processed
LEMMA ProcessNextAgrees ==
    ASSUME IInv, CacheInv, Agree, Process \/ Fetch
    PROVE  Agree'
<1>1. ProcessNext /\ UNCHANGED <<wire, commands, server, aborted, pc, op>> /\ inbox # <<>>
  <2>1. Process => inbox # <<>>
    BY LenProperties, EmptySeq DEF Process, IInv, TypeOK
  <2> QED BY <2>1 DEF Process, Fetch, serverVars, histVars
<1>2. pending # <<>>
  BY <1>1, ProcessMatches DEF IInv
<1>3. Errors' /\ Syncs'
  BY <1>1, <1>2, ProcessNextErrors, ProcessNextSyncs DEF Agree
<1>4. Follow'
  BY <1>1, <1>2, ProcessNextFollows
<1> QED BY <1>3, <1>4 DEF Agree

\* The results fetched are processed
LEMMA ProcessedAgrees ==
    ASSUME IInv, CacheInv, Agree, Processed
    PROVE  Agree'
<1> DEFINE cmds == Deallocates(cache)
           t == [i \in DOMAIN cmds |-> Plain(cmds[i])]
<1>1. /\ UNCHANGED <<wire, inbox, server, aborted, trouble, forgotten>>
      /\ failed' => failed
  BY DEF Processed, Finish, netVars, serverVars, histVars
<1>2. Errors'
  BY <1>1, SameErrors DEF Agree
<1>3. CASE op = "execute" /\ Enqueue(cmds, t) /\ cache' = [cache EXCEPT !.flush = <<>>]
  <2>1. Follow'
    BY <1>1, <1>3, FlushFollows DEF Enqueue
  <2>2. cache \in CacheType
    BY SizeNow
  <2>3. /\ t \in Seq(Entries) /\ DOMAIN t = DOMAIN cmds /\ DOMAIN cmds = DOMAIN cache.flush
        /\ \A i \in DOMAIN cmds : t[i] = Plain(cmds[i]) /\ cmds[i] = Deallocate(cache.flush[i])
    BY <2>2, DeallocatesDoes
  <2>4. \A n : Plain(Deallocate(n)).cmd.what # "sync"
    BY DEF Plain, Entry, Deallocate, Command
  <2>5. pending' = pending \o t
    BY <1>3 DEF Enqueue
  <2> HIDE DEF t, cmds
  <2>6. \A i \in DOMAIN t : t[i].cmd.what # "sync"
    BY <2>3, <2>4
  <2>7. Syncs'
    BY <1>1, <1>3, <2>3, <2>5, <2>6, MoreSyncs DEF Agree
  <2> QED BY <1>2, <2>1, <2>7 DEF Agree
<1>4. CASE UNCHANGED <<cache, commands, pending>> /\ (failed \/ (op' = op /\ pc' = "fetch"))
  <2>1. Queue' = Queue
    BY <1>1, <1>4 DEF Queue
  <2>2. Follow'
    BY <1>1, <1>4, <2>1, SameFollows
  <2>3. SyncPlain' /\ SyncAnswer'
    BY <1>1, <1>4 DEF Agree, Syncs, SyncPlain, SyncAnswer
  <2>4. SyncLast'
    <3>1. CASE failed
      BY <1>1, <3>1 DEF Agree, Errors, FailedSeen, SyncLast
    <3>2. CASE op' = op /\ pc' = "fetch"
      BY <1>1, <1>4, <3>2 DEF Agree, Syncs, SyncLast
    <3> QED BY <1>4, <3>1, <3>2
  <2> QED BY <1>2, <2>2, <2>3, <2>4 DEF Agree, Syncs
<1> QED BY <1>3, <1>4 DEF Processed, Deallocates, pipeVars

\* The results of a sync were all fetched
LEMMA FetchEndAgrees ==
    ASSUME Agree, FetchEnd
    PROVE  Agree'
<1>1. /\ pending = <<>>
      /\ UNCHANGED <<cache, commands, wire, pending, inbox, server, aborted, trouble, forgotten>>
      /\ failed' => failed
  BY DEF FetchEnd, Finish, pipeVars, netVars, serverVars, histVars
<1>2. Errors'
  BY <1>1, SameErrors DEF Agree
<1>3. Syncs'
  BY <1>1 DEF Agree, Syncs, SyncLast, SyncPlain, SyncAnswer
<1>4. Follow'
  <2>1. Queue' = Queue
    BY <1>1 DEF Queue
  <2> QED BY <1>1, <2>1, SameFollows
<1> QED BY <1>2, <1>3, <1>4 DEF Agree

\* The cache and the server keep agreeing
LEMMA NextAgree ==
    ASSUME IInv, IInv', CacheInv, Agree, [Next]_vars
    PROVE  Agree'
<1>1. CASE UNCHANGED vars
  <2>1. UNCHANGED <<cache, commands, wire, pending, inbox, server, aborted, pc, op, failed, trouble, forgotten>>
    BY <1>1 DEF vars, pipeVars, netVars, serverVars, pcVars, histVars
  <2>2. Errors' /\ Syncs' /\ Queue' = Queue
    BY <2>1, SameErrors, SameSyncs DEF Agree, Queue
  <2> QED BY <2>1, <2>2, SameFollows DEF Agree
<1>2. CASE \E k \in Queries, flag \in Flags :
              Execute(k, flag) \/ PrepareFails(k, flag) \/ PipelineExecute(k, flag)
  BY <1>2, ExecuteAgrees, PipelineExecuteAgrees
<1>3. CASE PipelineEnter \/ PipelineSync \/ PipelineExit
  BY <1>3, SyncAgrees
<1>4. CASE ClientStep
  BY <1>4, SendAgrees, ProcessNextAgrees, ProcessedAgrees, FetchEndAgrees, CommunicatedAgrees
  DEF ClientStep
<1>5. CASE Serve
  BY <1>5, ServeErrors, ServeSyncs, ServeFollows DEF Agree
<1> QED BY <1>1, <1>2, <1>3, <1>4, <1>5 DEF Next

\* A new session has nothing prepared
LEMMA InitAgree == Init => Agree
<1> SUFFICES ASSUME Init PROVE Agree
  OBVIOUS
<1>1. /\ cache.names = <<>> /\ cache.flush = <<>>
      /\ pending = <<>> /\ inbox = <<>> /\ server = {} /\ wire = <<>> /\ commands = <<>>
      /\ aborted = FALSE /\ failed = FALSE /\ forgotten = {}
  BY DEF Init, NewCache
<1>2. Syncs /\ Errors
  BY <1>1 DEF Syncs, SyncLast, SyncPlain, SyncAnswer, Errors, FailedSeen, ErrorSeen, ErrorEnds
<1>3. Queue = <<>>
  BY <1>1 DEF Queue
<1>4. Gone = {}
  BY <1>1 DEF Gone, Names
<1>5. Follow
  BY <1>1, <1>3, <1>4, EmptyDict, FollowsEmpty DEF Follow
<1> QED BY <1>2, <1>5 DEF Agree

\* What the server executes next is not preceded by an error that is not seen yet,
\* unless by a sync, which would be the last command
LEMMA AgreesNow ==
    ASSUME IInv, CacheInv, Agree
    PROVE  CacheAgrees
<1> SUFFICES ASSUME ~trouble
             PROVE  /\ level = 0 => Flushed(cache.flush, server) \ forgotten = Values(cache.names)
                    /\ wire # <<>> /\ ~aborted /\ Head(wire).what = "execute"
                          => Head(wire).name \in server
  BY DEF CacheAgrees
<1>1. cache \in CacheType /\ Values(cache.names) \in SUBSET Nat /\ server \in SUBSET Nat
  BY SizeNow, CacheFields, DictItems DEF IInv, TypeOK
<1>2. ASSUME level = 0 PROVE Flushed(cache.flush, server) \ forgotten = Values(cache.names)
  <2>1. Follows(<<>>, server, Values(cache.names), Gone)
    BY <1>2, OutOfPipeline DEF Agree, Follow
  <2>2. /\ All \notin Gone
        /\ Values(cache.names) = server \ Gone
    BY <1>1, <2>1, FollowsNow
  <2> QED BY <2>2 DEF Flushed, Names, Gone
<1>3. ASSUME wire # <<>>, ~aborted, Head(wire).what = "execute"
      PROVE  Head(wire).name \in server
  <2>1. ASSUME NEW i \in DOMAIN inbox, inbox[i].out \in Bad PROVE FALSE
    <3>1. PICK j \in DOMAIN inbox : inbox[j].out = "sync"
      BY <1>3, <2>1 DEF Agree, Errors, ErrorEnds
    <3>2. inbox[j].cmd.what = "sync"
      BY <3>1 DEF Agree, Syncs, SyncAnswer
    <3>3. j \in DOMAIN pending /\ pending[j].cmd = inbox[j].cmd /\ j # Len(pending)
      BY <1>3, ResultEntry
    <3> QED BY <3>2, <3>3 DEF Agree, Syncs, SyncLast
  <2>2. Follows(Queue, server, Values(cache.names), Gone)
    BY <1>3, <2>1 DEF Agree, Follow, Clean
  <2>3. wire \in Seq(Commands) /\ commands \in Seq(Commands)
    BY DEF IInv, TypeOK
  <2>4. 1 \in DOMAIN wire /\ Head(wire) = wire[1]
    BY <1>3, <2>3, TailItems
  <2>5. 1 \in DOMAIN Queue /\ Queue[1] = wire[1]
    BY <2>3, <2>4, ConcatItems DEF Queue
  <2>6. Queue \in Seq(Commands)
    BY <2>3, ConcatProperties DEF Queue
  <2>7. \A i \in DOMAIN Queue : ~(i < 1)
    <3>1. DOMAIN Queue = 1 .. Len(Queue) /\ Len(Queue) \in Nat
      BY <2>6, LenProperties
    <3> QED BY <3>1
  <2> QED BY <1>3, <2>2, <2>4, <2>5, <2>7 DEF Follows, Served
<1> QED BY <1>2, <1>3

\* As long as nothing failed the cache tells what is on the server, but for the
\* statements of empty queries, which validate() drops and leaves there, and a statement
\* is there when it is executed, though commands, results and evictions overlap in a
\* pipeline; the cache is consistent and bounded whatever fails (_preparing.py)
THEOREM CacheKept == Spec => []CacheCorrect
<1>1. IInv /\ CacheInv /\ Agree /\ [Next]_vars => IInv' /\ CacheInv' /\ Agree'
  BY NextInv, NextCache, NextAgree
<1>2. Spec => [](IInv /\ CacheInv /\ Agree)
  BY <1>1, InitInv, InitCache, InitAgree, PTL DEF Spec
<1>3. IInv /\ CacheInv /\ Agree => CacheCorrect
  BY SoundConsistent, AgreesNow DEF IInv, CacheInv, CacheCorrect
<1> QED BY <1>2, <1>3, PTL

-----------------------------------------------------------------------------
(***************************************************************************)
(* What the attempts are, before they are made.                            *)
(***************************************************************************)
AttemptSet == [host : 0 .. MaxHosts, addr : 0 .. MaxHosts, port : Nat,
               attrs : {"any", "standby"}]
PlainAttempts == {a \in AttemptSet : a.attrs = "any"}
Params == [hosts : HostLists, addrs : AddrCounts, ports : PortCounts,
           attrs : {"any", "prefer-standby"}, balance : BOOLEAN, timeout : Timeouts]

\* The attempt at address a of host i
Spot(p, i, a) ==
    [host |-> IF p.hosts = <<>> THEN 0 ELSE i, addr |-> a,
     port |-> IF p.ports <= 1 THEN p.ports ELSE i, attrs |-> "any"]

\* Every address of every host is in the list
Covering(p, list) == \A at \in Everywhere(p) : \E k \in DOMAIN list : list[k] = at

-----------------------------------------------------------------------------
(* Joining a sequence of sequences *)

\* What FlattenSeq() joins, step by step
LEMMA FlattenDef ==
    ASSUME NEW seqs, Len(seqs) # 0,
           \E f : f = [i \in 1 .. Len(seqs) |-> IF i = 1 THEN seqs[i] ELSE f[i - 1] \o seqs[i]]
    PROVE  \E f : /\ f = [i \in 1 .. Len(seqs) |-> IF i = 1 THEN seqs[i] ELSE f[i - 1] \o seqs[i]]
                  /\ FlattenSeq(seqs) = f[Len(seqs)]
<1> DEFINE joined == CHOOSE flatten :
                        flatten = [i \in 1 .. Len(seqs) |->
                                    IF i = 1 THEN seqs[i] ELSE flatten[i - 1] \o seqs[i]]
<1>1. joined = [i \in 1 .. Len(seqs) |-> IF i = 1 THEN seqs[i] ELSE joined[i - 1] \o seqs[i]]
  BY Zenon
<1>2. FlattenSeq(seqs) = joined[Len(seqs)]
  BY Zenon DEF FlattenSeq
<1> HIDE DEF joined
<1> QED
  BY <1>1, <1>2

\* f joins the first m sequences one by one
JoinsFirst(f, seqs, m) ==
    f = [i \in 1 .. m |-> IF i = 1 THEN seqs[i] ELSE f[i - 1] \o seqs[i]]

\* The first m sequences can be joined, for any m
LEMMA JoinExists ==
    ASSUME NEW seqs, NEW n \in Nat
    PROVE  \E f : JoinsFirst(f, seqs, n)
<1> DEFINE bad == {m \in Nat : ~ \E f : JoinsFirst(f, seqs, m)}
<1> SUFFICES ASSUME bad # {} PROVE FALSE
  OBVIOUS
<1>1. PICK m \in bad : \A k \in bad : m <= k
  BY LeastNat
<1>2. CASE m = 0
  <2>1. JoinsFirst([i \in 1 .. 0 |-> 0], seqs, 0)
    BY DEF JoinsFirst
  <2> QED
    BY <1>2, <2>1
<1>3. CASE m # 0
  <2>1. m - 1 \in Nat /\ m - 1 \notin bad
    BY <1>1, <1>3
  <2>2. PICK f : JoinsFirst(f, seqs, m - 1)
    BY <2>1
  <2> DEFINE g == [i \in 1 .. m |-> IF i = m THEN (IF m = 1 THEN seqs[m] ELSE f[m - 1] \o seqs[m])
                                   ELSE f[i]]
  <2>3. \A i \in 1 .. m - 1 : f[i] = IF i = 1 THEN seqs[i] ELSE f[i - 1] \o seqs[i]
    BY <2>2 DEF JoinsFirst
  <2>4. \A i \in 1 .. m : g[i] = IF i = 1 THEN seqs[i] ELSE g[i - 1] \o seqs[i]
    <3> SUFFICES ASSUME NEW i \in 1 .. m
                 PROVE  g[i] = IF i = 1 THEN seqs[i] ELSE g[i - 1] \o seqs[i]
      OBVIOUS
    <3>1. i # 1 => i - 1 \in 1 .. m - 1 /\ g[i - 1] = f[i - 1]
      BY <2>1
    <3>2. i # m => i \in 1 .. m - 1 /\ g[i] = f[i]
      BY <2>1
    <3>3. i = m => g[i] = IF m = 1 THEN seqs[m] ELSE f[m - 1] \o seqs[m]
      OBVIOUS
    <3> HIDE DEF g
    <3> QED
      BY <2>3, <3>1, <3>2, <3>3
  <2>5. g = [i \in 1 .. m |-> g[i]]
    OBVIOUS
  <2> HIDE DEF g
  <2>6. JoinsFirst(g, seqs, m)
    BY <2>4, <2>5 DEF JoinsFirst
  <2> QED
    BY <2>6
<1> QED
  BY <1>2, <1>3

\* All the elements are in what is joined
HoldsAll(s, seqs, m) ==
    \A i \in 1 .. m : \A j \in DOMAIN seqs[i] : \E k \in DOMAIN s : s[k] = seqs[i][j]

\* r holds the elements of s, in their places, and those of t
Joined(r, s, t, X) ==
    /\ r \in Seq(X)
    /\ \A k \in DOMAIN s : k \in DOMAIN r /\ r[k] = s[k]
    /\ \A k \in DOMAIN t : \E l \in DOMAIN r : r[l] = t[k]

\* A sequence more is joined
LEMMA JoinOne ==
    ASSUME NEW X, NEW s \in Seq(X), NEW t \in Seq(X), NEW r, r = s \o t
    PROVE  Joined(r, s, t, X)
<1>1. r \in Seq(X) /\ Len(r) = Len(s) + Len(t)
  OBVIOUS
<1>2. \A k \in 1 .. Len(s) : r[k] = s[k]
  OBVIOUS
<1>3. \A k \in 1 .. Len(t) : Len(s) + k \in 1 .. Len(s) + Len(t) /\ r[Len(s) + k] = t[k]
  OBVIOUS
<1>4. DOMAIN s = 1 .. Len(s) /\ DOMAIN t = 1 .. Len(t) /\ DOMAIN r = 1 .. Len(s) + Len(t)
  BY <1>1
<1>5. Len(s) \in Nat /\ Len(t) \in Nat
  OBVIOUS
<1>6. \A k \in DOMAIN s : k \in DOMAIN r
  BY <1>4, <1>5
<1>7. \A k \in DOMAIN t : \E l \in DOMAIN r : r[l] = t[k]
  BY <1>3, <1>4
<1> QED
  BY <1>1, <1>2, <1>4, <1>6, <1>7 DEF Joined

\* What is joined of the first m holds all of them
LEMMA JoinHolds ==
    ASSUME NEW X, NEW n \in Nat, NEW seqs \in [1 .. n -> Seq(X)], NEW f, JoinsFirst(f, seqs, n)
    PROVE  \A m \in 1 .. n : f[m] \in Seq(X) /\ HoldsAll(f[m], seqs, m)
<1> DEFINE bad == {m \in 1 .. n : ~(f[m] \in Seq(X) /\ HoldsAll(f[m], seqs, m))}
<1> SUFFICES ASSUME bad # {} PROVE FALSE
  OBVIOUS
<1>1. PICK m \in bad : \A k \in bad : m <= k
  <2>1. bad \in SUBSET Nat
    OBVIOUS
  <2> HIDE DEF bad
  <2> QED
    BY <2>1, LeastNat
<1>2. m \in 1 .. n /\ f[m] = IF m = 1 THEN seqs[m] ELSE f[m - 1] \o seqs[m]
  BY <1>1 DEF JoinsFirst
<1>3. seqs[m] \in Seq(X)
  BY <1>2
<1>4. CASE m = 1
  <2>1. f[m] = seqs[m]
    BY <1>2, <1>4
  <2>2. HoldsAll(f[m], seqs, m)
    BY <1>4, <2>1 DEF HoldsAll
  <2> QED
    BY <1>1, <1>3, <2>1, <2>2
<1>5. CASE m # 1
  <2>1. m - 1 \in 1 .. n /\ m - 1 \notin bad
    BY <1>1, <1>2, <1>5
  <2>2. f[m - 1] \in Seq(X) /\ HoldsAll(f[m - 1], seqs, m - 1)
    BY <2>1
  <2>3. f[m] = f[m - 1] \o seqs[m]
    BY <1>2, <1>5
  <2>4. /\ f[m] \in Seq(X)
        /\ \A k \in DOMAIN f[m - 1] : k \in DOMAIN f[m] /\ f[m][k] = f[m - 1][k]
        /\ \A k \in DOMAIN seqs[m] : \E l \in DOMAIN f[m] : f[m][l] = seqs[m][k]
    <3>1. Joined(f[m], f[m - 1], seqs[m], X)
      BY <1>3, <2>2, <2>3, JoinOne
    <3> QED
      BY <3>1 DEF Joined
  <2>5. HoldsAll(f[m], seqs, m)
    <3> SUFFICES ASSUME NEW i \in 1 .. m, NEW j \in DOMAIN seqs[i]
                 PROVE  \E k \in DOMAIN f[m] : f[m][k] = seqs[i][j]
      BY DEF HoldsAll
    <3>1. CASE i = m
      BY <2>4, <3>1
    <3>2. CASE i # m
      <4>1. i \in 1 .. m - 1
        BY <1>2, <3>2
      <4>2. PICK k \in DOMAIN f[m - 1] : f[m - 1][k] = seqs[i][j]
        BY <2>2, <4>1 DEF HoldsAll
      <4> QED
        BY <2>4, <4>2
    <3> QED
      BY <3>1, <3>2
  <2> QED
    BY <1>1, <2>4, <2>5
<1> QED
  BY <1>4, <1>5

\* What FlattenSeq() gives
LEMMA FlattenHolds ==
    ASSUME NEW X, NEW n \in Nat, NEW seqs \in [1 .. n -> Seq(X)]
    PROVE  FlattenSeq(seqs) \in Seq(X) /\ HoldsAll(FlattenSeq(seqs), seqs, n)
<1>1. seqs \in Seq(Seq(X)) /\ Len(seqs) = n
  OBVIOUS
<1>2. CASE n = 0
  <2>1. FlattenSeq(seqs) = seqs
    BY <1>1, <1>2 DEF FlattenSeq
  <2>2. seqs = <<>>
    BY <1>1, <1>2
  <2>3. <<>> \in Seq(X)
    OBVIOUS
  <2> QED
    BY <1>2, <2>1, <2>2, <2>3 DEF HoldsAll
<1>3. CASE n # 0
  <2>1. \E f : f = [i \in 1 .. Len(seqs) |-> IF i = 1 THEN seqs[i] ELSE f[i - 1] \o seqs[i]]
    BY <1>1, JoinExists DEF JoinsFirst
  <2>2. PICK f : /\ f = [i \in 1 .. Len(seqs) |-> IF i = 1 THEN seqs[i] ELSE f[i - 1] \o seqs[i]]
                 /\ FlattenSeq(seqs) = f[Len(seqs)]
    BY <1>1, <1>3, <2>1, FlattenDef
  <2>3. JoinsFirst(f, seqs, n)
    BY <1>1, <2>2 DEF JoinsFirst
  <2>4. n \in 1 .. n
    BY <1>3
  <2>5. \A m \in 1 .. n : f[m] \in Seq(X) /\ HoldsAll(f[m], seqs, m)
    BY <2>3, JoinHolds
  <2> QED
    BY <1>1, <2>2, <2>4, <2>5
<1> QED
  BY <1>2, <1>3

-----------------------------------------------------------------------------
(* The list of attempts *)

\* The parameters
LEMMA ParamFields ==
    ASSUME NEW p \in Params
    PROVE  /\ p.hosts \in Seq(HostKinds) /\ Len(p.hosts) \in 0 .. MaxHosts
           /\ p.addrs \in 0 .. MaxHosts /\ p.ports \in Nat /\ p.timeout \in Int
           /\ p.attrs \in {"any", "prefer-standby"} /\ p.balance \in BOOLEAN
           /\ Larger(Len(p.hosts), p.addrs) \in 0 .. MaxHosts
           /\ Len(p.hosts) <= Larger(Len(p.hosts), p.addrs)
           /\ p.addrs <= Larger(Len(p.hosts), p.addrs)
<1>1. p.hosts \in Seq(HostKinds) /\ Len(p.hosts) <= MaxHosts
  BY ConnectAssumption DEF Params
<1>2. Len(p.hosts) \in 0 .. MaxHosts
  BY <1>1, ConnectAssumption
<1>3. p.addrs \in 0 .. MaxHosts /\ p.ports \in Nat /\ p.timeout \in Int
  BY ConnectAssumption DEF Params
<1>4. p.attrs \in {"any", "prefer-standby"} /\ p.balance \in BOOLEAN
  BY DEF Params
<1> QED
  BY <1>1, <1>2, <1>3, <1>4, ConnectAssumption DEF Larger

\* The attempts before the names are resolved: one of each host or address
LEMMA SplitHolds ==
    ASSUME NEW p \in Params
    PROVE  LET n == Larger(1, Larger(Len(p.hosts), p.addrs))
               split == SplitAttempts(p)
           IN  /\ n \in Nat /\ n >= 1 /\ Larger(Len(p.hosts), p.addrs) <= n
               /\ split \in [1 .. n -> AttemptSet] /\ DOMAIN split = 1 .. n
               /\ \A i \in 1 .. n :
                    /\ split[i].attrs = "any"
                    /\ split[i].host = IF Len(p.hosts) = 0 THEN 0 ELSE i
                    /\ split[i].addr = IF p.addrs = 0 THEN 0 ELSE i
                    /\ split[i].port = PortOf(p, i)
<1> DEFINE m == Larger(Len(p.hosts), p.addrs)
           n == Larger(1, m)
<1>1. m \in 0 .. MaxHosts /\ Len(p.hosts) <= m /\ p.addrs <= m
      /\ Len(p.hosts) \in Nat /\ p.addrs \in Nat /\ p.ports \in Nat /\ MaxHosts \in Nat /\ MaxHosts >= 2
  BY ParamFields, ConnectAssumption
<1> HIDE DEF m
<1>2. n \in Nat /\ n >= 1 /\ m <= n /\ n <= MaxHosts
  BY <1>1 DEF Larger
<1> HIDE DEF n
<1>3. \A i \in 1 .. n : i \in 0 .. MaxHosts /\ PortOf(p, i) \in Nat /\ 0 \in 0 .. MaxHosts
  BY <1>1, <1>2 DEF PortOf
<1>4. SplitAttempts(p) = [i \in 1 .. n |->
            [host |-> IF Len(p.hosts) = 0 THEN 0 ELSE i,
             addr |-> IF p.addrs = 0 THEN 0 ELSE i,
             port |-> PortOf(p, i), attrs |-> "any"]]
  BY DEF SplitAttempts, n, m
<1>5. \A i \in 1 .. n : SplitAttempts(p)[i] =
            [host |-> IF Len(p.hosts) = 0 THEN 0 ELSE i,
             addr |-> IF p.addrs = 0 THEN 0 ELSE i,
             port |-> PortOf(p, i), attrs |-> "any"]
  BY <1>4
<1>6. SplitAttempts(p) \in [1 .. n -> AttemptSet]
  BY <1>3, <1>4 DEF AttemptSet
<1> QED
  BY <1>2, <1>5, <1>6 DEF n, m

\* The attempts at the addresses of a host
LEMMA HostHolds ==
    ASSUME NEW p \in Params, NEW a \in AttemptSet, a.attrs = "any",
           a.host # 0 => a.host \in 1 .. Len(p.hosts)
    PROVE  /\ HostAttempts(p, a) \in Seq(PlainAttempts)
           /\ IF a.host = 0 \/ a.addr # 0 \/ p.hosts[a.host] \in {"path", "ip"}
              THEN 1 \in DOMAIN HostAttempts(p, a) /\ HostAttempts(p, a)[1] = a
              ELSE \A j \in 1 .. Addresses(p.hosts[a.host]) :
                    /\ j \in DOMAIN HostAttempts(p, a)
                    /\ HostAttempts(p, a)[j] = [a EXCEPT !.addr = j]
<1>1. CASE a.host = 0 \/ a.addr # 0 \/ p.hosts[a.host] \in {"path", "ip"}
  <2>1. HostAttempts(p, a) = <<a>>
    BY <1>1 DEF HostAttempts
  <2>2. a \in PlainAttempts
    BY DEF PlainAttempts
  <2>3. <<a>> \in Seq(PlainAttempts) /\ 1 \in DOMAIN <<a>> /\ <<a>>[1] = a
    BY <2>2
  <2> QED
    BY <1>1, <2>1, <2>3
<1>2. CASE ~(a.host = 0 \/ a.addr # 0 \/ p.hosts[a.host] \in {"path", "ip"})
  <2> DEFINE n == Addresses(p.hosts[a.host])
  <2>1. n \in 0 .. 2
    BY DEF Addresses
  <2>2. HostAttempts(p, a) = [j \in 1 .. n |-> [a EXCEPT !.addr = j]]
    BY <1>2 DEF HostAttempts
  <2> HIDE DEF n
  <2>3. \A j \in 1 .. n : [a EXCEPT !.addr = j] \in PlainAttempts
    BY <2>1, ConnectAssumption DEF PlainAttempts, AttemptSet
  <2>4. HostAttempts(p, a) \in Seq(PlainAttempts)
    BY <2>1, <2>2, <2>3
  <2>5. \A j \in 1 .. n : j \in DOMAIN HostAttempts(p, a)
                         /\ HostAttempts(p, a)[j] = [a EXCEPT !.addr = j]
    BY <2>2
  <2> QED
    BY <1>2, <2>4, <2>5 DEF n
<1> QED
  BY <1>1, <1>2

\* Every address of every host is in what is resolved
LEMMA ResolvedCovers ==
    ASSUME NEW p \in Params, ~SplitFails(p)
    PROVE  AllResolved(p) \in Seq(PlainAttempts) /\ Covering(p, AllResolved(p))
<1> DEFINE m == Larger(Len(p.hosts), p.addrs)
           n == Larger(1, m)
           split == SplitAttempts(p)
           seqs == [i \in DOMAIN split |-> HostAttempts(p, split[i])]
<1>1. /\ n \in Nat /\ n >= 1 /\ m <= n
      /\ split \in [1 .. n -> AttemptSet] /\ DOMAIN split = 1 .. n
      /\ \A i \in 1 .. n :
            /\ split[i].attrs = "any"
            /\ split[i].host = IF Len(p.hosts) = 0 THEN 0 ELSE i
            /\ split[i].addr = IF p.addrs = 0 THEN 0 ELSE i
            /\ split[i].port = PortOf(p, i)
  BY SplitHolds
<1>2. /\ p.hosts \in Seq(HostKinds) /\ Len(p.hosts) \in Nat /\ p.addrs \in Nat
      /\ p.ports \in Nat /\ m \in Nat /\ Len(p.hosts) <= m /\ p.addrs <= m
  BY ParamFields, ConnectAssumption
<1>3. AllResolved(p) = FlattenSeq(seqs)
  BY DEF AllResolved
<1>4. /\ Len(p.hosts) > 0 /\ p.addrs > 0 => Len(p.hosts) = p.addrs
      /\ p.ports > 1 => p.ports = m
  BY DEF SplitFails
<1>5. m = IF Len(p.hosts) > p.addrs THEN Len(p.hosts) ELSE p.addrs
  BY DEF Larger
<1>6. n = IF 1 > m THEN 1 ELSE m
  BY DEF Larger
<1> HIDE DEF m, n, split
<1>7. \A i \in 1 .. n : split[i].host # 0 => split[i].host \in 1 .. Len(p.hosts)
  BY <1>1, <1>2, <1>4, <1>5, <1>6
<1>8. \A i \in 1 .. n : seqs[i] = HostAttempts(p, split[i])
                       /\ HostAttempts(p, split[i]) \in Seq(PlainAttempts)
  BY <1>1, <1>7, HostHolds
<1>9. seqs \in [1 .. n -> Seq(PlainAttempts)]
  BY <1>1, <1>8
<1> HIDE DEF seqs
<1>10. AllResolved(p) \in Seq(PlainAttempts) /\ HoldsAll(AllResolved(p), seqs, n)
  BY <1>1, <1>3, <1>9, FlattenHolds
<1>11. ASSUME NEW i \in Places(p), NEW b \in AddressesOf(p, i)
       PROVE  \E k \in DOMAIN AllResolved(p) : AllResolved(p)[k] = Spot(p, i, b)
  <2> DEFINE q == IF m = 0 THEN 1 ELSE i
             a == split[q]
  <2>1. q \in 1 .. n /\ (m = 0 => i = 0) /\ (m # 0 => i \in 1 .. m)
    BY <1>1, <1>2, <1>6 DEF Places, m
  <2>2. p.hosts = <<>> <=> Len(p.hosts) = 0
    BY <1>2
  <2>3. /\ a \in AttemptSet /\ a.attrs = "any"
        /\ a.host = IF p.hosts = <<>> THEN 0 ELSE i
        /\ a.addr = IF p.addrs = 0 THEN 0 ELSE i
        /\ a.port = IF p.ports <= 1 THEN p.ports ELSE i
        /\ (a.host # 0 => a.host \in 1 .. Len(p.hosts))
        /\ seqs[q] = HostAttempts(p, a)
    BY <1>1, <1>2, <1>4, <1>5, <1>6, <1>7, <1>8, <2>1, <2>2 DEF PortOf, seqs
  <2> HIDE DEF q, a
  <2>4. \E l \in DOMAIN seqs[q] : seqs[q][l] = Spot(p, i, b)
    <3>1. CASE a.host = 0 \/ a.addr # 0 \/ p.hosts[a.host] \in {"path", "ip"}
      <4>1. 1 \in DOMAIN seqs[q] /\ seqs[q][1] = a
        BY <2>3, <3>1, HostHolds
      <4>2. b = a.addr
        BY <1>2, <1>5, <2>1, <2>2, <2>3, <3>1 DEF AddressesOf
      <4>3. a = Spot(p, i, b)
        BY <2>3, <4>2 DEF Spot, AttemptSet
      <4> QED
        BY <4>1, <4>3
    <3>2. CASE ~(a.host = 0 \/ a.addr # 0 \/ p.hosts[a.host] \in {"path", "ip"})
      <4>1. p.addrs = 0 /\ a.host = i /\ i # 0 /\ p.hosts[i] \notin {"path", "ip"}
        BY <1>2, <1>5, <2>1, <2>2, <2>3, <3>2
      <4>2. b \in 1 .. Addresses(p.hosts[a.host])
        BY <4>1 DEF AddressesOf
      <4>3. b \in DOMAIN seqs[q] /\ seqs[q][b] = [a EXCEPT !.addr = b]
        BY <2>3, <3>2, <4>2, HostHolds
      <4>4. [a EXCEPT !.addr = b] = Spot(p, i, b)
        BY <2>3, <4>1 DEF Spot, AttemptSet
      <4> QED
        BY <4>3, <4>4
    <3> QED
      BY <3>1, <3>2
  <2> QED
    BY <1>10, <2>1, <2>4 DEF HoldsAll
<1>12. Covering(p, AllResolved(p))
  BY <1>11 DEF Covering, Everywhere, Spot
<1> QED
  BY <1>10, <1>12

\* Shuffled, nothing is lost
LEMMA OrdersCover ==
    ASSUME NEW p \in Params, NEW list \in Seq(PlainAttempts), Covering(p, list),
           NEW order \in Orders(p, list)
    PROVE  order \in Seq(PlainAttempts) /\ Covering(p, order)
<1>1. CASE p.balance
  <2>1. PICK f \in [DOMAIN list -> DOMAIN list] :
            /\ \A i \in DOMAIN list : \E j \in DOMAIN list : f[j] = i
            /\ order = [i \in DOMAIN list |-> list[f[i]]]
    BY <1>1 DEF Orders
  <2>2. DOMAIN list = 1 .. Len(list) /\ Len(list) \in Nat
        /\ \A i \in DOMAIN list : list[i] \in PlainAttempts
    OBVIOUS
  <2>3. order \in [1 .. Len(list) -> PlainAttempts]
    BY <2>1, <2>2
  <2>4. order \in Seq(PlainAttempts)
    BY <2>2, <2>3
  <2>5. \A k \in DOMAIN list : \E l \in DOMAIN order : order[l] = list[k]
    BY <2>1
  <2>6. Covering(p, order)
    BY <2>5 DEF Covering
  <2> QED
    BY <2>4, <2>6
<1>2. CASE ~p.balance
  BY <1>2 DEF Orders
<1> QED
  BY <1>1, <1>2

\* An attempt as standby
AsStandby(list) == [i \in DOMAIN list |-> [list[i] EXCEPT !.attrs = "standby"]]

\* Each attempt of a list as standby
LEMMA StandbyFields ==
    ASSUME NEW list \in Seq(PlainAttempts)
    PROVE  /\ AsStandby(list) \in Seq(AttemptSet) /\ Len(AsStandby(list)) = Len(list)
           /\ \A i \in 1 .. Len(list) : AsStandby(list)[i].attrs = "standby"
                                       /\ AsStandby(list)[i] = [list[i] EXCEPT !.attrs = "standby"]
<1>1. \A a \in PlainAttempts : LET b == [a EXCEPT !.attrs = "standby"]
                               IN  b \in AttemptSet /\ b.attrs = "standby"
  BY DEF PlainAttempts, AttemptSet
<1>2. DOMAIN list = 1 .. Len(list) /\ \A i \in 1 .. Len(list) : list[i] \in PlainAttempts
  OBVIOUS
<1>3. \A i \in 1 .. Len(list) : AsStandby(list)[i] = [list[i] EXCEPT !.attrs = "standby"]
  BY <1>2 DEF AsStandby
<1>4. AsStandby(list) = [i \in 1 .. Len(list) |-> AsStandby(list)[i]]
  BY <1>2 DEF AsStandby
<1>5. Len(list) \in Nat
  OBVIOUS
<1>6. \A i \in 1 .. Len(list) : AsStandby(list)[i] \in AttemptSet
                               /\ AsStandby(list)[i].attrs = "standby"
  BY <1>1, <1>2, <1>3
<1>7. AsStandby(list) \in Seq(AttemptSet) /\ Len(AsStandby(list)) = Len(list)
  BY <1>4, <1>5, <1>6
<1> QED
  BY <1>3, <1>6, <1>7

\* What the attempts to make are: every address is one of them, and each as
\* standby comes first
Foreseen(p, plan) ==
    /\ plan \in Seq(AttemptSet) /\ Covering(p, plan)
    /\ p.attrs = "prefer-standby" =>
        \E list \in Seq(PlainAttempts) : plan = AsStandby(list) \o list /\ Covering(p, list)

\* They are so when they are prepared
LEMMA PreparedSo ==
    ASSUME NEW p \in Params, ~SplitFails(p), NEW list \in Orders(p, AllResolved(p))
    PROVE  Foreseen(p, Preferring(p, list))
<1>1. list \in Seq(PlainAttempts) /\ Covering(p, list)
  BY ResolvedCovers, OrdersCover
<1>2. list \in Seq(AttemptSet)
  BY <1>1 DEF PlainAttempts
<1>3. CASE p.attrs = "prefer-standby"
  <2> DEFINE plan == AsStandby(list) \o list
  <2>1. Preferring(p, list) = plan
    BY <1>3 DEF Preferring, AsStandby
  <2>2. AsStandby(list) \in Seq(AttemptSet)
    BY <1>1, StandbyFields
  <2>3. Joined(plan, AsStandby(list), list, AttemptSet)
    BY <1>2, <2>2, JoinOne
  <2>4. plan \in Seq(AttemptSet) /\ \A k \in DOMAIN list : \E l \in DOMAIN plan : plan[l] = list[k]
    BY <2>3 DEF Joined
  <2> HIDE DEF plan
  <2>5. Covering(p, plan)
    BY <1>1, <2>4 DEF Covering
  <2> QED
    BY <1>1, <2>1, <2>4, <2>5 DEF Foreseen, plan
<1>4. CASE p.attrs # "prefer-standby"
  BY <1>1, <1>2, <1>4 DEF Preferring, Foreseen
<1> QED
  BY <1>3, <1>4

-----------------------------------------------------------------------------
(***************************************************************************)
(* The inductive invariant of Connect.                                     *)
(***************************************************************************)
Connectings == [at : AttemptSet, elapsed : Nat, polls : Nat, want : {"none", "R", "W"},
                reg : {"none", "R", "W"}, ready : BOOLEAN]
Tries == [at : AttemptSet, how : {"ok", "failed", "timeout", "interrupted"}]

ConnectTypes ==
    /\ task \in {"connect", "cancel"}
    /\ params \in Params
    /\ task = "cancel" => params.attrs = "any"
    /\ attempts \in Seq(AttemptSet)
    /\ made \in Seq(Tries)
    /\ role \in [Targets -> Roles \cup {"unknown"}]
    /\ trying \in Connectings
    /\ outcome \in {"unprepared", "none", "connected", "failed", "invalid", "interrupted"}

\* Only a cancellation waits on after its time, until it polls again.
Due == Larger(0, Timeout)
InTime ==
    HasDeadline =>
        /\ trying.elapsed <= LastTick
        /\ task = "connect" \/ ~trying.ready => trying.elapsed <= Due

\* There is no attempt in course but in the loop, and it is known by what it does.
InLoop ==
    /\ outcome # "none" => trying = NoConnecting
    /\ trying # NoConnecting => trying.ready \/ trying.want # "none"
    /\ outcome = "failed" => attempts = <<>>
    /\ outcome = "connected" => made # <<>> /\ made[Len(made)].how = "ok"
    /\ outcome = "unprepared" => made = <<>>

\* What each attempt came to depends on what the server is.
EndedSo ==
    /\ \A k \in DOMAIN made :
        /\ role[Target(made[k].at)] # "unknown"
        /\ made[k].how = "ok" =>
            /\ k = Len(made) /\ outcome = "connected"
            /\ Suits(made[k].at)
        /\ made[k].how = "interrupted" => outcome = "interrupted"
        /\ made[k].how = "failed" => role[Target(made[k].at)] = "down" \/ ~Suits(made[k].at)
    /\ trying # NoConnecting => role[Target(trying.at)] # "unknown"

\* The attempts made, the one in course and those to make
MadeAt == [k \in DOMAIN made |-> made[k].at]
InCourse == IF trying = NoConnecting THEN <<>> ELSE <<trying.at>>
Plan == MadeAt \o (InCourse \o attempts)

Planned == task = "connect" /\ outcome \notin {"unprepared", "invalid"} => Foreseen(params, Plan)

ConnectIInv ==
    ConnectTypes /\ InTime /\ InLoop /\ EndedSo /\ Planned

-----------------------------------------------------------------------------
(* The steps *)

\* The time given
LEMMA TimeoutNat ==
    ASSUME params \in Params
    PROVE  /\ Timeout \in Int /\ Due \in Nat /\ Timeout <= Due /\ LastTick = Due + Interval
           /\ LastTick \in Nat /\ Due <= LastTick
<1>1. params.timeout \in Int
  BY ParamFields
<1> QED
  BY <1>1, ConnectAssumption DEF Timeout, TimeoutOf, Larger, Due, LastTick

\* A time that passes
LEMMA CappedNat ==
    ASSUME params \in Params, NEW t \in Nat
    PROVE  Capped(t) \in Nat /\ Capped(t) <= t
BY TimeoutNat, ConnectAssumption DEF Capped

\* There is no connection in course
LEMMA NoConnectingTyped ==
    /\ NoConnecting \in Connectings /\ NoAttempt \in AttemptSet
    /\ NoConnecting.elapsed = 0 /\ ~NoConnecting.ready /\ NoConnecting.want = "none"
BY ConnectAssumption DEF NoConnecting, Connectings, NoAttempt, AttemptSet

\* The target of an attempt is one of the servers
LEMMA TargetKnown == \A at \in AttemptSet : Target(at) \in Targets
BY DEF Target, Targets, AttemptSet

\* A sequence and one element more
LEMMA AppendJoin ==
    ASSUME NEW X, NEW s \in Seq(X), NEW x \in X, NEW t \in Seq(X)
    PROVE  Append(s, x) \o (<<>> \o t) = s \o (<<x>> \o t)
OBVIOUS

\* The attempts made
LEMMA MadeAtTyped ==
    ASSUME made \in Seq(Tries)
    PROVE  /\ MadeAt \in Seq(AttemptSet) /\ Len(MadeAt) = Len(made)
           /\ \A k \in 1 .. Len(made) : MadeAt[k] = made[k].at
<1>1. DOMAIN made = 1 .. Len(made) /\ Len(made) \in Nat
      /\ \A k \in 1 .. Len(made) : made[k] \in Tries
  OBVIOUS
<1>2. \A t \in Tries : t.at \in AttemptSet
  BY DEF Tries
<1>3. MadeAt \in [1 .. Len(made) -> AttemptSet]
  BY <1>1, <1>2 DEF MadeAt
<1> QED
  BY <1>1, <1>3 DEF MadeAt

\* An attempt ends
LEMMA EndAttemptStep ==
    ASSUME ConnectIInv, trying # NoConnecting,
           NEW how \in {"ok", "failed", "timeout", "interrupted"}, EndAttempt(how),
           how = "ok" => Suits(trying.at),
           how = "failed" => role[Target(trying.at)] = "down" \/ ~Suits(trying.at)
    PROVE  ConnectIInv'
<1> DEFINE try == [at |-> trying.at, how |-> how]
           n == Len(made)
<1>1. /\ made' = Append(made, try) /\ trying' = NoConnecting
      /\ outcome' = CASE how = "ok" -> "connected"
                      [] how = "interrupted" -> "interrupted"
                      [] how \in {"failed", "timeout"} /\ attempts = <<>> -> "failed"
                      [] OTHER -> "none"
      /\ UNCHANGED <<task, params, attempts, role>>
  BY DEF EndAttempt
<1>2. ConnectTypes /\ InTime /\ InLoop /\ EndedSo /\ Planned /\ outcome = "none"
  BY DEF ConnectIInv, InLoop
<1>3. try \in Tries /\ try.at = trying.at /\ try.how = how /\ trying.at \in AttemptSet
  BY <1>2 DEF ConnectTypes, Connectings, Tries
<1>4. /\ made \in Seq(Tries) /\ n \in Nat /\ DOMAIN made = 1 .. n
      /\ made' \in Seq(Tries) /\ Len(made') = n + 1 /\ DOMAIN made' = 1 .. n + 1
      /\ made'[n + 1] = try /\ \A k \in 1 .. n : made'[k] = made[k]
  <2> HIDE DEF try
  <2>1. made \in Seq(Tries)
    BY <1>2 DEF ConnectTypes
  <2> QED
    BY <1>1, <1>3, <2>1
<1> HIDE DEF try, n
<1>5. /\ how = "ok" => outcome' = "connected"
      /\ how = "interrupted" => outcome' = "interrupted"
      /\ outcome' = "connected" => how = "ok"
      /\ outcome' = "failed" => attempts = <<>>
      /\ outcome' \in {"none", "connected", "failed", "interrupted"}
  BY <1>1
<1>6. ConnectTypes'
  BY <1>1, <1>2, <1>4, <1>5, NoConnectingTyped DEF ConnectTypes
<1>7. InTime'
  <2>1. LastTick' = LastTick /\ Due' = Due
    BY <1>1 DEF LastTick, Due, Timeout
  <2> QED
    BY <1>1, <1>2, <2>1, NoConnectingTyped, TimeoutNat DEF ConnectTypes, InTime
<1>8. InLoop'
  BY <1>1, <1>3, <1>4, <1>5 DEF InLoop
<1>9. EndedSo'
  <2> SUFFICES ASSUME NEW k \in 1 .. n + 1
               PROVE  /\ role[Target(made'[k].at)] # "unknown"
                      /\ made'[k].how = "ok" =>
                            k = n + 1 /\ outcome' = "connected" /\ Suits(made'[k].at)
                      /\ made'[k].how = "interrupted" => outcome' = "interrupted"
                      /\ made'[k].how = "failed" =>
                            role[Target(made'[k].at)] = "down" \/ ~Suits(made'[k].at)
    BY <1>1, <1>4 DEF EndedSo, Suits
  <2>1. CASE k = n + 1
    BY <1>2, <1>3, <1>4, <1>5, <2>1 DEF EndedSo
  <2>2. CASE k # n + 1
    <3>1. k \in 1 .. n /\ made'[k] = made[k]
      BY <1>4, <2>2
    <3> QED
      BY <1>2, <1>4, <3>1 DEF EndedSo
  <2> QED
    BY <2>1, <2>2
<1>10. Plan' = Plan
  <2>1. MadeAt \in Seq(AttemptSet) /\ Len(MadeAt) = n /\ \A k \in 1 .. n : MadeAt[k] = made[k].at
    BY <1>4, MadeAtTyped DEF n
  <2>2. MadeAt' = [k \in 1 .. n + 1 |-> made'[k].at]
    BY <1>4 DEF MadeAt
  <2>3. Append(MadeAt, trying.at) = [k \in 1 .. n + 1 |-> IF k = n + 1 THEN trying.at ELSE MadeAt[k]]
    BY <2>1, <1>3, <1>4
  <2>4. MadeAt' = Append(MadeAt, trying.at)
    BY <1>3, <1>4, <2>1, <2>2, <2>3
  <2>5. InCourse' = <<>> /\ InCourse = <<trying.at>> /\ attempts' = attempts
    BY <1>1 DEF InCourse
  <2>6. attempts \in Seq(AttemptSet)
    BY <1>2 DEF ConnectTypes
  <2>7. Append(MadeAt, trying.at) \o (<<>> \o attempts) = MadeAt \o (<<trying.at>> \o attempts)
    BY <1>3, <2>1, <2>6, AppendJoin
  <2> QED
    BY <2>4, <2>5, <2>7 DEF Plan
<1>11. Planned'
  BY <1>1, <1>2, <1>10 DEF Planned
<1> QED
  BY <1>6, <1>7, <1>8, <1>9, <1>11 DEF ConnectIInv

\* An attempt goes on
LEMMA StillTrying ==
    ASSUME ConnectIInv, trying # NoConnecting, NEW c \in Connectings, trying' = c,
           UNCHANGED <<task, params, attempts, made, role, outcome>>,
           c.at = trying.at, c.ready \/ c.want # "none",
           HasDeadline => c.elapsed <= LastTick,
           HasDeadline /\ (task = "connect" \/ ~c.ready) => c.elapsed <= Due
    PROVE  ConnectIInv'
<1>1. ConnectTypes /\ InTime /\ InLoop /\ EndedSo /\ Planned /\ outcome = "none"
  BY DEF ConnectIInv, InLoop
<1>2. c # NoConnecting
  BY DEF NoConnecting
<1>3. ConnectTypes'
  BY <1>1 DEF ConnectTypes
<1>4. InTime'
  BY DEF InTime, Timeout, HasDeadline, LastTick, Due
<1>5. InLoop'
  BY <1>1 DEF InLoop
<1>6. EndedSo'
  BY <1>1 DEF EndedSo, Suits
<1>7. Plan' = Plan
  BY <1>2 DEF Plan, MadeAt, InCourse
<1>8. Planned'
  BY <1>1, <1>7 DEF Planned
<1> QED
  BY <1>3, <1>4, <1>5, <1>6, <1>8 DEF ConnectIInv

\* The attempts are prepared
LEMMA PrepareStep == ConnectIInv /\ (Prepare \/ PrepareCancel) => ConnectIInv'
<1> SUFFICES ASSUME ConnectIInv, Prepare \/ PrepareCancel PROVE ConnectIInv'
  OBVIOUS
<1>1. /\ ConnectTypes /\ InTime /\ InLoop /\ EndedSo /\ outcome = "unprepared"
      /\ trying = NoConnecting /\ made = <<>>
      /\ UNCHANGED <<task, params, made, role, trying>>
  BY DEF ConnectIInv, InLoop, Prepare, PrepareCancel
<1>2. outcome' \in {"none", "invalid"}
  BY DEF Prepare, PrepareCancel
<1>3. /\ attempts' \in Seq(AttemptSet)
      /\ task = "connect" /\ outcome' = "none" => Foreseen(params, attempts')
  <2>1. CASE PrepareCancel
    BY <1>1, <2>1 DEF PrepareCancel, ConnectTypes
  <2>2. CASE Prepare /\ outcome' = "invalid"
    <3>1. attempts' = <<>>
      BY <2>2 DEF Prepare
    <3>2. <<>> \in Seq(AttemptSet)
      OBVIOUS
    <3> QED
      BY <2>2, <3>1, <3>2
  <2>3. CASE Prepare /\ outcome' # "invalid"
    <3>1. /\ ~SplitFails(params)
          /\ \E list \in Orders(params, AllResolved(params)) : attempts' = Preferring(params, list)
      BY <2>3 DEF Prepare
    <3>2. params \in Params
      BY <1>1 DEF ConnectTypes
    <3>3. Foreseen(params, attempts')
      BY <3>1, <3>2, PreparedSo
    <3> QED
      BY <3>3 DEF Foreseen
  <2> QED
    BY <2>1, <2>2, <2>3
<1>4. Plan' = attempts'
  <2>1. MadeAt' = <<>> /\ InCourse' = <<>>
    BY <1>1 DEF MadeAt, InCourse
  <2> QED
    BY <1>3, <2>1 DEF Plan
<1>5. ConnectTypes'
  BY <1>1, <1>2, <1>3 DEF ConnectTypes
<1>6. InTime' /\ InLoop'
  BY <1>1, <1>2 DEF InTime, InLoop, Timeout, HasDeadline, LastTick, Due
<1>7. EndedSo'
  BY <1>1 DEF EndedSo
<1>8. Planned'
  BY <1>1, <1>2, <1>3, <1>4 DEF Planned
<1> QED
  BY <1>5, <1>6, <1>7, <1>8 DEF ConnectIInv

\* The next attempt begins
LEMMA StartAttemptStep == ConnectIInv /\ StartAttempt => ConnectIInv'
<1> SUFFICES ASSUME ConnectIInv, StartAttempt PROVE ConnectIInv'
  OBVIOUS
<1> DEFINE at == Head(attempts)
           c == [NoConnecting EXCEPT !.at = at, !.ready = TRUE]
<1>1. /\ ConnectTypes /\ InTime /\ InLoop /\ EndedSo /\ Planned /\ outcome = "none"
      /\ trying = NoConnecting /\ attempts # <<>> /\ trying' = c /\ attempts' = Tail(attempts)
      /\ IF role[Target(at)] = "unknown"
         THEN \E r \in Roles : role' = [role EXCEPT ![Target(at)] = r]
         ELSE UNCHANGED role
      /\ UNCHANGED <<task, params, made, outcome>>
  BY DEF ConnectIInv, StartAttempt
<1>2. attempts \in Seq(AttemptSet) /\ at \in AttemptSet /\ Tail(attempts) \in Seq(AttemptSet)
      /\ attempts = <<at>> \o Tail(attempts)
  <2>1. attempts \in Seq(AttemptSet) /\ attempts # <<>>
    BY <1>1 DEF ConnectTypes
  <2> QED
    BY <2>1
<1> HIDE DEF at
<1>3. c \in Connectings /\ c.at = at /\ c.ready /\ c.elapsed = 0
  BY <1>2 DEF NoConnecting, Connectings
<1> HIDE DEF c
<1>4. c # NoConnecting
  BY <1>3, NoConnectingTyped
<1>5. Target(at) \in Targets /\ "unknown" \notin Roles
  BY <1>2, TargetKnown DEF Roles
<1>6. /\ role' \in [Targets -> Roles \cup {"unknown"}] /\ role'[Target(at)] # "unknown"
      /\ \A t \in Targets : role[t] # "unknown" => role'[t] = role[t]
  BY <1>1, <1>5 DEF ConnectTypes
<1>7. ConnectTypes'
  BY <1>1, <1>2, <1>3, <1>6 DEF ConnectTypes
<1>8. InTime' /\ InLoop'
  <2>1. LastTick' = LastTick /\ Due' = Due /\ LastTick \in Nat /\ Due \in Nat
    BY <1>1, TimeoutNat DEF LastTick, Due, Timeout, ConnectTypes
  <2> QED
    BY <1>1, <1>3, <2>1 DEF InTime, InLoop
<1>9. EndedSo'
  <2>1. \A k \in DOMAIN made : role[Target(made[k].at)] # "unknown"
                              /\ role'[Target(made[k].at)] = role[Target(made[k].at)]
    <3>1. \A k \in DOMAIN made : made[k] \in Tries
      BY <1>1 DEF ConnectTypes
    <3>2. \A k \in DOMAIN made : Target(made[k].at) \in Targets
      BY <3>1, TargetKnown DEF Tries
    <3> QED
      BY <1>1, <1>6, <3>2 DEF EndedSo
  <2>2. \A k \in DOMAIN made : Suits(made[k].at)' <=> Suits(made[k].at)
    BY <1>1, <2>1 DEF Suits
  <2>3. \A k \in DOMAIN made : /\ made[k].how # "ok"
                              /\ made[k].how # "interrupted"
                              /\ made[k].how = "failed" => role[Target(made[k].at)] = "down"
                                                            \/ ~Suits(made[k].at)
    BY <1>1 DEF EndedSo
  <2> QED
    BY <1>1, <1>3, <1>6, <2>1, <2>2, <2>3 DEF EndedSo
<1>10. Plan' = Plan
  <2>1. MadeAt' = MadeAt /\ InCourse' = <<at>> /\ InCourse = <<>>
    BY <1>1, <1>3, <1>4 DEF MadeAt, InCourse
  <2>2. <<at>> \o Tail(attempts) = <<>> \o attempts
    BY <1>2
  <2> QED
    BY <1>1, <2>1, <2>2 DEF Plan
<1>11. Planned'
  BY <1>1, <1>10 DEF Planned
<1> QED
  BY <1>7, <1>8, <1>9, <1>11 DEF ConnectIInv

\* What the server answers
LEMMA PolledSo ==
    ASSUME NEW at, NEW polls, NEW answer \in Polled(at, polls)
    PROVE  /\ answer \in {"OK", "FAILED", "R", "W"}
           /\ answer = "OK" => Suits(at)
           /\ answer = "FAILED" => role[Target(at)] = "down" \/ ~Suits(at)
<1>1. CASE role[Target(at)] \in {"down", "silent", "slow"}
  BY <1>1 DEF Polled
<1>2. CASE role[Target(at)] \notin {"down", "silent", "slow"}
  <2>1. Polled(at, polls) = (IF polls < MaxPolls THEN {"R", "W"} ELSE {})
                    \cup (IF polls > 0
                          THEN {IF Suits(at) THEN "OK" ELSE "FAILED"} ELSE {})
    BY <1>2 DEF Polled
  <2> QED
    BY <2>1
<1> QED
  BY <1>1, <1>2

\* The connection is polled
LEMMA PollStep == ConnectIInv /\ PollConnection => ConnectIInv'
<1> SUFFICES ASSUME ConnectIInv, PollConnection PROVE ConnectIInv'
  OBVIOUS
<1>1. /\ trying # NoConnecting /\ trying.ready
      /\ task = "cancel" /\ HasDeadline => ~(trying.elapsed > Timeout)
  BY DEF PollConnection, Expired
<1>2. PICK answer \in Polled(trying.at, trying.polls) :
         CASE answer = "OK" -> EndAttempt("ok")
           [] answer = "FAILED" -> EndAttempt("failed")
           [] OTHER ->
              /\ trying' = [trying EXCEPT !.want = answer,
                                      !.reg = IF @ = "none" THEN answer ELSE @,
                                      !.ready = FALSE,
                                      !.polls = IF @ < MaxPolls THEN @ + 1 ELSE @]
              /\ UNCHANGED <<task, params, attempts, made, role, outcome>>
  BY DEF PollConnection
<1>3. /\ answer \in {"OK", "FAILED", "R", "W"}
      /\ answer = "OK" => Suits(trying.at)
      /\ answer = "FAILED" => role[Target(trying.at)] = "down" \/ ~Suits(trying.at)
  BY PolledSo
<1>4. CASE answer = "OK"
  <2>1. EndAttempt("ok")
    BY <1>2, <1>4
  <2> QED
    BY <1>1, <1>3, <1>4, <2>1, EndAttemptStep
<1>5. CASE answer = "FAILED"
  <2>1. EndAttempt("failed")
    BY <1>2, <1>5
  <2> QED
    BY <1>1, <1>3, <1>5, <2>1, EndAttemptStep
<1>6. CASE answer \in {"R", "W"}
  <2> DEFINE reg == IF trying.reg = "none" THEN answer ELSE trying.reg
             polls == IF trying.polls < MaxPolls THEN trying.polls + 1 ELSE trying.polls
             c == [trying EXCEPT !.want = answer, !.reg = reg, !.ready = FALSE, !.polls = polls]
  <2>1. trying' = c /\ UNCHANGED <<task, params, attempts, made, role, outcome>>
    BY <1>2, <1>6
  <2>2. trying \in Connectings /\ InTime /\ task \in {"connect", "cancel"}
        /\ Timeout \in Int /\ Due \in Nat /\ Timeout <= Due /\ LastTick \in Nat /\ Due <= LastTick
    BY TimeoutNat DEF ConnectIInv, ConnectTypes
  <2>3. /\ c \in Connectings /\ c.at = trying.at /\ c.want = answer /\ ~c.ready
        /\ c.elapsed = trying.elapsed
    <3>1. reg \in {"none", "R", "W"} /\ polls \in Nat
      BY <1>6, <2>2, ConnectAssumption DEF Connectings
    <3> HIDE DEF reg, polls
    <3> QED
      BY <1>6, <2>2, <3>1 DEF Connectings
  <2>4. HasDeadline => trying.elapsed <= Due /\ trying.elapsed <= LastTick
    BY <1>1, <2>2 DEF InTime, Connectings
  <2> HIDE DEF c
  <2> QED
    BY <1>1, <1>6, <2>1, <2>3, <2>4, StillTrying
<1> QED
  BY <1>3, <1>4, <1>5, <1>6

\* The wait ends
LEMMA WaitStep ==
    ConnectIInv /\ (CancelExpires \/ SocketReady \/ SocketIdle \/ Interrupted) => ConnectIInv'
<1> SUFFICES ASSUME ConnectIInv, CancelExpires \/ SocketReady \/ SocketIdle \/ Interrupted
             PROVE  ConnectIInv'
  OBVIOUS
<1>1. trying # NoConnecting
  BY DEF CancelExpires, SocketReady, SocketIdle, Interrupted
<1>2. /\ trying \in Connectings /\ params \in Params /\ Timeout \in Int /\ Due \in Nat
      /\ Timeout <= Due /\ LastTick = Due + Interval
      /\ ~trying.ready => (HasDeadline => trying.elapsed <= Due) /\ trying.want # "none"
      /\ trying.elapsed \in Nat /\ task \in {"connect", "cancel"}
      /\ Interval \in Nat \ {0}
  BY <1>1, TimeoutNat, ConnectAssumption
     DEF ConnectIInv, ConnectTypes, InTime, InLoop, Connectings
<1>3. EndAttempt("timeout") => ConnectIInv'
  BY <1>1, EndAttemptStep
<1>4. CASE CancelExpires
  BY <1>3, <1>4 DEF CancelExpires
<1>5. CASE SocketReady
  <2>1. PICK t \in 1 .. Interval :
         LET c == [trying EXCEPT !.elapsed = Capped(@ + t), !.ready = TRUE, !.reg = "none"]
         IN  IF task = "connect" /\ Expired(c, TRUE)
             THEN EndAttempt("timeout")
             ELSE /\ trying' = c
                  /\ UNCHANGED <<task, params, attempts, made, role, outcome>>
    BY <1>5 DEF SocketReady
  <2> DEFINE e == Capped(trying.elapsed + t)
             c == [trying EXCEPT !.elapsed = e, !.ready = TRUE, !.reg = "none"]
  <2>2. ~trying.ready
    BY <1>5 DEF SocketReady
  <2>3. e \in Nat /\ e <= trying.elapsed + t
    BY <1>2, CappedNat
  <2> HIDE DEF e
  <2>4. c \in Connectings /\ c.at = trying.at /\ c.ready /\ c.elapsed = e
    BY <1>2, <2>3 DEF Connectings
  <2>5. EndAttempt("timeout") \/ /\ trying' = c /\ (task = "connect" => ~Expired(c, TRUE))
                                 /\ UNCHANGED <<task, params, attempts, made, role, outcome>>
    BY <2>1 DEF e
  <2> HIDE DEF c
  <2>6. HasDeadline => e <= LastTick
    BY <1>2, <2>2, <2>3
  <2>7. ~Expired(c, TRUE) /\ HasDeadline => e <= Due
    BY <1>2, <2>3, <2>4 DEF Expired
  <2> QED
    BY <1>1, <1>3, <2>4, <2>5, <2>6, <2>7, StillTrying
<1>6. CASE SocketIdle
  <2> DEFINE e == Capped(trying.elapsed + Interval)
             c == [trying EXCEPT !.elapsed = e, !.ready = IdlePolls]
  <2>1. ~trying.ready /\ trying.want # "none"
    BY <1>2, <1>6 DEF SocketIdle
  <2>2. e \in Nat /\ e <= trying.elapsed + Interval
    BY <1>2, CappedNat
  <2>3. EndAttempt("timeout") \/ /\ trying' = c /\ (task = "connect" => ~Expired(c, FALSE))
                                 /\ UNCHANGED <<task, params, attempts, made, role, outcome>>
    BY <1>6 DEF SocketIdle
  <2> HIDE DEF e
  <2>4. IdlePolls \in BOOLEAN /\ (IdlePolls <=> task = "cancel")
    BY DEF IdlePolls
  <2>5. /\ c \in Connectings /\ c.at = trying.at /\ c.ready = IdlePolls /\ c.elapsed = e
        /\ c.want = trying.want
    BY <1>2, <2>2, <2>4 DEF Connectings
  <2> HIDE DEF c
  <2>6. HasDeadline => e <= LastTick
    BY <1>2, <2>1, <2>2
  <2>7. ~Expired(c, FALSE) /\ HasDeadline => e <= Due
    BY <1>2, <2>2, <2>5 DEF Expired
  <2> QED
    BY <1>1, <1>2, <1>3, <2>1, <2>3, <2>4, <2>5, <2>6, <2>7, StillTrying
<1>7. CASE Interrupted
  BY <1>1, <1>7, EndAttemptStep DEF Interrupted
<1> QED
  BY <1>4, <1>5, <1>6, <1>7

\* Nothing happens
LEMMA StutterStep == ConnectIInv /\ UNCHANGED connectVars => ConnectIInv'
<1> SUFFICES ASSUME ConnectIInv, UNCHANGED connectVars PROVE ConnectIInv'
  OBVIOUS
<1>1. UNCHANGED <<task, params, attempts, made, role, trying, outcome>>
  BY DEF connectVars
<1>2. Plan' = Plan
  BY <1>1 DEF Plan, MadeAt, InCourse
<1>3. ConnectTypes' /\ InTime' /\ InLoop' /\ Planned'
  BY <1>1, <1>2 DEF ConnectIInv, ConnectTypes, InTime, InLoop, Planned, Timeout,
                        HasDeadline, LastTick, Due
<1>4. EndedSo'
  BY <1>1 DEF ConnectIInv, EndedSo, Suits
<1> QED
  BY <1>3, <1>4 DEF ConnectIInv

\* The invariant holds at first
LEMMA ConnectInitHolds == ConnectInit => ConnectIInv
<1> SUFFICES ASSUME ConnectInit PROVE ConnectIInv
  OBVIOUS
<1>1. /\ params \in Params /\ attempts = <<NoAttempt>> /\ made = <<>> /\ role = NoRole
      /\ trying = NoConnecting /\ outcome = "unprepared" /\ task \in {"connect", "cancel"}
      /\ task = "cancel" => params.attrs = "any"
  BY DEF ConnectInit, Params
<1>2. /\ attempts \in Seq(AttemptSet) /\ made \in Seq(Tries)
      /\ role \in [Targets -> Roles \cup {"unknown"}]
  BY <1>1, NoConnectingTyped DEF NoRole
<1>3. LastTick \in Nat /\ Due \in Nat
  BY <1>1, TimeoutNat
<1> QED
  BY <1>1, <1>2, <1>3, NoConnectingTyped
     DEF ConnectIInv, ConnectTypes, InTime, InLoop, EndedSo, Planned

-----------------------------------------------------------------------------
(* The theorem *)

\* The attempts of two lists, one after the other
LEMMA PlanParts ==
    ASSUME NEW X, NEW s \in Seq(X), NEW t \in Seq(X)
    PROVE  /\ \A k \in 1 .. Len(s) : (s \o t)[k] = s[k]
           /\ \A k \in 1 .. Len(t) : (s \o t)[Len(s) + k] = t[k]
           /\ Len(s \o t) = Len(s) + Len(t)
OBVIOUS

\* When no attempt is left, what was made is all that was foreseen
LEMMA AllMade ==
    ASSUME ConnectIInv, outcome = "failed", task = "connect"
    PROVE  /\ made \in Seq(Tries) /\ Foreseen(params, MadeAt)
           /\ \A k \in DOMAIN made : k \in DOMAIN MadeAt /\ MadeAt[k] = made[k].at
           /\ DOMAIN MadeAt = DOMAIN made
<1>1. made \in Seq(Tries) /\ attempts = <<>> /\ trying = NoConnecting /\ Foreseen(params, Plan)
  BY DEF ConnectIInv, ConnectTypes, InLoop, Planned
<1>2. MadeAt \in Seq(AttemptSet) /\ Len(MadeAt) = Len(made)
      /\ \A k \in 1 .. Len(made) : MadeAt[k] = made[k].at
  BY <1>1, MadeAtTyped
<1>3. Plan = MadeAt
  <2>1. InCourse = <<>>
    BY <1>1 DEF InCourse
  <2> HIDE DEF MadeAt
  <2> QED
    BY <1>1, <1>2, <2>1 DEF Plan
<1>4. DOMAIN made = 1 .. Len(made) /\ DOMAIN MadeAt = 1 .. Len(made)
  BY <1>1, <1>2
<1> QED
  BY <1>1, <1>2, <1>3, <1>4

\* connect() fails when everything did
LEMMA ImpliesFailsOnlyIfAllFail == ConnectIInv => FailsOnlyIfAllFail
<1> SUFFICES ASSUME ConnectIInv, outcome = "failed", task = "connect"
             PROVE  /\ \A at \in Everywhere(params) :
                         /\ Tried(at, "any")
                         /\ params.attrs = "prefer-standby" => Tried(at, "standby")
                    /\ \A k \in DOMAIN made :
                        role[Target(made[k].at)] \in {"primary", "standby"}
                            /\ Suits(made[k].at) => made[k].how = "timeout"
  BY DEF FailsOnlyIfAllFail
<1>1. /\ made \in Seq(Tries) /\ Foreseen(params, MadeAt) /\ DOMAIN MadeAt = DOMAIN made
      /\ \A k \in DOMAIN made : MadeAt[k] = made[k].at
  BY AllMade
<1>2. ASSUME NEW at \in Everywhere(params) PROVE Tried(at, "any")
  <2>1. [at EXCEPT !.attrs = "any"] = at
    BY DEF Everywhere
  <2>2. \E k \in DOMAIN MadeAt : MadeAt[k] = at
    BY <1>1 DEF Foreseen, Covering
  <2> QED
    BY <1>1, <2>1, <2>2 DEF Tried
<1>3. ASSUME NEW at \in Everywhere(params), params.attrs = "prefer-standby"
      PROVE  Tried(at, "standby")
  <2>1. PICK list \in Seq(PlainAttempts) : MadeAt = AsStandby(list) \o list /\ Covering(params, list)
    BY <1>1, <1>3 DEF Foreseen
  <2>2. PICK k \in DOMAIN list : list[k] = at
    BY <2>1 DEF Covering
  <2>3. AsStandby(list)[k] = [at EXCEPT !.attrs = "standby"]
    BY <2>2 DEF AsStandby
  <2>4. AsStandby(list) \in Seq(AttemptSet) /\ list \in Seq(AttemptSet)
        /\ DOMAIN AsStandby(list) = DOMAIN list
    BY StandbyFields DEF AsStandby, PlainAttempts
  <2>5. k \in DOMAIN MadeAt /\ MadeAt[k] = AsStandby(list)[k]
    <3>1. Joined(MadeAt, AsStandby(list), list, AttemptSet)
      BY <2>1, <2>4, JoinOne
    <3> QED
      BY <2>4, <3>1 DEF Joined
  <2> QED
    BY <1>1, <2>3, <2>5 DEF Tried
<1>4. ASSUME NEW k \in DOMAIN made, Suits(made[k].at),
             role[Target(made[k].at)] \in {"primary", "standby"}
      PROVE  made[k].how = "timeout"
  <2>1. made[k].how \in {"ok", "failed", "timeout", "interrupted"}
    <3>1. made[k] \in Tries
      BY <1>1
    <3> QED
      BY <3>1 DEF Tries
  <2>2. made[k].how \notin {"ok", "interrupted", "failed"}
    BY <1>4 DEF ConnectIInv, EndedSo
  <2> QED
    BY <2>1, <2>2
<1> QED
  BY <1>2, <1>3, <1>4

\* Where the session is, everything is tried as standby before
LEMMA ImpliesStandbyPreferred == ConnectIInv => StandbyPreferred
<1> SUFFICES ASSUME ConnectIInv, outcome = "connected", params.attrs = "prefer-standby",
                    role[Target(made[Len(made)].at)] = "primary"
             PROVE  /\ \A at \in Everywhere(params) : Tried(at, "standby")
                    /\ \A k \in DOMAIN made :
                        role[Target(made[k].at)] = "standby" => made[k].how = "timeout"
  BY DEF StandbyPreferred
<1> DEFINE n == Len(made)
<1>1. /\ made \in Seq(Tries) /\ n \in Nat /\ DOMAIN made = 1 .. n /\ made # <<>>
      /\ made[n].how = "ok" /\ trying = NoConnecting /\ attempts \in Seq(AttemptSet)
  BY DEF ConnectIInv, ConnectTypes, InLoop
<1>2. n >= 1
  BY <1>1
<1>3. \A i \in 1 .. n : made[i] \in Tries
  BY <1>1
<1> HIDE DEF n
<1>4. /\ made[n].at.attrs = "any"
      /\ \A i \in 1 .. n : made[i].how = "ok" => i = n
      /\ \A i \in 1 .. n : made[i].how # "interrupted"
      /\ \A i \in 1 .. n : made[i].how = "failed" => role[Target(made[i].at)] = "down"
                                                     \/ ~Suits(made[i].at)
  <2>1. Suits(made[n].at)
    BY <1>1, <1>2 DEF ConnectIInv, EndedSo
  <2>2. made[n].at.attrs \in {"any", "standby"}
    <3>1. made[n] \in Tries
      BY <1>1, <1>2, <1>3
    <3> QED
      BY <3>1 DEF Tries, AttemptSet
  <2>3. made[n].at.attrs # "standby"
    BY <2>1 DEF Suits, n
  <2> QED
    BY <1>1, <2>2, <2>3 DEF ConnectIInv, EndedSo, n
<1>5. PICK list \in Seq(PlainAttempts) : Plan = AsStandby(list) \o list /\ Covering(params, list)
  <2>1. task = "connect" => Foreseen(params, Plan)
    BY DEF ConnectIInv, Planned
  <2>2. task = "connect"
    BY DEF ConnectIInv, ConnectTypes
  <2> QED
    BY <2>1, <2>2 DEF Foreseen
<1> DEFINE m == Len(list)
<1>6. /\ m \in Nat /\ AsStandby(list) \in Seq(AttemptSet) /\ Len(AsStandby(list)) = m
      /\ list \in Seq(AttemptSet)
      /\ \A i \in 1 .. m : AsStandby(list)[i].attrs = "standby"
                          /\ AsStandby(list)[i] = [list[i] EXCEPT !.attrs = "standby"]
  <2>1. list \in Seq(AttemptSet)
    BY DEF PlainAttempts
  <2> QED
    BY <2>1, StandbyFields
<1>7. MadeAt \in Seq(AttemptSet) /\ Len(MadeAt) = n /\ \A i \in 1 .. n : MadeAt[i] = made[i].at
  BY <1>1, MadeAtTyped DEF n
<1>8. Plan = MadeAt \o attempts
  <2>1. InCourse = <<>>
    BY <1>1 DEF InCourse
  <2> HIDE DEF MadeAt
  <2> QED
    BY <1>1, <1>7, <2>1 DEF Plan
<1> HIDE DEF m
<1>9. /\ \A i \in 1 .. m : Plan[i] = AsStandby(list)[i]
      /\ \A i \in 1 .. m : Plan[m + i] = list[i]
      /\ Len(Plan) = m + m
  BY <1>5, <1>6, PlanParts DEF m
<1>10. /\ \A i \in 1 .. n : Plan[i] = made[i].at
       /\ n <= Len(Plan)
  <2>1. Len(attempts) \in Nat
    BY <1>1
  <2>2. /\ \A i \in 1 .. n : (MadeAt \o attempts)[i] = MadeAt[i]
        /\ Len(MadeAt \o attempts) = n + Len(attempts)
    <3>1. MadeAt \in Seq(AttemptSet) /\ attempts \in Seq(AttemptSet)
      BY <1>1, <1>7
    <3>2. \A s, t \in Seq(AttemptSet) : /\ \A i \in 1 .. Len(s) : (s \o t)[i] = s[i]
                                        /\ Len(s \o t) = Len(s) + Len(t)
      BY PlanParts
    <3> QED
      BY <1>7, <3>1, <3>2
  <2>3. n \in Nat
    BY <1>1
  <2>4. \A i \in 1 .. n : Plan[i] = made[i].at
    <3> HIDE DEF n, MadeAt, Plan
    <3> QED
      BY <1>7, <1>8, <2>2
  <2>5. n <= Len(Plan)
    <3>1. Len(Plan) = n + Len(attempts)
      BY <1>8, <2>2, Zenon
    <3>2. \A x, y \in Nat : x <= x + y
      OBVIOUS
    <3> QED
      BY <2>1, <2>3, <3>1, <3>2
  <2> QED
    BY <2>4, <2>5
<1>11. n > m
  <2>1. ASSUME n <= m PROVE FALSE
    <3>1. n \in 1 .. m /\ n \in 1 .. n
      BY <1>1, <1>2, <1>6, <2>1
    <3>2. made[n].at.attrs = "standby"
      BY <1>6, <1>9, <1>10, <3>1
    <3> QED
      BY <1>4, <3>2
  <2> QED
    BY <1>1, <1>6, <2>1
<1>12. \A i \in 1 .. m : i \in 1 .. n /\ made[i].at = AsStandby(list)[i]
  BY <1>1, <1>6, <1>9, <1>10, <1>11
<1>13. ASSUME NEW at \in Everywhere(params) PROVE Tried(at, "standby")
  <2>1. PICK i \in 1 .. m : list[i] = at
    BY <1>5 DEF Covering, m
  <2>2. i \in DOMAIN made /\ made[i].at = [at EXCEPT !.attrs = "standby"]
    BY <1>1, <1>6, <1>12, <2>1
  <2> QED
    BY <2>2 DEF Tried
<1>14. ASSUME NEW k \in DOMAIN made, role[Target(made[k].at)] = "standby"
       PROVE  made[k].how = "timeout"
  <2>1. Suits(made[k].at)
    BY <1>14 DEF Suits
  <2>2. k # n
    BY <1>14 DEF n
  <2>3. made[k].how \in {"ok", "failed", "timeout", "interrupted"}
    BY <1>1, <1>3 DEF Tries
  <2> QED
    BY <1>1, <1>4, <1>14, <2>1, <2>2, <2>3
<1> QED
  BY <1>13, <1>14

\* The invariant says all that is claimed
LEMMA ImpliesAttemptsHonest == ConnectIInv => AttemptsHonest
<1> SUFFICES ASSUME ConnectIInv PROVE AttemptsHonest
  OBVIOUS
<1>1. ConnectTypeOK
  <2>1. ConnectTypes
    BY DEF ConnectIInv
  <2>2. \A k \in DOMAIN made : made[k] \in Tries
    BY <2>1 DEF ConnectTypes
  <2> QED
    BY <2>1, <2>2 DEF ConnectTypeOK, ConnectTypes, Connectings, Tries
<1>2. TimeBounded
  BY DEF ConnectIInv, InTime, TimeBounded
<1> QED
  BY <1>1, <1>2, ImpliesFailsOnlyIfAllFail, ImpliesStandbyPreferred DEF AttemptsHonest

\* For every list of hosts, of addresses and of ports, every timeout and any
\* servers: Connection.connect() fails only after it tried every address of
\* every host, on the port of that host, and with prefer-standby both as a
\* standby and as any, and none that suited did more than run out of time; a
\* session that is not on a standby, asked to prefer one, is opened only after
\* each of these addresses was tried as a standby; and no attempt that has a
\* deadline lasts longer than that and one interval.
THEOREM AttemptsCorrect == ConnectSpec => []AttemptsHonest
<1>1. ConnectIInv /\ [ConnectNext]_connectVars => ConnectIInv'
  BY PrepareStep, StartAttemptStep, PollStep, WaitStep, StutterStep DEF ConnectNext, ConnectStep
<1>2. ConnectSpec => ConnectInit /\ [][ConnectNext]_connectVars
  BY PTL DEF ConnectSpec
<1>3. ConnectInit /\ [][ConnectNext]_connectVars => []ConnectIInv
  BY <1>1, ConnectInitHolds, PTL
<1> QED
  BY <1>2, <1>3, ImpliesAttemptsHonest, PTL

-----------------------------------------------------------------------------
(* Increasing sequences and what they contain *)

Increasing(s) == \A i, j \in 1 .. Len(s) : i < j => s[i] < s[j]

Below(S, T) == \A x \in S, y \in T : x < y

\* The empty sequence is increasing and has no elements
LEMMA EmptySequence == <<>> \in Seq(Nat) /\ ToSet(<<>>) = {} /\ Increasing(<<>>)
  BY DEF ToSet, Increasing

\* The elements of a sequence of naturals are naturals
LEMMA ToSetNat ==
    ASSUME NEW s \in Seq(Nat)
    PROVE  ToSet(s) \subseteq Nat /\ (\A i \in 1 .. Len(s) : s[i] \in ToSet(s))
           /\ (\A x \in ToSet(s) : \E i \in 1 .. Len(s) : x = s[i])
  BY DEF ToSet

\* The first k and the others
LEMMA SplitSequence ==
    ASSUME NEW s \in Seq(Nat), Increasing(s), NEW k \in 0 .. Len(s)
    PROVE  LET a == SubSeq(s, 1, k)
               b == SubSeq(s, k + 1, Len(s))
           IN  /\ a \in Seq(Nat) /\ b \in Seq(Nat)
               /\ Increasing(a) /\ Increasing(b)
               /\ ToSet(s) = ToSet(a) \cup ToSet(b)
               /\ Below(ToSet(a), ToSet(b))
               /\ k # 0 => a # <<>>
<1> DEFINE a == SubSeq(s, 1, k)
           b == SubSeq(s, k + 1, Len(s))
<1>1. /\ a \in Seq(Nat) /\ Len(a) = k
      /\ \A i \in 1 .. k : a[i] = s[i]
  OBVIOUS
<1>2. /\ b \in Seq(Nat) /\ Len(b) = Len(s) - k
      /\ \A i \in 1 .. (Len(s) - k) : b[i] = s[k + i]
  OBVIOUS
<1>3. Len(s) \in Nat /\ k \in Nat /\ k <= Len(s)
  OBVIOUS
<1> HIDE DEF a, b
<1>4. k # 0 => a # <<>>
  BY <1>1
<1>5. Increasing(a)
  <2> SUFFICES ASSUME NEW i \in 1 .. k, NEW j \in 1 .. k, i < j PROVE a[i] < a[j]
    BY <1>1 DEF Increasing
  <2>1. i \in 1 .. Len(s) /\ j \in 1 .. Len(s)
    BY <1>3
  <2> QED
    BY <1>1, <2>1 DEF Increasing
<1>6. Increasing(b)
  <2> SUFFICES ASSUME NEW i \in 1 .. (Len(s) - k), NEW j \in 1 .. (Len(s) - k), i < j
               PROVE  b[i] < b[j]
    BY <1>2 DEF Increasing
  <2>1. k + i \in 1 .. Len(s) /\ k + j \in 1 .. Len(s) /\ k + i < k + j
    BY <1>3
  <2> QED
    BY <1>2, <2>1 DEF Increasing
<1>7. ToSet(s) = ToSet(a) \cup ToSet(b)
  <2>1. ASSUME NEW x \in ToSet(s) PROVE x \in ToSet(a) \cup ToSet(b)
    <3>1. PICK i \in 1 .. Len(s) : x = s[i]
      BY ToSetNat
    <3>2. CASE i <= k
      <4>1. i \in 1 .. k
        BY <1>3, <3>2
      <4> QED
        BY <1>1, <3>1, <4>1, ToSetNat
    <3>3. CASE i > k
      <4>1. i - k \in 1 .. (Len(s) - k) /\ k + (i - k) = i
        BY <1>3, <3>3
      <4> QED
        BY <1>2, <3>1, <4>1, ToSetNat
    <3> QED
      BY <1>3, <3>1, <3>2, <3>3
  <2>2. ASSUME NEW x \in ToSet(a) PROVE x \in ToSet(s)
    <3>1. PICK i \in 1 .. k : x = a[i]
      BY <1>1, ToSetNat
    <3>2. i \in 1 .. Len(s)
      BY <1>3
    <3> QED
      BY <1>1, <3>1, <3>2, ToSetNat
  <2>3. ASSUME NEW x \in ToSet(b) PROVE x \in ToSet(s)
    <3>1. PICK i \in 1 .. (Len(s) - k) : x = b[i]
      BY <1>2, ToSetNat
    <3>2. k + i \in 1 .. Len(s)
      BY <1>3
    <3> QED
      BY <1>2, <3>1, <3>2, ToSetNat
  <2> QED
    BY <2>1, <2>2, <2>3
<1>8. ASSUME NEW x \in ToSet(a), NEW y \in ToSet(b) PROVE x < y
  <2>1. PICK i \in 1 .. k : x = a[i]
    BY <1>1, ToSetNat
  <2>2. PICK j \in 1 .. (Len(s) - k) : y = b[j]
    BY <1>2, ToSetNat
  <2>3. i \in 1 .. Len(s) /\ k + j \in 1 .. Len(s) /\ i < k + j
    BY <1>3
  <2> QED
    BY <1>1, <1>2, <2>1, <2>2, <2>3 DEF Increasing
<1> QED
  BY <1>1, <1>2, <1>4, <1>5, <1>6, <1>7, <1>8 DEF a, b, Below

\* Two sequences, one after the other
LEMMA JoinSequences ==
    ASSUME NEW a \in Seq(Nat), NEW b \in Seq(Nat)
    PROVE  /\ a \o b \in Seq(Nat)
           /\ ToSet(a \o b) = ToSet(a) \cup ToSet(b)
           /\ Increasing(a) /\ Increasing(b) /\ Below(ToSet(a), ToSet(b)) => Increasing(a \o b)
<1> DEFINE s == a \o b
           m == Len(a)
           n == Len(b)
<1>1. /\ s \in Seq(Nat) /\ Len(s) = m + n /\ m \in Nat /\ n \in Nat
      /\ \A i \in 1 .. m : s[i] = a[i]
      /\ \A i \in 1 .. n : s[m + i] = b[i]
  OBVIOUS
<1> HIDE DEF s
<1>2. \A i \in 1 .. n : m + i \in 1 .. (m + n) /\ s[m + i] = b[i]
  <2> TAKE i \in 1 .. n
  <2>1. m + i \in 1 .. (m + n)
    BY <1>1
  <2> QED
    BY <1>1, <2>1
<1>3. \A i \in 1 .. (m + n) : i > m => i - m \in 1 .. n /\ s[i] = b[i - m]
  <2> TAKE i \in 1 .. (m + n)
  <2> HAVE i > m
  <2>1. i - m \in 1 .. n /\ m + (i - m) = i
    BY <1>1
  <2> QED
    BY <1>2, <2>1
<1>4. \A i \in 1 .. (m + n) : i <= m => i \in 1 .. m /\ s[i] = a[i]
  BY <1>1
<1>5. ToSet(s) = ToSet(a) \cup ToSet(b)
  <2>1. ASSUME NEW x \in ToSet(s) PROVE x \in ToSet(a) \cup ToSet(b)
    <3>1. PICK i \in 1 .. (m + n) : x = s[i]
      BY <1>1, ToSetNat
    <3>2. i <= m \/ i > m
      BY <1>1
    <3> QED
      BY <1>3, <1>4, <3>1, <3>2, ToSetNat
  <2>2. ASSUME NEW x \in ToSet(a) PROVE x \in ToSet(s)
    <3>1. PICK i \in 1 .. m : x = a[i]
      BY ToSetNat
    <3>2. i \in 1 .. (m + n)
      BY <1>1
    <3> QED
      BY <1>1, <3>1, <3>2, ToSetNat
  <2>3. ASSUME NEW x \in ToSet(b) PROVE x \in ToSet(s)
    <3>1. PICK i \in 1 .. n : x = b[i]
      BY ToSetNat
    <3> QED
      BY <1>1, <1>2, <3>1, ToSetNat
  <2> QED
    BY <2>1, <2>2, <2>3
<1>6. ASSUME Increasing(a), Increasing(b), Below(ToSet(a), ToSet(b)),
             NEW i \in 1 .. (m + n), NEW j \in 1 .. (m + n), i < j
      PROVE  s[i] < s[j]
  <2>1. CASE j <= m
    <3>1. i <= m
      BY <1>1, <1>6, <2>1
    <3> QED
      BY <1>4, <1>6, <2>1, <3>1 DEF Increasing
  <2>2. CASE i > m
    <3>1. j > m /\ i - m < j - m
      BY <1>1, <1>6, <2>2
    <3> QED
      BY <1>3, <1>6, <2>2, <3>1 DEF Increasing
  <2>3. CASE i <= m /\ j > m
    <3>1. s[i] \in ToSet(a) /\ s[j] \in ToSet(b)
      BY <1>3, <1>4, <2>3, ToSetNat
    <3> QED
      BY <1>6, <3>1 DEF Below
  <2> QED
    BY <1>1, <2>1, <2>2, <2>3, SMTT(40)
<1>7. Increasing(a) /\ Increasing(b) /\ Below(ToSet(a), ToSet(b)) => Increasing(s)
  BY <1>1, <1>6 DEF Increasing
<1> QED
  BY <1>1, <1>5, <1>7 DEF s

\* One number more
LEMMA OneMore ==
    ASSUME NEW a \in Seq(Nat), NEW n \in Nat
    PROVE  /\ Append(a, n) \in Seq(Nat)
           /\ ToSet(Append(a, n)) = ToSet(a) \cup {n}
           /\ Increasing(a) /\ Below(ToSet(a), {n}) => Increasing(Append(a, n))
<1>1. Append(a, n) = a \o <<n>> /\ <<n>> \in Seq(Nat)
  OBVIOUS
<1>2. ToSet(<<n>>) = {n} /\ Increasing(<<n>>)
  BY DEF ToSet, Increasing
<1> QED
  BY <1>1, <1>2, JoinSequences

\* The head of an increasing sequence and its tail
LEMMA FirstAndRest ==
    ASSUME NEW s \in Seq(Nat), s # <<>>, Increasing(s)
    PROVE  /\ Head(s) \in Nat /\ Tail(s) \in Seq(Nat)
           /\ ToSet(s) = {Head(s)} \cup ToSet(Tail(s))
           /\ Increasing(Tail(s)) /\ Below({Head(s)}, ToSet(Tail(s)))
<1> DEFINE t == Tail(s)
           n == Len(s)
<1>1. /\ t \in Seq(Nat) /\ n \in Nat /\ n > 0 /\ Len(t) = n - 1
      /\ Head(s) = s[1] /\ s[1] \in Nat
      /\ \A i \in 1 .. (n - 1) : t[i] = s[i + 1]
  OBVIOUS
<1> HIDE DEF t
<1>2. \A i \in 1 .. (n - 1) : i + 1 \in 1 .. n /\ t[i] = s[i + 1] /\ 1 < i + 1
  BY <1>1
<1>3. 1 \in 1 .. n
  BY <1>1
<1>4. ToSet(s) = {Head(s)} \cup ToSet(t)
  <2>1. ASSUME NEW x \in ToSet(s) PROVE x \in {Head(s)} \cup ToSet(t)
    <3>1. PICK i \in 1 .. n : x = s[i]
      BY ToSetNat
    <3>2. CASE i = 1
      BY <1>1, <3>1, <3>2
    <3>3. CASE i # 1
      <4>1. i - 1 \in 1 .. (n - 1) /\ (i - 1) + 1 = i
        BY <1>1, <3>3
      <4> QED
        BY <1>1, <3>1, <4>1, ToSetNat
    <3> QED
      BY <3>2, <3>3
  <2>2. ASSUME NEW x \in ToSet(t) PROVE x \in ToSet(s)
    <3>1. PICK i \in 1 .. (n - 1) : x = t[i]
      BY <1>1, ToSetNat
    <3> QED
      BY <1>2, <3>1, ToSetNat
  <2> QED
    BY <1>1, <1>3, <2>1, <2>2, ToSetNat
<1>5. Increasing(t)
  <2> SUFFICES ASSUME NEW i \in 1 .. (n - 1), NEW j \in 1 .. (n - 1), i < j PROVE t[i] < t[j]
    BY <1>1 DEF Increasing
  <2>1. i + 1 < j + 1
    BY <1>1
  <2> QED
    BY <1>2, <2>1 DEF Increasing
<1>6. ASSUME NEW y \in ToSet(t) PROVE Head(s) < y
  <2>1. PICK i \in 1 .. (n - 1) : y = t[i]
    BY <1>1, ToSetNat
  <2> QED
    BY <1>1, <1>2, <1>3, <2>1 DEF Increasing
<1> QED
  BY <1>1, <1>4, <1>5, <1>6 DEF t, Below

-----------------------------------------------------------------------------
(***************************************************************************)
(* The inductive invariant                                                 *)
(***************************************************************************)
NotifyTypeOK ==
    /\ socket \in Seq(Nat) /\ backlog \in Seq(Nat)
    /\ enabled \in BOOLEAN /\ handlers \in BOOLEAN
    /\ gen \in [at : {"off", "yielded", "waiting"}, d : Seq(Nat), batch : Seq(Nat),
                received : Nat, stop : Nat]
    /\ got \in [sent : Nat, yielded : Seq(Nat), handled : Seq(Nat)]
    /\ mixed \in [both : SUBSET Nat, abandoned : SUBSET Nat]

\* There is a backlog out of the generator only, and what the generator keeps
\* is from the backlog or from the server.
Phases ==
    /\ enabled <=> gen.at = "off"
    /\ gen.at # "off" => backlog = <<>>
    /\ gen.at # "yielded" => gen.d = <<>> /\ gen.batch = <<>>
    /\ gen.d = <<>> \/ gen.batch = <<>>

\* What has not come, what is kept, what the program got in each way
Coming == ToSet(socket)
Kept == ToSet(backlog) \cup ToSet(gen.d) \cup ToSet(gen.batch)
Yielded == ToSet(got.yielded)
Passed == ToSet(got.handled)

Sorted ==
    /\ Increasing(socket) /\ Increasing(backlog) /\ Increasing(gen.d) /\ Increasing(gen.batch)
    /\ Increasing(got.yielded)

\* One after the other
Apart ==
    /\ Below(Yielded, Kept) /\ Below(Yielded, Coming)
    /\ Below(Kept, Coming) /\ Below(Passed, Coming)

\* What the handlers got too is recorded
NotifyShared == (Yielded \cup Kept) \cap Passed \subseteq mixed.both

NotesKnown == 1 .. got.sent = Coming \cup Kept \cup Yielded \cup Passed \cup mixed.abandoned

NotifyIInv == NotifyTypeOK /\ Phases /\ Sorted /\ Apart /\ NotifyShared /\ NotesKnown

\* The invariant implies what the run checks
LEMMA Implied == NotifyIInv => NotifiedOnce
<1> SUFFICES ASSUME NotifyIInv PROVE NotifiedOnce
  OBVIOUS
<1>1. NoneLost /\ HandledOrYielded
  BY DEF NotifyIInv, NotesKnown, NotifyShared, Coming, Kept, Yielded, Passed, NoneLost, HandledOrYielded
<1>2. got.yielded \in Seq(Nat) /\ Increasing(got.yielded)
  BY DEF NotifyIInv, NotifyTypeOK, Sorted
<1>3. YieldedInOrder
  BY <1>2, SMTT(40) DEF YieldedInOrder, Increasing
<1> QED
  BY <1>1, <1>3 DEF NotifiedOnce

\* The fields of the generator, in a state of the types
LEMMA GenFields ==
    ASSUME NotifyTypeOK
    PROVE  /\ gen.at \in {"off", "yielded", "waiting"}
           /\ gen.d \in Seq(Nat) /\ gen.batch \in Seq(Nat)
           /\ gen.received \in Nat /\ gen.stop \in Nat
           /\ got.sent \in Nat /\ got.yielded \in Seq(Nat) /\ got.handled \in Seq(Nat)
           /\ mixed.both \in SUBSET Nat /\ mixed.abandoned \in SUBSET Nat
           /\ Coming \subseteq Nat /\ Kept \subseteq Nat /\ Yielded \subseteq Nat
           /\ Passed \subseteq Nat
  BY ToSetNat DEF NotifyTypeOK, Coming, Kept, Yielded, Passed

\* The generator that does not run
LEMMA OffFields ==
    /\ Off \in [at : {"off", "yielded", "waiting"}, d : Seq(Nat), batch : Seq(Nat),
                received : Nat, stop : Nat]
    /\ Off.at = "off" /\ Off.d = <<>> /\ Off.batch = <<>> /\ Off.received = 0 /\ Off.stop = 0
  BY EmptySequence DEF Off

\* The first state
LEMMA NotifyInitIInv == NotifyInit => NotifyIInv
<1> SUFFICES ASSUME NotifyInit PROVE NotifyIInv
  OBVIOUS
<1>1. NotifyTypeOK
  BY EmptySequence, OffFields DEF NotifyInit, NotifyTypeOK
<1>2. Phases
  BY OffFields DEF NotifyInit, Phases
<1>3. got.yielded = <<>> /\ got.handled = <<>> /\ got.sent = 0
      /\ gen.d = <<>> /\ gen.batch = <<>> /\ backlog = <<>> /\ socket = <<>>
      /\ mixed.abandoned = {}
  BY OffFields DEF NotifyInit
<1>4. Sorted /\ Coming = {} /\ Kept = {} /\ Yielded = {} /\ Passed = {}
  BY <1>3, EmptySequence DEF Sorted, Coming, Kept, Yielded, Passed
<1>5. 1 .. 0 = {}
  OBVIOUS
<1>6. Apart /\ NotifyShared /\ NotesKnown
  BY <1>3, <1>4, <1>5 DEF Apart, Below, NotifyShared, NotesKnown
<1> QED
  BY <1>1, <1>2, <1>4, <1>6 DEF NotifyIInv

-----------------------------------------------------------------------------
\* A notification is sent, the handlers change
LEMMA ServerStep == NotifyIInv /\ (ServerNotify \/ AddHandler \/ RemoveHandler) => NotifyIInv'
<1> SUFFICES ASSUME NotifyIInv, ServerNotify \/ AddHandler \/ RemoveHandler PROVE NotifyIInv'
  OBVIOUS
<1>1. NotifyTypeOK /\ Phases /\ Sorted /\ Apart /\ NotifyShared /\ NotesKnown
  BY DEF NotifyIInv
<1>2. CASE ServerNotify
  <2> DEFINE n == got.sent + 1
  <2>1. /\ UNCHANGED <<backlog, enabled, handlers, gen, mixed>>
        /\ socket' = Append(socket, n)
        /\ got' = [got EXCEPT !.sent = n]
    BY <1>1, <1>2 DEF ServerNotify, NotifyTypeOK
  <2>2. n \in Nat /\ socket \in Seq(Nat) /\ got.sent \in Nat
    BY <1>1, GenFields DEF NotifyTypeOK
  <2>3. 1 .. n = (1 .. got.sent) \cup {n} /\ \A x \in 1 .. got.sent : x < n
    BY <2>2
  <2> HIDE DEF n
  <2>4. Below(Coming \cup Kept \cup Yielded \cup Passed, {n})
    BY <1>1, <2>3 DEF NotesKnown, Below
  <2>5. /\ socket' \in Seq(Nat) /\ Increasing(socket')
        /\ Coming' = Coming \cup {n}
    BY <1>1, <2>1, <2>2, <2>4, OneMore DEF Coming, Sorted, Below
  <2>6. NotifyTypeOK' /\ got'.sent = n /\ got'.yielded = got.yielded /\ got'.handled = got.handled
    BY <1>1, <2>1, <2>2, <2>5 DEF NotifyTypeOK
  <2>7. Kept' = Kept /\ Yielded' = Yielded /\ Passed' = Passed
    BY <2>1, <2>6 DEF Kept, Yielded, Passed
  <2>8. Phases' /\ Sorted'
    BY <1>1, <2>1, <2>5, <2>6 DEF Phases, Sorted
  <2>9. Apart' /\ NotifyShared' /\ NotesKnown'
    BY <1>1, <2>1, <2>3, <2>4, <2>5, <2>6, <2>7 DEF Apart, NotifyShared, NotesKnown, Below
  <2> QED
    BY <2>6, <2>8, <2>9 DEF NotifyIInv
<1>3. CASE AddHandler \/ RemoveHandler
  <2>1. UNCHANGED <<socket, backlog, enabled, gen, got, mixed>> /\ handlers' \in BOOLEAN
    BY <1>3 DEF AddHandler, RemoveHandler
  <2>2. Coming' = Coming /\ Kept' = Kept /\ Yielded' = Yielded /\ Passed' = Passed
    BY <2>1 DEF Coming, Kept, Yielded, Passed
  <2> QED
    BY <1>1, <2>1, <2>2 DEF NotifyIInv, NotifyTypeOK, Phases, Sorted, Apart, NotifyShared, NotesKnown
<1> QED
  BY <1>2, <1>3

\* The first k notifications are received
LEMMA Received ==
    ASSUME NotifyIInv, NEW k \in 0 .. Len(socket)
    PROVE  LET ns == SubSeq(socket, 1, k)
               left == SubSeq(socket, k + 1, Len(socket))
           IN  /\ ns \in Seq(Nat) /\ left \in Seq(Nat)
               /\ Increasing(ns) /\ Increasing(left)
               /\ Coming = ToSet(ns) \cup ToSet(left)
               /\ Below(ToSet(ns), ToSet(left))
               /\ k # 0 => ns # <<>>
               /\ ToSet(ns) \subseteq Nat
<1>1. socket \in Seq(Nat) /\ Increasing(socket)
  BY DEF NotifyIInv, NotifyTypeOK, Sorted
<1> DEFINE ns == SubSeq(socket, 1, k)
<1>2. ns \in Seq(Nat)
  BY <1>1
<1> HIDE DEF ns
<1>3. ToSet(ns) \subseteq Nat
  BY <1>2, ToSetNat
<1> QED
  BY <1>1, <1>3, SplitSequence DEF ns, Coming

\* With a query
LEMMA NotifyQueryStep == NotifyIInv /\ (\E k \in 1 .. MaxNotifies : QueryNotifies(k)) => NotifyIInv'
<1> SUFFICES ASSUME NotifyIInv, NEW k \in 1 .. MaxNotifies, QueryNotifies(k) PROVE NotifyIInv'
  OBVIOUS
<1> DEFINE ns == SubSeq(socket, 1, k)
<1>1. NotifyTypeOK /\ Phases /\ Sorted /\ Apart /\ NotifyShared /\ NotesKnown
  BY DEF NotifyIInv
<1>2. /\ UNCHANGED <<enabled, handlers, gen, mixed>> /\ gen.at = "off"
      /\ k \in 0 .. Len(socket)
      /\ socket' = SubSeq(socket, k + 1, Len(socket))
      /\ got' = IF handlers THEN [got EXCEPT !.handled = @ \o ns] ELSE got
      /\ backlog' = IF ~handlers /\ enabled THEN backlog \o ns ELSE backlog
  BY <1>1 DEF QueryNotifies, Handled, NotifyTypeOK
<1>3. /\ ns \in Seq(Nat) /\ socket' \in Seq(Nat)
      /\ Increasing(ns) /\ Increasing(socket')
      /\ Coming = ToSet(ns) \cup Coming'
      /\ Below(ToSet(ns), Coming')
  BY <1>2, Received DEF Coming
<1>4. /\ backlog \in Seq(Nat) /\ got.handled \in Seq(Nat)
      /\ ToSet(backlog) \subseteq Kept /\ gen.d = <<>> /\ gen.batch = <<>> /\ enabled
      /\ Increasing(backlog) /\ Kept = ToSet(backlog)
  BY <1>1, <1>2, GenFields, EmptySequence DEF NotifyTypeOK, Kept, Phases, Sorted
<1> HIDE DEF ns
<1>5. CASE handlers
  <2>1. /\ got' = [got EXCEPT !.handled = got.handled \o ns] /\ backlog' = backlog
    BY <1>2, <1>5
  <2>2. /\ got.handled \o ns \in Seq(Nat)
        /\ ToSet(got.handled \o ns) = Passed \cup ToSet(ns)
    BY <1>3, <1>4, JoinSequences DEF Passed
  <2>3. NotifyTypeOK' /\ got'.yielded = got.yielded /\ got'.sent = got.sent
        /\ Passed' = Passed \cup ToSet(ns)
    BY <1>1, <1>2, <1>3, <2>1, <2>2 DEF NotifyTypeOK, Passed
  <2>4. Kept' = Kept /\ Yielded' = Yielded
    BY <1>2, <2>1, <2>3 DEF Kept, Yielded
  <2>5. Phases' /\ Sorted'
    BY <1>1, <1>2, <1>3, <2>1, <2>3 DEF Phases, Sorted
  <2>6. Apart' /\ NotesKnown'
    BY <1>1, <1>2, <1>3, <2>3, <2>4 DEF Apart, NotesKnown, Below
  <2>7. ToSet(ns) \cap (Yielded \cup Kept) = {}
    BY <1>1, <1>3, GenFields DEF Apart, Below
  <2>8. NotifyShared'
    BY <1>1, <1>2, <2>3, <2>4, <2>7 DEF NotifyShared
  <2> QED
    BY <2>3, <2>5, <2>6, <2>8 DEF NotifyIInv
<1>6. CASE ~handlers
  <2>1. got' = got /\ backlog' = backlog \o ns
    BY <1>2, <1>4, <1>6
  <2>2. Below(ToSet(backlog), ToSet(ns))
    BY <1>1, <1>3, <1>4 DEF Apart, Below
  <2>3. /\ backlog' \in Seq(Nat) /\ Increasing(backlog')
        /\ ToSet(backlog') = ToSet(backlog) \cup ToSet(ns)
    BY <1>3, <1>4, <2>1, <2>2, JoinSequences
  <2>4. Kept' = Kept \cup ToSet(ns) /\ Yielded' = Yielded /\ Passed' = Passed
    BY <1>2, <2>1, <2>3 DEF Kept, Yielded, Passed
  <2>5. NotifyTypeOK' /\ Phases' /\ Sorted'
    BY <1>1, <1>2, <1>3, <2>1, <2>3 DEF NotifyTypeOK, Phases, Sorted
  <2>6. Apart' /\ NotesKnown'
    BY <1>1, <1>2, <1>3, <2>1, <2>4 DEF Apart, NotesKnown, Below
  <2>7. ToSet(ns) \cap Passed = {}
    BY <1>1, <1>3, GenFields DEF Apart, Below
  <2>8. NotifyShared'
    BY <1>1, <1>2, <2>4, <2>7 DEF NotifyShared
  <2> QED
    BY <2>5, <2>6, <2>8 DEF NotifyIInv
<1> QED
  BY <1>5, <1>6

-----------------------------------------------------------------------------
\* The generator ends, with what is left of the backlog and of the batch
LEMMA OffStep ==
    ASSUME NotifyIInv, gen.at # "off", GenOff, UNCHANGED <<socket, handlers, got>>,
           mixed' = [mixed EXCEPT !.abandoned = @ \cup ToSet(gen.batch)]
    PROVE  NotifyIInv'
<1>1. NotifyTypeOK /\ Phases /\ Sorted /\ Apart /\ NotifyShared /\ NotesKnown
  BY DEF NotifyIInv
<1>2. gen' = Off /\ enabled' = TRUE /\ backlog' = gen.d
  BY DEF GenOff
<1>3. gen.d \in Seq(Nat) /\ ToSet(gen.batch) \subseteq Nat /\ backlog = <<>>
  BY <1>1, GenFields, ToSetNat DEF Phases
<1>4. /\ mixed' \in [both : SUBSET Nat, abandoned : SUBSET Nat]
      /\ mixed'.both = mixed.both /\ mixed'.abandoned = mixed.abandoned \cup ToSet(gen.batch)
  BY <1>1, <1>3 DEF NotifyTypeOK
<1>5. gen'.at = "off" /\ gen'.d = <<>> /\ gen'.batch = <<>>
  BY <1>2, OffFields
<1>6. Kept = ToSet(gen.d) \cup ToSet(gen.batch) /\ Kept' = ToSet(gen.d)
  BY <1>2, <1>3, <1>5, EmptySequence DEF Kept
<1>7. Coming' = Coming /\ Yielded' = Yielded /\ Passed' = Passed
  BY DEF Coming, Yielded, Passed
<1>8. NotifyTypeOK'
  BY <1>1, <1>2, <1>3, <1>4, OffFields DEF NotifyTypeOK
<1>9. Phases' /\ Sorted'
  BY <1>1, <1>2, <1>5, EmptySequence DEF Phases, Sorted
<1>10. Apart' /\ NotifyShared'
  BY <1>1, <1>4, <1>6, <1>7 DEF Apart, Below, NotifyShared
<1>11. NotesKnown'
  BY <1>1, <1>4, <1>6, <1>7 DEF NotesKnown
<1> QED
  BY <1>8, <1>9, <1>10, <1>11 DEF NotifyIInv

\* One of the sequences, s, with all that is kept, gives its first to the program
LEMMA YieldStep ==
    ASSUME NotifyIInv, NEW s \in Seq(Nat), s # <<>>, Increasing(s), Kept = ToSet(s),
           got' = [got EXCEPT !.yielded = Append(@, Head(s))],
           gen' \in [at : {"off", "yielded", "waiting"}, d : Seq(Nat), batch : Seq(Nat),
                     received : Nat, stop : Nat],
           gen'.at = "yielded", backlog' = <<>>, enabled' = FALSE,
           \/ gen'.d = Tail(s) /\ gen'.batch = <<>>
           \/ gen'.d = <<>> /\ gen'.batch = Tail(s),
           UNCHANGED <<socket, handlers, mixed>>
    PROVE  NotifyIInv'
<1>1. NotifyTypeOK /\ Phases /\ Sorted /\ Apart /\ NotifyShared /\ NotesKnown
  BY DEF NotifyIInv
<1> DEFINE h == Head(s)
           t == Tail(s)
<1>2. /\ h \in Nat /\ t \in Seq(Nat) /\ ToSet(s) = {h} \cup ToSet(t)
      /\ Increasing(t) /\ Below({h}, ToSet(t))
  BY FirstAndRest
<1>3. got.yielded \in Seq(Nat) /\ Increasing(got.yielded) /\ Below(Yielded, {h})
  BY <1>1, <1>2, GenFields DEF Sorted, Apart, Below
<1> HIDE DEF h, t
<1>4. /\ Append(got.yielded, h) \in Seq(Nat) /\ Increasing(Append(got.yielded, h))
      /\ ToSet(Append(got.yielded, h)) = Yielded \cup {h}
  BY <1>2, <1>3, OneMore DEF Yielded
<1>5. got' = [got EXCEPT !.yielded = Append(got.yielded, h)]
  BY DEF h
<1>6. /\ got' \in [sent : Nat, yielded : Seq(Nat), handled : Seq(Nat)]
      /\ got'.yielded = Append(got.yielded, h)
      /\ got'.handled = got.handled /\ got'.sent = got.sent
  BY <1>1, <1>4, <1>5 DEF NotifyTypeOK
<1>7. \/ gen'.d = t /\ gen'.batch = <<>>
      \/ gen'.d = <<>> /\ gen'.batch = t
  BY DEF t
<1>8. Kept' = ToSet(t)
  BY <1>7, EmptySequence DEF Kept
<1>9. Coming' = Coming /\ Yielded' = Yielded \cup {h} /\ Passed' = Passed
  BY <1>4, <1>6 DEF Coming, Yielded, Passed
<1>10. NotifyTypeOK'
  BY <1>1, <1>6, EmptySequence DEF NotifyTypeOK
<1>11. Phases' /\ Sorted'
  BY <1>1, <1>2, <1>4, <1>6, <1>7, EmptySequence DEF Phases, Sorted
<1>12. Apart' /\ NotifyShared' /\ NotesKnown'
  BY <1>1, <1>2, <1>6, <1>8, <1>9 DEF Apart, Below, NotifyShared, NotesKnown
<1> QED
  BY <1>10, <1>11, <1>12 DEF NotifyIInv

\* The generator waits, with nothing to give
LEMMA NotifyWaitStep ==
    ASSUME NotifyIInv, Kept = {},
           gen' \in [at : {"off", "yielded", "waiting"}, d : Seq(Nat), batch : Seq(Nat),
                     received : Nat, stop : Nat],
           gen'.at = "waiting", gen'.d = <<>>, gen'.batch = <<>>,
           backlog' = <<>>, enabled' = FALSE,
           UNCHANGED <<socket, handlers, got, mixed>>
    PROVE  NotifyIInv'
<1>1. NotifyTypeOK /\ Phases /\ Sorted /\ Apart /\ NotifyShared /\ NotesKnown
  BY DEF NotifyIInv
<1>2. Coming' = Coming /\ Kept' = Kept /\ Yielded' = Yielded /\ Passed' = Passed
  BY EmptySequence DEF Coming, Kept, Yielded, Passed
<1>3. NotifyTypeOK' /\ Phases' /\ Sorted'
  BY <1>1, EmptySequence DEF NotifyTypeOK, Phases, Sorted
<1>4. Apart' /\ NotifyShared' /\ NotesKnown'
  BY <1>1, <1>2 DEF Apart, NotifyShared, NotesKnown
<1> QED
  BY <1>3, <1>4 DEF NotifyIInv

\* A generator starts, and takes the backlog
LEMMA StartStep == NotifyIInv /\ (\E stop \in StopAfter : GenStart(stop)) => NotifyIInv'
<1> SUFFICES ASSUME NotifyIInv, NEW stop \in StopAfter, GenStart(stop) PROVE NotifyIInv'
  OBVIOUS
<1>1. NotifyTypeOK /\ Phases /\ Sorted
  BY DEF NotifyIInv
<1>2. stop \in Nat
  BY NotifiesAssumption
<1>3. /\ gen.at = "off" /\ enabled' = FALSE /\ backlog' = <<>>
      /\ UNCHANGED <<socket, handlers, mixed>>
  BY DEF GenStart
<1>4. backlog \in Seq(Nat) /\ Increasing(backlog) /\ Kept = ToSet(backlog)
  BY <1>1, <1>3, EmptySequence DEF NotifyTypeOK, Sorted, Phases, Kept
<1>5. CASE backlog = <<>>
  <2>1. gen' = [at |-> "waiting", d |-> <<>>, batch |-> <<>>, received |-> 0, stop |-> stop]
        /\ UNCHANGED got
    BY <1>5 DEF GenStart, Off
  <2>2. Kept = {}
    BY <1>4, <1>5, EmptySequence
  <2>3. /\ gen' \in [at : {"off", "yielded", "waiting"}, d : Seq(Nat), batch : Seq(Nat),
                     received : Nat, stop : Nat]
        /\ gen'.at = "waiting" /\ gen'.d = <<>> /\ gen'.batch = <<>>
    BY <1>2, <2>1, EmptySequence
  <2> QED
    BY <1>3, <2>1, <2>2, <2>3, NotifyWaitStep
<1>6. CASE backlog # <<>>
  <2>1. /\ gen' = [at |-> "yielded", d |-> Tail(backlog), batch |-> <<>>, received |-> 0,
                   stop |-> stop]
        /\ got' = [got EXCEPT !.yielded = Append(@, Head(backlog))]
    BY <1>6 DEF GenStart, Off
  <2>2. Tail(backlog) \in Seq(Nat)
    BY <1>4, <1>6, FirstAndRest
  <2>3. /\ gen' \in [at : {"off", "yielded", "waiting"}, d : Seq(Nat), batch : Seq(Nat),
                     received : Nat, stop : Nat]
        /\ gen'.at = "yielded" /\ gen'.d = Tail(backlog) /\ gen'.batch = <<>>
    BY <1>2, <2>1, <2>2, EmptySequence
  <2> QED
    BY <1>3, <1>4, <1>6, <2>1, <2>3, YieldStep
<1> QED
  BY <1>5, <1>6

\* The generator is asked for the next notification
LEMMA ResumeStep ==
    ASSUME NotifyIInv, NEW expired \in BOOLEAN, GenResume(expired)
    PROVE  NotifyIInv'
<1>1. NotifyTypeOK /\ Phases /\ Sorted
  BY DEF NotifyIInv
<1> DEFINE more == gen.received + 1
           left == IF gen.d # <<>> THEN gen.d ELSE gen.batch
<1>2. /\ gen.at = "yielded" /\ backlog = <<>> /\ enabled = FALSE
      /\ UNCHANGED <<socket, handlers, mixed>>
      /\ more \in Nat
  BY <1>1, GenFields DEF GenResume, Phases, NotifyTypeOK
<1>3. left \in Seq(Nat) /\ Increasing(left) /\ Kept = ToSet(left)
  BY <1>1, <1>2, GenFields, EmptySequence DEF Sorted, Phases, Kept
<1> DEFINE g == [gen EXCEPT !.received = more]
<1>4. /\ g \in [at : {"off", "yielded", "waiting"}, d : Seq(Nat), batch : Seq(Nat),
                received : Nat, stop : Nat]
      /\ g.at = "yielded" /\ g.d = gen.d /\ g.batch = gen.batch
  BY <1>1, <1>2 DEF NotifyTypeOK
<1>5. CASE left # <<>>
  <2>1. /\ got' = [got EXCEPT !.yielded = Append(@, Head(left))]
        /\ gen' = IF gen.d # <<>> THEN [g EXCEPT !.d = Tail(@)] ELSE [g EXCEPT !.batch = Tail(@)]
        /\ UNCHANGED <<backlog, enabled>>
    BY <1>4, <1>5 DEF GenResume
  <2> HIDE DEF g, more
  <2>2. Tail(left) \in Seq(Nat)
    BY <1>3, <1>5, FirstAndRest
  <2>3. CASE gen.d # <<>>
    <3>1. left = gen.d /\ gen.batch = <<>> /\ gen' = [g EXCEPT !.d = Tail(left)]
      BY <1>1, <1>4, <2>1, <2>3 DEF Phases
    <3>2. /\ gen' \in [at : {"off", "yielded", "waiting"}, d : Seq(Nat), batch : Seq(Nat),
                       received : Nat, stop : Nat]
          /\ gen'.at = "yielded" /\ gen'.d = Tail(left) /\ gen'.batch = <<>>
      BY <1>4, <2>2, <3>1
    <3> HIDE DEF left
    <3> QED
      BY <1>2, <1>3, <1>5, <2>1, <3>2, YieldStep
  <2>4. CASE gen.d = <<>>
    <3>1. left = gen.batch /\ gen' = [g EXCEPT !.batch = Tail(left)]
      BY <1>4, <2>1, <2>4
    <3>2. /\ gen' \in [at : {"off", "yielded", "waiting"}, d : Seq(Nat), batch : Seq(Nat),
                       received : Nat, stop : Nat]
          /\ gen'.at = "yielded" /\ gen'.d = <<>> /\ gen'.batch = Tail(left)
      BY <1>4, <2>2, <2>4, <3>1
    <3> HIDE DEF left
    <3> QED
      BY <1>2, <1>3, <1>5, <2>1, <3>2, YieldStep
  <2> QED
    BY <2>3, <2>4
<1>6. CASE left = <<>>
  <2>1. gen.d = <<>> /\ gen.batch = <<>> /\ Kept = {} /\ UNCHANGED got
    BY <1>3, <1>6, EmptySequence DEF GenResume
  <2>2. CASE GenOff
    <3>1. mixed' = [mixed EXCEPT !.abandoned = @ \cup ToSet(gen.batch)]
      BY <1>1, <1>2, <2>1, EmptySequence DEF NotifyTypeOK
    <3> QED
      BY <1>2, <2>1, <2>2, <3>1, OffStep
  <2>3. CASE ~GenOff
    <3>1. gen' = [g EXCEPT !.at = "waiting"] /\ UNCHANGED <<backlog, enabled>>
      BY <1>6, <2>3 DEF GenResume
    <3> HIDE DEF g
    <3>2. /\ gen' \in [at : {"off", "yielded", "waiting"}, d : Seq(Nat), batch : Seq(Nat),
                       received : Nat, stop : Nat]
          /\ gen'.at = "waiting" /\ gen'.d = <<>> /\ gen'.batch = <<>>
      BY <1>4, <2>1, <3>1
    <3> QED
      BY <1>2, <2>1, <3>1, <3>2, NotifyWaitStep
  <2> QED
    BY <2>2, <2>3
<1> QED
  BY <1>5, <1>6

\* A batch is received, or the wait is over
LEMMA ReceiveStep ==
    ASSUME NotifyIInv, NEW k \in 0 .. MaxNotifies, NEW expired \in BOOLEAN, GenReceive(k, expired)
    PROVE  NotifyIInv'
<1>1. NotifyTypeOK /\ Phases /\ Sorted /\ Apart /\ NotifyShared /\ NotesKnown
  BY DEF NotifyIInv
<1> DEFINE ns == SubSeq(socket, 1, k)
<1>2. /\ gen.at = "waiting" /\ k \in 0 .. Len(socket)
      /\ socket' = SubSeq(socket, k + 1, Len(socket))
      /\ backlog = <<>> /\ enabled = FALSE /\ gen.d = <<>> /\ gen.batch = <<>>
      /\ UNCHANGED handlers
  BY <1>1 DEF GenReceive, Phases, NotifyTypeOK
<1>3. Kept = {}
  BY <1>2, EmptySequence DEF Kept
<1>4. CASE k = 0
  <2>1. socket' = socket /\ UNCHANGED <<got, mixed>>
    BY <1>1, <1>2, <1>4 DEF GenReceive, NotifyTypeOK
  <2>2. CASE GenOff
    <3>1. mixed' = [mixed EXCEPT !.abandoned = @ \cup ToSet(gen.batch)]
      BY <1>1, <1>2, <2>1, EmptySequence DEF NotifyTypeOK
    <3> QED
      BY <1>2, <2>1, <2>2, <3>1, OffStep
  <2>3. CASE ~GenOff
    <3>1. UNCHANGED <<gen, backlog, enabled>>
      BY <1>4, <2>3 DEF GenReceive
    <3> QED
      BY <1>1, <1>2, <1>3, <2>1, <3>1, NotifyWaitStep DEF NotifyTypeOK
  <2> QED
    BY <2>2, <2>3
<1>5. CASE k # 0
  <2>1. /\ ns \in Seq(Nat) /\ ns # <<>> /\ socket' \in Seq(Nat)
        /\ Increasing(ns) /\ Increasing(socket')
        /\ Coming = ToSet(ns) \cup Coming'
        /\ Below(ToSet(ns), Coming') /\ ToSet(ns) \subseteq Nat
    BY <1>2, <1>5, Received DEF Coming
  <2>2. /\ gen' = [gen EXCEPT !.at = "yielded", !.batch = Tail(ns)]
        /\ got' = [got EXCEPT !.yielded = Append(got.yielded, Head(ns)),
                              !.handled = IF handlers THEN got.handled \o ns ELSE got.handled]
        /\ mixed' = IF handlers THEN [mixed EXCEPT !.both = mixed.both \cup ToSet(ns)]
                    ELSE mixed
        /\ backlog' = <<>> /\ enabled' = FALSE
    BY <1>2, <1>5 DEF GenReceive
  <2> HIDE DEF ns
  <2> DEFINE h == Head(ns)
             t == Tail(ns)
             y == Append(got.yielded, h)
             p == IF handlers THEN got.handled \o ns ELSE got.handled
             b == IF handlers THEN mixed.both \cup ToSet(ns) ELSE mixed.both
  <2>3. /\ h \in Nat /\ t \in Seq(Nat) /\ ToSet(ns) = {h} \cup ToSet(t)
        /\ Increasing(t) /\ Below({h}, ToSet(t))
    BY <2>1, FirstAndRest
  <2> HIDE DEF h, t
  <2>4. h \in ToSet(ns) /\ h \in Coming
    BY <2>1, <2>3
  <2>5. got.yielded \in Seq(Nat) /\ Increasing(got.yielded) /\ Below(Yielded, {h})
    BY <1>1, <2>4, GenFields DEF Sorted, Apart, Below
  <2>6. y \in Seq(Nat) /\ Increasing(y) /\ ToSet(y) = Yielded \cup {h}
    BY <2>3, <2>5, OneMore DEF Yielded
  <2>7. /\ p \in Seq(Nat)
        /\ ToSet(p) = IF handlers THEN Passed \cup ToSet(ns) ELSE Passed
    BY <1>1, <2>1, GenFields, JoinSequences DEF Passed, NotifyTypeOK
  <2> HIDE DEF y, p
  <2>8. /\ got' \in [sent : Nat, yielded : Seq(Nat), handled : Seq(Nat)]
        /\ got'.yielded = y /\ got'.handled = p /\ got'.sent = got.sent
    <3>1. got' = [got EXCEPT !.yielded = y, !.handled = p]
      BY <2>2 DEF y, p, h
    <3> QED
      BY <1>1, <2>6, <2>7, <3>1 DEF NotifyTypeOK
  <2>9. /\ gen' \in [at : {"off", "yielded", "waiting"}, d : Seq(Nat), batch : Seq(Nat),
                     received : Nat, stop : Nat]
        /\ gen'.at = "yielded" /\ gen'.d = <<>> /\ gen'.batch = t
    <3>1. gen' = [gen EXCEPT !.at = "yielded", !.batch = t]
      BY <2>2 DEF t
    <3> QED
      BY <1>1, <1>2, <2>3, <3>1 DEF NotifyTypeOK
  <2>10. /\ mixed' \in [both : SUBSET Nat, abandoned : SUBSET Nat]
         /\ mixed'.both = b /\ mixed'.abandoned = mixed.abandoned
    BY <1>1, <2>1, <2>2 DEF NotifyTypeOK
  <2>11. /\ Kept' = ToSet(t) /\ Yielded' = Yielded \cup {h}
         /\ Passed' = IF handlers THEN Passed \cup ToSet(ns) ELSE Passed
    BY <2>2, <2>6, <2>7, <2>8, <2>9, EmptySequence DEF Kept, Yielded, Passed
  <2>12. NotifyTypeOK'
    BY <1>1, <1>2, <2>1, <2>2, <2>8, <2>9, <2>10, EmptySequence DEF NotifyTypeOK
  <2>13. Phases' /\ Sorted'
    BY <2>1, <2>2, <2>3, <2>6, <2>8, <2>9, EmptySequence DEF Phases, Sorted
  <2>14. Apart'
    BY <1>1, <2>1, <2>3, <2>4, <2>11 DEF Apart, Below
  <2>15. NotesKnown'
    BY <1>1, <1>3, <2>1, <2>3, <2>8, <2>10, <2>11 DEF NotesKnown
  <2>16. ToSet(ns) \cap Passed = {} /\ Yielded \cap ToSet(ns) = {}
    BY <1>1, <2>1, GenFields DEF Apart, Below
  <2>17. NotifyShared'
    BY <1>1, <1>3, <2>3, <2>10, <2>11, <2>16 DEF NotifyShared
  <2> QED
    BY <2>12, <2>13, <2>14, <2>15, <2>17 DEF NotifyIInv
<1> QED
  BY <1>4, <1>5

\* close() or an interruption
LEMMA NotifyEndStep == NotifyIInv /\ (GenClose \/ GenInterrupted) => NotifyIInv'
<1> SUFFICES ASSUME NotifyIInv, GenClose \/ GenInterrupted PROVE NotifyIInv'
  OBVIOUS
<1>1. CASE GenClose
  BY <1>1, OffStep DEF GenClose
<1>2. CASE GenInterrupted
  <2>1. gen.batch = <<>> /\ mixed \in [both : SUBSET Nat, abandoned : SUBSET Nat]
    BY <1>2 DEF NotifyIInv, Phases, NotifyTypeOK, GenInterrupted
  <2>2. mixed' = [mixed EXCEPT !.abandoned = @ \cup ToSet(gen.batch)]
    BY <1>2, <2>1, EmptySequence DEF GenInterrupted
  <2> QED
    BY <1>2, <2>2, OffStep DEF GenInterrupted
<1> QED
  BY <1>1, <1>2

\* Every step of the notifications keeps the invariant
LEMMA NotifyStepIInv == NotifyIInv /\ [NotifyNext]_notifyVars => NotifyIInv'
<1> SUFFICES ASSUME NotifyIInv, [NotifyNext]_notifyVars PROVE NotifyIInv'
  OBVIOUS
<1>1. CASE ServerNotify \/ AddHandler \/ RemoveHandler
  BY <1>1, ServerStep
<1>2. CASE \E k \in 1 .. MaxNotifies : QueryNotifies(k)
  BY <1>2, NotifyQueryStep
<1>3. CASE \E stop \in StopAfter : GenStart(stop)
  BY <1>3, StartStep
<1>4. CASE \E expired \in BOOLEAN : GenResume(expired)
  BY <1>4, ResumeStep
<1>5. CASE \E expired \in BOOLEAN : \E k \in 0 .. MaxNotifies : GenReceive(k, expired)
  BY <1>5, ReceiveStep
<1>6. CASE GenClose \/ GenInterrupted
  BY <1>6, NotifyEndStep
<1>7. CASE UNCHANGED notifyVars
  <2>1. UNCHANGED <<socket, backlog, enabled, handlers, gen, got, mixed>>
    BY <1>7 DEF notifyVars
  <2>2. Coming' = Coming /\ Kept' = Kept /\ Yielded' = Yielded /\ Passed' = Passed
    BY <2>1 DEF Coming, Kept, Yielded, Passed
  <2> QED
    BY <2>1, <2>2 DEF NotifyIInv, NotifyTypeOK, Phases, Sorted, Apart, NotifyShared, NotesKnown
<1> QED
  BY <1>1, <1>2, <1>3, <1>4, <1>5, <1>6, <1>7 DEF NotifyNext

(***************************************************************************)
(* However many notifications are sent and however they come, with the     *)
(* results of queries or while the generator waits, whenever handlers and  *)
(* generators come and go, each is delivered once and in order             *)
(* (connection.py:365-434).                                                *)
(***************************************************************************)
THEOREM NotificationsCorrect == NotifySpec => []NotifiedOnce
<1>1. NotifySpec => []NotifyIInv
  BY NotifyInitIInv, NotifyStepIInv, PTL DEF NotifySpec
<1> QED
  BY <1>1, Implied, PTL
=============================================================================
