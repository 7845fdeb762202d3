------------------------------- MODULE Prepared -------------------------------
(***************************************************************************)
(* The cache of prepared statements (psycopg/_preparing.py).               *)
(*                                                                         *)
(* A cache is a record with the two ordered dictionaries _counts and       *)
(* _names, the counter for the statement names and the list of statements  *)
(* to deallocate.  A dictionary is the sequence of its items, oldest       *)
(* first.  A key stands for a query and its types; a name is its number.   *)
(***************************************************************************)
EXTENDS Integers, Sequences

CONSTANTS
    Threshold,          \* prepare_threshold (not None)
    PreparedMax,        \* prepared_max
    All                 \* None in _to_flush: DEALLOCATE ALL

ASSUME PreparedAssumption ==
    Threshold \in Nat /\ PreparedMax \in Nat /\ All \notin Nat

-----------------------------------------------------------------------------
(* Ordered dictionaries *)

Keys(d) == {d[i].key : i \in DOMAIN d}
Values(d) == {d[i].val : i \in DOMAIN d}

At(d, k) == d[CHOOSE i \in DOMAIN d : d[i].key = k].val

Without(d, k) ==
    IF k \notin Keys(d) THEN d
    ELSE LET i == CHOOSE j \in DOMAIN d : d[j].key = k
         IN  SubSeq(d, 1, i - 1) \o SubSeq(d, i + 1, Len(d))

\* Set the value of a key, as the most recent item
Put(d, k, v) == Append(Without(d, k), [key |-> k, val |-> v])

-----------------------------------------------------------------------------
NewCache == [counts |-> <<>>, names |-> <<>>, idx |-> 0, flush |-> <<>>]

\* get(): is the query to be executed unprepared, as prepared already, or is it
\* to be prepared now?  flag is the argument prepare
Get(p, k, flag) ==
    CASE flag = "never" -> "no"
      [] flag # "never" /\ k \in Keys(p.names) -> "yes"
      [] OTHER -> IF flag = "always" \/ Threshold = 0
                     \/ (k \in Keys(p.counts) /\ At(p.counts, k) >= Threshold)
                  THEN "should" ELSE "no"

\* ... and the name of its statement
NameOf(p, k, prep) ==
    CASE prep = "yes" -> At(p.names, k)
      [] prep = "should" -> p.idx
      [] OTHER -> All

\* ... a new name is used up, whatever becomes of it
NextName(p, prep) == IF prep = "should" THEN [p EXCEPT !.idx = @ + 1] ELSE p

\* maybe_add_to_cache() returns the key if it is a new one
IsNew(p, k) == k \notin Keys(p.counts) /\ k \notin Keys(p.names)

\* A count is compared with the threshold only: it stops there
Counted(p, k) ==
    LET n == IF k \in Keys(p.counts) THEN At(p.counts, k) ELSE 0
    IN  IF n < Threshold THEN n + 1 ELSE n

\* maybe_add_to_cache()
MaybeAdd(p, k, prep, name) ==
    IF prep = "should"
    THEN [p EXCEPT !.counts = Without(@, k), !.names = Put(@, k, name)]
    ELSE IF k \in Keys(p.names) \ Keys(p.counts)
    THEN [p EXCEPT !.names = Put(@, k, At(@, k))]
    ELSE [p EXCEPT !.counts = Put(@, k, Counted(p, k))]

\* clear()
Clear(p) ==
    IF p.names = <<>>
    THEN [p EXCEPT !.counts = <<>>]
    ELSE [p EXCEPT !.counts = <<>>, !.names = <<>>, !.flush = <<All>>]

\* mutant: the evicted statement is forgotten on the server
Rotate_Forget(p) ==
    [p EXCEPT !.counts = IF Len(@) > PreparedMax THEN Tail(@) ELSE @,
              !.names = IF Len(@) > PreparedMax THEN Tail(@) ELSE @]

\* _rotate(): evict the oldest item of each dictionary that is too long
Rotate(p) ==
    LET full == Len(p.names) > PreparedMax
    IN  [p EXCEPT !.counts = IF Len(@) > PreparedMax THEN Tail(@) ELSE @,
                  !.names = IF full THEN Tail(@) ELSE @,
                  !.flush = IF full THEN Append(@, Head(p.names).val) ELSE @]

(***************************************************************************)
(* What an execution gives: one good result ("ok", "drop" if its command   *)
(* tag is DROP or ROLLBACK), several ("multi", "multidrop"), the result of *)
(* an empty query ("empty"), which is not good but raises nothing, an      *)
(* error, an error after a DROP of the same query string ("dropfail"), or  *)
(* nothing because the pipeline is aborted.                                *)
(***************************************************************************)
Drops(out) == out \in {"drop", "multidrop", "dropfail"}
Good(out) == out \in {"ok", "drop"}
Raises(out) == out \in {"error", "dropfail", "aborted"}

\* validate(), called for a new key only
Validate(p, k, prep, out) ==
    LET discard == Drops(out) /\ (p.names # <<>> \/ prep = "should")
        q == IF discard THEN Clear(p) ELSE p
    IN  IF discard /\ p.names # <<>> THEN q
        ELSE IF Good(out) THEN Rotate(q)
        ELSE [q EXCEPT !.counts = Without(@, k), !.names = Without(@, k)]
=============================================================================
