------------------------------ MODULE Adapters ------------------------------
(***************************************************************************)
(* The maps of the adapters (psycopg/_adapters_map.py, and the types       *)
(* registry of psycopg/_typeinfo.py, that is copied the same way) and the  *)
(* transformers that use them (psycopg/_py_transformer.py and              *)
(* psycopg_c/_psycopg/transform.pyx).                                      *)
(*                                                                         *)
(* A context (the global one, a connection, a cursor) has its maps; a new  *)
(* one shares the ones of its template until one of the two is written.    *)
(* A dumper is registered on a class or on its name: the name is replaced  *)
(* by the class when the class is first dumped, in the map, that may be    *)
(* shared.  Each thread may look up.                                       *)
(*                                                                         *)
(* There is one class to dump, "C", with the name "name" and the           *)
(* superclass "S", and one oid to load.  A dumper or a loader is the       *)
(* number of its registration; 0 is none.                                  *)
(***************************************************************************)
EXTENDS Integers, Sequences

CONSTANTS
    Conns,          \* connections; each has one cursor
    Threads,        \* other threads, that look for a dumper step by step
    ByName,         \* whether the program registers dumpers by name
    Racing,         \* whether it does while other threads look for one
    MaxRegs         \* registrations

VARIABLES
    dicts,          \* the dictionaries: what each key is mapped to
    ctx,            \* for each context and map: the dictionary, and whether it is its own
    own,            \* the maps as if each context had always had its own
    transformers,   \* the transformer of each cursor, and its last query
    look,           \* the lookup of each thread
    regs            \* registrations so far

adaptVars == <<dicts, ctx, own, transformers, look, regs>>

Global == <<"global", "">>
Connections == {<<"connection", c>> : c \in Conns}
Cursors == {<<"cursor", c>> : c \in Conns}
Contexts == {Global} \cup Connections \cup Cursors
Template(c) == IF c \in Connections THEN Global ELSE <<"connection", c[2]>>
Kinds2 == {"dumpers", "loaders"}
Keys2 == {"C", "name", "S", "oid"}

\* The library registers its dumpers by name
Defaults == [k \in Keys2 |-> CASE k = "C" -> 0 [] k = "name" -> -1 [] k = "S" -> -2 [] k = "oid" -> -1]

NewTx == [dumper |-> 0, loader |-> 0, rowLoader |-> 0, query |-> 0]
NoLook == [at |-> "none", dict |-> 0, got |-> 0]

AdaptInit ==
    /\ dicts = <<Defaults, Defaults>>
    /\ ctx = [c \in {Global} |->
                [k \in Kinds2 |-> [dict |-> IF k = "dumpers" THEN 1 ELSE 2, own |-> TRUE]]]
    /\ own = [c \in {Global} |-> [k \in Kinds2 |-> Defaults]]
    /\ transformers = [u \in Cursors |-> NewTx]
    /\ look = [t \in Threads |-> NoLook]
    /\ regs = 0

Made == DOMAIN ctx
DictOf(c, kind) == dicts[ctx[c][kind].dict]

-----------------------------------------------------------------------------
\* mutant: the template still thinks its maps are its own
Shared_Template(c) ==
    [d \in Made \cup {c} |->
        IF d = c THEN [k \in Kinds2 |-> [dict |-> ctx[Template(c)][k].dict, own |-> FALSE]]
        ELSE ctx[d]]

\* The context and its template share the maps: neither owns them
Shared(c) ==
    [d \in Made \cup {c} |->
        IF d \in {c, Template(c)}
        THEN [k \in Kinds2 |-> [dict |-> ctx[Template(c)][k].dict, own |-> FALSE]]
        ELSE ctx[d]]

\* AdaptersMap(template): a connection, or a cursor, is created
NewContext(c) ==
    /\ c \notin Made /\ Template(c) \in Made
    /\ ctx' = Shared(c)
    /\ own' = [d \in Made \cup {c} |-> IF d = c THEN own[Template(c)] ELSE own[d]]
    /\ UNCHANGED <<dicts, transformers, look, regs>>

\* A key of a map is set: the dictionary is copied if it is not its own
Write(c, kind, key, value) ==
    IF ctx[c][kind].own
    THEN /\ dicts' = [dicts EXCEPT ![ctx[c][kind].dict][key] = value]
         /\ UNCHANGED ctx
    ELSE /\ dicts' = Append(dicts, [DictOf(c, kind) EXCEPT ![key] = value])
         /\ ctx' = [ctx EXCEPT ![c][kind] = [dict |-> Len(dicts) + 1, own |-> TRUE]]

\* register_dumper(): on the class, or on its name
RegisterDumper(c, key) ==
    /\ c \in Made /\ regs < MaxRegs
    /\ key = "name" => ByName
    /\ Racing \/ \A t \in Threads : look[t].at \in {"none", "done"}
    /\ regs' = regs + 1
    /\ Write(c, "dumpers", key, regs + 1)
    /\ own' = [own EXCEPT ![c]["dumpers"][key] = regs + 1]
    /\ UNCHANGED <<transformers, look>>

\* Transformer.get_loader(): the cached one, or a new one
GetLoader(x, map) == [x EXCEPT !.loader = IF @ = 0 THEN map["oid"] ELSE @]
ReadLoaders(x, map) ==
    LET y == GetLoader(x, map) IN [y EXCEPT !.rowLoader = y.loader]

\* BaseCursor._loaders_changed(): a new transformer, on the current result. The
\* last query is the same.
CacheReset(x, map) ==
    LET new == [NewTx EXCEPT !.query = x.query]
    IN  IF x.rowLoader = 0 THEN new ELSE ReadLoaders(new, map)

\* register_loader(): a cursor is told
RegisterLoader(c) ==
    /\ c \in Made /\ regs < MaxRegs
    /\ regs' = regs + 1
    /\ Write(c, "loaders", "oid", regs + 1)
    /\ own' = [own EXCEPT ![c]["loaders"]["oid"] = regs + 1]
    /\ transformers' = IF c \in Cursors
             THEN [transformers EXCEPT ![c] = CacheReset(@, dicts'[ctx'[c]["loaders"].dict])]
             ELSE transformers
    /\ UNCHANGED look

-----------------------------------------------------------------------------
\* AdaptersMap.get_dumper(): along the classes, each before its name
Found(map) ==
    IF map["C"] # 0 THEN map["C"] ELSE IF map["name"] # 0 THEN map["name"] ELSE map["S"]

\* The name is replaced by the class
Resolved(map) ==
    IF map["C"] = 0 /\ map["name"] # 0
    THEN [map EXCEPT !["C"] = map["name"], !["name"] = 0] ELSE map

\* mutant: a new query has the transformer of the old one
QueryTx_Keep(x, query) == [x EXCEPT !.query = query]

\* BaseCursor._start_query(): for the same query object the transformer is kept
QueryTx(x, query) == IF x.query = query THEN x ELSE [NewTx EXCEPT !.query = query]

\* A cursor executes a query with a parameter of class C and gets a result:
\* Transformer.get_dumper(), then set_pgresult()
ExecuteWith(u, query) ==
    /\ u \in Made \cap Cursors
    /\ LET x == QueryTx(transformers[u], query)
           id == ctx[u]["dumpers"].dict
           y == IF x.dumper # 0 THEN x ELSE [x EXCEPT !.dumper = Found(dicts[id])]
       IN  /\ transformers' = [transformers EXCEPT ![u] = ReadLoaders(y, DictOf(u, "loaders"))]
           /\ dicts' = IF x.dumper # 0 THEN dicts ELSE [dicts EXCEPT ![id] = Resolved(@)]
    /\ UNCHANGED <<ctx, own, look, regs>>

-----------------------------------------------------------------------------
(***************************************************************************)
(* The same lookup, in another thread, step by step                        *)
(***************************************************************************)
LookStart(t, c) ==
    /\ c \in Made /\ look[t].at = "none"
    /\ look' = [look EXCEPT ![t] = [at |-> "class", dict |-> ctx[c]["dumpers"].dict, got |-> 0]]
    /\ UNCHANGED <<dicts, ctx, own, transformers, regs>>

LookClass(t) ==
    /\ look[t].at = "class"
    /\ LET d == dicts[look[t].dict]["C"]
       IN  look' = [look EXCEPT ![t].at = IF d # 0 THEN "done" ELSE "name", ![t].got = d]
    /\ UNCHANGED <<dicts, ctx, own, transformers, regs>>

LookName(t) ==
    /\ look[t].at = "name"
    /\ LET d == dicts[look[t].dict]["name"]
       IN  look' = [look EXCEPT ![t].at = IF d # 0 THEN "set" ELSE "super", ![t].got = d]
    /\ UNCHANGED <<dicts, ctx, own, transformers, regs>>

LookSet(t) ==
    /\ look[t].at = "set"
    /\ dicts' = [dicts EXCEPT ![look[t].dict]["C"] = look[t].got]
    /\ look' = [look EXCEPT ![t].at = "pop"]
    /\ UNCHANGED <<ctx, own, transformers, regs>>

LookPop(t) ==
    /\ look[t].at = "pop"
    /\ dicts' = [dicts EXCEPT ![look[t].dict]["name"] = 0]
    /\ look' = [look EXCEPT ![t].at = "done"]
    /\ UNCHANGED <<ctx, own, transformers, regs>>

LookSuper(t) ==
    /\ look[t].at = "super"
    /\ look' = [look EXCEPT ![t].at = "done", ![t].got = dicts[look[t].dict]["S"]]
    /\ UNCHANGED <<dicts, ctx, own, transformers, regs>>

AdaptNext ==
    \/ \E c \in Connections \cup Cursors : NewContext(c)
    \/ \E c \in Contexts : (\E key \in {"C", "name", "S"} : RegisterDumper(c, key)) \/ RegisterLoader(c)
    \/ \E u \in Cursors, query \in 1..2 : ExecuteWith(u, query)
    \/ \E t \in Threads :
          \/ \E c \in Contexts : LookStart(t, c)
          \/ LookClass(t) \/ LookName(t) \/ LookSet(t) \/ LookPop(t) \/ LookSuper(t)

AdaptSpec == AdaptInit /\ [][AdaptNext]_adaptVars

-----------------------------------------------------------------------------
(***************************************************************************)
(* Once created, the maps are independent (_adapters_map.py:47-49): every  *)
(* context dumps and loads as if it had always had maps of its own, with   *)
(* whatever sharing, copies, registrations above and below, and names      *)
(* replaced by the use of another context.  (Not so for a registration by  *)
(* name: if another context has used the class, it is ignored.)            *)
(***************************************************************************)
MapsIndependent ==
    \A c \in Made :
        /\ Found(DictOf(c, "dumpers")) = Found(own[c]["dumpers"])
        /\ DictOf(c, "loaders")["oid"] = own[c]["loaders"]["oid"]

(***************************************************************************)
(* A result is loaded with the loader the cursor has now: one registered   *)
(* on it after the result has come is used too.                            *)
(***************************************************************************)
LoadersCurrent ==
    \A u \in Made \cap Cursors :
        transformers[u].rowLoader # 0 => transformers[u].rowLoader = DictOf(u, "loaders")["oid"]

(***************************************************************************)
(* Registrations are seen where they are made and nowhere else, by the     *)
(* maps of each context and by the cursors that already have a result      *)
(* (_adapters_map.py, _cursor_base.py).                                    *)
(***************************************************************************)
AdaptersCurrent ==
    /\ MapsIndependent
    /\ LoadersCurrent

(***************************************************************************)
(* With a query not executed before by the cursor, the parameter is dumped *)
(* with the dumper the cursor has now (with the same one, the dumper may   *)
(* be the one of the first time).                                          *)
(***************************************************************************)
NewQueryCurrent ==
    [][\A u \in Cursors, query \in 1..2 :
         ExecuteWith(u, query) /\ transformers[u].query # query =>
             transformers'[u].dumper = Found(DictOf(u, "dumpers"))]_adaptVars

(***************************************************************************)
(* get_dumper() returns the dumper of the class if there is one            *)
(* (_adapters_map.py:196, "Raise `~psycopg.ProgrammingError` if a class is *)
(* not available"): never the one of a superclass, or none.                *)
(***************************************************************************)
LookupFinds == \A t \in Threads : look[t].at = "done" => look[t].got # -2
=============================================================================
