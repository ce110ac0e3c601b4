----------------------------- MODULE ApiReads -----------------------------
(***************************************************************************)
(* A list of ledgers read page by page through the API: the resolver       *)
(* (packages/api/src/resolvers/ledgers.ts), the cache in Redis with one    *)
(* entry for the whole list (database/cached-query.ts, connection.ts) and  *)
(* the cutting of pages (utils/pagination.ts), while the indexer adds      *)
(* ledgers, new ones and missing old ones.                                 *)
(*                                                                         *)
(* A list is in the default order, newest first, so it is the set of its   *)
(* sequences, and so is a page; a cursor is the sequence of the page's     *)
(* last ledger, and Top when there is none.  Redis and PostgreSQL are external: an entry may    *)
(* expire at any time, and a read may fail at any step.                    *)
(***************************************************************************)
EXTENDS Integers, Sequences, FiniteSets, FiniteSetsExt

CONSTANTS
    MaxSequence,   \* bound: the ledgers there will be
    First,         \* the page size asked for
    Readers

VARIABLES
    ledgers,       \* the table
    cached, list,  \* whether Redis has the list, and the list
    read,          \* each reader's resolver call: the step it is at, what it fetched
    \* what the client behind each reader knows
    cursor, asksOn,
    \* history
    got,           \* its pages, while every cursor was found
    common,        \* ledgers in every list its pages were cut from
    lost           \* a cursor was not in the list it was looked for in

readVars == <<ledgers, cached, list, read, cursor, asksOn, got, common, lost>>

-----------------------------------------------------------------------------

Sequences == 1..MaxSequence
Top == MaxSequence + 1

Newest(S, n) == {l \in S : Cardinality({k \in S : k > l}) < n}

\* Mutant: the slice begins with the cursor's own ledger.
FromCursor(S, after) == {l \in S : l <= after}

\* edges.slice(afterIndex + 1)
AfterCursor(S, after) == {l \in S : l < after}

\* createConnection with first and after: a cursor that is not in the list
\* is as good as none.
Edges(S, after) ==
    Newest(IF after \in S THEN AfterCursor(S, after) ELSE S, First)

\* The last edge is not the last of the whole list; of an empty page nothing
\* is last, so an empty page of a list that has any ledger promises another.
NextPage(S, edges) ==
    IF edges = {} THEN S # {} ELSE \E l \in S : l < Min(edges)

NotReading == [at |-> "idle", rows |-> {}]

Init ==
    /\ ledgers \in SUBSET Sequences
    /\ cached = FALSE /\ list = {}
    /\ read = [r \in Readers |-> NotReading]
    /\ cursor = [r \in Readers |-> Top]
    /\ asksOn = [r \in Readers |-> TRUE]
    /\ got = [r \in Readers |-> <<>>]
    /\ common = [r \in Readers |-> Sequences]
    /\ lost = [r \in Readers |-> FALSE]

clientVars == <<cursor, asksOn, got, common, lost>>

(* The surroundings *)

AddLedger ==
    /\ \E l \in Sequences \ ledgers : ledgers' = ledgers \union {l}
    /\ UNCHANGED <<cached, list, read, clientVars>>

Expire ==
    /\ cached
    /\ cached' = FALSE /\ list' = {}
    /\ UNCHANGED <<ledgers, read, clientVars>>

(* The page the client gets from a list.  It asks for another when it is    *)
(* promised one and there is an end cursor to ask with.                     *)

Deliver(r, S) ==
    LET edges == Edges(S, cursor[r]) IN
    /\ cursor' = [cursor EXCEPT ![r] = IF edges = {} THEN @ ELSE Min(edges)]
    /\ asksOn' = [asksOn EXCEPT ![r] = edges # {} /\ NextPage(S, edges)]
    /\ common' = [common EXCEPT ![r] = @ \intersect S]
    /\ lost' = [lost EXCEPT ![r] = @ \/ cursor[r] \notin S \union {Top}]
    /\ got' = [got EXCEPT ![r] =
          IF lost'[r] THEN <<>> ELSE IF edges = {} THEN @ ELSE Append(@, edges)]
    /\ read' = [read EXCEPT ![r] = NotReading]

(* Query.ledgers: cachedQuery, then createConnection *)

CacheHit(r) ==
    /\ read[r].at = "idle" /\ asksOn[r]
    /\ cached
    /\ Deliver(r, list)
    /\ UNCHANGED <<ledgers, cached, list>>

CacheMiss(r) ==
    /\ read[r].at = "idle" /\ asksOn[r]
    /\ ~cached
    /\ read' = [read EXCEPT ![r].at = "fetch"]
    /\ UNCHANGED <<ledgers, cached, list, clientVars>>

Fetch(r) ==
    /\ read[r].at = "fetch"
    /\ read' = [read EXCEPT ![r] = [at |-> "set", rows |-> ledgers]]
    /\ UNCHANGED <<ledgers, cached, list, clientVars>>

\* setEx puts the list back, even over a newer one.
CacheSet(r) ==
    /\ read[r].at = "set"
    /\ cached' = TRUE /\ list' = read[r].rows
    /\ Deliver(r, read[r].rows)
    /\ UNCHANGED ledgers

\* Any of the three awaits rejects: the client asks for the page again.
ReadFails(r) ==
    /\ read[r].at # "idle"
    /\ read' = [read EXCEPT ![r] = NotReading]
    /\ UNCHANGED <<ledgers, cached, list, clientVars>>

\* The client has come to the end, or gives up, and begins again.
StartOver(r) ==
    /\ read[r].at = "idle"
    /\ cursor[r] # Top \/ ~asksOn[r]
    /\ cursor' = [cursor EXCEPT ![r] = Top]
    /\ asksOn' = [asksOn EXCEPT ![r] = TRUE]
    /\ got' = [got EXCEPT ![r] = <<>>]
    /\ common' = [common EXCEPT ![r] = Sequences]
    /\ lost' = [lost EXCEPT ![r] = FALSE]
    /\ UNCHANGED <<ledgers, cached, list, read>>

Next ==
    \/ AddLedger \/ Expire
    \/ \E r \in Readers :
          \/ CacheHit(r) \/ CacheMiss(r) \/ Fetch(r) \/ CacheSet(r)
          \/ ReadFails(r) \/ StartOver(r)

Spec == Init /\ [][Next]_readVars

-----------------------------------------------------------------------------

TypeOK ==
    /\ ledgers \subseteq Sequences /\ list \subseteq ledgers
    /\ cached \in BOOLEAN
    /\ read \in [Readers -> [at : {"idle", "fetch", "set"}, rows : SUBSET Sequences]]
    /\ cursor \in [Readers -> 1..Top]
    /\ asksOn \in [Readers -> BOOLEAN] /\ lost \in [Readers -> BOOLEAN]
    /\ got \in [Readers -> Seq(SUBSET Sequences)] /\ common \in [Readers -> SUBSET Sequences]

(***************************************************************************)
(* Pages cut from different lists fit together: although ledgers arrive    *)
(* between two pages, entries expire, and a slow miss puts an older list   *)
(* back, a client whose cursors were found is given pages each of which    *)
(* lies below the ones before it, so no ledger twice; it has every ledger  *)
(* down to its cursor that all those lists had, and at the end all of them. *)
(***************************************************************************)
PagesFit ==
    \A r \in Readers : ~lost[r] =>
        /\ \A i, j \in DOMAIN got[r] : i < j =>
              \A k \in got[r][i], l \in got[r][j] : k > l
        /\ \A l \in common[r] : ~asksOn[r] \/ l >= cursor[r] =>
              \E i \in DOMAIN got[r] : l \in got[r][i]

=============================================================================
