------------------------------ MODULE LiveList ------------------------------
(***************************************************************************)
(* The list of the newest ledgers in the browser                           *)
(* (packages/frontend/src/pages/Ledgers.tsx): polled every five seconds,   *)
(* each answer merged into what Apollo's cache holds                       *)
(* (packages/frontend/src/graphql/apollo-client.ts).                       *)
(*                                                                         *)
(* An answer is the first page of a list of ledgers.  The API answers from *)
(* its own cache, and a slow fetch may put an older list back there, so an *)
(* answer may be of any table there has been.  A ledger is its sequence,   *)
(* which is also its cursor; edges is the list, cut into what the answers  *)
(* brought, the last one on top, each newest first.                        *)
(***************************************************************************)
EXTENDS Integers, Sequences, FiniteSets

CONSTANTS
    MaxSequence,   \* bound: the ledgers there will be
    First          \* the page size, 20

VARIABLES
    tables,        \* every state the table has been in, the last one last
    answer,        \* the table of the answer on its way, 0 for none
    edges,         \* data.ledgers.edges
    \* history
    disorder,      \* an answer brought a ledger below one already shown
    late,          \* ledgers an answer did not know, though it brought higher ones
    burst          \* ledgers below an answer of which nothing was shown before

listVars == <<tables, answer, edges, disorder, late, burst>>

-----------------------------------------------------------------------------

Ledgers == 1..MaxSequence

Last == tables[Len(tables)]

\* The first page of a list.
Page(S) == {l \in S : Cardinality({k \in S : k > l}) < First}

\* The ledgers of a list.
Shown(list) == UNION {list[i] : i \in DOMAIN list}

Init ==
    /\ \E S \in SUBSET Ledgers : tables = <<S>>
    /\ answer = 0 /\ edges = <<>>
    /\ disorder = FALSE /\ late = {} /\ burst = {}

AddLedger ==
    /\ \E l \in Ledgers \ Last : tables' = Append(tables, Last \union {l})
    /\ UNCHANGED <<answer, edges, disorder, late, burst>>

\* The resolver answers a poll; polls of one query do not overlap.
Answered ==
    /\ answer = 0
    /\ answer' \in DOMAIN tables
    /\ UNCHANGED <<tables, edges, disorder, late, burst>>

\* Mutant: what is new goes below.
MergeBelow(existing, incoming) ==
    LET new == incoming \ Shown(existing) IN
    IF new = {} THEN existing ELSE Append(existing, new)

\* merge of Query.ledgers: what is new goes on top, as it came.
Merge(existing, incoming) ==
    LET new == incoming \ Shown(existing) IN
    IF new = {} THEN existing ELSE <<new>> \o existing

Merged ==
    /\ answer # 0
    /\ LET page == Page(tables[answer])
           shown == Shown(edges)
           new == page \ shown
       IN /\ edges' = Merge(edges, page)
          /\ disorder' = (disorder \/ \E l \in new, k \in shown : l < k)
          /\ late' = late \union
                {l \in Ledgers \ tables[answer] : \E k \in new : l < k}
          /\ burst' = IF page = {} \/ new # page THEN burst
                      ELSE burst \union {l \in Ledgers : \A k \in page : l < k}
    /\ answer' = 0
    /\ UNCHANGED tables

Next == AddLedger \/ Answered \/ Merged

Spec == Init /\ [][Next]_listVars

-----------------------------------------------------------------------------

TypeOK ==
    /\ tables \in Seq(SUBSET Ledgers) /\ answer \in 0..Len(tables)
    /\ edges \in Seq(SUBSET Ledgers) /\ disorder \in BOOLEAN
    /\ late \subseteq Ledgers /\ burst \subseteq Ledgers

(***************************************************************************)
(* Whatever lists the answers were cut from: the list shows no ledger      *)
(* twice; it falls from the newest down, as the chart takes for granted,   *)
(* unless an answer brought a ledger below one already shown (an older     *)
(* list, or a missing ledger added); and a ledger of the table that is     *)
(* left out is newer than all that are shown, unless it was added after a  *)
(* higher one was shown, or lies below an answer that met nothing shown,   *)
(* the first one or one after more than a page of ledgers.                 *)
(***************************************************************************)
ShownFits ==
    /\ \A i, j \in DOMAIN edges : i # j => edges[i] \intersect edges[j] = {}
    /\ \/ disorder
       \/ \A i, j \in DOMAIN edges : i < j =>
             \A k \in edges[i], l \in edges[j] : k > l
    /\ \A l \in Last \ (Shown(edges) \union late \union burst) :
          \A k \in Shown(edges) : l > k

=============================================================================
