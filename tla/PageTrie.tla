------------------------------ MODULE PageTrie ------------------------------
(***************************************************************************)
(* The three-level radix tree from pages to descriptors (pagetrie.c), one  *)
(* atomic access at a time: an insert runs under pagetrie->lock and stores *)
(* page by page, a lookup takes no lock.  A caller starts an operation     *)
(* with StartInsert or StartLookup in a step of its own, and takes the     *)
(* result when op[t].at = "returned".                                      *)
(***************************************************************************)
EXTENDS Integers, FiniteSets

CONSTANTS Threads,
          Data,          \* what a page maps to
          Fan,           \* NCHILD_NODES
          MaxNodes,      \* bound: nodes the run can need
          MaxFailures,   \* bound: calls of objpool_alloc that fail
          Null

Root == 0

Slots == 0 .. Fan - 1

Pages == 0 .. Fan * Fan * Fan - 1

ASSUME PageTrieAssumption == /\ Fan \in Nat \ {0}
                             /\ MaxNodes \in Nat \ {0} /\ MaxFailures \in Nat
                             /\ Null \notin Threads \cup Data \cup Nat

VARIABLES node,        \* child or data of each node
          nnodes,      \* nodes taken from nodepool, which gets none back
          trieLock,    \* pagetrie->lock: its holder
          op,          \* the operation each thread is in
          failures     \* failed allocations so far

trieVars == <<node, nnodes, trieLock, op, failures>>

NoOp == [at |-> "idle", page |-> Null, first |-> Null, last |-> Null,
         data |-> Null, node |-> Null, ok |-> TRUE]

EmptyNode == [i \in Slots |-> Null]

(* pagetrie_init *)
TrieInit == /\ node = [n \in 0 .. MaxNodes - 1 |-> EmptyNode]
            /\ nnodes = 1
            /\ trieLock = Null
            /\ op = [t \in Threads |-> NoOp]
            /\ failures = 0

Idx1(p) == (p \div (Fan * Fan)) % Fan

(* a mutant: not shifted *)
Idx2Unshifted(p) == p % Fan

Idx2(p) == (p \div Fan) % Fan

Idx3(p) == p % Fan

Step(t, at) == op' = [op EXCEPT ![t].at = at]

-----------------------------------------------------------------------------
StartInsert(t, first, last, d) ==
    op' = [op EXCEPT ![t] = [NoOp EXCEPT !.at = "lock", !.page = first,
                                         !.first = first, !.last = last, !.data = d]]

StartLookup(t, p) ==
    op' = [op EXCEPT ![t] = [NoOp EXCEPT !.at = "load1", !.page = p]]

Returned(t) == op[t].at = "returned"

Return(t, o) == op' = [op EXCEPT ![t] = [NoOp EXCEPT !.at = "returned",
                                                     !.data = o.data, !.ok = o.ok]]

InsertLock(t) == /\ op[t].at = "lock" /\ trieLock = Null
                 /\ trieLock' = t
                 /\ Step(t, "level1")
                 /\ UNCHANGED <<node, nnodes, failures>>

GoTo(t, at, n) == op' = [op EXCEPT ![t].at = at, ![t].node = n]

(* One level down: the node is there, or a cleared one is published, or    *)
(* the pool fails and what was stored so far is taken back.                *)
Descend(t, from, i, at) ==
    \/ /\ node[from][i] # Null
       /\ GoTo(t, at, node[from][i])
       /\ UNCHANGED <<node, nnodes, failures>>
    \/ /\ node[from][i] = Null
       /\ nnodes < MaxNodes
       /\ node' = [node EXCEPT ![from][i] = nnodes]
       /\ nnodes' = nnodes + 1
       /\ GoTo(t, at, nnodes)
       /\ UNCHANGED failures
    \/ /\ node[from][i] = Null
       /\ failures < MaxFailures
       /\ failures' = failures + 1
       /\ op' = [op EXCEPT ![t].at = "rollback", ![t].page = op[t].first,
                           ![t].last = op[t].page - 1]
       /\ UNCHANGED <<node, nnodes>>

InsertLevel1(t) == /\ op[t].at = "level1"
                   /\ Descend(t, Root, Idx1(op[t].page), "level2")
                   /\ UNCHANGED trieLock

InsertLevel2(t) == /\ op[t].at = "level2"
                   /\ Descend(t, op[t].node, Idx2(op[t].page), "store")
                   /\ UNCHANGED trieLock

InsertStore(t) ==
    LET p == op[t].page
    IN  /\ op[t].at = "store"
        /\ node' = [node EXCEPT ![op[t].node][Idx3(p)] = op[t].data]
        /\ IF p = op[t].last THEN Return(t, [NoOp EXCEPT !.ok = TRUE]) /\ trieLock' = Null
           ELSE /\ op' = [op EXCEPT ![t].at = "level1", ![t].page = p + 1]
                /\ UNCHANGED trieLock
        /\ UNCHANGED <<nnodes, failures>>

LeafOf(p) == node[node[Root][Idx1(p)]][Idx2(p)]

(* pagetrie_rollback, then the unlock: the nodes stay. *)
Rollback(t) ==
    LET p == op[t].page
    IN  /\ op[t].at = "rollback"
        /\ IF p > op[t].last
           THEN Return(t, [NoOp EXCEPT !.ok = FALSE]) /\ trieLock' = Null /\ UNCHANGED node
           ELSE /\ node' = [node EXCEPT ![LeafOf(p)][Idx3(p)] = Null]
                /\ op' = [op EXCEPT ![t].page = p + 1]
                /\ UNCHANGED trieLock
        /\ UNCHANGED <<nnodes, failures>>

(* pagetrie_lookup: the loads of two children, then of the data *)
Load(t, from, i, at) ==
    /\ IF node[from][i] = Null THEN Return(t, NoOp) ELSE GoTo(t, at, node[from][i])
    /\ UNCHANGED <<node, nnodes, trieLock, failures>>

Load1(t) == op[t].at = "load1" /\ Load(t, Root, Idx1(op[t].page), "load2")

Load2(t) == op[t].at = "load2" /\ Load(t, op[t].node, Idx2(op[t].page), "load3")

Load3(t) == /\ op[t].at = "load3"
            /\ Return(t, [NoOp EXCEPT !.data = node[op[t].node][Idx3(op[t].page)]])
            /\ UNCHANGED <<node, nnodes, trieLock, failures>>

TrieStep(t) == \/ InsertLock(t) \/ InsertLevel1(t) \/ InsertLevel2(t)
               \/ InsertStore(t) \/ Rollback(t)
               \/ Load1(t) \/ Load2(t) \/ Load3(t)
=============================================================================
