--------------------------- MODULE KnowledgeGraph ---------------------------
(***************************************************************************)
(* backend/knowledge: the kg_nodes and kg_edges tables of SQLite, written  *)
(* by extraction jobs (routes and chat turns), by refinement jobs and by   *)
(* DELETE /knowledge/nodes, and the FalkorDB mirror they rebuild.  An      *)
(* action is the code from one await to the next; the rebuild runs in a    *)
(* thread of its own.                                                      *)
(*                                                                         *)
(* Labels are natural numbers, equal when lower(label) is, and sorted as   *)
(* ORDER BY label sorts.  Confidences are ranks; Stub and Full are the 0.5 *)
(* of a stub node and the 1.0 of an extracted one.  What the model says is *)
(* chosen when the code comes to use it.                                   *)
(***************************************************************************)
EXTENDS Integers, FiniteSets

CONSTANTS Worker,      \* jobs that may run at once
          Label, Type,
          Concept,     \* the type of stub nodes
          Relation,
          Weight,      \* confidences of extracted relations
          MinEdge,     \* min_edge_confidence
          Similar,     \* pairs of labels whose token overlap reaches 0.70
          Mirrored,    \* FalkorDB is available
          Faults,
          MaxItems,    \* bound on the entities and relations of a behaviour
          MaxJobs,     \* bound on its jobs
          MaxRemoved   \* bound on the deletions by hand

ASSUME LabelAssumption  == Label \subseteq Nat \ {0} /\ Similar \subseteq Label \X Label
ASSUME TypeAssumption   == Concept \in Type
ASSUME WeightAssumption == Weight \subseteq Nat /\ MinEdge \in Nat
ASSUME BoundAssumption  == MaxItems \in Nat /\ MaxJobs \in Nat /\ MaxRemoved \in Nat
ASSUME ModeAssumption   == Mirrored \in BOOLEAN /\ Faults \subseteq {"llm"}

VARIABLES nodes,     \* kg_nodes rows
          edges,     \* kg_edges rows
          nextNode, nextEdge,
          mirror,    \* what FalkorDB holds: node ids, and edges between them
          job,       \* the coroutine of each worker
          items, jobs,
          removed,   \* auxiliary: nodes deleted by hand
          clean      \* auxiliary: no operations overlapped, no job failed

tables == <<nodes, edges, nextNode, nextEdge>>
bounds == <<items, jobs>>
aux    == <<removed, clean>>
vars   == <<tables, mirror, job, bounds, aux>>

\* Bounds on the rows: an item adds two nodes and one edge at most.
NodeId == 1..(2 * MaxItems)
EdgeId == 1..MaxItems
None   == 0
Stub   == 1
Full   == 2

NoNode == [label |-> None, type |-> "none", weight |-> None]
NoEdge == [source |-> None, target |-> None, relation |-> "none", weight |-> None]

NodeLives(n) == nodes[n] # NoNode
EdgeLives(e) == edges[e] # NoEdge
LiveNodes    == {n \in NodeId : NodeLives(n)}
LiveEdges    == {e \in EdgeId : EdgeLives(e)}
First(S)     == CHOOSE n \in S : \A m \in S : n <= m

Larger(a, b) == IF a >= b THEN a ELSE b

Idle == [pc |-> "idle", role |-> "none", node |-> NoNode, edge |-> NoEdge,
         found |-> None, rank |-> None, source |-> None, target |-> None,
         rows |-> {}, pairs |-> {}, links |-> {}]

Init == /\ nodes = [n \in NodeId |-> NoNode]
        /\ edges = [e \in EdgeId |-> NoEdge]
        /\ nextNode = 1 /\ nextEdge = 1
        /\ mirror = [nodes |-> {}, edges |-> {}]
        /\ job = [w \in Worker |-> Idle]
        /\ items = 0 /\ jobs = 0
        /\ removed = {} /\ clean = TRUE

At(w, where)   == job[w].pc = where
Goto(w, where) == job' = [job EXCEPT ![w].pc = where]
Working(w)     == ~At(w, "idle")

\* The end of a job, well or by an exception.
Finish(w) == job' = [job EXCEPT ![w] = Idle] /\ UNCHANGED aux
Fail(w)   == job' = [job EXCEPT ![w] = Idle] /\ clean' = FALSE /\ UNCHANGED removed

\* Mutant: nobody asks for the rebuild.
SyncForgotten == "finish"
AfterWriting == IF Mirrored THEN "list_nodes" ELSE "finish"

(***************************************************************************)
(* Jobs.                                                                   *)
(***************************************************************************)
Start(w, where) ==
    /\ At(w, "idle")
    /\ jobs < MaxJobs
    /\ jobs' = jobs + 1
    /\ Goto(w, where)
    /\ clean' = (clean /\ \A v \in Worker : ~Working(v))
    /\ UNCHANGED <<tables, mirror, items, removed>>

StartExtract(w) == Start(w, "extract")
StartRefine(w)  == Start(w, "list_pairs")

\* DELETE /knowledge/nodes/{id}: the edges of the node cascade, the mirror is
\* not told.
DeleteNode(n) ==
    /\ NodeLives(n) /\ Cardinality(removed) < MaxRemoved
    /\ nodes' = [nodes EXCEPT ![n] = NoNode]
    /\ edges' = [e \in EdgeId |->
          IF n \in {edges[e].source, edges[e].target} THEN NoEdge ELSE edges[e]]
    /\ removed' = removed \cup {n}
    /\ clean' = (clean /\ \A w \in Worker : ~Working(w))
    /\ UNCHANGED <<nextNode, nextEdge, mirror, job, bounds>>

(***************************************************************************)
(* Extraction: all batches are answered, then _persist writes entities     *)
(* first and relations after them.                                         *)
(***************************************************************************)
Extracted(w) ==
    /\ At(w, "extract")
    /\ Goto(w, "entities")
    /\ UNCHANGED <<tables, mirror, bounds, aux>>

NextEntity(w) ==
    /\ At(w, "entities")
    /\ \/ /\ items < MaxItems
          /\ items' = items + 1
          /\ \E l \in Label, t \in Type :
                job' = [job EXCEPT ![w].pc = "find", ![w].role = "entity",
                          ![w].node = [label |-> l, type |-> t, weight |-> Full]]
       \/ Goto(w, "relations") /\ UNCHANGED items
    /\ UNCHANGED <<tables, mirror, jobs, aux>>

\* find_node_by_label: any case, the first row.
Labelled(l) == {n \in LiveNodes : nodes[n].label = l}
Lookup(l)   == IF Labelled(l) = {} THEN None ELSE First(Labelled(l))

\* Mutant: upsert_node relies on the lookups of _persist.
FindNodeOnce(w) ==
    /\ At(w, "find")
    /\ job' = [job EXCEPT ![w].pc = "write", ![w].found = None, ![w].rank = None]
    /\ UNCHANGED <<tables, mirror, bounds, aux>>

\* upsert_node looks the label up and remembers the row.
FindNode(w) ==
    LET n == Lookup(job[w].node.label) IN
    /\ At(w, "find")
    /\ job' = [job EXCEPT ![w].pc = "write", ![w].found = n,
                          ![w].rank = IF n = None THEN None ELSE nodes[n].weight]
    /\ UNCHANGED <<tables, mirror, bounds, aux>>

Stubbed(l) == [label |-> l, type |-> Concept, weight |-> Stub]

\* Where _persist goes with the id that upsert_node returned.
Returned(w, n) ==
    LET j == job[w] IN
    CASE j.role = "entity" -> [Idle EXCEPT !.pc = "entities"]
      [] j.role = "source" /\ j.target = None ->
             [j EXCEPT !.pc = "find", !.role = "target", !.source = n,
                       !.node = Stubbed(j.edge.target)]
      [] j.role = "source" /\ j.target # None -> [j EXCEPT !.pc = "link", !.source = n]
      [] OTHER -> [j EXCEPT !.pc = "link", !.target = n]

\* ... and updates it, if it is still there, or inserts a new one.
WriteNode(w) ==
    LET n == job[w].found IN
    /\ At(w, "write")
    /\ \/ /\ n # None
          /\ nodes' = [nodes EXCEPT ![n] =
                IF NodeLives(n)
                THEN [@ EXCEPT !.weight = Larger(job[w].rank, job[w].node.weight)]
                ELSE @]
          /\ job' = [job EXCEPT ![w] = Returned(w, n)]
          /\ UNCHANGED nextNode
       \/ /\ n = None
          /\ nextNode \in NodeId
          /\ nodes' = [nodes EXCEPT ![nextNode] = job[w].node]
          /\ job' = [job EXCEPT ![w] = Returned(w, nextNode)]
          /\ nextNode' = nextNode + 1
    /\ UNCHANGED <<edges, nextEdge, mirror, bounds, aux>>

\* A relation below min_edge_confidence is dropped when the answer is parsed.
NextRelation(w) ==
    /\ At(w, "relations")
    /\ \/ /\ items < MaxItems
          /\ items' = items + 1
          /\ \E s, t \in Label, r \in Relation, c \in {x \in Weight : x >= MinEdge} :
                job' = [job EXCEPT ![w].pc = "source", ![w].edge =
                    [source |-> s, target |-> t, relation |-> r, weight |-> c]]
       \/ Goto(w, AfterWriting) /\ UNCHANGED items
    /\ UNCHANGED <<tables, mirror, jobs, aux>>

\* _persist looks both endpoints up before it creates stubs for missing ones.
FindSource(w) ==
    /\ At(w, "source")
    /\ job' = [job EXCEPT ![w].pc = "target", ![w].source = Lookup(job[w].edge.source)]
    /\ UNCHANGED <<tables, mirror, bounds, aux>>

FindTarget(w) ==
    LET j == job[w]
        t == Lookup(j.edge.target)
    IN
    /\ At(w, "target")
    /\ job' = [job EXCEPT ![w] =
          CASE j.source = None -> [j EXCEPT !.pc = "find", !.role = "source", !.target = t,
                                            !.node = Stubbed(j.edge.source)]
            [] j.source # None /\ t = None ->
                   [j EXCEPT !.pc = "find", !.role = "target",
                             !.node = Stubbed(j.edge.target)]
            [] OTHER -> [j EXCEPT !.pc = "link", !.target = t]]
    /\ UNCHANGED <<tables, mirror, bounds, aux>>

Joining(s, t, r) == {e \in LiveEdges : /\ edges[e].source = s
                                       /\ edges[e].target = t
                                       /\ edges[e].relation = r}

\* upsert_edge rejects a self-loop, then looks for the edge ...
FindEdge(w) ==
    LET j == job[w]
        S == Joining(j.source, j.target, j.edge.relation)
        e == IF S = {} THEN None ELSE First(S)
    IN
    /\ At(w, "link")
    /\ job' = [job EXCEPT ![w] =
          IF j.source = j.target
          THEN [Idle EXCEPT !.pc = "relations"]
          ELSE [j EXCEPT !.pc = "write_edge", !.found = e,
                         !.rank = IF e = None THEN None ELSE edges[e].weight]]
    /\ UNCHANGED <<tables, mirror, bounds, aux>>

\* ... and raises its confidence or inserts it, which the foreign keys refuse
\* when an endpoint is gone.
WriteEdge(w) ==
    LET j == job[w]
        e == j.found
    IN
    /\ At(w, "write_edge")
    /\ \/ /\ e # None
          /\ edges' = [edges EXCEPT ![e] =
                IF EdgeLives(e) THEN [@ EXCEPT !.weight = Larger(j.rank, j.edge.weight)]
                ELSE @]
          /\ job' = [job EXCEPT ![w] = [Idle EXCEPT !.pc = "relations"]]
          /\ UNCHANGED <<nextEdge, aux>>
       \/ /\ e = None
          /\ NodeLives(j.source) /\ NodeLives(j.target)
          /\ nextEdge \in EdgeId
          /\ edges' = [edges EXCEPT ![nextEdge] =
                          [j.edge EXCEPT !.source = j.source, !.target = j.target]]
          /\ nextEdge' = nextEdge + 1
          /\ job' = [job EXCEPT ![w] = [Idle EXCEPT !.pc = "relations"]]
          /\ UNCHANGED aux
       \/ /\ e = None
          /\ ~NodeLives(j.source) \/ ~NodeLives(j.target)
          /\ Fail(w)
          /\ UNCHANGED <<edges, nextEdge>>
    /\ UNCHANGED <<nodes, nextNode, mirror, bounds>>

(***************************************************************************)
(* Refinement: merge_duplicates, prune_weak_edges, validate_types, as      *)
(* config/settings.toml orders them.                                       *)
(***************************************************************************)
Row(n) == [id |-> n, label |-> nodes[n].label, type |-> nodes[n].type,
           weight |-> nodes[n].weight]
Rows   == {Row(n) : n \in LiveNodes}

Before(a, b) == a.label < b.label \/ (a.label = b.label /\ a.id < b.id)

\* The pairs of combinations() that the similarity test lets through, of the
\* nodes as they are now.
Candidates == {p \in Rows \X Rows : /\ Before(p[1], p[2])
                                    /\ p[1].type = p[2].type
                                    /\ <<p[1].label, p[2].label>> \in Similar}

\* The pairs of one type come ordered by their first node and then by their
\* second; the types in some order.
Earlier(p, q) == Before(p[1], q[1]) \/ (p[1] = q[1] /\ Before(p[2], q[2]))
NextPairs(w)  == {p \in job[w].pairs :
                     \A q \in job[w].pairs : p[1].type = q[1].type => ~Earlier(q, p)}

ListPairs(w) ==
    /\ At(w, "list_pairs")
    /\ job' = [job EXCEPT ![w].pc = "compare", ![w].pairs = Candidates]
    /\ UNCHANGED <<tables, mirror, bounds, aux>>

\* The model compares two rows of the list; the surer one is kept.
Kept(p)    == IF p[1].weight >= p[2].weight THEN p[1].id ELSE p[2].id
Dropped(p) == IF p[1].weight >= p[2].weight THEN p[2].id ELSE p[1].id

Compare(w) ==
    /\ At(w, "compare")
    /\ \/ \E p \in NextPairs(w) :
             \/ job' = [job EXCEPT ![w].pairs = @ \ {p}]
             \/ job' = [job EXCEPT ![w].pairs = @ \ {p}, ![w].pc = "move_sources",
                                   ![w].source = Kept(p), ![w].target = Dropped(p)]
       \/ job[w].pairs = {} /\ Goto(w, "prune")
    /\ UNCHANGED <<tables, mirror, bounds, aux>>

\* Mutant: UPDATE OR IGNORE, so that a kept node that is gone goes unnoticed.
RepointOrIgnore(w, end, next) ==
    LET keep == job[w].source
        drop == job[w].target
    IN
    /\ edges' = [e \in EdgeId |->
          IF NodeLives(keep) /\ EdgeLives(e) /\ edges[e][end] = drop
          THEN [edges[e] EXCEPT ![end] = keep] ELSE edges[e]]
    /\ Goto(w, next)
    /\ UNCHANGED <<nodes, nextNode, nextEdge, mirror, bounds, aux>>

\* merge_nodes of keep (job.source) and drop (job.target): three statements, of
\* which an UPDATE that finds rows fails if the kept node is gone.
Repoint(w, end, next) ==
    LET keep  == job[w].source
        drop  == job[w].target
        moved == {e \in LiveEdges : edges[e][end] = drop}
    IN
    /\ \/ /\ NodeLives(keep) \/ moved = {}
          /\ edges' = [e \in EdgeId |->
                IF e \in moved THEN [edges[e] EXCEPT ![end] = keep] ELSE edges[e]]
          /\ Goto(w, next)
          /\ UNCHANGED aux
       \/ /\ ~NodeLives(keep) /\ moved # {}
          /\ Fail(w)
          /\ UNCHANGED edges
    /\ UNCHANGED <<nodes, nextNode, nextEdge, mirror, bounds>>

MoveSources(w) == At(w, "move_sources") /\ Repoint(w, "source", "move_targets")
MoveTargets(w) == At(w, "move_targets") /\ Repoint(w, "target", "drop")

Drop(w) ==
    LET n == job[w].target IN
    /\ At(w, "drop")
    /\ nodes' = [nodes EXCEPT ![n] = NoNode]
    /\ edges' = [e \in EdgeId |->
          IF n \in {edges[e].source, edges[e].target} THEN NoEdge ELSE edges[e]]
    /\ Goto(w, "compare")
    /\ UNCHANGED <<nextNode, nextEdge, mirror, bounds, aux>>

Prune(w) ==
    /\ At(w, "prune")
    /\ edges' = [e \in EdgeId |->
          IF EdgeLives(e) /\ edges[e].weight < MinEdge THEN NoEdge ELSE edges[e]]
    /\ Goto(w, "list_types")
    /\ UNCHANGED <<nodes, nextNode, nextEdge, mirror, bounds, aux>>

ListTypes(w) ==
    /\ At(w, "list_types")
    /\ job' = [job EXCEPT ![w].pc = "validate", ![w].rows = Rows]
    /\ UNCHANGED <<tables, mirror, bounds, aux>>

\* The model reviews one row of the list; a correction hits the row by its id.
Validate(w) ==
    /\ At(w, "validate")
    /\ \/ \E r \in job[w].rows, t \in Type :
             /\ \A q \in job[w].rows : q = r \/ Before(r, q)
             /\ nodes' = [nodes EXCEPT ![r.id] =
                    IF NodeLives(r.id) /\ t # r.type THEN [@ EXCEPT !.type = t] ELSE @]
             /\ job' = [job EXCEPT ![w].rows = @ \ {r}]
       \/ /\ job[w].rows = {}
          /\ Goto(w, AfterWriting)
          /\ UNCHANGED nodes
    /\ UNCHANGED <<edges, nextNode, nextEdge, mirror, bounds, aux>>

(***************************************************************************)
(* sync_from_sqlite, at the end of either job.                             *)
(***************************************************************************)
Link(e) == [source |-> edges[e].source, target |-> edges[e].target,
            relation |-> edges[e].relation]

ListNodes(w) ==
    /\ At(w, "list_nodes")
    /\ job' = [job EXCEPT ![w].pc = "list_edges", ![w].rows = {Row(n).id : n \in LiveNodes}]
    /\ UNCHANGED <<tables, mirror, bounds, aux>>

ListEdges(w) ==
    /\ At(w, "list_edges")
    /\ job' = [job EXCEPT ![w].pc = "clear", ![w].links = {Link(e) : e \in LiveEdges}]
    /\ UNCHANGED <<tables, mirror, bounds, aux>>

ClearMirror(w) ==
    /\ At(w, "clear")
    /\ mirror' = [nodes |-> {}, edges |-> {}]
    /\ Goto(w, "fill_nodes")
    /\ UNCHANGED <<tables, bounds, aux>>

FillNodes(w) ==
    /\ At(w, "fill_nodes")
    /\ mirror' = [mirror EXCEPT !.nodes = @ \cup job[w].rows]
    /\ Goto(w, "fill_edges")
    /\ UNCHANGED <<tables, bounds, aux>>

\* MATCH both ends, MERGE the relation: equal edges become one.
FillEdges(w) ==
    /\ At(w, "fill_edges")
    /\ mirror' = [mirror EXCEPT !.edges = @ \cup
          {k \in job[w].links : k.source \in mirror.nodes /\ k.target \in mirror.nodes}]
    /\ Goto(w, "finish")
    /\ UNCHANGED <<tables, bounds, aux>>

Finished(w) ==
    /\ At(w, "finish")
    /\ Finish(w)
    /\ UNCHANGED <<tables, mirror, bounds>>

\* The model is unreachable: nothing catches it, so the job ends where it is.
LLMFails(w) ==
    /\ "llm" \in Faults
    /\ job[w].pc \in {"extract", "compare", "validate"}
    /\ Fail(w)
    /\ UNCHANGED <<tables, mirror, bounds>>

Step(w) ==
    \/ Extracted(w) \/ NextEntity(w) \/ FindNode(w) \/ WriteNode(w)
    \/ NextRelation(w) \/ FindSource(w) \/ FindTarget(w) \/ FindEdge(w) \/ WriteEdge(w)
    \/ ListPairs(w) \/ Compare(w) \/ MoveSources(w) \/ MoveTargets(w) \/ Drop(w)
    \/ Prune(w) \/ ListTypes(w) \/ Validate(w)
    \/ ListNodes(w) \/ ListEdges(w) \/ ClearMirror(w) \/ FillNodes(w) \/ FillEdges(w)
    \/ Finished(w)

Next == \/ \E w \in Worker : StartExtract(w) \/ StartRefine(w) \/ Step(w) \/ LLMFails(w)
        \/ \E n \in NodeId : DeleteNode(n)

Spec == Init /\ [][Next]_vars
-----------------------------------------------------------------------------
(***************************************************************************)
(* Properties.                                                             *)
(***************************************************************************)
NodeSet == [label : Label, type : Type, weight : {Stub, Full}]
EdgeSet == [source : NodeId, target : NodeId, relation : Relation, weight : Weight]

\* The shape of the tables and of the mirror.
TypeOK == /\ nodes \in [NodeId -> NodeSet \cup {NoNode}]
          /\ edges \in [EdgeId -> EdgeSet \cup {NoEdge}]
          /\ nextNode \in Nat \ {0} /\ nextEdge \in Nat \ {0}
          /\ mirror.nodes \subseteq NodeId
          /\ items \in 0..MaxItems /\ jobs \in 0..MaxJobs

\* Whatever jobs and deletions overlap, every edge joins two nodes that exist.
NoDanglingEdges ==
    \A e \in LiveEdges : NodeLives(edges[e].source) /\ NodeLives(edges[e].target)

\* Entities are found again under any case: one row per label, unless two jobs
\* looked for it at the same time.
OneRowPerLabel ==
    clean => \A n, m \in LiveNodes : nodes[n].label = nodes[m].label => n = m

\* Violated.  "Insert a new node or update description/confidence if label already exists":
\* the same of jobs that overlap.
LabelsUnique ==
    \A n, m \in LiveNodes : nodes[n].label = nodes[m].label => n = m

\* Nodes and edges fit together, whichever jobs and deletions made them.
GraphIsConsistent == TypeOK /\ NoDanglingEdges /\ OneRowPerLabel

\* "re-pointing all edges, then deleting the dropped node": while no other job or
\* deletion runs beside it, the deletion at the end of a merge takes no edge with
\* it, not even when an earlier merge of the same pass has dropped the node kept.
MergeKeepsEdges ==
    [][\A w \in Worker : clean /\ At(w, "drop") /\ At(w, "compare")'
          => edges' = edges]_vars

\* Violated.  The same whatever runs beside the merge, of the edges to third nodes: an
\* extraction that has looked up the dropped node may add one behind the merge.
MergeLosesNoEdge ==
    [][\A w \in Worker : At(w, "drop") /\ At(w, "compare")' =>
          \A e \in LiveEdges :
             \/ edges'[e] = edges[e]
             \/ {edges[e].source, edges[e].target} = {job[w].source, job[w].target}]_vars

\* "keep highest confidence": what an extraction or a merge does to a row never
\* lowers its confidence.
ConfidenceKept ==
    [][clean =>
       /\ \A n \in NodeId : NodeLives(n) /\ NodeLives(n)'
             => nodes[n].weight <= nodes'[n].weight
       /\ \A e \in EdgeId : EdgeLives(e) /\ EdgeLives(e)'
             => edges[e].weight <= edges'[e].weight]_vars

\* Violated.  "keep highest confidence", of jobs that overlap too: the one that writes last
\* may have read before the other wrote.
HighestKept ==
    [][\A n \in NodeId : NodeLives(n) /\ NodeLives(n)'
          => nodes[n].weight <= nodes'[n].weight]_vars

\* Neither extraction nor refinement loses what the graph already knew: the end of
\* a merge takes no edge with it, and no confidence is lowered.
JobsLoseNothing == MergeKeepsEdges /\ ConfidenceKept

\* "SQLite is truth, Falkor is a rebuildable cache of it": between jobs the
\* mirror holds the graph, apart from what was deleted by hand.
MirrorCurrent ==
    Mirrored /\ clean /\ (\A w \in Worker : ~Working(w)) =>
        /\ mirror.nodes \ removed = LiveNodes
        /\ {k \in mirror.edges : {k.source, k.target} \cap removed = {}}
              = {Link(e) : e \in LiveEdges}

\* "Self-loops are not permitted in the knowledge graph."
NoSelfLoops == \A e \in LiveEdges : edges[e].source # edges[e].target
=============================================================================
