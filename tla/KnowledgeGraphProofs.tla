------------------------- MODULE KnowledgeGraphProofs -------------------------
(***************************************************************************)
(* What the tables of the knowledge graph and its mirror hold, for any     *)
(* number of jobs, labels, types, relations and confidences.  One          *)
(* inductive invariant: what a coroutine carries fits the tables whatever  *)
(* the others do (Carries), and what it has read is still so as long as    *)
(* no operations overlapped (Informed).                                    *)
(***************************************************************************)
EXTENDS KnowledgeGraph, WellFoundedInduction, TLAPS

RowSet  == [id : NodeId, label : Label, type : Type, weight : {Stub, Full}]
LinkSet == [source : NodeId, target : NodeId, relation : Relation]
Wanted  == [source : Label, target : Label, relation : Relation, weight : Weight]

Place == {"idle", "extract", "entities", "find", "write", "relations", "source",
          "target", "link", "write_edge", "list_pairs", "compare", "move_sources",
          "move_targets", "drop", "prune", "list_types", "validate", "list_nodes",
          "list_edges", "clear", "fill_nodes", "fill_edges", "finish"}

JobSet == [pc : Place, role : {"none", "entity", "source", "target"},
           node : NodeSet \cup {NoNode}, edge : Wanted \cup {NoEdge},
           found : Nat, rank : Nat,
           source : NodeId \cup {None}, target : NodeId \cup {None},
           rows : SUBSET (RowSet \cup NodeId), pairs : SUBSET (RowSet \X RowSet),
           links : SUBSET LinkSet]

Shape == /\ TypeOK
         /\ mirror \in [nodes : SUBSET NodeId, edges : SUBSET LinkSet]
         /\ job \in [Worker -> JobSet]
         /\ removed \subseteq NodeId /\ clean \in BOOLEAN

\* What a coroutine carries from one await to the next.
Carries(j) ==
    /\ j.pc \in {"find", "write"} => j.role # "none" /\ j.node \in NodeSet
    /\ \/ j.pc \in {"source", "target", "link", "write_edge"}
       \/ j.pc \in {"find", "write"} /\ j.role # "entity"
       => j.edge \in Wanted
    /\ j.pc \in {"find", "write"} /\ j.role = "target" => j.source \in NodeId
    /\ j.pc = "write" =>
          j.found = None \/ (j.found \in NodeId /\ j.rank \in {Stub, Full})
    /\ j.pc \in {"link", "write_edge"} => {j.source, j.target} \subseteq NodeId
    /\ j.pc = "write_edge" =>
          j.found = None \/ (j.found \in EdgeId /\ j.rank \in Weight)
    /\ \A p \in j.pairs : p[1].id # p[2].id
    /\ j.pc \in {"move_sources", "move_targets", "drop"} =>
          {j.source, j.target} \subseteq NodeId /\ j.source # j.target
    /\ j.pc = "validate" => j.rows \subseteq RowSet
    /\ j.pc \in {"list_edges", "clear", "fill_nodes"} => j.rows \subseteq NodeId

\* An id is given out once, and a deleted row does not come back.
IdsAreFresh ==
    /\ \A n \in LiveNodes : n < nextNode
    /\ \A e \in LiveEdges : e < nextEdge
    /\ \A n \in removed : n < nextNode /\ ~NodeLives(n)

Alone == clean => \A v, w \in Worker : Working(v) /\ Working(w) => v = w

Links == {Link(e) : e \in LiveEdges}

\* Leaving out what was deleted by hand, the mirror is the graph.
MirrorHolds ==
    /\ mirror.nodes \ removed = LiveNodes
    /\ {k \in mirror.edges : {k.source, k.target} \cap removed = {}} = Links

\* The rows that an upsert and a merge are about to write.
TablesAsRead(j) ==
    /\ j.pc = "write" /\ j.found = None =>
          \A n \in LiveNodes : nodes[n].label # j.node.label
    /\ j.pc = "write" /\ j.found # None => nodes[j.found].weight = j.rank
    /\ j.pc = "write_edge" /\ j.found # None => edges[j.found].weight = j.rank
    /\ j.pc \in {"move_targets", "drop"} => \A e \in LiveEdges : edges[e].source # j.target
    /\ j.pc = "drop" => \A e \in LiveEdges : edges[e].target # j.target

\* How far the rebuild has come.
MirrorAsBuilt(j) ==
    /\ j.pc \in {"list_edges", "clear", "fill_nodes"} => j.rows = LiveNodes
    /\ j.pc \in {"clear", "fill_nodes", "fill_edges"} => j.links = Links
    /\ j.pc = "fill_nodes" => mirror.nodes = {} /\ mirror.edges = {}
    /\ j.pc = "fill_edges" => mirror.nodes = LiveNodes /\ mirror.edges = {}
    /\ j.pc = "finish" => MirrorHolds

Informed(j) == TablesAsRead(j) /\ (Mirrored => MirrorAsBuilt(j))

GraphInv ==
    /\ Shape
    /\ \A w \in Worker : Carries(job[w])
    /\ NoDanglingEdges
    /\ IdsAreFresh
    /\ OneRowPerLabel
    /\ Alone
    /\ clean => \A w \in Worker : Informed(job[w])
    /\ MirrorCurrent
-----------------------------------------------------------------------------
(***************************************************************************)
(* Ids, rows and places.                                                   *)
(***************************************************************************)
LEMMA IdsAreNumbers ==
    /\ NodeId \subseteq Nat \ {None} /\ EdgeId \subseteq Nat \ {None}
    /\ None \notin NodeId /\ None \notin EdgeId
  BY BoundAssumption DEF BoundAssumption, NodeId, EdgeId, None

\* The first row of a query is one of its rows.
LEMMA FirstIsThere ==
    ASSUME NEW S, S \subseteq Nat, S # {}
    PROVE  First(S) \in S
  <1> DEFINE R == {p \in Nat \X Nat : p[1] < p[2]}
  <1>1. IsWellFoundedOn(R, Nat)
    BY NatLessThanWellFounded DEF OpToRel
  <1>2. PICK x \in S : \A y \in S : <<y, x>> \notin R
    BY <1>1, WFMin
  <1>3. ASSUME NEW y \in S PROVE x <= y
    <2>1. x \in Nat /\ y \in Nat /\ <<y, x>> \notin R
      BY <1>2
    <2> QED
      BY <2>1
  <1> QED
    BY <1>3 DEF First

\* find_node_by_label returns no row, or one with the label.
LEMMA LookupFinds ==
    ASSUME NEW l
    PROVE  \/ Lookup(l) = None /\ Labelled(l) = {}
           \/ Lookup(l) \in LiveNodes /\ nodes[Lookup(l)].label = l
  <1>1. CASE Labelled(l) = {}
    BY <1>1 DEF Lookup
  <1>2. CASE Labelled(l) # {}
    <2>1. Labelled(l) \subseteq Nat
      BY IdsAreNumbers DEF Labelled, LiveNodes
    <2>2. First(Labelled(l)) \in Labelled(l)
      BY <1>2, <2>1, FirstIsThere
    <2> QED
      BY <1>2, <2>2 DEF Lookup, Labelled
  <1> QED
    BY <1>1, <1>2

\* A row of the table is not the empty row.
LEMMA RowsAreRows ==
    NoNode \notin NodeSet /\ NoEdge \notin EdgeSet
  <1>1. None \notin Label
    BY LabelAssumption DEF LabelAssumption, None
  <1>2. NoNode.label = None /\ NoEdge.source = None
    BY DEF NoNode, NoEdge
  <1> QED
    BY <1>1, <1>2, IdsAreNumbers DEF NodeSet, EdgeSet

LEMMA IdleIsJob ==
    /\ Idle \in JobSet /\ Idle.pc = "idle" /\ Idle.pairs = {} /\ Idle.role = "none"
    /\ Idle.found = None
  BY DEF Idle, JobSet, Place, None

\* Where a coroutine goes with an id it was given.
Silent == Place \ {"write", "write_edge", "move_targets", "drop", "list_edges",
                   "clear", "fill_nodes", "fill_edges", "finish"}

LEMMA SilentIsInformed ==
    ASSUME NEW j, j.pc \in Silent
    PROVE  Informed(j) /\ Informed(j)'
  BY DEF Silent, Informed, TablesAsRead, MirrorAsBuilt

LEMMA AfterWritingIsInformed ==
    ASSUME NEW j, j.pc = AfterWriting
    PROVE  Informed(j) /\ Informed(j)'
  BY DEF AfterWriting, Informed, TablesAsRead, MirrorAsBuilt

TablesTyped == /\ nodes \in [NodeId -> NodeSet \cup {NoNode}]
               /\ edges \in [EdgeId -> EdgeSet \cup {NoEdge}]
               /\ nextNode \in Nat \ {0} /\ nextEdge \in Nat \ {0}

\* No confidence is lowered, and the end of a merge takes no edge with it.
Lossless ==
    clean => /\ \A n \in NodeId : NodeLives(n) /\ NodeLives(n)'
                   => nodes[n].weight <= nodes'[n].weight
             /\ \A e \in EdgeId : EdgeLives(e) /\ EdgeLives(e)'
                   => edges[e].weight <= edges'[e].weight
MergesKeep ==
    \A w \in Worker : clean /\ At(w, "drop") /\ At(w, "compare")' => edges' = edges

LEMMA TypesSplit ==
    ASSUME GraphInv
    PROVE  /\ TablesTyped
           /\ mirror \in [nodes : SUBSET NodeId, edges : SUBSET LinkSet]
           /\ job \in [Worker -> JobSet] /\ removed \subseteq NodeId
           /\ items \in 0..MaxItems /\ jobs \in 0..MaxJobs
  BY DEF GraphInv, Shape, TypeOK, TablesTyped

LEMMA LiveRows ==
    ASSUME GraphInv
    PROVE  /\ \A n \in LiveNodes : nodes[n] \in NodeSet /\ nodes[n].weight \in Nat
           /\ \A e \in LiveEdges : edges[e] \in EdgeSet /\ edges[e].weight \in Nat
  <1>1. ASSUME NEW n \in LiveNodes
        PROVE  nodes[n] \in NodeSet /\ nodes[n].weight \in Nat
    BY TypesSplit DEF TablesTyped, LiveNodes, NodeLives, NodeSet, Stub, Full
  <1>2. ASSUME NEW e \in LiveEdges
        PROVE  edges[e] \in EdgeSet /\ edges[e].weight \in Nat
    <2>1. edges[e] \in EdgeSet
      BY TypesSplit DEF TablesTyped, LiveEdges, EdgeLives
    <2>2. edges[e].weight \in Weight
      BY <2>1 DEF EdgeSet
    <2> QED
      BY <2>1, <2>2, WeightAssumption DEF WeightAssumption
  <1> QED
    BY <1>1, <1>2

\* A step of one coroutine that goes on.
LEMMA StepOfOne ==
    ASSUME GraphInv, NEW w \in Worker, NEW r \in JobSet, job[w].pc # "idle", r.pc # "idle",
           job' = [job EXCEPT ![w] = r], UNCHANGED aux,
           Carries(r), clean => Informed(r)',
           TablesTyped', mirror' \in [nodes : SUBSET NodeId, edges : SUBSET LinkSet],
           items' \in 0..MaxItems, jobs' \in 0..MaxJobs,
           NoDanglingEdges', IdsAreFresh', OneRowPerLabel'
    PROVE  GraphInv'
  <1>1. /\ job \in [Worker -> JobSet] /\ removed \subseteq NodeId /\ clean \in BOOLEAN
        /\ UNCHANGED <<removed, clean>>
    BY DEF GraphInv, Shape, aux
  <1>2. job' \in [Worker -> JobSet] /\ job'[w] = r /\ \A v \in Worker \ {w} : job'[v] = job[v]
    BY <1>1
  <1>3. Shape'
    BY <1>1, <1>2 DEF Shape, TypeOK, TablesTyped
  <1>4. \A v \in Worker : Carries(job'[v])
    BY <1>2 DEF GraphInv
  <1>5. Alone'
    BY <1>1, <1>2 DEF GraphInv, Alone, Working, At
  <1>6. ASSUME clean, NEW v \in Worker PROVE Informed(job[v])'
    <2>1. CASE v = w
      BY <1>2, <1>6, <2>1 DEF Informed, TablesAsRead, MirrorAsBuilt
    <2>2. CASE v # w
      <3>1. job'[v].pc = "idle"
        BY <1>2, <1>6, <2>2 DEF GraphInv, Alone, Working, At
      <3> QED
        BY <3>1 DEF Informed, TablesAsRead, MirrorAsBuilt
    <2> QED
      BY <2>1, <2>2
  <1>7. MirrorCurrent'
    BY <1>2 DEF MirrorCurrent, Working, At
  <1> QED
    BY <1>1, <1>3, <1>4, <1>5, <1>6, <1>7 DEF GraphInv

\* A step of one coroutine that changes only what it carries.
LEMMA JobMoves ==
    ASSUME GraphInv, NEW w \in Worker, NEW r \in JobSet, job[w].pc # "idle", r.pc # "idle",
           job' = [job EXCEPT ![w] = r], UNCHANGED <<tables, mirror, jobs, aux>>,
           items' \in 0..MaxItems, Carries(r), clean => Informed(r)
    PROVE  GraphInv' /\ Lossless /\ MergesKeep
  <1>1. /\ UNCHANGED <<nodes, edges, nextNode, nextEdge, mirror, removed, clean>>
        /\ UNCHANGED <<aux, jobs>>
    BY DEF tables, aux
  <1>2. TablesTyped' /\ mirror' \in [nodes : SUBSET NodeId, edges : SUBSET LinkSet]
    BY <1>1, TypesSplit DEF TablesTyped
  <1>3. NoDanglingEdges' /\ IdsAreFresh' /\ OneRowPerLabel'
    BY <1>1 DEF GraphInv, NoDanglingEdges, IdsAreFresh, OneRowPerLabel, LiveNodes, LiveEdges,
                NodeLives, EdgeLives
  <1>4. clean => Informed(r)'
    BY <1>1 DEF Informed, TablesAsRead, MirrorAsBuilt, LiveNodes, LiveEdges, NodeLives,
                EdgeLives, Links, Link, MirrorHolds
  <1>5. jobs' \in 0..MaxJobs
    BY <1>1, TypesSplit
  <1>6. GraphInv'
    BY <1>1, <1>2, <1>3, <1>4, <1>5, StepOfOne
  <1>7. Lossless
    <2>1. \A n \in NodeId : NodeLives(n) => nodes[n].weight <= nodes[n].weight
      BY LiveRows DEF LiveNodes
    <2>2. \A e \in EdgeId : EdgeLives(e) => edges[e].weight <= edges[e].weight
      BY LiveRows DEF LiveEdges
    <2> QED
      BY <1>1, <2>1, <2>2 DEF Lossless
  <1>8. MergesKeep
    BY <1>1 DEF MergesKeep
  <1> QED
    BY <1>6, <1>7, <1>8

-----------------------------------------------------------------------------
(***************************************************************************)
(* The steps that change only what a coroutine carries.                    *)
(***************************************************************************)
\* A coroutine at a place where it carries nothing that it must know.
Plain == {"extract", "entities", "relations", "list_pairs", "prune", "list_types",
          "list_nodes"}

LEMMA GoesPlain ==
    ASSUME GraphInv, NEW w \in Worker, NEW next \in Plain,
           NEW r, r = [job[w] EXCEPT !.pc = next]
    PROVE  /\ r \in JobSet /\ r.pc = next /\ r.pc # "idle"
           /\ Carries(r) /\ Informed(r) /\ Informed(r)'
  <1>1. job[w] \in JobSet /\ Carries(job[w])
    BY TypesSplit DEF GraphInv
  <1>2. r \in JobSet /\ r.pc = next /\ r.pairs = job[w].pairs
    BY <1>1 DEF JobSet, Plain, Place
  <1>3. Carries(r) /\ r.pc # "idle"
    BY <1>1, <1>2 DEF Carries, Plain
  <1>4. r.pc \in Silent
    BY <1>2 DEF Silent, Plain, Place
  <1> QED
    BY <1>2, <1>3, <1>4, SilentIsInformed

LEMMA IdleGoesPlain ==
    ASSUME NEW next \in Plain, NEW r, r = [Idle EXCEPT !.pc = next]
    PROVE  /\ r \in JobSet /\ r.pc = next /\ r.pc # "idle"
           /\ Carries(r) /\ Informed(r) /\ Informed(r)'
  <1>1. r \in JobSet /\ r.pc = next /\ r.pairs = {}
    BY IdleIsJob DEF JobSet, Plain, Place
  <1>2. Carries(r) /\ r.pc # "idle"
    BY <1>1 DEF Carries, Plain
  <1>3. r.pc \in Silent
    BY <1>1 DEF Silent, Plain, Place
  <1> QED
    BY <1>1, <1>2, <1>3, SilentIsInformed

\* The end of the writing of a job, with the mirror or without.
LEMMA GoesSyncing ==
    ASSUME GraphInv, NEW w \in Worker, NEW r, r = [job[w] EXCEPT !.pc = AfterWriting]
    PROVE  /\ r \in JobSet /\ r.pc # "idle" /\ r.pc # "compare"
           /\ Carries(r) /\ Informed(r) /\ Informed(r)'
  <1>1. job[w] \in JobSet /\ Carries(job[w])
    BY TypesSplit DEF GraphInv
  <1>2. PICK next \in {"list_nodes", "finish"} : next = AfterWriting
    BY DEF AfterWriting
  <1>3. r \in JobSet /\ r.pc = next /\ r.pairs = job[w].pairs
    BY <1>1, <1>2 DEF JobSet, Place
  <1>4. Carries(r)
    BY <1>1, <1>3 DEF Carries
  <1> QED
    BY <1>2, <1>3, <1>4, AfterWritingIsInformed

LEMMA PlainMoves ==
    ASSUME GraphInv, NEW w \in Worker, NEW next \in Plain, job[w].pc # "idle", Goto(w, next),
           UNCHANGED <<tables, mirror, jobs, aux>>, UNCHANGED items
    PROVE  GraphInv' /\ Lossless /\ MergesKeep
  <1>1. PICK r : r = [job[w] EXCEPT !.pc = next]
    OBVIOUS
  <1>2. r \in JobSet /\ r.pc # "idle" /\ Carries(r) /\ Informed(r)
    BY <1>1, GoesPlain
  <1>3. job' = [job EXCEPT ![w] = r] /\ items' \in 0..MaxItems
    BY <1>1, TypesSplit DEF Goto
  <1> QED
    BY <1>2, <1>3, JobMoves

LEMMA SyncMoves ==
    ASSUME GraphInv, NEW w \in Worker, job[w].pc # "idle", Goto(w, AfterWriting),
           UNCHANGED <<tables, mirror, jobs, aux>>, UNCHANGED items
    PROVE  GraphInv' /\ Lossless /\ MergesKeep
  <1>1. PICK r : r = [job[w] EXCEPT !.pc = AfterWriting]
    OBVIOUS
  <1>2. r \in JobSet /\ r.pc # "idle" /\ Carries(r) /\ Informed(r)
    BY <1>1, GoesSyncing
  <1>3. job' = [job EXCEPT ![w] = r] /\ items' \in 0..MaxItems
    BY <1>1, TypesSplit DEF Goto
  <1> QED
    BY <1>2, <1>3, JobMoves

LEMMA ExtractedKeeps ==
    ASSUME GraphInv, NEW w \in Worker, Extracted(w)
    PROVE  GraphInv' /\ Lossless /\ MergesKeep
  <1>1. /\ job[w].pc # "idle" /\ Goto(w, "entities") /\ "entities" \in Plain
        /\ UNCHANGED <<tables, mirror, jobs, aux>> /\ UNCHANGED items
    BY DEF Extracted, At, bounds, Plain
  <1> QED
    BY <1>1, PlainMoves

LEMMA NextEntityKeeps ==
    ASSUME GraphInv, NEW w \in Worker, NextEntity(w)
    PROVE  GraphInv' /\ Lossless /\ MergesKeep
  <1>1. /\ job[w].pc = "entities" /\ job[w] \in JobSet /\ Carries(job[w])
        /\ UNCHANGED <<tables, mirror, jobs, aux>>
        /\ items \in 0..MaxItems
    BY TypesSplit DEF NextEntity, At, GraphInv
  <1>2. CASE Goto(w, "relations") /\ UNCHANGED items
    <2>1. "relations" \in Plain
      BY DEF Plain
    <2> QED
      BY <1>1, <1>2, <2>1, PlainMoves
  <1>3. CASE ~(Goto(w, "relations") /\ UNCHANGED items)
    <2>0. items < MaxItems /\ items' = items + 1
      BY <1>3 DEF NextEntity
    <2>1. items' \in 0..MaxItems
      BY <1>1, <2>0, BoundAssumption DEF BoundAssumption
    <2>2. PICK l \in Label, t \in Type :
             job' = [job EXCEPT ![w].pc = "find", ![w].role = "entity",
                       ![w].node = [label |-> l, type |-> t, weight |-> Full]]
      BY <1>1, <1>3 DEF NextEntity
    <2> DEFINE row == [label |-> l, type |-> t, weight |-> Full]
               r   == [job[w] EXCEPT !.pc = "find", !.role = "entity", !.node = row]
    <2>3. row \in NodeSet
      BY DEF NodeSet
    <2>4. job' = [job EXCEPT ![w] = r]
      BY <2>2
    <2> HIDE DEF row
    <2>5. /\ r \in JobSet /\ r.pc = "find" /\ r.role = "entity" /\ r.node = row
          /\ r.pairs = job[w].pairs
      BY <1>1, <2>3 DEF JobSet, Place
    <2> HIDE DEF r
    <2>6. Carries(r)
      BY <1>1, <2>3, <2>5 DEF Carries
    <2>7. Informed(r)
      BY <2>5, SilentIsInformed DEF Silent, Place
    <2> QED
      BY <1>1, <2>1, <2>4, <2>5, <2>6, <2>7, JobMoves
  <1> QED
    BY <1>2, <1>3

\* What find_node_by_label gives upsert_node and _persist.
LEMMA LookupIsId ==
    ASSUME GraphInv, NEW l, NEW n, n = Lookup(l)
    PROVE  \/ n = None /\ Labelled(l) = {}
           \/ /\ n \in LiveNodes /\ n \in NodeId /\ n # None /\ n \in Nat
              /\ nodes[n].weight \in {Stub, Full}
  <1>1. \A m \in LiveNodes : m \in NodeId /\ m # None /\ m \in Nat
    BY IdsAreNumbers DEF LiveNodes
  <1>2. \A m \in LiveNodes : nodes[m].weight \in {Stub, Full}
    BY LiveRows DEF NodeSet
  <1> QED
    BY <1>1, <1>2, LookupFinds

LEMMA FindNodeKeeps ==
    ASSUME GraphInv, NEW w \in Worker, FindNode(w)
    PROVE  GraphInv' /\ Lossless /\ MergesKeep
  <1>0. PICK n : n = Lookup(job[w].node.label)
    OBVIOUS
  <1>1. PICK k : k = IF n = None THEN None ELSE nodes[n].weight
    OBVIOUS
  <1> DEFINE r == [job[w] EXCEPT !.pc = "write", !.found = n, !.rank = k]
  <1>2. /\ job[w].pc = "find" /\ job[w] \in JobSet /\ Carries(job[w])
        /\ UNCHANGED <<tables, mirror, jobs, aux>> /\ UNCHANGED items
        /\ items \in 0..MaxItems
        /\ job' = [job EXCEPT ![w] = r]
    BY <1>0, <1>1, TypesSplit DEF FindNode, At, GraphInv, bounds
  <1>3. \/ n = None /\ k = None /\ Labelled(job[w].node.label) = {}
        \/ n \in NodeId /\ n # None /\ n \in Nat /\ k = nodes[n].weight /\ k \in {Stub, Full}
    BY <1>0, <1>1, LookupIsId
  <1>4. n \in Nat /\ k \in Nat
    BY <1>3 DEF None, Stub, Full
  <1>5. /\ r \in JobSet /\ r.pc = "write" /\ r.found = n /\ r.rank = k
        /\ r.role = job[w].role /\ r.node = job[w].node /\ r.edge = job[w].edge
        /\ r.pairs = job[w].pairs /\ r.source = job[w].source
    BY <1>2, <1>4 DEF JobSet, Place
  <1> HIDE DEF r
  <1>6. Carries(r)
    BY <1>2, <1>3, <1>5 DEF Carries
  <1>7. n = None => \A m \in LiveNodes : nodes[m].label # job[w].node.label
    BY <1>3 DEF Labelled
  <1>8. Informed(r)
    BY <1>3, <1>5, <1>7 DEF Informed, TablesAsRead, MirrorAsBuilt
  <1> QED
    BY <1>2, <1>5, <1>6, <1>8, JobMoves

LEMMA NextRelationKeeps ==
    ASSUME GraphInv, NEW w \in Worker, NextRelation(w)
    PROVE  GraphInv' /\ Lossless /\ MergesKeep
  <1>1. /\ job[w].pc = "relations" /\ job[w] \in JobSet /\ Carries(job[w])
        /\ UNCHANGED <<tables, mirror, jobs, aux>>
        /\ items \in 0..MaxItems
    BY TypesSplit DEF NextRelation, At, GraphInv
  <1>2. CASE Goto(w, AfterWriting) /\ UNCHANGED items
    BY <1>1, <1>2, SyncMoves
  <1>3. CASE ~(Goto(w, AfterWriting) /\ UNCHANGED items)
    <2>0. items < MaxItems /\ items' = items + 1
      BY <1>3 DEF NextRelation
    <2>1. items' \in 0..MaxItems
      BY <1>1, <2>0, BoundAssumption DEF BoundAssumption
    <2>2. PICK s \in Label, t \in Label, rel \in Relation, c \in Weight :
             job' = [job EXCEPT ![w].pc = "source", ![w].edge =
                        [source |-> s, target |-> t, relation |-> rel, weight |-> c]]
      BY <1>1, <1>3 DEF NextRelation
    <2> DEFINE row == [source |-> s, target |-> t, relation |-> rel, weight |-> c]
               r   == [job[w] EXCEPT !.pc = "source", !.edge = row]
    <2>3. row \in Wanted
      BY DEF Wanted
    <2>4. job' = [job EXCEPT ![w] = r]
      BY <2>2
    <2> HIDE DEF row
    <2>5. r \in JobSet /\ r.pc = "source" /\ r.edge = row /\ r.pairs = job[w].pairs
      BY <1>1, <2>3 DEF JobSet, Place
    <2> HIDE DEF r
    <2>6. Carries(r)
      BY <1>1, <2>3, <2>5 DEF Carries
    <2>7. Informed(r)
      BY <2>5, SilentIsInformed DEF Silent, Place
    <2> QED
      BY <1>1, <2>1, <2>4, <2>5, <2>6, <2>7, JobMoves
  <1> QED
    BY <1>2, <1>3

LEMMA FindSourceKeeps ==
    ASSUME GraphInv, NEW w \in Worker, FindSource(w)
    PROVE  GraphInv' /\ Lossless /\ MergesKeep
  <1>0. PICK n : n = Lookup(job[w].edge.source)
    OBVIOUS
  <1> DEFINE r == [job[w] EXCEPT !.pc = "target", !.source = n]
  <1>1. /\ job[w].pc = "source" /\ job[w] \in JobSet /\ Carries(job[w])
        /\ UNCHANGED <<tables, mirror, jobs, aux>> /\ items' \in 0..MaxItems
        /\ job' = [job EXCEPT ![w] = r]
    BY <1>0, TypesSplit DEF FindSource, At, GraphInv, bounds
  <1>2. n \in NodeId \cup {None}
    BY <1>0, LookupIsId
  <1>3. r \in JobSet /\ r.pc = "target" /\ r.edge = job[w].edge /\ r.pairs = job[w].pairs
    BY <1>1, <1>2 DEF JobSet, Place
  <1> HIDE DEF r
  <1>4. Carries(r)
    BY <1>1, <1>3 DEF Carries
  <1>5. Informed(r)
    BY <1>3, SilentIsInformed DEF Silent, Place
  <1> QED
    BY <1>1, <1>3, <1>4, <1>5, JobMoves

\* A stub is a row.
LEMMA StubIsRow ==
    ASSUME NEW l \in Label
    PROVE  Stubbed(l) \in NodeSet
  BY TypeAssumption DEF TypeAssumption, Stubbed, NodeSet

LEMMA FindTargetKeeps ==
    ASSUME GraphInv, NEW w \in Worker, FindTarget(w)
    PROVE  GraphInv' /\ Lossless /\ MergesKeep
  <1>0. PICK t : t = Lookup(job[w].edge.target)
    OBVIOUS
  <1>a. PICK a : a = [job[w] EXCEPT !.pc = "find", !.role = "source", !.target = t,
                                    !.node = Stubbed(job[w].edge.source)]
    OBVIOUS
  <1>b. PICK b : b = [job[w] EXCEPT !.pc = "find", !.role = "target",
                                    !.node = Stubbed(job[w].edge.target)]
    OBVIOUS
  <1>c. PICK c : c = [job[w] EXCEPT !.pc = "link", !.target = t]
    OBVIOUS
  <1>1. PICK r : r = CASE job[w].source = None -> a
                       [] job[w].source # None /\ t = None -> b
                       [] OTHER -> c
    OBVIOUS
  <1>2. /\ job[w].pc = "target" /\ job[w] \in JobSet /\ Carries(job[w])
        /\ UNCHANGED <<tables, mirror, jobs, aux>> /\ items' \in 0..MaxItems
        /\ job' = [job EXCEPT ![w] = r]
    BY <1>0, <1>1, <1>a, <1>b, <1>c, TypesSplit DEF FindTarget, At, GraphInv, bounds
  <1>3. /\ t \in NodeId \cup {None} /\ job[w].source \in NodeId \cup {None}
        /\ job[w].edge \in Wanted
    BY <1>0, <1>2, LookupIsId DEF JobSet, Carries
  <1>4. Stubbed(job[w].edge.source) \in NodeSet /\ Stubbed(job[w].edge.target) \in NodeSet
    BY <1>3, StubIsRow DEF Wanted
  <1>5. r \in JobSet /\ r.pc \in {"find", "link"} /\ Carries(r)
    <2>1. CASE job[w].source = None
      <3>1. r = a
        BY <1>1, <2>1
      <3>2. /\ r \in JobSet /\ r.pc = "find" /\ r.role = "source" /\ r.edge = job[w].edge
            /\ r.node = Stubbed(job[w].edge.source) /\ r.pairs = job[w].pairs
        BY <1>2, <1>3, <1>4, <1>a, <3>1 DEF JobSet, Place
      <3> QED
        BY <1>2, <1>3, <1>4, <3>2 DEF Carries
    <2>2. CASE job[w].source # None /\ t = None
      <3>1. r = b
        BY <1>1, <2>2
      <3>2. /\ r \in JobSet /\ r.pc = "find" /\ r.role = "target" /\ r.edge = job[w].edge
            /\ r.node = Stubbed(job[w].edge.target) /\ r.pairs = job[w].pairs
            /\ r.source = job[w].source
        BY <1>2, <1>3, <1>4, <1>b, <3>1 DEF JobSet, Place
      <3> QED
        BY <1>2, <1>3, <1>4, <2>2, <3>2 DEF Carries
    <2>3. CASE job[w].source # None /\ t # None
      <3>1. r = c
        BY <1>1, <2>3
      <3>2. /\ r \in JobSet /\ r.pc = "link" /\ r.target = t /\ r.edge = job[w].edge
            /\ r.pairs = job[w].pairs /\ r.source = job[w].source
        BY <1>2, <1>3, <1>c, <3>1 DEF JobSet, Place
      <3> QED
        BY <1>2, <1>3, <2>3, <3>2 DEF Carries
    <2> QED
      BY <2>1, <2>2, <2>3
  <1>6. Informed(r)
    BY <1>5, SilentIsInformed DEF Silent, Place
  <1> QED
    BY <1>2, <1>5, <1>6, JobMoves

LEMMA FindEdgeKeeps ==
    ASSUME GraphInv, NEW w \in Worker, FindEdge(w)
    PROVE  GraphInv' /\ Lossless /\ MergesKeep
  <1> DEFINE S == Joining(job[w].source, job[w].target, job[w].edge.relation)
  <1>0. PICK e : e = IF S = {} THEN None ELSE First(S)
    OBVIOUS
  <1>1. PICK k : k = IF e = None THEN None ELSE edges[e].weight
    OBVIOUS
  <1>2. PICK r : r = IF job[w].source = job[w].target THEN [Idle EXCEPT !.pc = "relations"]
                     ELSE [job[w] EXCEPT !.pc = "write_edge", !.found = e, !.rank = k]
    OBVIOUS
  <1>3. /\ job[w].pc = "link" /\ job[w] \in JobSet /\ Carries(job[w])
        /\ UNCHANGED <<tables, mirror, jobs, aux>> /\ items' \in 0..MaxItems
        /\ job' = [job EXCEPT ![w] = r]
    BY <1>0, <1>1, <1>2, TypesSplit DEF FindEdge, At, GraphInv, bounds
  <1>4. \/ e = None /\ k = None
        \/ e \in EdgeId /\ e # None /\ e \in Nat /\ k = edges[e].weight /\ k \in Weight
           /\ k \in Nat
    <2>1. CASE S = {}
      BY <1>0, <1>1, <2>1
    <2>2. CASE S # {}
      <3>1. S \subseteq LiveEdges
        BY DEF Joining
      <3>2. S \subseteq Nat
        BY <3>1, IdsAreNumbers DEF LiveEdges
      <3>3. e \in LiveEdges
        BY <1>0, <2>2, <3>1, <3>2, FirstIsThere
      <3>4. e \in EdgeId /\ e # None /\ e \in Nat
        BY <3>3, IdsAreNumbers DEF LiveEdges
      <3>5. edges[e].weight \in Weight /\ edges[e].weight \in Nat
        BY <3>3, LiveRows DEF EdgeSet
      <3> QED
        BY <1>1, <3>4, <3>5
    <2> QED
      BY <2>1, <2>2
  <1>5. CASE job[w].source = job[w].target
    <2>1. r \in JobSet /\ r.pc # "idle" /\ Carries(r) /\ Informed(r)
      BY <1>2, <1>5, IdleGoesPlain DEF Plain
    <2> QED
      BY <1>3, <2>1, JobMoves
  <1>6. CASE job[w].source # job[w].target
    <2>1. r = [job[w] EXCEPT !.pc = "write_edge", !.found = e, !.rank = k]
      BY <1>2, <1>6
    <2>2. e \in Nat /\ k \in Nat
      BY <1>4 DEF None
    <2>3. /\ r \in JobSet /\ r.pc = "write_edge" /\ r.found = e /\ r.rank = k
          /\ r.edge = job[w].edge /\ r.pairs = job[w].pairs
          /\ r.source = job[w].source /\ r.target = job[w].target
      BY <1>3, <2>1, <2>2 DEF JobSet, Place
    <2>4. Carries(r)
      BY <1>3, <1>4, <2>3 DEF Carries
    <2>5. Informed(r)
      BY <1>4, <2>3 DEF Informed, TablesAsRead, MirrorAsBuilt
    <2> QED
      BY <1>3, <2>3, <2>4, <2>5, JobMoves
  <1> QED
    BY <1>5, <1>6

\* A row on the list of a job is a row of the table, known by its id.
LEMMA RowsOfTable ==
    ASSUME GraphInv
    PROVE  /\ Rows \subseteq RowSet
           /\ \A a, b \in Rows : a.id = b.id => a = b
  <1>1. \A n \in LiveNodes : Row(n) \in RowSet /\ Row(n).id = n
    BY LiveRows DEF Row, RowSet, NodeSet, LiveNodes
  <1> QED
    BY <1>1 DEF Rows

LEMMA CandidatesDiffer ==
    ASSUME GraphInv
    PROVE  /\ Candidates \subseteq RowSet \X RowSet
           /\ \A p \in Candidates : p[1].id # p[2].id
  <1>1. Candidates \subseteq RowSet \X RowSet
    BY RowsOfTable DEF Candidates
  <1>2. ASSUME NEW p \in Candidates, p[1].id = p[2].id PROVE FALSE
    <2>1. p[1] \in Rows /\ p[2] \in Rows /\ Before(p[1], p[2])
      BY <1>2 DEF Candidates
    <2>2. p[1] = p[2]
      BY <1>2, <2>1, RowsOfTable
    <2>3. p[1].label \in Nat /\ p[1].id \in Nat
      BY <2>1, RowsOfTable, LabelAssumption, IdsAreNumbers DEF LabelAssumption, RowSet
    <2> QED
      BY <2>1, <2>2, <2>3 DEF Before
  <1> QED
    BY <1>1, <1>2

LEMMA ListPairsKeeps ==
    ASSUME GraphInv, NEW w \in Worker, ListPairs(w)
    PROVE  GraphInv' /\ Lossless /\ MergesKeep
  <1>0. PICK c : c = Candidates
    OBVIOUS
  <1> DEFINE r == [job[w] EXCEPT !.pc = "compare", !.pairs = c]
  <1>1. /\ job[w].pc = "list_pairs" /\ job[w] \in JobSet /\ Carries(job[w])
        /\ UNCHANGED <<tables, mirror, jobs, aux>> /\ items' \in 0..MaxItems
        /\ job' = [job EXCEPT ![w] = r]
    BY <1>0, TypesSplit DEF ListPairs, At, GraphInv, bounds
  <1>2. c \subseteq RowSet \X RowSet /\ \A p \in c : p[1].id # p[2].id
    BY <1>0, CandidatesDiffer
  <1>3. r \in JobSet /\ r.pc = "compare" /\ r.pairs = c
    BY <1>1, <1>2 DEF JobSet, Place
  <1> HIDE DEF r
  <1>4. Carries(r)
    BY <1>2, <1>3 DEF Carries
  <1>5. Informed(r)
    BY <1>3, SilentIsInformed DEF Silent, Place
  <1> QED
    BY <1>1, <1>3, <1>4, <1>5, JobMoves

LEMMA CompareKeeps ==
    ASSUME GraphInv, NEW w \in Worker, Compare(w)
    PROVE  GraphInv' /\ Lossless /\ MergesKeep
  <1>1. /\ job[w].pc = "compare" /\ job[w] \in JobSet /\ Carries(job[w])
        /\ UNCHANGED <<tables, mirror, jobs, aux>> /\ UNCHANGED items
        /\ items' \in 0..MaxItems
    BY TypesSplit DEF Compare, At, GraphInv, bounds
  <1>2. CASE Goto(w, "prune")
    <2>1. "prune" \in Plain
      BY DEF Plain
    <2> QED
      BY <1>1, <1>2, <2>1, PlainMoves
  <1>3. CASE ~Goto(w, "prune")
    <2>1. PICK p \in NextPairs(w) :
             \/ job' = [job EXCEPT ![w].pairs = @ \ {p}]
             \/ job' = [job EXCEPT ![w].pairs = @ \ {p}, ![w].pc = "move_sources",
                                   ![w].source = Kept(p), ![w].target = Dropped(p)]
      BY <1>3 DEF Compare
    <2>2. PICK left : left = job[w].pairs \ {p}
      OBVIOUS
    <2>3. /\ p \in RowSet \X RowSet /\ p[1].id # p[2].id
          /\ left \subseteq RowSet \X RowSet /\ \A q \in left : q[1].id # q[2].id
      BY <1>1, <2>1, <2>2 DEF NextPairs, Carries, JobSet
    <2>4. CASE job' = [job EXCEPT ![w].pairs = @ \ {p}]
      <3> DEFINE r == [job[w] EXCEPT !.pairs = left]
      <3>1. job' = [job EXCEPT ![w] = r]
        BY <2>2, <2>4
      <3>2. r \in JobSet /\ r.pc = "compare" /\ r.pairs = left
        BY <1>1, <2>3 DEF JobSet
      <3> HIDE DEF r
      <3>3. Carries(r)
        BY <2>3, <3>2 DEF Carries
      <3>4. Informed(r)
        BY <3>2, SilentIsInformed DEF Silent, Place
      <3> QED
        BY <1>1, <3>1, <3>2, <3>3, <3>4, JobMoves
    <2>5. CASE job' # [job EXCEPT ![w].pairs = @ \ {p}]
      <3>1. PICK keep, drop : keep = Kept(p) /\ drop = Dropped(p)
        OBVIOUS
      <3>2. keep \in NodeId /\ drop \in NodeId /\ keep # drop
        BY <2>3, <3>1 DEF Kept, Dropped, RowSet
      <3> DEFINE r == [job[w] EXCEPT !.pairs = left, !.pc = "move_sources",
                                     !.source = keep, !.target = drop]
      <3>3. job' = [job EXCEPT ![w] = r]
        BY <2>1, <2>2, <2>5, <3>1
      <3>4. /\ r \in JobSet /\ r.pc = "move_sources" /\ r.pairs = left
            /\ r.source = keep /\ r.target = drop
        BY <1>1, <2>3, <3>2 DEF JobSet, Place
      <3> HIDE DEF r
      <3>5. Carries(r)
        BY <2>3, <3>2, <3>4 DEF Carries
      <3>6. Informed(r)
        BY <3>4, SilentIsInformed DEF Silent, Place
      <3> QED
        BY <1>1, <3>3, <3>4, <3>5, <3>6, JobMoves
    <2> QED
      BY <2>4, <2>5
  <1> QED
    BY <1>2, <1>3

LEMMA ListTypesKeeps ==
    ASSUME GraphInv, NEW w \in Worker, ListTypes(w)
    PROVE  GraphInv' /\ Lossless /\ MergesKeep
  <1>0. PICK c : c = Rows
    OBVIOUS
  <1> DEFINE r == [job[w] EXCEPT !.pc = "validate", !.rows = c]
  <1>1. /\ job[w].pc = "list_types" /\ job[w] \in JobSet /\ Carries(job[w])
        /\ UNCHANGED <<tables, mirror, jobs, aux>> /\ items' \in 0..MaxItems
        /\ job' = [job EXCEPT ![w] = r]
    BY <1>0, TypesSplit DEF ListTypes, At, GraphInv, bounds
  <1>2. c \subseteq RowSet
    BY <1>0, RowsOfTable
  <1>3. r \in JobSet /\ r.pc = "validate" /\ r.rows = c /\ r.pairs = job[w].pairs
    BY <1>1, <1>2 DEF JobSet, Place
  <1> HIDE DEF r
  <1>4. Carries(r)
    BY <1>1, <1>2, <1>3 DEF Carries
  <1>5. Informed(r)
    BY <1>3, SilentIsInformed DEF Silent, Place
  <1> QED
    BY <1>1, <1>3, <1>4, <1>5, JobMoves

LEMMA ListNodesKeeps ==
    ASSUME GraphInv, NEW w \in Worker, ListNodes(w)
    PROVE  GraphInv' /\ Lossless /\ MergesKeep
  <1>0. PICK c : c = {Row(n).id : n \in LiveNodes}
    OBVIOUS
  <1> DEFINE r == [job[w] EXCEPT !.pc = "list_edges", !.rows = c]
  <1>1. /\ job[w].pc = "list_nodes" /\ job[w] \in JobSet /\ Carries(job[w])
        /\ UNCHANGED <<tables, mirror, jobs, aux>> /\ items' \in 0..MaxItems
        /\ job' = [job EXCEPT ![w] = r]
    BY <1>0, TypesSplit DEF ListNodes, At, GraphInv, bounds
  <1>2. c = LiveNodes /\ c \subseteq NodeId
    BY <1>0 DEF Row, LiveNodes
  <1>3. r \in JobSet /\ r.pc = "list_edges" /\ r.rows = c /\ r.pairs = job[w].pairs
    BY <1>1, <1>2 DEF JobSet, Place
  <1> HIDE DEF r
  <1>4. Carries(r)
    BY <1>1, <1>2, <1>3 DEF Carries
  <1>5. Informed(r)
    BY <1>2, <1>3 DEF Informed, TablesAsRead, MirrorAsBuilt
  <1> QED
    BY <1>1, <1>3, <1>4, <1>5, JobMoves

LEMMA LinksAreLinks ==
    ASSUME GraphInv
    PROVE  Links \subseteq LinkSet
  BY LiveRows DEF Links, Link, LinkSet, EdgeSet

LEMMA ListEdgesKeeps ==
    ASSUME GraphInv, NEW w \in Worker, ListEdges(w)
    PROVE  GraphInv' /\ Lossless /\ MergesKeep
  <1>0. PICK c : c = {Link(e) : e \in LiveEdges}
    OBVIOUS
  <1> DEFINE r == [job[w] EXCEPT !.pc = "clear", !.links = c]
  <1>1. /\ job[w].pc = "list_edges" /\ job[w] \in JobSet /\ Carries(job[w])
        /\ UNCHANGED <<tables, mirror, jobs, aux>> /\ items' \in 0..MaxItems
        /\ job' = [job EXCEPT ![w] = r]
    BY <1>0, TypesSplit DEF ListEdges, At, GraphInv, bounds
  <1>2. c = Links /\ c \subseteq LinkSet
    BY <1>0, LinksAreLinks DEF Links
  <1>3. /\ r \in JobSet /\ r.pc = "clear" /\ r.links = c /\ r.rows = job[w].rows
        /\ r.pairs = job[w].pairs
    BY <1>1, <1>2 DEF JobSet, Place
  <1> HIDE DEF r
  <1>4. Carries(r)
    BY <1>1, <1>3 DEF Carries
  <1>5. clean => Informed(job[w])
    BY DEF GraphInv
  <1>6. clean => Informed(r)
    BY <1>1, <1>2, <1>3, <1>5 DEF Informed, TablesAsRead, MirrorAsBuilt
  <1> QED
    BY <1>1, <1>3, <1>4, <1>6, JobMoves
-----------------------------------------------------------------------------
(***************************************************************************)
(* The steps of the rebuild.                                               *)
(***************************************************************************)
\* A step of one coroutine that writes the mirror.
LEMMA MirrorMoves ==
    ASSUME GraphInv, NEW w \in Worker, NEW r \in JobSet, job[w].pc # "idle", r.pc # "idle",
           job' = [job EXCEPT ![w] = r], UNCHANGED <<tables, bounds, aux>>,
           mirror' \in [nodes : SUBSET NodeId, edges : SUBSET LinkSet],
           Carries(r), clean => Informed(r)'
    PROVE  GraphInv' /\ Lossless /\ MergesKeep
  <1>1. /\ UNCHANGED <<nodes, edges, nextNode, nextEdge, removed, clean, items, jobs>>
        /\ UNCHANGED aux
    BY DEF tables, aux, bounds
  <1>2. TablesTyped' /\ items' \in 0..MaxItems /\ jobs' \in 0..MaxJobs
    BY <1>1, TypesSplit DEF TablesTyped
  <1>3. NoDanglingEdges' /\ IdsAreFresh' /\ OneRowPerLabel'
    BY <1>1 DEF GraphInv, NoDanglingEdges, IdsAreFresh, OneRowPerLabel, LiveNodes, LiveEdges,
                NodeLives, EdgeLives
  <1>4. GraphInv'
    BY <1>1, <1>2, <1>3, StepOfOne
  <1>5. Lossless
    <2>1. \A n \in NodeId : NodeLives(n) => nodes[n].weight <= nodes[n].weight
      BY LiveRows DEF LiveNodes
    <2>2. \A e \in EdgeId : EdgeLives(e) => edges[e].weight <= edges[e].weight
      BY LiveRows DEF LiveEdges
    <2> QED
      BY <1>1, <2>1, <2>2 DEF Lossless
  <1>6. MergesKeep
    BY <1>1 DEF MergesKeep
  <1> QED
    BY <1>4, <1>5, <1>6

LEMMA ClearMirrorKeeps ==
    ASSUME GraphInv, NEW w \in Worker, ClearMirror(w)
    PROVE  GraphInv' /\ Lossless /\ MergesKeep
  <1> DEFINE r == [job[w] EXCEPT !.pc = "fill_nodes"]
  <1>1. /\ job[w].pc = "clear" /\ job[w] \in JobSet /\ Carries(job[w])
        /\ clean => Informed(job[w])
        /\ UNCHANGED <<tables, bounds, aux>>
        /\ mirror' = [nodes |-> {}, edges |-> {}]
        /\ job' = [job EXCEPT ![w] = r]
    BY TypesSplit DEF ClearMirror, At, Goto, GraphInv
  <1>2. /\ r \in JobSet /\ r.pc = "fill_nodes" /\ r.links = job[w].links
        /\ r.rows = job[w].rows /\ r.pairs = job[w].pairs
    BY <1>1 DEF JobSet, Place
  <1>3. PICK q : q = r
    OBVIOUS
  <1> HIDE DEF r
  <1>4. Carries(q)
    BY <1>1, <1>2, <1>3 DEF Carries
  <1>5. UNCHANGED <<LiveNodes, Links>>
    BY <1>1 DEF LiveNodes, Links, LiveEdges, Link, NodeLives, EdgeLives, tables
  <1>6. clean => Informed(q)'
    BY <1>1, <1>2, <1>3, <1>5 DEF Informed, TablesAsRead, MirrorAsBuilt
  <1> QED
    BY <1>1, <1>2, <1>3, <1>4, <1>6, MirrorMoves

LEMMA FillNodesKeeps ==
    ASSUME GraphInv, NEW w \in Worker, FillNodes(w)
    PROVE  GraphInv' /\ Lossless /\ MergesKeep
  <1> DEFINE r == [job[w] EXCEPT !.pc = "fill_edges"]
  <1>1. /\ job[w].pc = "fill_nodes" /\ job[w] \in JobSet /\ Carries(job[w])
        /\ clean => Informed(job[w])
        /\ UNCHANGED <<tables, bounds, aux>>
        /\ mirror \in [nodes : SUBSET NodeId, edges : SUBSET LinkSet]
        /\ mirror' = [mirror EXCEPT !.nodes = @ \cup job[w].rows]
        /\ job' = [job EXCEPT ![w] = r]
    BY TypesSplit DEF FillNodes, At, Goto, GraphInv
  <1>2. /\ r \in JobSet /\ r.pc = "fill_edges" /\ r.links = job[w].links
        /\ r.pairs = job[w].pairs
    BY <1>1 DEF JobSet, Place
  <1>3. PICK q : q = r
    OBVIOUS
  <1> HIDE DEF r
  <1>4. Carries(q)
    BY <1>1, <1>2, <1>3 DEF Carries
  <1>5. UNCHANGED <<LiveNodes, Links>>
    BY <1>1 DEF LiveNodes, Links, LiveEdges, Link, NodeLives, EdgeLives, tables
  <1>6. /\ mirror' \in [nodes : SUBSET NodeId, edges : SUBSET LinkSet]
        /\ mirror'.nodes = mirror.nodes \cup job[w].rows /\ mirror'.edges = mirror.edges
    BY <1>1 DEF Carries
  <1>7. clean => Informed(q)'
    BY <1>1, <1>2, <1>3, <1>5, <1>6 DEF Informed, TablesAsRead, MirrorAsBuilt
  <1> QED
    BY <1>1, <1>2, <1>3, <1>4, <1>6, <1>7, MirrorMoves

LEMMA FillEdgesKeeps ==
    ASSUME GraphInv, NEW w \in Worker, FillEdges(w)
    PROVE  GraphInv' /\ Lossless /\ MergesKeep
  <1> DEFINE r    == [job[w] EXCEPT !.pc = "finish"]
             both == {k \in job[w].links :
                         k.source \in mirror.nodes /\ k.target \in mirror.nodes}
  <1>1. /\ job[w].pc = "fill_edges" /\ job[w] \in JobSet /\ Carries(job[w])
        /\ clean => Informed(job[w])
        /\ UNCHANGED <<tables, bounds, aux>>
        /\ mirror \in [nodes : SUBSET NodeId, edges : SUBSET LinkSet]
        /\ mirror' = [mirror EXCEPT !.edges = @ \cup both]
        /\ job' = [job EXCEPT ![w] = r]
    BY TypesSplit DEF FillEdges, At, Goto, GraphInv
  <1>2. r \in JobSet /\ r.pc = "finish" /\ r.pairs = job[w].pairs
    BY <1>1 DEF JobSet, Place
  <1>3. PICK q : q = r
    OBVIOUS
  <1> HIDE DEF r
  <1>4. Carries(q)
    BY <1>1, <1>2, <1>3 DEF Carries
  <1>5. UNCHANGED <<LiveNodes, Links, removed>>
    BY <1>1 DEF LiveNodes, Links, LiveEdges, Link, NodeLives, EdgeLives, tables, aux
  <1>6. both \subseteq LinkSet
    BY <1>1 DEF JobSet
  <1>7. /\ mirror' \in [nodes : SUBSET NodeId, edges : SUBSET LinkSet]
        /\ mirror'.nodes = mirror.nodes /\ mirror'.edges = mirror.edges \cup both
    BY <1>1, <1>6
  <1>8. ASSUME clean, Mirrored PROVE MirrorHolds'
    <2>1. mirror.nodes = LiveNodes /\ mirror.edges = {} /\ job[w].links = Links
      BY <1>1, <1>8 DEF Informed, MirrorAsBuilt
    <2>2. \A n \in removed : n \notin LiveNodes
      BY DEF GraphInv, IdsAreFresh, LiveNodes
    <2>3. \A k \in Links : k.source \in LiveNodes /\ k.target \in LiveNodes
      BY LiveRows DEF GraphInv, NoDanglingEdges, Links, Link, LiveNodes, EdgeSet
    <2>4. both = Links
      BY <2>1, <2>3
    <2>5. \A k \in Links : {k.source, k.target} \cap removed = {}
      BY <2>2, <2>3
    <2> QED
      BY <1>5, <1>7, <2>1, <2>2, <2>4, <2>5 DEF MirrorHolds
  <1>9. clean => Informed(q)'
    BY <1>2, <1>3, <1>8 DEF Informed, TablesAsRead, MirrorAsBuilt
  <1> QED
    BY <1>1, <1>2, <1>3, <1>4, <1>7, <1>9, MirrorMoves
-----------------------------------------------------------------------------
(***************************************************************************)
(* The steps that write the tables.                                        *)
(***************************************************************************)
LEMMA TableMoves ==
    ASSUME GraphInv, NEW w \in Worker, NEW r \in JobSet,
           job[w].pc \notin {"idle", "drop"}, r.pc # "idle",
           job' = [job EXCEPT ![w] = r], UNCHANGED <<mirror, bounds, aux>>,
           Carries(r), clean => Informed(r)', Lossless,
           TablesTyped', NoDanglingEdges', IdsAreFresh', OneRowPerLabel'
    PROVE  GraphInv' /\ Lossless /\ MergesKeep
  <1>1. /\ UNCHANGED aux /\ items' \in 0..MaxItems /\ jobs' \in 0..MaxJobs
        /\ mirror' \in [nodes : SUBSET NodeId, edges : SUBSET LinkSet]
        /\ job \in [Worker -> JobSet] /\ job[w].pc # "idle"
    BY TypesSplit DEF bounds
  <1>2. GraphInv'
    BY <1>1, StepOfOne
  <1>3. MergesKeep
    BY <1>1 DEF MergesKeep, At
  <1> QED
    BY <1>2, <1>3

\* A row that stays as it is loses nothing.
LEMMA SameRows ==
    ASSUME GraphInv
    PROVE  /\ \A n \in NodeId : NodeLives(n) => nodes[n].weight <= nodes[n].weight
           /\ \A e \in EdgeId : EdgeLives(e) => edges[e].weight <= edges[e].weight
  <1>1. \A n \in NodeId : NodeLives(n) => nodes[n].weight \in Nat
    BY LiveRows DEF LiveNodes
  <1>2. \A e \in EdgeId : EdgeLives(e) => edges[e].weight \in Nat
    BY LiveRows DEF LiveEdges
  <1> QED
    BY <1>1, <1>2

LEMMA ReturnedGoes ==
    ASSUME GraphInv, NEW w \in Worker, job[w].pc = "write", NEW n \in NodeId,
           NEW r, r = Returned(w, n)
    PROVE  r \in JobSet /\ r.pc # "idle" /\ r.pc \in Silent /\ Carries(r)
  <1>1. job[w] \in JobSet /\ Carries(job[w]) /\ job[w].role \in {"entity", "source", "target"}
    BY TypesSplit DEF GraphInv, Carries, JobSet
  <1>2. /\ job[w].role # "entity" => job[w].edge \in Wanted
        /\ \A p \in job[w].pairs : p[1].id # p[2].id
    BY <1>1 DEF Carries
  <1>0. PICK k : k = Stubbed(job[w].edge.target)
    OBVIOUS
  <1>a. PICK a : a = [Idle EXCEPT !.pc = "entities"]
    OBVIOUS
  <1>b. PICK b : b = [job[w] EXCEPT !.pc = "find", !.role = "target", !.source = n,
                                    !.node = k]
    OBVIOUS
  <1>c. PICK c : c = [job[w] EXCEPT !.pc = "link", !.source = n]
    OBVIOUS
  <1>d. PICK d : d = [job[w] EXCEPT !.pc = "link", !.target = n]
    OBVIOUS
  <1>3. r = CASE job[w].role = "entity" -> a
              [] job[w].role = "source" /\ job[w].target = None -> b
              [] job[w].role = "source" /\ job[w].target # None -> c
              [] OTHER -> d
    BY <1>0, <1>a, <1>b, <1>c, <1>d DEF Returned
  <1>4. CASE job[w].role = "entity"
    <2>1. r = a
      BY <1>3, <1>4
    <2> QED
      BY <1>a, <2>1, IdleGoesPlain DEF Plain, Silent, Place
  <1>5. CASE job[w].role = "source" /\ job[w].target = None
    <2>1. r = b
      BY <1>3, <1>5
    <2>2. k \in NodeSet
      BY <1>0, <1>2, <1>5, StubIsRow DEF Wanted
    <2>3. /\ r \in JobSet /\ r.pc = "find" /\ r.role = "target" /\ r.source = n
          /\ r.node = k /\ r.edge = job[w].edge /\ r.pairs = job[w].pairs
      <3>1. PICK q : q = [job[w] EXCEPT !.pc = "find", !.role = "target"]
        OBVIOUS
      <3>2. /\ q \in JobSet /\ q.pc = "find" /\ q.role = "target"
            /\ q.edge = job[w].edge /\ q.pairs = job[w].pairs
        BY <1>1, <3>1 DEF JobSet, Place
      <3>3. r = [q EXCEPT !.source = n, !.node = k]
        BY <1>1, <1>b, <2>1, <3>1 DEF JobSet
      <3> QED
        BY <2>2, <3>2, <3>3 DEF JobSet
    <2>4. r.edge \in Wanted
      BY <1>2, <1>5, <2>3
    <2>5. Carries(r)
      BY <1>2, <2>2, <2>3, <2>4 DEF Carries
    <2>6. r.pc # "idle" /\ r.pc \in Silent
      BY <2>3 DEF Silent, Place
    <2> QED
      BY <2>3, <2>5, <2>6
  <1>6. CASE job[w].role = "source" /\ job[w].target # None
    <2>1. r = c
      BY <1>3, <1>6
    <2>2. /\ r \in JobSet /\ r.pc = "link" /\ r.source = n /\ r.target = job[w].target
          /\ r.edge = job[w].edge /\ r.pairs = job[w].pairs
      <3>1. PICK q : q = [job[w] EXCEPT !.pc = "link"]
        OBVIOUS
      <3>2. /\ q \in JobSet /\ q.pc = "link" /\ q.source = job[w].source
            /\ q.target = job[w].target /\ q.edge = job[w].edge /\ q.pairs = job[w].pairs
        BY <1>1, <3>1 DEF JobSet, Place
      <3>3. r = [q EXCEPT !.source = n]
        BY <1>1, <1>c, <2>1, <3>1 DEF JobSet
      <3> QED
        BY <3>2, <3>3 DEF JobSet
    <2>3. job[w].target \in NodeId
      BY <1>1, <1>6 DEF JobSet
    <2> QED
      BY <1>2, <1>6, <2>2, <2>3 DEF Carries, Silent, Place
  <1>7. CASE job[w].role = "target"
    <2>1. r = d
      BY <1>3, <1>7
    <2>2. /\ r \in JobSet /\ r.pc = "link" /\ r.source = job[w].source /\ r.target = n
          /\ r.edge = job[w].edge /\ r.pairs = job[w].pairs
      <3>1. PICK q : q = [job[w] EXCEPT !.pc = "link"]
        OBVIOUS
      <3>2. /\ q \in JobSet /\ q.pc = "link" /\ q.source = job[w].source
            /\ q.target = job[w].target /\ q.edge = job[w].edge /\ q.pairs = job[w].pairs
        BY <1>1, <3>1 DEF JobSet, Place
      <3>3. r = [q EXCEPT !.target = n]
        BY <1>1, <1>d, <2>1, <3>1 DEF JobSet
      <3> QED
        BY <3>2, <3>3 DEF JobSet
    <2>3. job[w].source \in NodeId
      BY <1>1, <1>7 DEF Carries
    <2> QED
      BY <1>2, <1>7, <2>2, <2>3 DEF Carries, Silent, Place
  <1> QED
    BY <1>1, <1>4, <1>5, <1>6, <1>7

\* upsert_node updates a row, if it is still there, ...
LEMMA UpdateNodeKeeps ==
    ASSUME GraphInv, NEW w \in Worker, WriteNode(w), job[w].found # None
    PROVE  GraphInv' /\ Lossless /\ MergesKeep
  <1>1. PICK n : n = job[w].found
    OBVIOUS
  <1>2. PICK r : r = Returned(w, n)
    OBVIOUS
  <1>3. PICK rank, weight : rank = job[w].rank /\ weight = job[w].node.weight
    OBVIOUS
  <1>4. PICK row : row = IF NodeLives(n)
                         THEN [nodes[n] EXCEPT !.weight = Larger(rank, weight)]
                         ELSE nodes[n]
    OBVIOUS
  <1>5. /\ job[w].pc = "write" /\ Carries(job[w]) /\ job[w] \in JobSet
        /\ nodes' = [nodes EXCEPT ![n] = row]
        /\ job' = [job EXCEPT ![w] = r]
        /\ UNCHANGED <<mirror, bounds, aux>>
        /\ UNCHANGED <<edges, nextNode, nextEdge, removed, clean>>
    BY <1>1, <1>2, <1>3, <1>4, TypesSplit DEF WriteNode, At, GraphInv, aux
  <1>6. n \in NodeId /\ rank \in {Stub, Full} /\ weight \in {Stub, Full}
    BY <1>1, <1>3, <1>5 DEF Carries, NodeSet
  <1>7. /\ rank \in Nat /\ weight \in Nat
        /\ Larger(rank, weight) \in {Stub, Full} /\ rank <= Larger(rank, weight)
    BY <1>6 DEF Larger, Stub, Full
  <1>8. nodes \in [NodeId -> NodeSet \cup {NoNode}]
    BY TypesSplit DEF TablesTyped
  <1>9. /\ ~NodeLives(n) => row = NoNode
        /\ NodeLives(n) => /\ row \in NodeSet /\ row # NoNode /\ row.label = nodes[n].label
                           /\ row.weight = Larger(rank, weight)
    <2>1. CASE ~NodeLives(n)
      BY <1>4, <2>1 DEF NodeLives
    <2>2. CASE NodeLives(n)
      <3>1. row = [nodes[n] EXCEPT !.weight = Larger(rank, weight)] /\ nodes[n] \in NodeSet
        BY <1>4, <1>6, <1>8, <2>2 DEF NodeLives
      <3>2. /\ row \in NodeSet /\ row.label = nodes[n].label
            /\ row.weight = Larger(rank, weight)
        BY <1>7, <3>1 DEF NodeSet
      <3> QED
        BY <2>2, <3>2, RowsAreRows
    <2> QED
      BY <2>1, <2>2
  <1>10. /\ nodes' \in [NodeId -> NodeSet \cup {NoNode}]
         /\ nodes'[n] = row /\ \A m \in NodeId \ {n} : nodes'[m] = nodes[m]
    BY <1>5, <1>6, <1>8, <1>9
  <1>11. /\ \A m \in NodeId : NodeLives(m)' <=> NodeLives(m)
         /\ \A m \in LiveNodes : nodes'[m].label = nodes[m].label
    BY <1>9, <1>10 DEF NodeLives, LiveNodes
  <1>12. LiveNodes' = LiveNodes /\ LiveEdges' = LiveEdges
    BY <1>5, <1>11 DEF LiveNodes, LiveEdges, EdgeLives
  <1>13. TablesTyped'
    BY <1>5, <1>10, TypesSplit DEF TablesTyped
  <1>14. NoDanglingEdges'
    <2>1. \A e \in LiveEdges : edges[e].source \in NodeId /\ edges[e].target \in NodeId
      BY LiveRows DEF EdgeSet
    <2> QED
      BY <1>5, <1>11, <1>12, <2>1 DEF GraphInv, NoDanglingEdges
  <1>15. IdsAreFresh'
    BY <1>5, <1>11, <1>12, TypesSplit DEF GraphInv, IdsAreFresh
  <1>16. OneRowPerLabel'
    BY <1>5, <1>11, <1>12 DEF GraphInv, OneRowPerLabel
  <1>17. Lossless
    <2>1. clean => nodes[n].weight = rank
      BY <1>1, <1>3, <1>5 DEF GraphInv, Informed, TablesAsRead
    <2>2. ASSUME clean, NEW m \in NodeId, NodeLives(m)
          PROVE  nodes[m].weight <= nodes'[m].weight
      BY <1>7, <1>9, <1>10, <2>1, <2>2, SameRows
    <2> QED
      BY <1>5, <2>2, SameRows DEF Lossless
  <1>18. r \in JobSet /\ r.pc # "idle" /\ r.pc \in Silent /\ Carries(r)
    BY <1>2, <1>5, <1>6, ReturnedGoes
  <1>19. Informed(r)'
    BY <1>18, SilentIsInformed
  <1> QED
    BY <1>5, <1>13, <1>14, <1>15, <1>16, <1>17, <1>18, <1>19, TableMoves

\* ... or inserts a new one.
LEMMA InsertNodeKeeps ==
    ASSUME GraphInv, NEW w \in Worker, WriteNode(w), job[w].found = None
    PROVE  GraphInv' /\ Lossless /\ MergesKeep
  <1>1. PICK n : n = nextNode
    OBVIOUS
  <1>2. PICK r : r = Returned(w, n)
    OBVIOUS
  <1>3. PICK row : row = job[w].node
    OBVIOUS
  <1>4. /\ job[w].pc = "write" /\ Carries(job[w]) /\ job[w] \in JobSet /\ n \in NodeId
        /\ nodes' = [nodes EXCEPT ![n] = row] /\ nextNode' = n + 1
        /\ job' = [job EXCEPT ![w] = r]
        /\ UNCHANGED <<mirror, bounds, aux>>
        /\ UNCHANGED <<edges, nextEdge, removed, clean>>
    BY <1>1, <1>2, <1>3, TypesSplit DEF WriteNode, At, GraphInv, aux
  <1>5. row \in NodeSet /\ row # NoNode
    BY <1>3, <1>4, RowsAreRows DEF Carries
  <1>6. /\ nodes \in [NodeId -> NodeSet \cup {NoNode}] /\ n \in Nat \ {0}
        /\ NodeId \subseteq Nat
    BY <1>1, TypesSplit, IdsAreNumbers DEF TablesTyped
  <1>7. /\ nodes' \in [NodeId -> NodeSet \cup {NoNode}]
        /\ nodes'[n] = row /\ \A m \in NodeId \ {n} : nodes'[m] = nodes[m]
    BY <1>4, <1>5, <1>6
  <1>8. n \notin LiveNodes /\ n \notin removed
    <2>1. /\ \A m \in LiveNodes : m < nextNode
          /\ \A m \in removed : m < nextNode
      BY DEF GraphInv, IdsAreFresh
    <2> QED
      BY <1>1, <1>6, <2>1
  <1>9. LiveNodes' = LiveNodes \cup {n} /\ LiveEdges' = LiveEdges
    BY <1>4, <1>5, <1>7 DEF LiveNodes, LiveEdges, NodeLives, EdgeLives
  <1>10. TablesTyped'
    BY <1>4, <1>6, <1>7, TypesSplit DEF TablesTyped
  <1>11. NoDanglingEdges'
    <2>1. ASSUME NEW m \in NodeId, NodeLives(m) PROVE NodeLives(m)'
      BY <1>5, <1>7, <2>1 DEF NodeLives
    <2>2. \A e \in LiveEdges : edges[e].source \in NodeId /\ edges[e].target \in NodeId
      BY LiveRows DEF EdgeSet
    <2> QED
      BY <1>4, <1>9, <2>1, <2>2 DEF GraphInv, NoDanglingEdges
  <1>12. IdsAreFresh'
    <2>1. \A m \in LiveNodes \cup removed : m \in Nat /\ m < n
      BY <1>1, <1>6, TypesSplit DEF GraphInv, IdsAreFresh, LiveNodes
    <2>2. \A m \in LiveNodes' \cup removed : m < n + 1
      BY <1>6, <1>9, <2>1
    <2>3. \A m \in removed : m \in NodeId /\ ~NodeLives(m)'
      BY <1>7, <1>8, TypesSplit DEF GraphInv, IdsAreFresh, NodeLives
    <2> QED
      BY <1>4, <1>9, <2>2, <2>3 DEF GraphInv, IdsAreFresh
  <1>13. OneRowPerLabel'
    <2>1. clean => \A m \in LiveNodes : nodes[m].label # row.label
      BY <1>3, <1>4 DEF GraphInv, Informed, TablesAsRead
    <2>2. \A m \in LiveNodes : nodes'[m] = nodes[m]
      BY <1>7, <1>8 DEF LiveNodes
    <2> QED
      BY <1>4, <1>7, <1>9, <2>1, <2>2 DEF GraphInv, OneRowPerLabel
  <1>14. Lossless
    <2>1. \A m \in NodeId : NodeLives(m) => m # n
      BY <1>8 DEF LiveNodes
    <2> QED
      BY <1>4, <1>7, <2>1, SameRows DEF Lossless
  <1>15. r \in JobSet /\ r.pc # "idle" /\ r.pc \in Silent /\ Carries(r)
    BY <1>2, <1>4, ReturnedGoes
  <1>16. Informed(r)'
    BY <1>15, SilentIsInformed
  <1> QED
    BY <1>4, <1>10, <1>11, <1>12, <1>13, <1>14, <1>15, <1>16, TableMoves

\* A job that fails leaves the tables as they are.
LEMMA FailKeeps ==
    ASSUME GraphInv, NEW w \in Worker, Fail(w), UNCHANGED <<tables, mirror, bounds>>
    PROVE  GraphInv' /\ Lossless /\ MergesKeep
  <1>1. /\ job' = [job EXCEPT ![w] = Idle] /\ clean' = FALSE
        /\ UNCHANGED <<removed, nodes, edges, nextNode, nextEdge, mirror, items, jobs>>
    BY DEF Fail, tables, bounds
  <1>2. job \in [Worker -> JobSet] /\ job' \in [Worker -> JobSet]
    BY <1>1, TypesSplit, IdleIsJob
  <1>3. Shape'
    BY <1>1, <1>2 DEF GraphInv, Shape, TypeOK
  <1>4. ASSUME NEW v \in Worker PROVE Carries(job'[v])
    <2>1. Carries(Idle)
      BY IdleIsJob DEF Carries
    <2>2. job'[v] = Idle \/ job'[v] = job[v]
      BY <1>1, <1>2
    <2> QED
      BY <2>1, <2>2 DEF GraphInv
  <1>5. NoDanglingEdges' /\ IdsAreFresh'
    BY <1>1 DEF GraphInv, NoDanglingEdges, IdsAreFresh, LiveNodes, LiveEdges, NodeLives,
                EdgeLives
  <1>6. OneRowPerLabel' /\ Alone' /\ MirrorCurrent' /\ ~clean'
    BY <1>1 DEF OneRowPerLabel, Alone, MirrorCurrent
  <1>7. GraphInv'
    BY <1>3, <1>4, <1>5, <1>6 DEF GraphInv
  <1>8. Lossless /\ MergesKeep
    BY <1>1, SameRows DEF Lossless, MergesKeep
  <1> QED
    BY <1>7, <1>8

\* upsert_edge raises the confidence of an edge, inserts it or fails.
LEMMA WriteEdgeKeeps ==
    ASSUME GraphInv, NEW w \in Worker, WriteEdge(w)
    PROVE  GraphInv' /\ Lossless /\ MergesKeep
  <1>1. PICK j, e, r : j = job[w] /\ e = j.found /\ r = [Idle EXCEPT !.pc = "relations"]
    OBVIOUS
  <1>2. /\ j.pc = "write_edge" /\ Carries(j) /\ j \in JobSet
        /\ UNCHANGED <<mirror, bounds, nodes, nextNode>>
        /\ edges \in [EdgeId -> EdgeSet \cup {NoEdge}]
        /\ j.edge \in Wanted /\ j.source \in NodeId /\ j.target \in NodeId
        /\ e = None \/ (e \in EdgeId /\ j.rank \in Weight)
    BY <1>1, TypesSplit DEF WriteEdge, At, GraphInv, TablesTyped, Carries
  <1>3. /\ r \in JobSet /\ r.pc # "idle" /\ Carries(r) /\ Informed(r)'
        /\ job[w].pc \notin {"idle", "drop"}
    BY <1>1, <1>2, IdleGoesPlain DEF Plain
  <1>4. CASE e # None
    <2>1. PICK rank, weight : rank = j.rank /\ weight = j.edge.weight
      OBVIOUS
    <2>2. PICK row : row = IF EdgeLives(e) THEN [edges[e] EXCEPT !.weight = Larger(rank, weight)]
                           ELSE edges[e]
      OBVIOUS
    <2>3. /\ edges' = [edges EXCEPT ![e] = row] /\ job' = [job EXCEPT ![w] = r]
          /\ UNCHANGED <<mirror, bounds, aux>>
          /\ UNCHANGED <<nodes, nextNode, nextEdge, removed, clean>>
      BY <1>1, <1>2, <1>4, <2>1, <2>2 DEF WriteEdge, aux
    <2>4. /\ e \in EdgeId /\ rank \in Nat /\ weight \in Nat /\ rank \in Weight
          /\ weight \in Weight
      BY <1>2, <1>4, <2>1, WeightAssumption DEF WeightAssumption, Wanted
    <2>5. Larger(rank, weight) \in Weight /\ rank <= Larger(rank, weight)
      BY <2>4 DEF Larger
    <2>6. /\ ~EdgeLives(e) => row = NoEdge
          /\ EdgeLives(e) => /\ row \in EdgeSet /\ row # NoEdge /\ row.source = edges[e].source
                             /\ row.target = edges[e].target
                             /\ row.weight = Larger(rank, weight)
      <3>1. CASE ~EdgeLives(e)
        BY <2>2, <3>1 DEF EdgeLives
      <3>2. CASE EdgeLives(e)
        <4>1. row = [edges[e] EXCEPT !.weight = Larger(rank, weight)] /\ edges[e] \in EdgeSet
          BY <1>2, <2>2, <2>4, <3>2 DEF EdgeLives
        <4>2. /\ row \in EdgeSet /\ row.source = edges[e].source
              /\ row.target = edges[e].target /\ row.weight = Larger(rank, weight)
          BY <2>5, <4>1 DEF EdgeSet
        <4> QED
          BY <3>2, <4>2, RowsAreRows
      <3> QED
        BY <3>1, <3>2
    <2>7. /\ edges' \in [EdgeId -> EdgeSet \cup {NoEdge}]
          /\ edges'[e] = row /\ \A d \in EdgeId \ {e} : edges'[d] = edges[d]
      BY <1>2, <2>3, <2>4, <2>6
    <2>8. /\ LiveEdges' = LiveEdges /\ LiveNodes' = LiveNodes
          /\ \A n : NodeLives(n)' <=> NodeLives(n)
      BY <2>3, <2>6, <2>7 DEF LiveEdges, LiveNodes, EdgeLives, NodeLives
    <2>9. TablesTyped'
      BY <2>3, <2>7, TypesSplit DEF TablesTyped
    <2>10. NoDanglingEdges'
      <3>1. \A d \in LiveEdges : /\ edges'[d].source = edges[d].source
                                 /\ edges'[d].target = edges[d].target
        BY <2>6, <2>7 DEF LiveEdges
      <3> QED
        BY <2>8, <3>1 DEF GraphInv, NoDanglingEdges
    <2>11. IdsAreFresh' /\ OneRowPerLabel'
      BY <2>3, <2>8 DEF GraphInv, IdsAreFresh, OneRowPerLabel
    <2>12. Lossless
      <3>1. clean => edges[e].weight = rank
        BY <1>1, <1>2, <1>4, <2>1 DEF GraphInv, Informed, TablesAsRead
      <3>2. ASSUME clean, NEW d \in EdgeId, EdgeLives(d)
            PROVE  edges[d].weight <= edges'[d].weight
        BY <2>5, <2>6, <2>7, <3>1, <3>2, SameRows
      <3> QED
        BY <2>3, <3>2, SameRows DEF Lossless
    <2> QED
      BY <1>3, <2>3, <2>9, <2>10, <2>11, <2>12, TableMoves
  <1>5. CASE e = None /\ NodeLives(j.source) /\ NodeLives(j.target)
    <2>1. PICK row : row = [j.edge EXCEPT !.source = j.source, !.target = j.target]
      OBVIOUS
    <2>2. PICK n : n = nextEdge
      OBVIOUS
    <2>3. /\ edges' = [edges EXCEPT ![n] = row] /\ job' = [job EXCEPT ![w] = r]
          /\ n \in EdgeId /\ nextEdge' = n + 1
          /\ UNCHANGED <<mirror, bounds, aux>>
          /\ UNCHANGED <<nodes, nextNode, removed, clean>>
      BY <1>1, <1>2, <1>5, <2>1, <2>2 DEF WriteEdge, aux
    <2>4. row \in EdgeSet /\ row.source = j.source /\ row.target = j.target
      BY <1>2, <2>1 DEF Wanted, EdgeSet
    <2>5. /\ edges' \in [EdgeId -> EdgeSet \cup {NoEdge}]
          /\ edges'[n] = row /\ row # NoEdge /\ \A d \in EdgeId \ {n} : edges'[d] = edges[d]
      BY <1>2, <2>3, <2>4, RowsAreRows
    <2>6. n \in Nat \ {0} /\ \A d \in LiveEdges : d \in Nat /\ d < n /\ d # n
      BY <2>2, TypesSplit, IdsAreNumbers DEF TablesTyped, GraphInv, IdsAreFresh, LiveEdges
    <2>7. /\ LiveEdges' = LiveEdges \cup {n} /\ LiveNodes' = LiveNodes
          /\ \A m : NodeLives(m)' <=> NodeLives(m)
      BY <2>3, <2>5 DEF LiveEdges, LiveNodes, EdgeLives, NodeLives
    <2>8. TablesTyped'
      BY <2>3, <2>5, <2>6, TypesSplit DEF TablesTyped
    <2>9. NoDanglingEdges'
      <3>1. \A d \in LiveEdges : edges'[d] = edges[d]
        BY <2>5, <2>6 DEF LiveEdges
      <3>2. NodeLives(edges[n].source)' /\ NodeLives(edges[n].target)'
        BY <1>5, <2>4, <2>5, <2>7
      <3> QED
        BY <2>7, <3>1, <3>2 DEF GraphInv, NoDanglingEdges
    <2>10. IdsAreFresh'
      <3>1. \A d \in LiveEdges' : d < n + 1
        BY <2>6, <2>7
      <3> QED
        BY <2>3, <2>7, <3>1 DEF GraphInv, IdsAreFresh
    <2>11. OneRowPerLabel'
      BY <2>3, <2>7 DEF GraphInv, OneRowPerLabel
    <2>12. Lossless
      <3>1. \A d \in EdgeId : EdgeLives(d) => d # n
        BY <2>6 DEF LiveEdges
      <3> QED
        BY <2>3, <2>5, <3>1, SameRows DEF Lossless
    <2> QED
      BY <1>3, <2>3, <2>8, <2>9, <2>10, <2>11, <2>12, TableMoves
  <1>6. CASE e = None /\ (~NodeLives(j.source) \/ ~NodeLives(j.target))
    <2>1. Fail(w) /\ UNCHANGED <<tables, mirror, bounds>>
      BY <1>1, <1>2, <1>6 DEF WriteEdge, tables
    <2> QED
      BY <2>1, FailKeeps
  <1> QED
    BY <1>4, <1>5, <1>6

\* An UPDATE of merge_nodes points the edges of one row at another.
LEMMA RepointKeeps ==
    ASSUME GraphInv, NEW w \in Worker,
           NEW end, NEW next,
           \/ end = "source" /\ next = "move_targets" /\ job[w].pc = "move_sources"
           \/ end = "target" /\ next = "drop" /\ job[w].pc = "move_targets",
           Repoint(w, end, next)
    PROVE  GraphInv' /\ Lossless /\ MergesKeep
  <1>1. PICK keep, drop : keep = job[w].source /\ drop = job[w].target
    OBVIOUS
  <1>2. PICK moved : moved = {e \in LiveEdges : edges[e][end] = drop}
    OBVIOUS
  <1>3. PICK r : r = [job[w] EXCEPT !.pc = next]
    OBVIOUS
  <1>0. clean => Informed(job[w])
    BY DEF GraphInv
  <1>4. /\ job[w] \in JobSet /\ Carries(job[w])
        /\ job[w].pc \in {"move_sources", "move_targets"}
        /\ next \in {"move_targets", "drop"}
        /\ edges \in [EdgeId -> EdgeSet \cup {NoEdge}]
    BY TypesSplit DEF GraphInv, TablesTyped
  <1>5. keep \in NodeId /\ drop \in NodeId /\ keep # drop
    BY <1>1, <1>4 DEF Carries
  <1>6. CASE ~NodeLives(keep) /\ moved # {}
    <2>1. Fail(w) /\ UNCHANGED <<tables, mirror, bounds>>
      BY <1>1, <1>2, <1>6 DEF Repoint, tables
    <2> QED
      BY <2>1, FailKeeps
  <1>7. CASE NodeLives(keep) \/ moved = {}
    <2>1. /\ edges' = [e \in EdgeId |->
                IF e \in moved THEN [edges[e] EXCEPT ![end] = keep] ELSE edges[e]]
          /\ job' = [job EXCEPT ![w] = r]
          /\ UNCHANGED <<mirror, bounds, aux>>
          /\ UNCHANGED <<nodes, nextNode, nextEdge, removed, clean>>
      BY <1>1, <1>2, <1>3, <1>7 DEF Repoint, Goto, aux
    <2>2. ASSUME NEW e \in LiveEdges
          PROVE  /\ edges'[e] \in EdgeSet /\ edges'[e].weight = edges[e].weight
                 /\ end = "source" => /\ edges'[e].target = edges[e].target
                                      /\ edges'[e].source = IF e \in moved THEN keep
                                                            ELSE edges[e].source
                 /\ end = "target" => /\ edges'[e].source = edges[e].source
                                      /\ edges'[e].target = IF e \in moved THEN keep
                                                            ELSE edges[e].target
      <3>1. e \in EdgeId /\ edges[e] \in EdgeSet
        BY LiveRows DEF LiveEdges
      <3>2. CASE e \notin moved
        BY <2>1, <3>1, <3>2
      <3>3. CASE e \in moved /\ end = "source"
        <4>1. edges'[e] = [edges[e] EXCEPT !.source = keep]
          BY <2>1, <3>1, <3>3
        <4> QED
          BY <1>5, <3>1, <3>3, <4>1 DEF EdgeSet
      <3>4. CASE e \in moved /\ end = "target"
        <4>1. edges'[e] = [edges[e] EXCEPT !.target = keep]
          BY <2>1, <3>1, <3>4
        <4> QED
          BY <1>5, <3>1, <3>4, <4>1 DEF EdgeSet
      <3> QED
        BY <3>2, <3>3, <3>4
    <2>3. \A e \in EdgeId : e \notin LiveEdges => edges'[e] = edges[e] /\ edges[e] = NoEdge
      BY <1>2, <2>1 DEF LiveEdges, EdgeLives
    <2>4. edges' \in [EdgeId -> EdgeSet \cup {NoEdge}]
      <3>1. \A e \in EdgeId : edges'[e] \in EdgeSet \cup {NoEdge}
        BY <2>2, <2>3
      <3> QED
        BY <2>1, <3>1
    <2>5. LiveEdges' = LiveEdges /\ LiveNodes' = LiveNodes
          /\ \A n : NodeLives(n)' <=> NodeLives(n)
      BY <2>1, <2>2, <2>3, RowsAreRows DEF LiveEdges, LiveNodes, EdgeLives, NodeLives
    <2>6. TablesTyped'
      BY <2>1, <2>4, TypesSplit DEF TablesTyped
    <2>7. NoDanglingEdges'
      <3>1. ASSUME NEW e \in LiveEdges
            PROVE  NodeLives(edges'[e].source) /\ NodeLives(edges'[e].target)
        <4>1. /\ NodeLives(edges[e].source) /\ NodeLives(edges[e].target)
              /\ e \in moved => NodeLives(keep)
          BY <1>7 DEF GraphInv, NoDanglingEdges
        <4>2. edges'[e].source = edges[e].source \/ (e \in moved /\ edges'[e].source = keep)
          BY <2>2
        <4>3. edges'[e].target = edges[e].target \/ (e \in moved /\ edges'[e].target = keep)
          BY <2>2
        <4> QED
          BY <4>1, <4>2, <4>3
      <3> QED
        BY <2>1, <2>5, <3>1 DEF NoDanglingEdges, NodeLives
    <2>8. IdsAreFresh' /\ OneRowPerLabel'
      BY <2>1, <2>5 DEF GraphInv, IdsAreFresh, OneRowPerLabel
    <2>9. Lossless
      <3>1. \A e \in EdgeId : EdgeLives(e) => edges'[e].weight = edges[e].weight
        BY <2>2 DEF LiveEdges
      <3> QED
        BY <2>1, <3>1, SameRows DEF Lossless
    <2>10. /\ r \in JobSet /\ r.pc = next /\ r.source = keep /\ r.target = drop
           /\ r.pairs = job[w].pairs /\ r.pc # "idle"
      BY <1>1, <1>3, <1>4 DEF JobSet, Place
    <2>11. Carries(r)
      BY <1>4, <1>5, <2>10 DEF Carries
    <2>12. clean => Informed(r)'
      <3>1. CASE end = "source"
        <4>1. \A e \in LiveEdges : edges'[e].source # drop
          BY <1>2, <1>5, <2>2, <3>1
        <4> QED
          BY <2>5, <2>10, <3>1, <4>1 DEF Informed, TablesAsRead, MirrorAsBuilt
      <3>2. CASE end = "target"
        <4>1. \A e \in LiveEdges : edges'[e].target # drop
          BY <1>2, <1>5, <2>2, <3>2
        <4>2. ASSUME clean, NEW e \in LiveEdges PROVE edges'[e].source # drop
          BY <1>0, <1>1, <2>2, <3>2, <4>2 DEF Informed, TablesAsRead
        <4> QED
          BY <2>5, <2>10, <3>2, <4>1, <4>2 DEF Informed, TablesAsRead, MirrorAsBuilt
      <3> QED
        BY <3>1, <3>2
    <2> QED
      BY <1>4, <2>1, <2>6, <2>7, <2>8, <2>9, <2>10, <2>11, <2>12, TableMoves
  <1> QED
    BY <1>6, <1>7

LEMMA MovesKeep ==
    ASSUME GraphInv, NEW w \in Worker, MoveSources(w) \/ MoveTargets(w)
    PROVE  GraphInv' /\ Lossless /\ MergesKeep
  BY RepointKeeps DEF MoveSources, MoveTargets, At

\* ON DELETE CASCADE.
Cascade(n) == [e \in EdgeId |-> IF n \in {edges[e].source, edges[e].target} THEN NoEdge
                                ELSE edges[e]]

\* A row goes and takes its edges with it.
LEMMA CascadeKeeps ==
    ASSUME GraphInv, NEW n \in NodeId,
           nodes' = [nodes EXCEPT ![n] = NoNode], edges' = Cascade(n),
           UNCHANGED <<nextNode, nextEdge>>
    PROVE  /\ TablesTyped' /\ NoDanglingEdges'
           /\ LiveNodes' = LiveNodes \ {n}
           /\ \A m \in LiveNodes' : nodes'[m] = nodes[m]
           /\ LiveEdges' = {e \in LiveEdges : n \notin {edges[e].source, edges[e].target}}
           /\ \A e \in LiveEdges' : edges'[e] = edges[e]
  <1>1. /\ nodes \in [NodeId -> NodeSet \cup {NoNode}]
        /\ edges \in [EdgeId -> EdgeSet \cup {NoEdge}]
    BY TypesSplit DEF TablesTyped
  <1>2. /\ nodes' \in [NodeId -> NodeSet \cup {NoNode}]
        /\ nodes'[n] = NoNode /\ \A m \in NodeId \ {n} : nodes'[m] = nodes[m]
    BY <1>1
  <1>3. /\ edges' \in [EdgeId -> EdgeSet \cup {NoEdge}]
        /\ \A e \in EdgeId : edges'[e] = IF n \in {edges[e].source, edges[e].target}
                                         THEN NoEdge ELSE edges[e]
    BY <1>1 DEF Cascade
  <1>4. LiveNodes' = LiveNodes \ {n} /\ \A m \in LiveNodes' : nodes'[m] = nodes[m]
    BY <1>2 DEF LiveNodes, NodeLives
  <1>5. /\ LiveEdges' = {e \in LiveEdges : n \notin {edges[e].source, edges[e].target}}
        /\ \A e \in LiveEdges' : edges'[e] = edges[e]
    BY <1>3 DEF LiveEdges, EdgeLives
  <1>6. TablesTyped'
    BY <1>2, <1>3, TypesSplit DEF TablesTyped
  <1>7. NoDanglingEdges'
    <2>1. ASSUME NEW e \in LiveEdges'
          PROVE  nodes'[edges'[e].source] # NoNode /\ nodes'[edges'[e].target] # NoNode
      <3>1. e \in LiveEdges /\ edges'[e] = edges[e] /\ edges[e].source # n /\ edges[e].target # n
        BY <1>5
      <3>2. edges[e].source \in LiveNodes /\ edges[e].target \in LiveNodes
        BY <3>1, LiveRows DEF GraphInv, NoDanglingEdges, LiveNodes, EdgeSet
      <3> QED
        BY <1>2, <3>1, <3>2 DEF LiveNodes, NodeLives
    <2> QED
      BY <2>1 DEF NoDanglingEdges, NodeLives
  <1> QED
    BY <1>4, <1>5, <1>6, <1>7

LEMMA DropKeeps ==
    ASSUME GraphInv, NEW w \in Worker, Drop(w)
    PROVE  GraphInv' /\ Lossless /\ MergesKeep
  <1>1. PICK n : n = job[w].target
    OBVIOUS
  <1>2. PICK r : r = [job[w] EXCEPT !.pc = "compare"]
    OBVIOUS
  <1>3. /\ job[w].pc = "drop" /\ job[w] \in JobSet /\ Carries(job[w])
        /\ nodes' = [nodes EXCEPT ![n] = NoNode] /\ edges' = Cascade(n)
        /\ job' = [job EXCEPT ![w] = r]
        /\ UNCHANGED <<nextNode, nextEdge, mirror, bounds, aux>>
        /\ UNCHANGED <<removed, clean>>
    BY <1>1, <1>2, TypesSplit DEF Drop, At, Goto, GraphInv, Cascade, aux
  <1>4. n \in NodeId
    BY <1>1, <1>3 DEF Carries
  <1>5. /\ TablesTyped' /\ NoDanglingEdges'
        /\ LiveNodes' = LiveNodes \ {n}
        /\ \A m \in LiveNodes' : nodes'[m] = nodes[m]
        /\ LiveEdges' = {e \in LiveEdges : n \notin {edges[e].source, edges[e].target}}
        /\ \A e \in LiveEdges' : edges'[e] = edges[e]
    BY <1>3, <1>4, CascadeKeeps
  <1>6. IdsAreFresh'
    <2>1. \A m \in removed : ~NodeLives(m)'
      BY <1>5, TypesSplit DEF GraphInv, IdsAreFresh, LiveNodes
    <2> QED
      BY <1>3, <1>5, <2>1 DEF GraphInv, IdsAreFresh
  <1>7. OneRowPerLabel'
    BY <1>3, <1>5 DEF GraphInv, OneRowPerLabel
  <1>8. Lossless
    <2>1. \A m \in NodeId : NodeLives(m) /\ NodeLives(m)' => nodes'[m] = nodes[m]
      BY <1>5 DEF LiveNodes
    <2>2. \A e \in EdgeId : EdgeLives(e) /\ EdgeLives(e)' => edges'[e] = edges[e]
      BY <1>5 DEF LiveEdges
    <2> QED
      BY <2>1, <2>2, SameRows DEF Lossless
  <1>9. clean => edges' = edges
    <2>1. clean => Informed(job[w])
      BY DEF GraphInv
    <2>2. clean => \A e \in LiveEdges : edges[e].source # n /\ edges[e].target # n
      BY <1>1, <1>3, <2>1 DEF Informed, TablesAsRead
    <2>3. \A e \in EdgeId : e \notin LiveEdges => edges[e] = NoEdge
      BY DEF LiveEdges, EdgeLives
    <2>4. edges = [e \in EdgeId |-> edges[e]]
      BY TypesSplit DEF TablesTyped
    <2>5. ASSUME clean, NEW e \in EdgeId PROVE Cascade(n)[e] = edges[e]
      BY <2>2, <2>3, <2>5 DEF Cascade
    <2>6. clean => Cascade(n) = [e \in EdgeId |-> edges[e]]
      BY <2>5 DEF Cascade
    <2> QED
      BY <1>3, <2>4, <2>6
  <1>10. MergesKeep
    BY <1>9 DEF MergesKeep
  <1>11. r \in JobSet /\ r.pc = "compare" /\ r.pairs = job[w].pairs
    BY <1>2, <1>3 DEF JobSet, Place
  <1>12. Carries(r)
    BY <1>3, <1>11 DEF Carries
  <1>13. Informed(r)'
    BY <1>11, SilentIsInformed DEF Silent, Place
  <1>14. /\ items' \in 0..MaxItems /\ jobs' \in 0..MaxJobs /\ UNCHANGED aux
         /\ mirror' \in [nodes : SUBSET NodeId, edges : SUBSET LinkSet]
    BY <1>3, TypesSplit DEF bounds
  <1>15. GraphInv'
    BY <1>3, <1>5, <1>6, <1>7, <1>11, <1>12, <1>13, <1>14, StepOfOne
  <1> QED
    BY <1>8, <1>10, <1>15

LEMMA PruneKeeps ==
    ASSUME GraphInv, NEW w \in Worker, Prune(w)
    PROVE  GraphInv' /\ Lossless /\ MergesKeep
  <1>1. PICK r : r = [job[w] EXCEPT !.pc = "list_types"]
    OBVIOUS
  <1>2. /\ job[w].pc = "prune"
        /\ edges' = [e \in EdgeId |->
              IF EdgeLives(e) /\ edges[e].weight < MinEdge THEN NoEdge ELSE edges[e]]
        /\ job' = [job EXCEPT ![w] = r]
        /\ UNCHANGED <<mirror, bounds, aux>>
        /\ UNCHANGED <<nodes, nextNode, nextEdge, removed, clean>>
    BY <1>1 DEF Prune, At, Goto, aux
  <1>3. edges \in [EdgeId -> EdgeSet \cup {NoEdge}]
    BY TypesSplit DEF TablesTyped
  <1>4. /\ edges' \in [EdgeId -> EdgeSet \cup {NoEdge}]
        /\ \A e \in EdgeId : edges'[e] = NoEdge \/ edges'[e] = edges[e]
    BY <1>2, <1>3
  <1>5. /\ LiveNodes' = LiveNodes /\ \A n : NodeLives(n)' <=> NodeLives(n)
        /\ LiveEdges' \subseteq LiveEdges /\ \A e \in LiveEdges' : edges'[e] = edges[e]
    BY <1>2, <1>4 DEF LiveNodes, LiveEdges, NodeLives, EdgeLives
  <1>6. TablesTyped'
    BY <1>2, <1>4, TypesSplit DEF TablesTyped
  <1>7. NoDanglingEdges'
    BY <1>2, <1>5 DEF GraphInv, NoDanglingEdges
  <1>8. IdsAreFresh' /\ OneRowPerLabel'
    BY <1>2, <1>5 DEF GraphInv, IdsAreFresh, OneRowPerLabel
  <1>9. Lossless
    <2>1. \A e \in EdgeId : EdgeLives(e)' => edges'[e] = edges[e]
      BY <1>5 DEF LiveEdges
    <2> QED
      BY <1>2, <2>1, SameRows DEF Lossless
  <1>10. /\ r \in JobSet /\ r.pc # "idle" /\ Carries(r) /\ Informed(r)'
         /\ job[w].pc \notin {"idle", "drop"}
    BY <1>1, <1>2, GoesPlain DEF Plain
  <1> QED
    BY <1>2, <1>6, <1>7, <1>8, <1>9, <1>10, TableMoves

LEMMA ValidateKeeps ==
    ASSUME GraphInv, NEW w \in Worker, Validate(w)
    PROVE  GraphInv' /\ Lossless /\ MergesKeep
  <1>1. CASE job[w].rows = {}
    <2>1. /\ job[w].pc # "idle" /\ Goto(w, AfterWriting) /\ UNCHANGED items
          /\ UNCHANGED <<tables, mirror, jobs, aux>>
      BY <1>1 DEF Validate, At, tables, bounds
    <2> QED
      BY <2>1, SyncMoves
  <1>2. CASE job[w].rows # {}
    <2>1. PICK q \in job[w].rows, t \in Type :
             /\ nodes' = [nodes EXCEPT ![q.id] =
                    IF NodeLives(q.id) /\ t # q.type THEN [@ EXCEPT !.type = t] ELSE @]
             /\ job' = [job EXCEPT ![w].rows = @ \ {q}]
      BY <1>2 DEF Validate
    <2>2. PICK n, left : n = q.id /\ left = job[w].rows \ {q}
      OBVIOUS
    <2>3. PICK r : r = [job[w] EXCEPT !.rows = left]
      OBVIOUS
    <2>4. PICK row : row = IF NodeLives(n) /\ t # q.type THEN [nodes[n] EXCEPT !.type = t]
                           ELSE nodes[n]
      OBVIOUS
    <2>5. /\ job[w].pc = "validate" /\ job[w] \in JobSet /\ Carries(job[w])
          /\ nodes' = [nodes EXCEPT ![n] = row] /\ job' = [job EXCEPT ![w] = r]
          /\ UNCHANGED <<mirror, bounds, aux>>
          /\ UNCHANGED <<edges, nextNode, nextEdge, removed, clean>>
      BY <2>1, <2>2, <2>3, <2>4, TypesSplit DEF Validate, At, GraphInv, aux
    <2>6. n \in NodeId /\ left \subseteq RowSet
      BY <2>2, <2>5 DEF Carries, RowSet
    <2>7. nodes \in [NodeId -> NodeSet \cup {NoNode}]
      BY TypesSplit DEF TablesTyped
    <2>8. /\ ~NodeLives(n) => row = NoNode
          /\ NodeLives(n) => /\ row \in NodeSet /\ row # NoNode /\ row.label = nodes[n].label
                             /\ row.weight = nodes[n].weight
      <3>1. CASE ~NodeLives(n)
        BY <2>4, <3>1 DEF NodeLives
      <3>2. CASE NodeLives(n)
        <4>1. nodes[n] \in NodeSet
          BY <2>6, <2>7, <3>2 DEF NodeLives
        <4>2. row = [nodes[n] EXCEPT !.type = t] \/ row = nodes[n]
          BY <2>4
        <4>3. /\ row \in NodeSet /\ row.label = nodes[n].label
              /\ row.weight = nodes[n].weight
          BY <4>1, <4>2 DEF NodeSet
        <4> QED
          BY <3>2, <4>3, RowsAreRows
      <3> QED
        BY <3>1, <3>2
    <2>9. /\ nodes' \in [NodeId -> NodeSet \cup {NoNode}]
          /\ nodes'[n] = row /\ \A m \in NodeId \ {n} : nodes'[m] = nodes[m]
      BY <2>5, <2>6, <2>7, <2>8
    <2>10. /\ \A m \in NodeId : NodeLives(m)' <=> NodeLives(m)
           /\ \A m \in LiveNodes : /\ nodes'[m].label = nodes[m].label
                                   /\ nodes'[m].weight = nodes[m].weight
      BY <2>8, <2>9 DEF NodeLives, LiveNodes
    <2>11. LiveNodes' = LiveNodes /\ LiveEdges' = LiveEdges
      BY <2>5, <2>10 DEF LiveNodes, LiveEdges, EdgeLives
    <2>12. TablesTyped'
      BY <2>5, <2>9, TypesSplit DEF TablesTyped
    <2>13. NoDanglingEdges'
      <3>1. \A e \in LiveEdges : edges[e].source \in NodeId /\ edges[e].target \in NodeId
        BY LiveRows DEF EdgeSet
      <3> QED
        BY <2>5, <2>10, <2>11, <3>1 DEF GraphInv, NoDanglingEdges
    <2>14. IdsAreFresh'
      BY <2>5, <2>10, <2>11, TypesSplit DEF GraphInv, IdsAreFresh
    <2>15. OneRowPerLabel'
      BY <2>5, <2>10, <2>11 DEF GraphInv, OneRowPerLabel
    <2>16. Lossless
      <3>1. \A m \in NodeId : NodeLives(m) => nodes'[m].weight = nodes[m].weight
        BY <2>10 DEF LiveNodes
      <3> QED
        BY <2>5, <3>1, SameRows DEF Lossless
    <2>17. /\ r \in JobSet /\ r.pc = "validate" /\ r.rows = left /\ r.pairs = job[w].pairs
      BY <2>3, <2>5, <2>6 DEF JobSet
    <2>18. Carries(r)
      BY <2>5, <2>6, <2>17 DEF Carries
    <2>19. Informed(r)'
      BY <2>17, SilentIsInformed DEF Silent, Place
    <2> QED
      BY <2>5, <2>12, <2>13, <2>14, <2>15, <2>16, <2>17, <2>18, <2>19, TableMoves
  <1> QED
    BY <1>1, <1>2
-----------------------------------------------------------------------------
(***************************************************************************)
(* The beginning and the end of a job, and a deletion by hand.             *)
(***************************************************************************)
LEMMA FinishedKeeps ==
    ASSUME GraphInv, NEW w \in Worker, Finished(w)
    PROVE  GraphInv' /\ Lossless /\ MergesKeep
  <1>1. /\ job[w].pc = "finish" /\ job' = [job EXCEPT ![w] = Idle]
        /\ UNCHANGED <<removed, clean, nodes, edges, nextNode, nextEdge, mirror, items, jobs>>
    BY DEF Finished, Finish, At, tables, bounds, aux
  <1>2. job \in [Worker -> JobSet] /\ job' \in [Worker -> JobSet]
    BY <1>1, TypesSplit, IdleIsJob
  <1>3. Shape'
    BY <1>1, <1>2 DEF GraphInv, Shape, TypeOK
  <1>4. \A v \in Worker : job'[v] = Idle \/ job'[v] = job[v]
    BY <1>1, <1>2
  <1>5. ASSUME NEW v \in Worker PROVE Carries(job'[v])
    <2>1. Carries(Idle)
      BY IdleIsJob DEF Carries
    <2> QED
      BY <1>4, <2>1 DEF GraphInv
  <1>6. NoDanglingEdges' /\ IdsAreFresh' /\ OneRowPerLabel'
    BY <1>1 DEF GraphInv, NoDanglingEdges, IdsAreFresh, OneRowPerLabel, LiveNodes, LiveEdges,
                NodeLives, EdgeLives
  <1>7. Alone'
    BY <1>1, <1>4, IdleIsJob DEF GraphInv, Alone, Working, At
  <1>8. ASSUME clean', NEW v \in Worker PROVE Informed(job[v])'
    <2>1. job'[v].pc = "idle"
      BY <1>1, <1>2, <1>8, IdleIsJob DEF GraphInv, Alone, Working, At
    <2> QED
      BY <2>1 DEF Informed, TablesAsRead, MirrorAsBuilt
  <1>9. UNCHANGED <<LiveNodes, LiveEdges, Links>>
    BY <1>1 DEF LiveNodes, LiveEdges, Links, Link, NodeLives, EdgeLives
  <1>10. MirrorCurrent'
    <2>1. Mirrored /\ clean => MirrorHolds
      BY <1>1 DEF GraphInv, Informed, MirrorAsBuilt
    <2>2. Mirrored /\ clean => MirrorHolds'
      BY <1>1, <1>9, <2>1 DEF MirrorHolds
    <2> QED
      BY <1>1, <2>2 DEF MirrorCurrent, MirrorHolds, Links
  <1>11. GraphInv'
    BY <1>3, <1>5, <1>6, <1>7, <1>8, <1>10 DEF GraphInv
  <1>12. Lossless /\ MergesKeep
    BY <1>1, SameRows DEF Lossless, MergesKeep
  <1> QED
    BY <1>11, <1>12

LEMMA StartKeeps ==
    ASSUME GraphInv, NEW w \in Worker, NEW where \in Plain, Start(w, where)
    PROVE  GraphInv' /\ Lossless /\ MergesKeep
  <1>1. PICK r : r = [job[w] EXCEPT !.pc = where]
    OBVIOUS
  <1>2. /\ job[w].pc = "idle" /\ job' = [job EXCEPT ![w] = r]
        /\ jobs < MaxJobs /\ jobs' = jobs + 1
        /\ UNCHANGED <<removed, nodes, edges, nextNode, nextEdge, mirror, items>>
    BY <1>1 DEF Start, Goto, At, tables
  <1>3. clean' \in BOOLEAN /\ (clean' => clean /\ \A v \in Worker : ~Working(v))
    BY DEF Start, GraphInv, Shape
  <1>4. r \in JobSet /\ r.pc # "idle" /\ Carries(r)
    BY <1>1, GoesPlain
  <1>5. job \in [Worker -> JobSet] /\ job' \in [Worker -> JobSet]
    BY <1>2, <1>4, TypesSplit
  <1>6. job'[w] = r /\ \A v \in Worker \ {w} : job'[v] = job[v]
    BY <1>2, <1>5
  <1>7. jobs' \in 0..MaxJobs
    BY <1>2, TypesSplit, BoundAssumption DEF BoundAssumption
  <1>8. Shape'
    BY <1>2, <1>3, <1>5, <1>7 DEF GraphInv, Shape, TypeOK
  <1>9. \A v \in Worker : Carries(job'[v])
    BY <1>4, <1>6 DEF GraphInv
  <1>10. NoDanglingEdges' /\ IdsAreFresh'
    BY <1>2 DEF GraphInv, NoDanglingEdges, IdsAreFresh, LiveNodes, LiveEdges, NodeLives,
                EdgeLives
  <1>11. OneRowPerLabel'
    BY <1>2, <1>3 DEF GraphInv, OneRowPerLabel, LiveNodes, NodeLives
  <1>12. Alone'
    BY <1>3, <1>6 DEF Alone, Working, At
  <1>13. ASSUME clean', NEW v \in Worker PROVE Informed(job[v])'
    <2>1. CASE v = w
      <3>1. job'[v].pc \in Silent
        BY <1>1, <1>6, <2>1, GoesPlain DEF Plain, Silent, Place
      <3> QED
        BY <3>1 DEF Silent, Informed, TablesAsRead, MirrorAsBuilt
    <2>2. CASE v # w
      <3>1. job'[v].pc = "idle"
        BY <1>3, <1>6, <1>13, <2>2 DEF Working, At
      <3> QED
        BY <3>1 DEF Informed, TablesAsRead, MirrorAsBuilt
    <2> QED
      BY <2>1, <2>2
  <1>14. MirrorCurrent'
    BY <1>4, <1>6 DEF MirrorCurrent, Working, At
  <1>15. GraphInv'
    BY <1>8, <1>9, <1>10, <1>11, <1>12, <1>13, <1>14 DEF GraphInv
  <1>16. Lossless /\ MergesKeep
    BY <1>2, SameRows DEF Lossless, MergesKeep
  <1> QED
    BY <1>15, <1>16

LEMMA DeleteNodeKeeps ==
    ASSUME GraphInv, NEW n \in NodeId, DeleteNode(n)
    PROVE  GraphInv' /\ Lossless /\ MergesKeep
  <1>1. /\ NodeLives(n)
        /\ nodes' = [nodes EXCEPT ![n] = NoNode] /\ edges' = Cascade(n)
        /\ removed' = removed \cup {n}
        /\ UNCHANGED <<nextNode, nextEdge, mirror, job, items, jobs>>
    BY DEF DeleteNode, Cascade, bounds
  <1>2. clean' \in BOOLEAN /\ (clean' => clean /\ \A v \in Worker : ~Working(v))
    BY DEF DeleteNode, GraphInv, Shape
  <1>3. /\ TablesTyped' /\ NoDanglingEdges'
        /\ LiveNodes' = LiveNodes \ {n}
        /\ \A m \in LiveNodes' : nodes'[m] = nodes[m]
        /\ LiveEdges' = {e \in LiveEdges : n \notin {edges[e].source, edges[e].target}}
        /\ \A e \in LiveEdges' : edges'[e] = edges[e]
    BY <1>1, CascadeKeeps
  <1>4. Shape'
    BY <1>1, <1>2, <1>3 DEF GraphInv, Shape, TypeOK, TablesTyped
  <1>5. \A v \in Worker : Carries(job'[v])
    BY <1>1 DEF GraphInv
  <1>6. IdsAreFresh'
    <2>1. \A m \in removed' : m < nextNode
      BY <1>1 DEF GraphInv, IdsAreFresh, LiveNodes
    <2>2. \A m \in removed' : ~NodeLives(m)'
      BY <1>1, <1>3, TypesSplit DEF GraphInv, IdsAreFresh, LiveNodes
    <2> QED
      BY <1>1, <1>3, <2>1, <2>2 DEF GraphInv, IdsAreFresh
  <1>7. OneRowPerLabel'
    BY <1>2, <1>3 DEF GraphInv, OneRowPerLabel
  <1>8. Alone'
    BY <1>1, <1>2 DEF Alone, Working, At
  <1>9. ASSUME clean', NEW v \in Worker PROVE Informed(job[v])'
    <2>1. job'[v].pc = "idle"
      BY <1>1, <1>2, <1>9 DEF Working, At
    <2> QED
      BY <2>1 DEF Informed, TablesAsRead, MirrorAsBuilt
  <1>10. MirrorCurrent'
    <2>1. SUFFICES ASSUME Mirrored, clean' PROVE MirrorHolds'
      BY DEF MirrorCurrent, MirrorHolds, Links
    <2>2. MirrorHolds
      BY <1>2, <2>1 DEF GraphInv, MirrorCurrent, MirrorHolds, Links
    <2>3. mirror'.nodes \ removed' = LiveNodes'
      BY <1>1, <1>3, <2>2 DEF MirrorHolds
    <2>4. Links' = {k \in Links : n \notin {k.source, k.target}}
      BY <1>3 DEF Links, Link
    <2>5. {k \in mirror'.edges : {k.source, k.target} \cap removed' = {}} = Links'
      BY <1>1, <2>2, <2>4 DEF MirrorHolds
    <2> QED
      BY <2>3, <2>5 DEF MirrorHolds
  <1>11. GraphInv'
    BY <1>3, <1>4, <1>5, <1>6, <1>7, <1>8, <1>9, <1>10 DEF GraphInv
  <1>12. Lossless
    <2>1. \A m \in NodeId : NodeLives(m) /\ NodeLives(m)' => nodes'[m] = nodes[m]
      BY <1>3 DEF LiveNodes
    <2>2. \A e \in EdgeId : EdgeLives(e) /\ EdgeLives(e)' => edges'[e] = edges[e]
      BY <1>3 DEF LiveEdges
    <2> QED
      BY <2>1, <2>2, SameRows DEF Lossless
  <1>13. MergesKeep
    BY <1>1 DEF MergesKeep, At
  <1> QED
    BY <1>11, <1>12, <1>13
-----------------------------------------------------------------------------
(***************************************************************************)
(* The theorems.                                                           *)
(***************************************************************************)
LEMMA GraphInit ==
    Init => GraphInv
  <1> SUFFICES ASSUME Init PROVE GraphInv
    OBVIOUS
  <1> USE DEF Init
  <1>1. \A n \in NodeId : ~NodeLives(n)
    BY DEF NodeLives
  <1>2. \A e \in EdgeId : ~EdgeLives(e)
    BY DEF EdgeLives
  <1>3. LiveNodes = {} /\ LiveEdges = {}
    BY <1>1, <1>2 DEF LiveNodes, LiveEdges
  <1>4. Shape
    BY BoundAssumption, IdleIsJob DEF BoundAssumption, Shape, TypeOK
  <1>5. \A w \in Worker : Carries(job[w]) /\ Informed(job[w]) /\ ~Working(w)
    BY IdleIsJob DEF Carries, Informed, TablesAsRead, MirrorAsBuilt, Working, At
  <1>6. NoDanglingEdges /\ IdsAreFresh /\ OneRowPerLabel /\ MirrorCurrent
    BY <1>3 DEF NoDanglingEdges, IdsAreFresh, OneRowPerLabel, MirrorCurrent
  <1>7. Alone
    BY <1>5 DEF Alone
  <1> QED
    BY <1>4, <1>5, <1>6, <1>7 DEF GraphInv

LEMMA GraphNext ==
    ASSUME GraphInv, Next
    PROVE  GraphInv' /\ Lossless /\ MergesKeep
  <1>1. ASSUME NEW n \in NodeId, DeleteNode(n)
        PROVE  GraphInv' /\ Lossless /\ MergesKeep
    BY <1>1, DeleteNodeKeeps
  <1>2. ASSUME NEW w \in Worker, StartExtract(w) \/ StartRefine(w)
        PROVE  GraphInv' /\ Lossless /\ MergesKeep
    BY <1>2, StartKeeps DEF StartExtract, StartRefine, Plain
  <1>3. ASSUME NEW w \in Worker, LLMFails(w)
        PROVE  GraphInv' /\ Lossless /\ MergesKeep
    BY <1>3, FailKeeps DEF LLMFails
  <1>4. ASSUME NEW w \in Worker, Step(w)
        PROVE  GraphInv' /\ Lossless /\ MergesKeep
    <2>1. CASE Extracted(w) \/ NextEntity(w) \/ FindNode(w) \/ WriteNode(w)
      BY <2>1, ExtractedKeeps, NextEntityKeeps, FindNodeKeeps, UpdateNodeKeeps,
         InsertNodeKeeps
    <2>2. CASE NextRelation(w) \/ FindSource(w) \/ FindTarget(w) \/ FindEdge(w) \/ WriteEdge(w)
      BY <2>2, NextRelationKeeps, FindSourceKeeps, FindTargetKeeps, FindEdgeKeeps,
         WriteEdgeKeeps
    <2>3. CASE ListPairs(w) \/ Compare(w) \/ MoveSources(w) \/ MoveTargets(w) \/ Drop(w)
      BY <2>3, ListPairsKeeps, CompareKeeps, MovesKeep, DropKeeps
    <2>4. CASE Prune(w) \/ ListTypes(w) \/ Validate(w)
      BY <2>4, PruneKeeps, ListTypesKeeps, ValidateKeeps
    <2>5. CASE ListNodes(w) \/ ListEdges(w) \/ ClearMirror(w) \/ FillNodes(w) \/ FillEdges(w)
               \/ Finished(w)
      BY <2>5, ListNodesKeeps, ListEdgesKeeps, ClearMirrorKeeps, FillNodesKeeps,
         FillEdgesKeeps, FinishedKeeps
    <2> QED
      BY <1>4, <2>1, <2>2, <2>3, <2>4, <2>5 DEF Step
  <1> QED
    BY <1>1, <1>2, <1>3, <1>4 DEF Next

\* What jobs do between two awaits, and what stands still.
LEMMA GraphStep ==
    GraphInv /\ [Next]_vars => GraphInv' /\ Lossless /\ MergesKeep
  <1>1. ASSUME GraphInv, Next PROVE GraphInv' /\ Lossless /\ MergesKeep
    BY <1>1, GraphNext
  <1>2. ASSUME GraphInv, UNCHANGED vars PROVE GraphInv' /\ Lossless /\ MergesKeep
    <2>1. UNCHANGED <<nodes, edges, nextNode, nextEdge, mirror, job, items, jobs, removed, clean>>
      BY <1>2 DEF vars, tables, bounds, aux
    <2>2. Shape' /\ NoDanglingEdges' /\ IdsAreFresh' /\ OneRowPerLabel' /\ Alone'
      BY <1>2, <2>1 DEF GraphInv, Shape, TypeOK, NoDanglingEdges, IdsAreFresh, OneRowPerLabel,
                        Alone, LiveNodes, LiveEdges, NodeLives, EdgeLives, Working, At
    <2>3. \A w \in Worker : Carries(job'[w])
      BY <1>2, <2>1 DEF GraphInv
    <2>4. (clean => \A w \in Worker : Informed(job[w]))'
      BY <1>2, <2>1 DEF GraphInv, Informed, TablesAsRead, MirrorAsBuilt, LiveNodes, LiveEdges,
                        NodeLives, EdgeLives, Links, Link, MirrorHolds
    <2>5. MirrorCurrent'
      BY <1>2, <2>1 DEF GraphInv, MirrorCurrent, Working, At, LiveNodes, LiveEdges, NodeLives,
                        EdgeLives, Link
    <2>6. Lossless /\ MergesKeep
      BY <1>2, <2>1, SameRows DEF Lossless, MergesKeep
    <2> QED
      BY <2>2, <2>3, <2>4, <2>5, <2>6 DEF GraphInv
  <1> QED
    BY <1>1, <1>2

\* The invariant of the graph and of the coroutines that work on it.
THEOREM GraphInvariant == Spec => []GraphInv
  <1>1. GraphInv /\ [Next]_vars => GraphInv'
    BY GraphStep
  <1> QED
    BY <1>1, GraphInit, PTL DEF Spec

\* Whatever jobs and deletions overlap, no edge outlives one of its nodes, and
\* while they do not overlap a label has one row.
THEOREM GraphStaysConsistent == Spec => []GraphIsConsistent
  <1>1. GraphInv => GraphIsConsistent
    BY DEF GraphInv, Shape, GraphIsConsistent
  <1> QED
    BY <1>1, GraphInvariant, PTL

\* After a job that nothing disturbed the mirror is the graph, less what was
\* deleted by hand.
THEOREM MirrorIsRebuilt == Spec => []MirrorCurrent
  <1>1. GraphInv => MirrorCurrent
    BY DEF GraphInv
  <1> QED
    BY <1>1, GraphInvariant, PTL

\* No step of a job lowers a confidence, and the deletion at the end of a merge
\* takes no edge along.
THEOREM JobsLoseNothingAtAll == Spec => JobsLoseNothing
  <1>1. GraphInv /\ [Next]_vars => [\A w \in Worker : clean /\ At(w, "drop") /\ At(w, "compare")'
                                        => edges' = edges]_vars
    BY GraphStep DEF MergesKeep
  <1>2. GraphInv /\ [Next]_vars =>
          [clean =>
             /\ \A n \in NodeId : NodeLives(n) /\ NodeLives(n)'
                   => nodes[n].weight <= nodes'[n].weight
             /\ \A e \in EdgeId : EdgeLives(e) /\ EdgeLives(e)'
                   => edges[e].weight <= edges'[e].weight]_vars
    BY GraphStep DEF Lossless
  <1>3. Spec => MergeKeepsEdges
    BY <1>1, GraphInvariant, PTL DEF Spec, MergeKeepsEdges
  <1>4. Spec => ConfidenceKept
    BY <1>2, GraphInvariant, PTL DEF Spec, ConfidenceKept
  <1> QED
    BY <1>3, <1>4 DEF JobsLoseNothing
=============================================================================
