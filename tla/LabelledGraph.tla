---------------------------- MODULE LabelledGraph ----------------------------
(***************************************************************************)
(* What the label functions promise of a graph, without its stores: each   *)
(* vertex has a label and a set of annotations, each edge a label and two  *)
(* ends, and a call changes what it is about and nothing else.  One        *)
(* session works on a draft, which a commit makes the graph.               *)
(*                                                                         *)
(* The promise is about the edges and annotations that are not lost: an    *)
(* edge is lost when another one has its id, and a rollback may lose what  *)
(* its transaction has worked on.                                          *)
(***************************************************************************)
CONSTANTS
    Vertex, Edge,
    VLabel, ELabel,  \* labels of vertices and of edges
    Home,            \* the label the vertices have to begin with
    Names(_)         \* the annotations a vertex label supports

VARIABLES
    graph,  \* as committed: [label, names, edge]
    draft,  \* as the session has made it
    lost    \* edges, and vertices as to their annotations, without a promise

\* An edge is <<from, to, label>>.
None == <<>>
Value == Vertex \X Vertex \X ELabel

Masked(g, L) ==
    [g EXCEPT !.names = [v \in Vertex |-> IF v \in L THEN {} ELSE g.names[v]],
              !.edge  = [e \in Edge |-> IF e \in L THEN None ELSE g.edge[e]]]

\* No edge is committed yet.
Init ==
    /\ graph = [label |-> [v \in Vertex |-> Home],
                names |-> [v \in Vertex |-> {}],
                edge  |-> [e \in Edge |-> None]]
    /\ \E f \in [Edge -> Value \cup {None}] : draft = [graph EXCEPT !.edge = f]
    /\ lost = {}

\* The draft becomes d, but for what is lost.
Change(d) == draft' = Masked(d, lost) /\ UNCHANGED <<graph, lost>>

SetVertexLabel(v, l) ==
    l # draft.label[v] /\ Change([draft EXCEPT !.label[v] = l])

\* A reduced label keeps the annotations it supports.
RemoveVertexLabel(v, l) ==
    Change([draft EXCEPT !.label[v] = l, !.names[v] = @ \cap Names(l)])

AddAnnotation(v, x) ==
    x \in Names(draft.label[v]) /\ Change([draft EXCEPT !.names[v] = @ \cup {x}])

SetEdgeLabel(e, k) ==
    draft.edge[e] # None /\ Change([draft EXCEPT !.edge[e][3] = k])

\* The new edge may have the id of others.
InsertEdge(e, value) ==
    /\ draft.edge[e] = None
    /\ \E L \in SUBSET Edge :
         /\ lost' = lost \cup L
         /\ draft' = Masked([draft EXCEPT !.edge[e] = value], lost')
         /\ graph' = Masked(graph, lost')

Commit == graph' = draft /\ UNCHANGED <<draft, lost>>

Abort ==
    /\ \E L \in SUBSET (Vertex \cup Edge) : lost' = lost \cup L
    /\ graph' = Masked(graph, lost')
    /\ draft' = graph'

Next ==
    \/ \E v \in Vertex, l \in VLabel : SetVertexLabel(v, l) \/ RemoveVertexLabel(v, l)
    \/ \E v \in Vertex, x \in UNION {Names(l) : l \in VLabel} : AddAnnotation(v, x)
    \/ \E e \in Edge : (\E k \in ELabel : SetEdgeLabel(e, k))
                    \/ (\E value \in Value : InsertEdge(e, value))
    \/ Commit \/ Abort

Spec == Init /\ [][Next]_<<graph, draft, lost>>
=============================================================================
