-------------------------------- MODULE Diagram --------------------------------
(* The page "Interface Diagram": boxes and arrows on a canvas, and a panel    *)
(* with a copy of the one that was clicked.  Where a box is, the dots an      *)
(* arrow is drawn between and the exports are left out.                       *)
EXTENDS Naturals, FiniteSets, Functions

CONSTANTS NodeIds,      \* ids a box may get
          Drawn,        \* the ids of the first diagram
          Looks, Plain, \* how a box or an arrow may look; a new one
          MaxEdges      \* arrows on the canvas

ASSUME DiagramIds == Drawn \subseteq NodeIds
ASSUME DiagramLooks == Plain \in Looks

VARIABLES nodes,        \* [ids on the canvas -> Looks]
          edges,        \* [<<source, target>> -> Looks]
          panel,        \* what the panel shows
          fresh,        \* ids nextId has not given out
          ghost         \* history: the Delete key removed what the panel shows

diagramVars == <<nodes, edges, panel, fresh, ghost>>

Hidden == [kind |-> "none"]
NodePanel(n, look) == [kind |-> "node", id |-> n, look |-> look]
EdgePanel(e, look) == [kind |-> "edge", id |-> e, look |-> look]

Ends(e) == {e[1], e[2]}

DiagramInit ==
    /\ nodes = [n \in Drawn |-> Plain]
    /\ \E first \in SUBSET (Drawn \X Drawn) :
          Cardinality(first) <= MaxEdges /\ edges = [e \in first |-> Plain]
    /\ panel = Hidden
    /\ fresh = NodeIds \ Drawn
    /\ ghost = FALSE

(* addEdge leaves the arrows alone when there is one like it.                 *)
onConnect ==
    /\ \E e \in (DOMAIN nodes) \X (DOMAIN nodes) :
          /\ Cardinality(DOMAIN edges \cup {e}) <= MaxEdges
          /\ edges' = IF e \in DOMAIN edges THEN edges
                      ELSE [x \in DOMAIN edges \cup {e} |-> IF x = e THEN Plain ELSE edges[x]]
    /\ UNCHANGED <<nodes, panel, fresh, ghost>>

Show(item) == panel' = item /\ ghost' = FALSE /\ UNCHANGED <<nodes, edges, fresh>>

onNodeClick == \E n \in DOMAIN nodes : Show(NodePanel(n, nodes[n]))
onEdgeClick == \E e \in DOMAIN edges : Show(EdgePanel(e, edges[e]))
onPaneClick == Show(Hidden)

(* The panel's controls change the canvas and its own copy.                   *)
updateNode ==
    /\ panel.kind = "node"
    /\ \E look \in Looks :
          /\ nodes' = [n \in DOMAIN nodes |-> IF n = panel.id THEN look ELSE nodes[n]]
          /\ panel' = [panel EXCEPT !.look = look]
    /\ UNCHANGED <<edges, fresh, ghost>>

updateEdge ==
    /\ panel.kind = "edge"
    /\ \E look \in Looks :
          /\ edges' = [e \in DOMAIN edges |-> IF e = panel.id THEN look ELSE edges[e]]
          /\ panel' = [panel EXCEPT !.look = look]
    /\ UNCHANGED <<nodes, fresh, ghost>>

(* A new box is shown in the panel at once.                                   *)
addNode ==
    /\ \E n \in fresh :
          /\ nodes' = [x \in DOMAIN nodes \cup {n} |-> IF x = n THEN Plain ELSE nodes[x]]
          /\ fresh' = fresh \ {n}
          /\ panel' = NodePanel(n, Plain)
    /\ ghost' = FALSE
    /\ UNCHANGED edges

(* Slip: the arrows of a deleted box stay.                                    *)
OnlyTheBox(N) == {}

(* The arrows that go with the boxes N.                                       *)
EdgesOf(N) == {e \in DOMAIN edges : Ends(e) \cap N # {}}

Erase(N, E) ==
    /\ nodes' = Restrict(nodes, DOMAIN nodes \ N)
    /\ edges' = Restrict(edges, DOMAIN edges \ E)
    /\ UNCHANGED fresh

deleteSelected ==
    /\ \/ panel.kind = "node" /\ Erase({panel.id}, EdgesOf({panel.id}))
       \/ panel.kind = "edge" /\ Erase({}, {panel.id})
    /\ panel' = Hidden
    /\ ghost' = FALSE

PropsPanel == updateNode \/ updateEdge \/ deleteSelected

(* The Delete key removes what the library has selected, by clicks or by a    *)
(* frame drawn around it, with the arrows of the boxes; it knows nothing of   *)
(* the panel.                                                                 *)
DeleteKey ==
    \E N \in SUBSET DOMAIN nodes, E \in SUBSET DOMAIN edges :
        /\ Erase(N, E \cup {e \in DOMAIN edges : Ends(e) \cap N # {}})
        /\ ghost' = \/ ghost
                    \/ panel.kind = "node" /\ panel.id \notin DOMAIN nodes'
                    \/ panel.kind = "edge" /\ panel.id \notin DOMAIN edges'
        /\ UNCHANGED panel

DiagramNext ==
    onConnect \/ onNodeClick \/ onEdgeClick \/ onPaneClick \/ addNode \/ PropsPanel \/ DeleteKey

DiagramSpec == DiagramInit /\ [][DiagramNext]_diagramVars

Panels == {Hidden} \cup [kind : {"node"}, id : NodeIds, look : Looks]
                   \cup [kind : {"edge"}, id : NodeIds \X NodeIds, look : Looks]

(* Boxes, arrows and the panel's copy are of their types; an id that can      *)
(* still be given out is on no box.                                           *)
DiagramTypeOK ==
    /\ DOMAIN nodes \subseteq NodeIds /\ nodes \in [DOMAIN nodes -> Looks]
    /\ DOMAIN edges \subseteq NodeIds \X NodeIds /\ edges \in [DOMAIN edges -> Looks]
    /\ panel \in Panels
    /\ fresh \subseteq NodeIds /\ fresh \cap DOMAIN nodes = {}
    /\ ghost \in BOOLEAN

(* Every arrow joins two boxes that are on the canvas.                        *)
ArrowsJoinBoxes == \A e \in DOMAIN edges : Ends(e) \subseteq DOMAIN nodes

(* What the panel shows is on the canvas and looks like it does there, unless *)
(* the Delete key removed it under the panel.                                 *)
PanelShowsCanvas ==
    /\ panel.kind = "node" /\ ~ghost => panel.id \in DOMAIN nodes /\ panel.look = nodes[panel.id]
    /\ panel.kind = "edge" /\ ~ghost => panel.id \in DOMAIN edges /\ panel.look = edges[panel.id]

(* Canvas and panel agree, whatever is drawn, clicked, changed and deleted    *)
(* through the panel or with the key (InterfaceDiagram.tsx).                  *)
DiagramAgrees == ArrowsJoinBoxes /\ PanelShowsCanvas
===============================================================================
