------------------------------ MODULE Monitoring ------------------------------
(* The page "Monitoring" on the instance the bar selects: a dashboard of tiles *)
(* with counts, and a view of the messages a filter selects.  Tiles belong to *)
(* an instance; a count stands for the instance it was asked of, and the      *)
(* messages on display for the instance, filter and page they were asked for. *)
EXTENDS WebPage, FiniteSets

CONSTANTS Systems,      \* instances with an API key
          Tiles,        \* tiles the server keeps for them
          OwnerOf,      \* [Tiles -> Systems]
          FilterIds,    \* filters of the detail view
          MaxPages,     \* pages of the largest result
          MaxAsks       \* requests in flight

ASSUME MonitorTiles == OwnerOf \in [Tiles -> Systems] /\ IsFiniteSet(Tiles)
ASSUME MonitorPages == MaxPages \in Nat \ {0}

VARIABLE mon

monVars == <<mon>>

Ask(op, system, tile) == [op |-> op, system |-> system, tile |-> tile]
Asks == [op : {"tiles", "count", "add", "delete"}, system : Systems, tile : Tiles \cup {Nothing}]

(* What the detail view shows: of whom, by which filter, which page.          *)
Messages == [system : Systems, filter : FilterIds, page : 1 .. MaxPages]

(* A view starts empty.  "clean" is history: since it was mounted, its        *)
(* requests were answered in order and none failed.                           *)
Dashboard(system) ==
    [system |-> system, view |-> "dashboard", tiles |-> {}, counts |-> [t \in Tiles |-> Nothing],
     adding |-> FALSE, clean |-> TRUE, flight |-> <<Ask("tiles", system, Nothing)>>]

(* load(1, filter) as the view is mounted.                                    *)
DetailView(system, f) ==
    LET first == [system |-> system, filter |-> f, page |-> 1] IN
    [system |-> system, view |-> "detail", filter |-> f, page |-> 1, total |-> 1,
     shown |-> Nothing, clean |-> TRUE, loading |-> TRUE, flight |-> <<first>>]

MonitorInit == \E s \in Systems : mon = Dashboard(s)

CanAsk(n) == Len(mon.flight) + n <= MaxAsks

InDashboard == mon.view = "dashboard"
InDetail == mon.view = "detail"

(* The effect on [tiles, instance.id, refreshKey]: the counts are dropped and *)
(* asked again, one request per tile.                                         *)
CountsAsked(p) ==
    IF p.tiles = {} THEN p
    ELSE [p EXCEPT !.counts = [t \in Tiles |-> Nothing],
                   !.flight = @ \o SetToSeq({Ask("count", p.system, t) : t \in p.tiles})]

refreshCounts ==
    /\ InDashboard /\ CanAsk(Cardinality(mon.tiles))
    /\ mon' = CountsAsked(mon)

(* Slip: the tiles are loaded when the page is opened only.                   *)
SystemAlone(p, s) == CountsAsked([p EXCEPT !.system = s])

(* Another instance is selected: the effects on instance.id read its tiles,   *)
(* and ask the counts of the tiles there are, of the other instance.          *)
SystemChanged(p, s) ==
    CountsAsked([p EXCEPT !.system = s, !.flight = Append(@, Ask("tiles", s, Nothing))])

addTile ==
    /\ InDashboard /\ ~mon.adding /\ CanAsk(1)
    /\ mon' = [mon EXCEPT !.adding = TRUE, !.flight = Append(@, Ask("add", mon.system, Nothing))]

deleteTile ==
    /\ InDashboard /\ CanAsk(1)
    /\ \E t \in mon.tiles : mon' = [mon EXCEPT !.flight = Append(@, Ask("delete", mon.system, t))]

TilesOf(s) == {t \in Tiles : OwnerOf[t] = s}

(* What an answer does to the dashboard.  The server's tiles come and go, so  *)
(* any of the instance's may be listed; a new list has the counts asked.      *)
DashboardAnswered(p, rq) ==
    CASE rq.op = "tiles" -> {CountsAsked([p EXCEPT !.tiles = T]) : T \in SUBSET TilesOf(rq.system)}
      [] rq.op = "count" -> {[p EXCEPT !.counts[rq.tile] = rq.system]}
      [] rq.op = "add" -> {CountsAsked([p EXCEPT !.tiles = @ \cup {t}, !.adding = FALSE]) :
                              t \in TilesOf(rq.system)}
      [] rq.op = "delete" -> {CountsAsked([p EXCEPT !.tiles = @ \ {rq.tile},
                                                    !.counts[rq.tile] = Nothing])}

(* A failed delete is taken for a delete; a failed count shows an "!".        *)
DashboardFailed(p, rq) ==
    CASE rq.op = "tiles" -> {[p EXCEPT !.clean = FALSE]}
      [] rq.op = "count" -> {[p EXCEPT !.counts[rq.tile] = Nothing]}
      [] rq.op = "add" -> {[p EXCEPT !.adding = FALSE]}
      [] rq.op = "delete" -> DashboardAnswered(p, rq)

Settled(i) == [mon EXCEPT !.flight = RemoveAt(@, i), !.clean = @ /\ i = 1]

(* (The last conjunct bounds the counts under way.)                           *)
DashboardSettles(i) ==
    /\ InDashboard /\ i \in DOMAIN mon.flight
    /\ \E ok \in BOOLEAN :
         mon' \in IF ok THEN DashboardAnswered(Settled(i), mon.flight[i])
                  ELSE DashboardFailed(Settled(i), mon.flight[i])
    /\ Len(mon'.flight) <= MaxAsks + Cardinality(Tiles)

(* A tile opens the detail view on its filter; "Overview" leads back.  The    *)
(* view left is unmounted and its answers come to nothing.                    *)
goToDetail == InDashboard /\ mon.tiles # {} /\ \E f \in FilterIds : mon' = DetailView(mon.system, f)
onBack == InDetail /\ mon' = Dashboard(mon.system)

(* load(p, f): the page asked for, with the filter of now.                    *)
Loading(p, page) ==
    [p EXCEPT !.page = page, !.loading = TRUE,
              !.flight = Append(@, [system |-> p.system, filter |-> p.filter, page |-> page])]

(* The effect on [filter, load]: setPage(1), load(1, filter).                 *)
FirstPage(p) == Loading(p, 1)

setFilter ==
    /\ InDetail /\ CanAsk(1)
    /\ \E f \in FilterIds \ {mon.filter} : mon' = FirstPage([mon EXCEPT !.filter = f])

RefreshMessages == InDetail /\ CanAsk(1) /\ mon' = Loading(mon, mon.page)

(* First, previous, next and last page.                                       *)
TurnPage ==
    /\ InDetail /\ CanAsk(1)
    /\ \/ mon.page > 1 /\ \E page \in {1, mon.page - 1} : mon' = Loading(mon, page)
       \/ mon.page < mon.total /\ \E page \in {mon.page + 1, mon.total} : mon' = Loading(mon, page)

DetailSettles(i) ==
    /\ InDetail /\ i \in DOMAIN mon.flight
    /\ \/ \E total \in 1 .. MaxPages :
            mon' = [Settled(i) EXCEPT !.shown = mon.flight[i], !.total = total, !.loading = FALSE]
       \/ mon' = [Settled(i) EXCEPT !.loading = FALSE, !.clean = FALSE]

(* The bar selects another instance under the page.                           *)
SelectSystem ==
    \E s \in Systems \ {mon.system} :
        \/ InDashboard /\ CanAsk(1 + Cardinality(mon.tiles)) /\ mon' = SystemChanged(mon, s)
        \/ InDetail /\ CanAsk(1) /\ mon' = FirstPage([mon EXCEPT !.system = s])

(* While an instance without a key is selected nothing is mounted; the filter *)
(* and the choice of the view are kept.                                       *)
SystemWithoutKey ==
    \E s \in Systems : mon' = IF InDashboard THEN Dashboard(s) ELSE DetailView(s, mon.filter)

OnDashboard == refreshCounts \/ addTile \/ deleteTile \/ goToDetail
OnDetail == onBack \/ setFilter \/ RefreshMessages \/ TurnPage

MonitorNext ==
    \/ OnDashboard \/ OnDetail \/ SelectSystem \/ SystemWithoutKey
    \/ \E i \in DOMAIN mon.flight : DashboardSettles(i) \/ DetailSettles(i)

(* A request is answered or fails, the oldest one too.                        *)
MonitorFairness == WF_monVars(DashboardSettles(1)) /\ WF_monVars(DetailSettles(1))

MonitorSpec == MonitorInit /\ [][MonitorNext]_monVars /\ MonitorFairness

MonitorTypeOK ==
    /\ mon.system \in Systems /\ mon.clean \in BOOLEAN
    /\ InDashboard =>
         /\ mon.tiles \subseteq Tiles /\ mon.counts \in [Tiles -> Systems \cup {Nothing}]
         /\ mon.adding \in BOOLEAN /\ \A i \in DOMAIN mon.flight : mon.flight[i] \in Asks
    /\ InDetail =>
         /\ mon.filter \in FilterIds /\ {mon.page, mon.total} \subseteq 1 .. MaxPages
         /\ mon.loading \in BOOLEAN /\ mon.shown \in Messages \cup {Nothing}
         /\ \A i \in DOMAIN mon.flight : mon.flight[i] \in Messages

(* When nothing is in flight, the page shows what is selected: the dashboard  *)
(* the tiles of the selected instance with counts asked of it, and the detail *)
(* view the messages of the instance, the filter and the page its controls    *)
(* show.  Only an answer that overtook another, or a failed request, breaks   *)
(* this, for answers are not matched with requests (Monitoring.tsx:192, 392). *)
ViewIsOfSelection ==
    mon.flight = <<>> /\ mon.clean =>
        /\ InDashboard =>
             /\ mon.tiles \subseteq TilesOf(mon.system)
             /\ \A t \in mon.tiles : mon.counts[t] \in {mon.system, Nothing}
        /\ InDetail => mon.shown = [system |-> mon.system, filter |-> mon.filter, page |-> mon.page]
===============================================================================
