---------------------------- MODULE UnitDecision ----------------------------
(***************************************************************************)
(* Units that ask the player what to do: the focus, the queue of urgent    *)
(* units and the action selection dialogs of the web client, with the      *)
(* civserver at the other end of an ordered connection.                    *)
(*                                                                         *)
(* A unit wants a decision when its order ends next to something it can    *)
(* act on.  The client asks the civserver what the unit can do, the reply  *)
(* opens a dialog, and a button may need an answer of its own (a price, a  *)
(* name, a list) that opens another.  Between a request and its reply the  *)
(* player and the civserver go on.                                         *)
(*                                                                         *)
(* The variables of the page are one record, `client`; a callback is a     *)
(* composition of functions on it.  Where the code looks at positions to   *)
(* choose a unit, the function returns the set of its possible results.    *)
(***************************************************************************)
EXTENDS Arrays, FiniteSets, SequencesExt

CONSTANTS Unit,        \* units of the player
          Zero,        \* IDENTITY_NUMBER_ZERO
          MaxUp,       \* packets under way at which the player waits (a bound)
          MaxDown,     \* packets under way at which the server waits (a bound)
          MaxWaiting,  \* units told to wait in a turn (a bound)
          MaxEvents    \* what the player does on the map and the units do by
                       \* themselves (a bound)

ASSUME DecisionAssumption == /\ Zero \notin Unit /\ IsFiniteSet(Unit)
                             /\ MaxUp \in Nat \ {0}
                             /\ MaxDown \in Nat \ {0}
                             /\ MaxWaiting \in Nat
                             /\ MaxEvents \in Nat

VARIABLES client,   \* the variables of the page
          down,     \* packets on their way to the client
          life,     \* what each unit is doing, at the civserver
          wants,    \* action_decision_want of each unit, at the civserver
          events    \* what happened by itself so far (a bound's counter)

decisionVars == <<client, down, life, wants, events>>

\* An event that neither a packet nor a dialog brings about.
Event == events < MaxEvents /\ events' = events + 1

\* idle with moves left; with an activity or orders; done_moving without and
\* with moves left.
Doing == {"ready", "busy", "done", "skipped"}

Requests == {"actions", "query", "suggest", "act", "unqueue", "queue", "idle"}
Replies  == {"actions", "answer", "list", "suggestion", "info", "remove", "turn"}
Kinds    == {"act", "target", "price", "name", "steal"}

\* Packets carry a unit; `ok` is the gist of a reply and, of an info, whether
\* the unit wants a decision.
Packet == [type : Replies, unit : Unit \cup {Zero}, ok : BOOLEAN, doing : Doing]
Dialog == [kind : Kinds, unit : Unit]
Request == [type : Requests, unit : Unit]

Reply(type, u, ok, doing) == [type |-> type, unit |-> u, ok |-> ok, doing |-> doing]

\* units, action_decision_want and what the units are doing; current_focus,
\* urgent_focus_queue, waiting_units_list; action_selection_in_progress_for,
\* is_more_user_input_needed, action_selection_restart, did_not_decide; the
\* modal dialogs, the topmost last; the requests on their way.
Clients == [units : SUBSET Unit, want : [Unit -> BOOLEAN],
            doing : [Unit -> Doing], focus : Seq(Unit), urgent : Seq(Unit),
            waiting : Seq(Unit), asking : Unit \cup {Zero}, more : BOOLEAN,
            restart : BOOLEAN, undecided : BOOLEAN,
            dialogs : Seq(Dialog), up : Seq(Request)]

\* The id of a dialog is unique in the page.
DecisionTypeOK == /\ client \in Clients /\ IsInjective(client.dialogs)
                  /\ down \in Seq(Packet)
                  /\ life \in [Unit -> {"unborn", "dead"} \cup Doing]
                  /\ wants \in [Unit -> BOOLEAN]
                  /\ events \in 0..MaxEvents

Init_decision == /\ client = [units |-> {}, want |-> [u \in Unit |-> FALSE],
                              doing |-> [u \in Unit |-> "ready"], focus |-> <<>>,
                              urgent |-> <<>>, waiting |-> <<>>, asking |-> Zero,
                              more |-> FALSE, restart |-> FALSE, undecided |-> FALSE,
                              dialogs |-> <<>>, up |-> <<>>]
                 /\ down = <<>>
                 /\ life = [u \in Unit |-> "unborn"]
                 /\ wants = [u \in Unit |-> FALSE]
                 /\ events = 0

-----------------------------------------------------------------------------
(***************************************************************************)
(* Requests and the selection in progress                                  *)
(***************************************************************************)

send_request(c, type, u) ==
  [c EXCEPT !.up = Append(@, [type |-> type, unit |-> u])]

unit_list_without(list, u) == Those(list, Unit \ {u})

unit_is_in_focus(c, u) == Contains(c.focus, u)

\* movesleft > 0 of a unit.
MovesLeft(d) == d # "done"

ask_server_for_actions(c, u) == send_request([c EXCEPT !.asking = u], "actions", u)

action_selection_no_longer_in_progress(c) ==
  [c EXCEPT !.asking = Zero, !.more = FALSE]

action_decision_clear_want(c, u) ==
  IF u \in c.units /\ c.want[u] THEN send_request(c, "unqueue", u) ELSE c

\* The first other unit in focus that wants a decision asks for it.
action_selection_next_in_focus(c, old) ==
  LET asks == Those(c.focus, {u \in Unit : u # old /\ c.want[u]})
  IN  IF asks = <<>> THEN c ELSE ask_server_for_actions(c, Head(asks))

act_sel_queue_may_be_done(c, u) ==
  LET over == IF c.restart THEN [c EXCEPT !.restart = FALSE]
              ELSE action_selection_no_longer_in_progress(c)
  IN  IF c.more THEN c
      ELSE IF c.undecided THEN [over EXCEPT !.undecided = FALSE]
      ELSE action_selection_next_in_focus(action_decision_clear_want(over, u), u)

act_sel_queue_done(c, u) ==
  [act_sel_queue_may_be_done([c EXCEPT !.more = FALSE], u)
     EXCEPT !.restart = FALSE, !.undecided = FALSE]

\* Dialogs of which one unit can have one, and the one that names a city.
DialogsOf(kinds, u) == {d \in [kind : kinds, unit : Unit] : d.unit = u \/ d.kind = "name"}

Shut(c, kinds, u) == [c EXCEPT !.dialogs = Those(@, Dialog \ DialogsOf(kinds, u))]

Open(c, kind, u) ==
  [Shut(c, {kind}, u) EXCEPT !.dialogs = Append(@, [kind |-> kind, unit |-> u])]

\* The dialogs that steal or sabotage are looked up without the "#" of an id.
action_selection_close(c) ==
  act_sel_queue_done(Shut(c, {"act", "price", "target", "name"}, c.asking), c.asking)

\* Mutant: an old dialog of the unit is not removed first.
PopupKeepsOld(c, u) ==
  LET closed == IF c.asking \in {Zero, u} THEN c ELSE action_selection_close(c)
  IN  [closed EXCEPT !.dialogs = Append(@, [kind |-> "act", unit |-> u]),
                     !.more = FALSE]

popup_action_selection(c, u) ==
  LET bare   == Shut(c, {"act"}, u)
      closed == IF bare.asking \in {Zero, u} THEN bare ELSE action_selection_close(bare)
  IN  [closed EXCEPT !.dialogs = Append(@, [kind |-> "act", unit |-> u]),
                     !.more = FALSE]

-----------------------------------------------------------------------------
(***************************************************************************)
(* The focus                                                               *)
(***************************************************************************)

set_unit_focus_and_redraw(c, u) ==
  action_selection_next_in_focus([c EXCEPT !.focus = <<u>>], Zero)

\* Urgent units that have got orders since and want no decision.
Stale(c, u) == c.doing[u] = "busy" /\ ~c.want[u]

FreshUrgent(c) == Those(c.urgent, {u \in Unit : ~Stale(c, u)})

\* The unit that gets the focus is the first that is not stale or one on the
\* tile of the focus; the search stops there, and drops the stale ones it met.
UrgentChoices(c) ==
  LET Met(j) == {u \in {c.urgent[i] : i \in 1..(j - 1)} : Stale(c, u)}
      first == Head(FreshUrgent(c))
      Near == {j \in DOMAIN c.urgent : /\ ~Stale(c, c.urgent[j])
                                       /\ c.focus # <<>> \/ c.urgent[j] = first}
      Choice(u, drop) == [unit |-> u, urgent |-> Those(c.urgent, Unit \ (drop \cup {u}))]
  IN  {Choice(c.urgent[j], Met(j)) : j \in Near}
        \cup {Choice(u, {v \in ToSet(c.urgent) : Stale(c, v)})
                : u \in {v \in {first} : c.focus # <<>>}}

\* Units that may get the focus by themselves; which is nearest is left open.
Candidates(c, accept_current) ==
  {u \in c.units : /\ ~unit_is_in_focus(c, u) \/ accept_current
                   /\ c.doing[u] = "ready" \/ c.want[u]
                   /\ ~Contains(c.waiting, u)}

\* Units told to wait come back in their order.
Waiters(c) == {i \in DOMAIN c.waiting : /\ c.waiting[i] \in c.units
                                        /\ MovesLeft(c.doing[c.waiting[i]])}

\* Mutant: units told to wait are not looked at again.
CandidateNotWaiting(c, accept_current) ==
  {[unit |-> u, waiting |-> c.waiting] : u \in Candidates(c, FALSE)}

find_best_focus_candidate(c, accept_current) ==
  LET first == {i \in Waiters(c) : \A j \in Waiters(c) : i <= j}
  IN  IF Candidates(c, accept_current) # {}
      THEN {[unit |-> u, waiting |-> c.waiting] : u \in Candidates(c, accept_current)}
      ELSE {[unit |-> c.waiting[i], waiting |-> RemoveAt(c.waiting, i)] : i \in first}

\* Mutant: the nearest candidate comes before the urgent units.
AdvanceToNearest(c) ==
  LET fresh == [c EXCEPT !.urgent = FreshUrgent(c)]
      found == find_best_focus_candidate(fresh, FALSE)
  IN  IF found # {}
      THEN {set_unit_focus_and_redraw([fresh EXCEPT !.waiting = k.waiting], k.unit)
              : k \in found}
      ELSE {[fresh EXCEPT !.focus = <<>>]}

\* All the results advance_unit_focus can have.
advance_unit_focus(c) ==
  LET fresh == [c EXCEPT !.urgent = FreshUrgent(c)]
      found == IF find_best_focus_candidate(fresh, FALSE) # {}
               THEN find_best_focus_candidate(fresh, FALSE)
               ELSE find_best_focus_candidate(fresh, TRUE)
  IN  IF fresh.urgent # <<>>
      THEN {set_unit_focus_and_redraw([c EXCEPT !.urgent = k.urgent], k.unit)
              : k \in UrgentChoices(c)}
      ELSE IF found # {}
      THEN {set_unit_focus_and_redraw([fresh EXCEPT !.waiting = k.waiting], k.unit)
              : k \in found}
      ELSE {[fresh EXCEPT !.focus = <<>>]}

update_unit_focus(c) ==
  IF \/ c.asking # Zero /\ c.focus # <<>>
     \/ \E u \in ToSet(c.focus) : c.doing[u] = "ready"
  THEN {c} ELSE advance_unit_focus(c)

\* Mutant: the queue of urgent units is forgotten.
KilledStaysUrgent(c, u) ==
  IF ~unit_is_in_focus(c, u) THEN {c}
  ELSE IF Len(c.focus) = 1 THEN advance_unit_focus(c)
  ELSE {[c EXCEPT !.focus = unit_list_without(@, u)]}

\* The list of units still has the killed one while the focus moves on.
control_unit_killed(c, u) ==
  LET calm == [c EXCEPT !.urgent = unit_list_without(@, u)]
  IN  IF ~unit_is_in_focus(calm, u) THEN {calm}
      ELSE IF Len(calm.focus) = 1 THEN advance_unit_focus(calm)
      ELSE {[calm EXCEPT !.focus = unit_list_without(@, u)]}

client_remove_unit(c, u) ==
  {[k EXCEPT !.focus = IF Contains(@, u) THEN <<>> ELSE @,
             !.units = @ \ {u}] : k \in control_unit_killed(c, u)}

action_decision_request(c, u) ==
  IF ~unit_is_in_focus(c, u) THEN [c EXCEPT !.urgent = Append(@, u)]
  ELSE IF c.asking = Zero THEN ask_server_for_actions(c, u) ELSE c

-----------------------------------------------------------------------------
(***************************************************************************)
(* Packets the client gets                                                 *)
(***************************************************************************)

\* The packet at the head of the connection, if it is of this type.
Gets(type) == down # <<>> /\ Head(down).type = type

Becomes(results) == /\ client' \in results
                    /\ down' = Tail(down)
                    /\ UNCHANGED <<life, wants, events>>

\* The units in focus are brought up to date before the test that compares
\* their done_moving with the packet's, so the focus never moves on here.
handle_unit_packet_common ==
  /\ Gets("info")
  /\ LET p == Head(down)
         new == p.unit \notin client.units
         asked == IF p.ok /\ (new \/ ~client.want[p.unit])
                  THEN action_decision_request(client, p.unit) ELSE client
     IN  Becomes({[asked EXCEPT !.units = @ \cup {p.unit}, !.want[p.unit] = p.ok,
                                !.doing[p.unit] = p.doing]})

handle_unit_remove ==
  /\ Gets("remove")
  /\ LET u == Head(down).unit
         c == IF client.asking = u
              THEN action_selection_next_in_focus(action_selection_close(client), u)
              ELSE client
     IN  Becomes(IF u \in client.units THEN client_remove_unit(c, u) ELSE {client})

\* Nothing the unit can do: the next unit in focus may ask.
handle_unit_actions ==
  /\ Gets("actions")
  /\ LET p == Head(down)
         over == action_selection_no_longer_in_progress(client)
     IN  Becomes({IF p.ok /\ p.unit \in client.units
                  THEN popup_action_selection(client, p.unit)
                  ELSE action_selection_next_in_focus(
                         action_decision_clear_want(over, p.unit), p.unit)})

\* A price; a refusal or the loss of the unit ends the selection.
handle_unit_action_answer ==
  /\ Gets("answer")
  /\ LET p == Head(down)
     IN  Becomes({IF p.ok /\ p.unit \in client.units
                  THEN Open(client, "price", p.unit)
                  ELSE act_sel_queue_done(client, p.unit)})

\* The dialog cannot be made for a unit that is gone: an exception.
handle_city_sabotage_list ==
  /\ Gets("list")
  /\ LET u == Head(down).unit
     IN  Becomes({IF u \in client.units THEN Open(client, "steal", u) ELSE client})

handle_city_name_suggestion_info ==
  /\ Gets("suggestion")
  /\ Becomes({Open(client, "name", Head(down).unit)})

handle_begin_turn ==
  /\ Gets("turn")
  /\ Becomes(update_unit_focus([client EXCEPT !.waiting = <<>>]))

-----------------------------------------------------------------------------
(***************************************************************************)
(* The player: the topmost dialog is modal, the map is free without one    *)
(***************************************************************************)

Plays(results) == /\ Len(client.up) + Len(down) < MaxUp
                  /\ client' \in results
                  /\ UNCHANGED <<down, life, wants>>

InDialog(results) == UNCHANGED events /\ Plays(results)

Top == Last(client.dialogs)

Shows(kind) == client.dialogs # <<>> /\ Top.kind = kind

\* The topmost dialog is gone.
Gone(c) == [c EXCEPT !.dialogs = Front(@)]

request_unit_do_action(c, u) == action_decision_clear_want(send_request(c, "act", u), u)

\* An action that needs no more input, and Cancel.
ChooseAction == /\ Shows("act")
                /\ InDialog({act_sel_queue_may_be_done(
                            Gone(request_unit_do_action(client, Top.unit)), Top.unit),
                          act_sel_queue_may_be_done(Gone(client), Top.unit)})

\* An action with a price or with a list of targets, and the founding of a
\* city, whose name the civserver suggests.
ChooseQuery ==
  /\ Shows("act")
  /\ \E type \in {"query", "suggest"} :
       InDialog({Gone([send_request(client, type, Top.unit) EXCEPT !.more = TRUE])})

\* The list of what to steal is the client's own.
ChooseSteal ==
  /\ Shows("act")
  /\ InDialog({[Open(Gone(client), "steal", Top.unit) EXCEPT !.more = TRUE]})

\* The dialog is closed to be opened again for another target.
ChangeTarget ==
  /\ Shows("act")
  /\ LET c == [Gone(client) EXCEPT !.restart = TRUE]
     IN  InDialog({act_sel_queue_may_be_done(Open(c, "target", Top.unit), Top.unit)})

SelectTarget ==
  /\ Shows("target")
  /\ InDialog({Gone(send_request(client, "actions", Top.unit)),
            act_sel_queue_may_be_done(Gone(client), Top.unit)})

DecideLater ==
  /\ Shows("act")
  /\ InDialog({act_sel_queue_may_be_done(
              Gone([client EXCEPT !.undecided = TRUE]), Top.unit)})

\* Prices, thefts, sabotage and names: done or cancelled.  To name a city
\* the unit must still be there.
AnswerFollowUp ==
  /\ Shows("price") \/ Shows("steal") \/ (Shows("name") /\ Top.unit \in client.units)
  /\ InDialog({act_sel_queue_done(
              Gone(request_unit_do_action(client, Top.unit)), Top.unit)})

CancelFollowUp ==
  /\ Shows("price") \/ Shows("steal") \/ Shows("name")
  /\ InDialog({act_sel_queue_done(Gone(client), Top.unit)})

\* Orders other than a decision cancel the one that is wanted.
request_new_unit_activity(c, u) ==
  send_request(action_decision_clear_want(c, u), "idle", u)

OnMap(results) == client.dialogs = <<>> /\ Event /\ Plays(results)

\* A click on a single unit wakes it; one on a stack only selects its first.
ClickUnit ==
  \E u \in client.units :
    LET c == set_unit_focus_and_redraw(client, u)
    IN  OnMap({c, request_new_unit_activity(c, u)})

\* A rectangle on the map, or no unit at all.
map_select_units ==
  \E s \in SetToAllKPermutations(client.units) :
    OnMap({action_selection_next_in_focus([client EXCEPT !.focus = s], Zero)})

key_unit_wait ==
  /\ Len(client.waiting) + Len(client.focus) <= MaxWaiting
  /\ client.focus # <<>>
  /\ OnMap(advance_unit_focus([client EXCEPT !.waiting = @ \o client.focus]))

key_unit_noorders ==
  /\ client.focus # <<>>
  /\ OnMap(advance_unit_focus(
       [client EXCEPT !.doing = [u \in Unit |->
          IF unit_is_in_focus(client, u) /\ MovesLeft(@[u]) THEN "skipped" ELSE @[u]]]))

\* An order to every unit in focus: sentry, fortify, irrigate and so on.
Ordered(c) ==
  LET f[i \in 0..Len(c.focus)] ==
        IF i = 0 THEN c ELSE request_new_unit_activity(f[i - 1], c.focus[i])
  IN  f[Len(c.focus)]

OrderFocus == client.focus # <<>> /\ OnMap({Ordered(client)})

\* A decision is asked of every unit in focus, against a tile.
request_unit_act_sel_vs ==
  /\ client.focus # <<>>
  /\ OnMap({[client EXCEPT !.up = @ \o [i \in DOMAIN client.focus |->
                                        [type |-> "queue", unit |-> client.focus[i]]]]})

\* The timer that an order sets looks for the next unit to move.
FocusTimer == Event /\ Plays(update_unit_focus(client))

-----------------------------------------------------------------------------
(***************************************************************************)
(* The civserver                                                           *)
(***************************************************************************)

Tells(more) == down' = down \o more

\* The oldest request, if it is of this type, is taken.
Takes(type) == /\ client.up # <<>> /\ Head(client.up).type = type
               /\ Len(down) < MaxDown
               /\ client' = [client EXCEPT !.up = Tail(@)]
               /\ UNCHANGED events

Asker == Head(client.up).unit

Alive(u) == life[u] \in Doing

handle_unit_get_actions ==
  /\ Takes("actions")
  /\ \E ok \in BOOLEAN : /\ ok => Alive(Asker)
                         /\ Tells(<<Reply("actions", Asker, ok, "ready")>>)
  /\ UNCHANGED <<life, wants>>

handle_unit_action_query ==
  /\ Takes("query")
  /\ \E r \in {Reply("answer", Asker, TRUE, "ready"), Reply("list", Asker, TRUE, "ready"),
               Reply("answer", Asker, FALSE, "ready")} :
       /\ r.ok => Alive(Asker)
       /\ Tells(<<r>>)
  /\ UNCHANGED <<life, wants>>

\* No city can be founded: a message of the server, but no reply.
handle_city_name_suggestion_req ==
  /\ Takes("suggest")
  /\ \/ Alive(Asker) /\ Tells(<<Reply("suggestion", Asker, TRUE, "ready")>>)
     \/ Tells(<<>>)
  /\ UNCHANGED <<life, wants>>

\* An action may be refused, may leave the unit changed, or may cost its life.
handle_unit_do_action ==
  /\ Takes("act")
  /\ \/ Tells(<<>>) /\ UNCHANGED life
     \/ /\ Alive(Asker)
        /\ \E d \in {"ready", "done"} :
             /\ Tells(<<Reply("info", Asker, wants[Asker], d)>>)
             /\ life' = [life EXCEPT ![Asker] = d]
     \/ /\ Alive(Asker)
        /\ Tells(<<Reply("remove", Asker, TRUE, "ready")>>)
        /\ life' = [life EXCEPT ![Asker] = "dead"]
  /\ UNCHANGED wants

\* A decision is wanted, or no longer wanted, at the client's request.
handle_unit_sscs_set ==
  /\ \/ Takes("queue") /\ wants' = [wants EXCEPT ![Asker] = Alive(Asker)]
     \/ Takes("unqueue") /\ wants' = [wants EXCEPT ![Asker] = FALSE]
  /\ Tells(IF Alive(Asker)
           THEN <<Reply("info", Asker, wants'[Asker], life[Asker])>> ELSE <<>>)
  /\ UNCHANGED life

handle_unit_change_activity ==
  /\ Takes("idle")
  /\ IF Alive(Asker)
     THEN \E d \in {"ready", "busy"} :
            /\ Tells(<<Reply("info", Asker, wants[Asker], d)>>)
            /\ life' = [life EXCEPT ![Asker] = d]
     ELSE Tells(<<>>) /\ UNCHANGED life
  /\ UNCHANGED wants

\* A unit is made, or an order of a unit ends where it needs a decision.
UnitStirs ==
  /\ Event
  /\ Len(down) < MaxDown
  /\ \E u \in Unit, w \in BOOLEAN :
       /\ life[u] = "unborn" \/ (Alive(u) /\ w /\ ~wants[u])
       /\ life' = [life EXCEPT ![u] = "ready"]
       /\ wants' = [wants EXCEPT ![u] = w]
       /\ Tells(<<Reply("info", u, w, "ready")>>)
  /\ UNCHANGED client

UnitDies ==
  /\ Event
  /\ Len(down) < MaxDown
  /\ \E u \in Unit : /\ Alive(u)
                     /\ life' = [life EXCEPT ![u] = "dead"]
                     /\ Tells(<<Reply("remove", u, TRUE, "ready")>>)
  /\ UNCHANGED <<client, wants>>

TurnBegins == /\ Event
              /\ Len(down) < MaxDown
              /\ Tells(<<Reply("turn", Zero, TRUE, "ready")>>)
              /\ UNCHANGED <<client, life, wants>>

Client == \/ handle_unit_packet_common \/ handle_unit_remove
          \/ handle_unit_actions \/ handle_unit_action_answer
          \/ handle_city_sabotage_list \/ handle_city_name_suggestion_info
          \/ handle_begin_turn

Player == \/ ChooseAction \/ ChooseQuery \/ ChooseSteal \/ ChangeTarget
          \/ SelectTarget \/ DecideLater \/ AnswerFollowUp \/ CancelFollowUp
          \/ ClickUnit \/ map_select_units \/ key_unit_wait \/ key_unit_noorders
          \/ OrderFocus \/ request_unit_act_sel_vs \/ FocusTimer

Civserver == \/ handle_unit_get_actions \/ handle_unit_action_query
             \/ handle_city_name_suggestion_req \/ handle_unit_do_action
             \/ handle_unit_sscs_set \/ handle_unit_change_activity
             \/ UnitStirs \/ UnitDies \/ TurnBegins

Next_decision == Client \/ Player \/ Civserver

DecisionSpec == Init_decision /\ [][Next_decision]_decisionVars

-----------------------------------------------------------------------------
(***************************************************************************)
(* Properties                                                              *)
(***************************************************************************)

\* No unit that is gone is in focus or queued for it, or advance_unit_focus
\* would look up a unit that is not there (control.js, control_unit_killed).
FocusAlive == /\ DecisionTypeOK
              /\ ToSet(client.focus) \cup ToSet(client.urgent) \subseteq client.units

\* "Only one action selection dialog at a time is supported."
OneDialog == \A i, j \in DOMAIN client.dialogs :
               client.dialogs[i].kind = "act" /\ client.dialogs[j].kind = "act" => i = j

\* When a turn begins and no selection is in progress, a unit that can move or
\* wants a decision gets the focus if there is one (handle_begin_turn).
TurnFindsUnit ==
  [][handle_begin_turn /\ client'.focus = <<>> =>
       \A u \in client.units : client.doing[u] # "ready" /\ ~client.want[u]]_decisionVars

\* An urgent unit gets the focus before others when the focus moves on by
\* itself (control.js, advance_unit_focus).
UrgentFirst ==
  [][(key_unit_wait \/ handle_begin_turn) /\ client'.focus # client.focus
     /\ FreshUrgent(client) # <<>> => Head(client'.focus) \in ToSet(client.urgent)]_decisionVars

\* Nobody who waits for a decision is passed over.
FocusFair == TurnFindsUnit /\ UrgentFirst
=============================================================================
