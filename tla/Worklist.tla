------------------------------- MODULE Worklist -------------------------------
(***************************************************************************)
(* The production tab of the city dialog (city.js): the worklist of a      *)
(* city, the tasks selected in it, and the production choices selected     *)
(* beside it.  The buttons edit the client's copy of the worklist and send *)
(* all of it; the civserver answers with what the city has now, in two     *)
(* packets, and the second draws the dialog anew.  Meanwhile cities finish *)
(* what they produce, and a selection is a list of positions in a list     *)
(* that was.                                                               *)
(*                                                                         *)
(* Positions count from 0, as in JavaScript; reading past the end of an    *)
(* array gives `undefined`, and writing there makes it longer.             *)
(***************************************************************************)
EXTENDS Arrays, SequencesExt

CONSTANTS Item,       \* what can be built: a universal, kind and value
          Buildable,  \* what the city can build now
          Hole,       \* undefined
          MaxLen,     \* MAX_LEN_WORKLIST
          MaxEdits,   \* requests the player sends (a bound)
          MaxNews     \* changes the city makes by itself (a bound)

ASSUME WorklistAssumption ==
         /\ Hole \notin Item /\ Buildable \subseteq Item
         /\ MaxLen \in Nat /\ MaxEdits \in Nat /\ MaxNews \in Nat

VARIABLES tab,     \* the city as the client knows it, and the selections
          sent,    \* packets on their way to the civserver
          coming,  \* packets on their way to the client
          city,    \* the city at the civserver
          edits, news   \* counters of the bounds

listVars == <<tab, sent, coming, city, edits, news>>

Lists == Seq(Item \cup {Hole})

\* active_city's production and worklist; worklist_selection and
\* production_selection; the number of tasks the dialog shows.
Tabs == [prod : Item, list : Lists, sel : Seq(Nat), picks : Seq(Item), drawn : Nat]

ListTypeOK ==
  /\ tab \in Tabs
  /\ sent \in Seq([type : {"change"}, item : Item] \cup [type : {"list"}, list : Lists]
                    \cup [type : {"buy"}])
  /\ coming \in Seq([type : {"info"}, prod : Item, list : Seq(Item)]
                      \cup [type : {"addition"}])
  /\ city \in [prod : Item, list : Seq(Item), bought : BOOLEAN]
  /\ edits \in 0..MaxEdits /\ news \in 0..MaxNews
  /\ Len(city.list) <= MaxLen

Init_worklist ==
  /\ \E p \in Buildable :
       /\ tab = [prod |-> p, list |-> <<>>, sel |-> <<>>, picks |-> <<>>, drawn |-> 0]
       /\ city = [prod |-> p, list |-> <<>>, bought |-> FALSE]
  /\ sent = <<>> /\ coming = <<>>
  /\ edits = 0 /\ news = 0

-----------------------------------------------------------------------------
(***************************************************************************)
(* Arrays of JavaScript                                                    *)
(***************************************************************************)
At(l, i) == IF i < Len(l) THEN l[i + 1] ELSE Hole

Put(l, i, x) == [j \in 1..(IF i < Len(l) THEN Len(l) ELSE i + 1) |->
                   IF j = i + 1 THEN x ELSE At(l, j - 1)]

Swap(l, i, j) == Put(Put(l, i, At(l, j)), j, At(l, i))

\* l.splice(i, n, ...more)
Splice(l, i, n, more) ==
  LET at == IF i < Len(l) THEN i ELSE Len(l)
  IN  SubSeq(l, 1, at) \o more
        \o SubSeq(l, at + 1 + (IF at + n < Len(l) THEN n ELSE Len(l) - at), Len(l))

Shifted(sel, n) == [k \in DOMAIN sel |-> sel[k] + n]

Clip(l) == IF Len(l) > MaxLen THEN SubSeq(l, 1, MaxLen) ELSE l

-----------------------------------------------------------------------------
(***************************************************************************)
(* What the buttons do with the tab                                        *)
(***************************************************************************)

Unselected(sel, i) == Those(sel, Nat \ {i})

\* Mutant: a selected task is put last.
SelectedLast(sel, i) == Append(Unselected(sel, i), i)

\* A selected task is put where its position belongs.
Selected(sel, i) == Those(sel, 0..(i - 1)) \o <<i>> \o Those(sel, Nat \ (0..i))

\* Mutant: a task taken out of the list leaves the others where they were.
RemovedSelectionStays(sel, i) == Unselected(sel, i)

\* The selection when the task at i is taken out of the list.
RemovedSelection(sel, i) ==
  [k \in DOMAIN Unselected(sel, i) |->
     LET p == Unselected(sel, i)[k] IN IF p > i THEN p - 1 ELSE p]

\* What a button does to the list l for each of ks, one after the other: for
\* the selected task at k, or for the k-th of the selected tasks.
ForOne(button, t, l, k) ==
  CASE button = "up" -> Swap(l, k - 1, k)
    [] button = "down" -> Swap(l, k, k + 1)
    [] button = "remove" -> Splice(l, k, 1, <<>>)
    [] button = "exchange" -> Put(l, t.sel[k], t.picks[k])

ForEach(button, t, l, ks) ==
  LET f[i \in 0..Len(ks)] == IF i = 0 THEN l ELSE ForOne(button, t, f[i - 1], ks[i])
  IN  f[Len(ks)]

\* The last selected task moves first.
MovesDown(t) ==
  [t EXCEPT !.list = ForEach("down", t, @, Reverse(t.sel)), !.sel = Shifted(@, 1)]

\* The first task takes the place of the production when it is selected.
Produces(t) == t.sel # <<>> /\ t.sel[1] = 0

ChangesProduction(t) == Produces(t) /\ t.list[1] # t.prod

MovesUp(t) ==
  LET rest == IF Produces(t) THEN Tail(t.sel) ELSE t.sel
      list == IF Produces(t) THEN Put(t.list, 0, t.prod) ELSE t.list
  IN  [t EXCEPT !.list = ForEach("up", t, list, rest), !.sel = Shifted(rest, -1)]

\* All choices are inserted; no more than MaxLen are counted.
Inserts(t) ==
  LET count == Len(Clip(t.picks))
  IN  IF t.sel = <<>>
      THEN [t EXCEPT !.list = t.picks \o @, !.sel = [k \in 1..count |-> k - 1]]
      ELSE [t EXCEPT !.list = Splice(@, t.sel[1], 0, t.picks), !.sel = Shifted(@, count)]

\* Selected tasks that have no counterpart in the list: an exception, when
\* all before them were the same.
Compares(t) == {k \in DOMAIN t.sel : \A j \in 1..(k - 1) : At(t.list, t.sel[j]) = t.picks[j]}
Throws(t) == Len(t.picks) = Len(t.sel) /\ \E k \in Compares(t) : At(t.list, t.sel[k]) = Hole

Same(t) == /\ Len(t.picks) = Len(t.sel)
           /\ \A k \in DOMAIN t.sel : At(t.list, t.sel[k]) = t.picks[k]

Exchanges(t) ==
  IF Len(t.picks) = Len(t.sel)
  THEN [t EXCEPT !.list = ForEach("exchange", t, @, [k \in DOMAIN t.sel |-> k])]
  ELSE [t EXCEPT !.list = Splice(@, t.sel[1], 1, t.picks),
                 !.sel = [k \in DOMAIN t.picks |-> t.sel[1] + k - 1]]

Removes(t) ==
  [t EXCEPT !.list = ForEach("remove", t, @, Reverse(t.sel)), !.sel = <<>>]

\* Mutant: positions past the end stay.
DrawnUncut(t) == [t EXCEPT !.drawn = Len(t.list)]

\* city_worklist_dialog(): positions past the end are cut off the selection.
Drawn(t) ==
  [t EXCEPT !.sel = Those(@, {k \in 0..(MaxLen - 1) : k < Len(t.list)}),
            !.drawn = Len(t.list)]

-----------------------------------------------------------------------------
(***************************************************************************)
(* The player                                                              *)
(***************************************************************************)
Selects(t) == /\ tab' = t
              /\ UNCHANGED <<sent, coming, city, edits, news>>

\* A task shown in the dialog is selected, unselected, or touched; so is a
\* production choice.
SelectTask == \E i \in 0..(tab.drawn - 1) :
                \/ Selects([tab EXCEPT !.sel = Selected(@, i)])
                \/ Selects([tab EXCEPT !.sel = Unselected(@, i)])
                \/ Selects([tab EXCEPT !.sel = IF @ = <<i>> THEN <<>> ELSE <<i>>])

SelectChoice == \E x \in Item :
                  \/ /\ ~Contains(tab.picks, x)
                     /\ Selects([tab EXCEPT !.picks = Append(@, x)])
                  \/ Selects([tab EXCEPT !.picks = Those(@, Item \ {x})])

\* A packet about any city draws the dialog anew.
RedrawnForAnother == Selects(Drawn(tab))

\* Another city was shown in between, or the dialog was closed.
show_city_dialog == Selects(Drawn([tab EXCEPT !.sel = <<>>, !.picks = <<>>]))

Sends(t, packets) == /\ edits < MaxEdits /\ edits' = edits + 1
                     /\ tab' = t
                     /\ sent' = sent \o packets
                     /\ UNCHANGED <<coming, city, news>>

ChangePacket(x) == [type |-> "change", item |-> x]

\* send_city_worklist(): the client's copy is clipped, and sent as a whole.
SendList(t, before) ==
  LET clipped == [t EXCEPT !.list = Clip(@)]
  IN  Sends(clipped, Append(before, [type |-> "list", list |-> clipped.list]))

city_change_production ==
  Len(tab.picks) = 1 /\ Sends(tab, <<ChangePacket(tab.picks[1])>>)

request_city_buy == Sends(tab, <<[type |-> "buy"]>>)

city_add_to_worklist ==
  tab.picks # <<>> /\ SendList([tab EXCEPT !.list = @ \o tab.picks], <<>>)

send_city_worklist_add ==
  \E x \in Item : /\ Len(tab.list) < MaxLen
                  /\ SendList([tab EXCEPT !.list = Append(@, x)], <<>>)

handle_current_worklist_direct_remove ==
  \E i \in 0..(tab.drawn - 1) :
    SendList([tab EXCEPT !.list = Splice(@, i, 1, <<>>), !.sel = RemovedSelection(@, i)],
             <<>>)

city_insert_in_worklist == tab.picks # <<>> /\ SendList(Inserts(tab), <<>>)

\* Without a first task there is an exception when it is to be produced.
city_worklist_task_up ==
  /\ tab.sel # <<>>
  /\ IF Produces(tab) /\ At(tab.list, 0) = Hole
     THEN Selects([tab EXCEPT !.sel = Tail(@)])
     ELSE SendList(MovesUp(tab), IF ChangesProduction(tab)
                                 THEN <<ChangePacket(tab.list[1])>> ELSE <<>>)

city_worklist_task_down ==
  /\ tab.sel # <<>> /\ Last(tab.sel) # Len(tab.list) - 1
  /\ SendList(MovesDown(tab), <<>>)

city_exchange_worklist_task ==
  /\ tab.picks # <<>> /\ ~Same(tab) /\ ~Throws(tab)
  /\ Len(tab.picks) = Len(tab.sel) \/ Len(tab.sel) = 1
  /\ SendList(Exchanges(tab), <<>>)

city_worklist_task_remove == tab.sel # <<>> /\ SendList(Removes(tab), <<>>)

-----------------------------------------------------------------------------
(***************************************************************************)
(* The civserver, and what it tells                                        *)
(***************************************************************************)
Infos(c) == <<[type |-> "info", prod |-> c.prod, list |-> c.list], [type |-> "addition"]>>

Tells_city(c) == city' = c /\ coming' = coming \o Infos(c)

TakesPacket(type) == /\ sent # <<>> /\ Head(sent).type = type
                     /\ sent' = Tail(sent)
                     /\ UNCHANGED <<tab, edits, news>>

\* Refused without an answer for what is produced already, what cannot be
\* built, and when production was bought this turn.
handle_city_change ==
  /\ TakesPacket("change")
  /\ LET x == Head(sent).item
     IN  IF x = city.prod \/ x \notin Buildable \/ city.bought
         THEN UNCHANGED <<city, coming>>
         ELSE Tells_city([city EXCEPT !.prod = x])

\* A list with a hole cannot be decoded.
handle_city_worklist ==
  /\ TakesPacket("list")
  /\ IF Contains(Head(sent).list, Hole) THEN UNCHANGED <<city, coming>>
     ELSE Tells_city([city EXCEPT !.list = Head(sent).list])

handle_city_buy == TakesPacket("buy") /\ Tells_city([city EXCEPT !.bought = TRUE])

\* At turn change the city may finish what it produces.
TurnChange ==
  /\ news < MaxNews /\ news' = news + 1
  /\ Tells_city(IF city.list = <<>> THEN [city EXCEPT !.bought = FALSE]
                ELSE [prod |-> Head(city.list), list |-> Tail(city.list),
                      bought |-> FALSE])
  /\ UNCHANGED <<tab, sent, edits>>

Receives(type) == /\ coming # <<>> /\ Head(coming).type = type
                  /\ coming' = Tail(coming)
                  /\ UNCHANGED <<sent, city, edits, news>>

handle_city_info ==
  /\ Receives("info")
  /\ tab' = [tab EXCEPT !.prod = Head(coming).prod, !.list = Head(coming).list]

handle_web_city_info_addition == Receives("addition") /\ tab' = Drawn(tab)

Buttons == \/ city_change_production \/ request_city_buy \/ city_add_to_worklist
           \/ send_city_worklist_add \/ handle_current_worklist_direct_remove
           \/ city_insert_in_worklist \/ city_worklist_task_up
           \/ city_worklist_task_down \/ city_exchange_worklist_task
           \/ city_worklist_task_remove

Next_worklist ==
  \/ SelectTask \/ SelectChoice \/ show_city_dialog \/ Buttons
  \/ handle_city_change \/ handle_city_worklist \/ handle_city_buy \/ TurnChange
  \/ handle_city_info \/ handle_web_city_info_addition
  \/ RedrawnForAnother

ListSpec == Init_worklist /\ [][Next_worklist]_listVars

-----------------------------------------------------------------------------
(***************************************************************************)
(* Properties                                                              *)
(***************************************************************************)

\* worklist_selection is in strictly ascending order: every button depends on
\* it, and eight functions change it.
SelectionAscends == \A i, j \in DOMAIN tab.sel : i < j => tab.sel[i] < tab.sel[j]

\* When nothing is under way the client shows what the city has and selects
\* only tasks that are there, unless it lost a list with a hole.
InStep == sent = <<>> /\ coming = <<>> /\ ~Contains(tab.list, Hole) =>
            /\ tab.list = city.list /\ tab.prod = city.prod
            /\ \A k \in DOMAIN tab.sel : tab.sel[k] < Len(tab.list)

SelectedTasks(t) == [k \in DOMAIN t.sel |-> At(t.list, t.sel[k])]
InRange(t) == \A k \in DOMAIN t.sel : t.sel[k] < Len(t.list)

\* A button that moves tasks, inserts some before them, or takes one out of
\* the list by a double click leaves the selection on the tasks it was on,
\* but for one that is gone or gets produced (as long as the list is not so
\* full that its end is cut off).
SelectionFollows ==
  [][/\ InRange(tab) /\ Len(tab'.list) < MaxLen /\ tab.sel # <<>>
     /\ \/ city_worklist_task_up \/ city_worklist_task_down
        \/ city_insert_in_worklist \/ handle_current_worklist_direct_remove
     => \/ SelectedTasks(tab') = SelectedTasks(tab)
        \/ \E k \in DOMAIN tab.sel :
             SelectedTasks(tab') = RemoveAt(SelectedTasks(tab), k)]_listVars

\* The selection is a list of positions in the list that is there.
ListSound == ListTypeOK /\ SelectionAscends /\ InStep
=============================================================================
