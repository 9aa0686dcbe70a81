------------------------------ MODULE Diplomacy ------------------------------
(***************************************************************************)
(* A diplomatic meeting of two players who both use the web client         *)
(* (diplomacy.js, and the handlers of its packets in packhand.js).  The    *)
(* civserver keeps the treaty and tells both clients what is done to it;   *)
(* each client keeps its own list of the clauses and the lines it shows.   *)
(* What the client asks for is computed from that list, and may have been  *)
(* overtaken when it arrives.                                              *)
(***************************************************************************)
EXTENDS Arrays, FiniteSets, SequencesExt

CONSTANTS Party,     \* the two players
          Worth,      \* values of a clause: a technology, an amount of gold
          MaxReqs     \* requests the players make, turns that end, and pages
                      \* loaded again (a bound)

ASSUME MeetAssumption == /\ Party # {}
                         /\ \A p \in Party : \E q \in Party : Party = {p, q} /\ p # q
                         /\ MaxReqs \in Nat

VARIABLES view,    \* what each client keeps and shows of the meeting
          asks,    \* requests on their way to the civserver
          told,    \* packets on their way to a client
          treaty,  \* the treaty at the civserver
          reqs     \* counter of the bound

meetVars == <<view, asks, told, treaty, reqs>>

Pacts == {"CEASEFIRE", "PEACE"}
Clause == [giver : Party, type : {"ADVANCE", "GOLD"}, value : Worth]
            \cup [giver : Party, type : Pacts, value : {1}]

Other(p) == CHOOSE q \in Party : q # p

NoTreaty == [open |-> FALSE, clauses |-> <<>>, accepted |-> [p \in Party |-> FALSE]]

NoMeeting == [clauses |-> <<>>, dialogs |-> 0, hidden |-> FALSE,
              thumbs |-> [p \in Party |-> FALSE]]

MeetTypeOK ==
  /\ view \in [Party -> [clauses : Seq(Clause), dialogs : 0..1, hidden : BOOLEAN,
                          thumbs : [Party -> BOOLEAN]]]
  /\ treaty \in [open : BOOLEAN, clauses : Seq(Clause), accepted : [Party -> BOOLEAN]]
  /\ reqs \in 0..MaxReqs
  /\ \A p \in Party : ~treaty.open /\ told[p] = <<>> =>
       view[p].dialogs = 0 /\ view[p].clauses = <<>>

\* There is no meeting, or one has begun.
Init_diplomacy == /\ \E n \in {0, 1} :
                       /\ view = [p \in Party |-> [NoMeeting EXCEPT !.dialogs = n]]
                       /\ treaty = [NoTreaty EXCEPT !.open = (n = 1)]
                  /\ asks = [p \in Party |-> <<>>]
                  /\ told = [p \in Party |-> <<>>]
                  /\ reqs = 0

-----------------------------------------------------------------------------
(***************************************************************************)
(* Requests of a client                                                    *)
(***************************************************************************)
Counts == reqs < MaxReqs /\ reqs' = reqs + 1

Asks(p, packets) == /\ Counts
                    /\ asks' = [asks EXCEPT ![p] = @ \o packets]
                    /\ UNCHANGED <<told, treaty>>

Plain(type) == [ask |-> type]
Of(type, c) == [ask |-> type, clause |-> c]

\* Requests to remove the clauses of the list that have one of the types.
Removals(p, types) ==
  LET those == Those(view[p].clauses, {d \in Clause : d.type \in types})
  IN  [i \in DOMAIN those |-> Of("remove", those[i])]

ShowsMeeting(p) == view[p].dialogs > 0 /\ ~view[p].hidden

diplomacy_init_meeting_req(p) == Asks(p, <<Plain("init")>>) /\ UNCHANGED view

\* "Accept treaty", which also takes the acceptance back.
accept_treaty_req(p) == ShowsMeeting(p) /\ Asks(p, <<Plain("accept")>>) /\ UNCHANGED view

\* The buttons, and closing the window, which the answer removes.
cancel_meeting_req(p) ==
  /\ ShowsMeeting(p) /\ Asks(p, <<Plain("cancel")>>)
  /\ \/ UNCHANGED view
     \/ view' = [view EXCEPT ![p].hidden = TRUE]

\* An entry of the menu; a pact that is shown is asked to be removed first.
create_clause_req(p) ==
  \E c \in Clause :
    /\ ShowsMeeting(p) /\ c.type # "GOLD" /\ (c.type \in Pacts => c.giver = p)
    /\ Asks(p, (IF c.type \in Pacts THEN Removals(p, Pacts) ELSE <<>>)
                 \o <<Of("create", c)>>)
    /\ UNCHANGED view

\* The amount of gold is changed, to nothing or to another value.
meeting_gold_change_req(p) ==
  \E g \in Party, v \in Worth \cup {0} :
    LET shown == Those(view[p].clauses, {d \in Clause : d.giver = g /\ d.type = "GOLD"})
        gold == [giver |-> g, type |-> "GOLD", value |-> v]
        same == {i \in DOMAIN shown : shown[i].value = v}
        before == IF same = {} THEN shown
                  ELSE SubSeq(shown, 1, (CHOOSE i \in same : \A j \in same : i <= j) - 1)
    IN  /\ ShowsMeeting(p)
        /\ Asks(p, [i \in DOMAIN before |-> Of("remove", before[i])]
                     \o (IF same = {} /\ v # 0 THEN <<Of("create", gold)>> ELSE <<>>))
        /\ UNCHANGED view

\* A line of the dialog is clicked.
remove_clause_req(p) ==
  \E i \in DOMAIN view[p].clauses :
    ShowsMeeting(p) /\ Asks(p, <<Of("remove", view[p].clauses[i])>>) /\ UNCHANGED view

-----------------------------------------------------------------------------
(***************************************************************************)
(* The civserver                                                           *)
(***************************************************************************)
TakesAsk(p, ask) == /\ asks[p] # <<>> /\ Head(asks[p]).ask = ask
                    /\ asks' = [asks EXCEPT ![p] = Tail(@)]
                    /\ UNCHANGED <<view, reqs>>

TellsBoth(packets) == told' = [q \in Party |-> told[q] \o packets]

Nothing == UNCHANGED <<treaty, told>>

handle_diplomacy_init_meeting_req(p) ==
  /\ TakesAsk(p, "init")
  /\ IF treaty.open THEN Nothing
     ELSE treaty' = [NoTreaty EXCEPT !.open = TRUE] /\ TellsBoth(<<Plain("init")>>)

handle_diplomacy_cancel_meeting_req(p) ==
  /\ TakesAsk(p, "cancel")
  /\ IF treaty.open THEN treaty' = NoTreaty /\ TellsBoth(<<Plain("cancel")>>) ELSE Nothing

\* The first of the hits is taken from the list, if there is one.
FirstTaken(clauses, hits) ==
  IF hits = {} THEN clauses
  ELSE RemoveAt(clauses, CHOOSE i \in hits : \A j \in hits : i <= j)

Changed(clauses) == [NoTreaty EXCEPT !.open = TRUE, !.clauses = clauses]

handle_diplomacy_remove_clause_req(p) ==
  /\ TakesAsk(p, "remove")
  /\ LET c == Head(asks[p]).clause
         same == {i \in DOMAIN treaty.clauses : treaty.clauses[i] = c}
     IN  IF treaty.open /\ same # {}
         THEN /\ treaty' = Changed(FirstTaken(treaty.clauses, same))
              /\ TellsBoth(<<Of("remove", c)>>)
         ELSE Nothing

\* The clause that the new one takes the place of, if there is one: a pact
\* becomes another pact of the same giver, gold gets another amount.
Replaces(c, d) == \/ c.type \in Pacts /\ d.type \in Pacts
                  \/ c.type = "GOLD" /\ d.type = "GOLD" /\ d.giver = c.giver

\* The first clause that is the same, or that is replaced, decides.
AddClause(clauses, c) ==
  LET hits == {i \in DOMAIN clauses : clauses[i] = c \/ Replaces(c, clauses[i])}
      i == CHOOSE j \in hits : \A k \in hits : j <= k
  IN  IF hits = {} THEN Append(clauses, c)
      ELSE [clauses EXCEPT ![i].type = c.type, ![i].value = c.value]

handle_diplomacy_create_clause_req(p) ==
  /\ TakesAsk(p, "create")
  /\ LET c == Head(asks[p]).clause
     IN  IF treaty.open /\ ~Contains(treaty.clauses, c)
         THEN /\ treaty' = Changed(AddClause(treaty.clauses, c))
              /\ TellsBoth(<<Of("create", c)>>)
         ELSE Nothing

AcceptPackets(q, accepted) == <<[ask |-> "accept", accepted |-> accepted]>>

\* Who cannot keep a promise cannot accept; when both have accepted the
\* treaty is carried out, or found void, and is gone.
handle_diplomacy_accept_treaty_req(p) ==
  /\ TakesAsk(p, "accept")
  /\ LET accepted == [treaty.accepted EXCEPT ![p] = ~@]
         done == \A q \in Party : accepted[q]
     IN  \/ /\ treaty.open
            /\ treaty' = IF done THEN NoTreaty ELSE [treaty EXCEPT !.accepted = accepted]
            /\ told' = [q \in Party |-> told[q] \o AcceptPackets(q, accepted)
                                         \o IF done THEN <<Plain("cancel")>> ELSE <<>>]
         \/ ~treaty.accepted[p] /\ Nothing

EndTurn == /\ Counts
           /\ TellsBoth(<<Plain("end_turn")>>)
           /\ UNCHANGED <<view, asks, treaty>>

\* A player loads the page again and is told of the meeting.
Rejoin(p) ==
  /\ Counts
  /\ view' = [view EXCEPT ![p] = NoMeeting]
  /\ asks' = [asks EXCEPT ![p] = <<>>]
  /\ told' = [told EXCEPT ![p] =
       IF ~treaty.open THEN <<>>
       ELSE <<Plain("init")>>
              \o [i \in DOMAIN treaty.clauses |-> Of("create", treaty.clauses[i])]
              \o AcceptPackets(p, treaty.accepted)]
  /\ UNCHANGED treaty

-----------------------------------------------------------------------------
(***************************************************************************)
(* Packets the client is told                                              *)
(***************************************************************************)
Hears(p, ask) == /\ told[p] # <<>> /\ Head(told[p]).ask = ask
                 /\ told' = [told EXCEPT ![p] = Tail(@)]
                 /\ UNCHANGED <<asks, treaty, reqs>>

\* The element of the dialog is removed when there is one.
Cleaned(v) == [v EXCEPT !.dialogs = IF @ = 0 THEN 0 ELSE @ - 1, !.hidden = FALSE]

handle_diplomacy_init_meeting(p) ==
  /\ Hears(p, "init")
  /\ view' = [view EXCEPT ![p] = [NoMeeting EXCEPT !.dialogs = view[p].dialogs + 1]]

cancel_meeting(v) == [Cleaned(v) EXCEPT !.clauses = <<>>]

handle_diplomacy_cancel_meeting(p) ==
  Hears(p, "cancel") /\ view' = [view EXCEPT ![p] = cancel_meeting(@)]

handle_diplomacy_create_clause(p) ==
  /\ Hears(p, "create")
  /\ view' = [view EXCEPT ![p].clauses = Append(@, Head(told[p]).clause)]

\* Mutant: the giver is not compared either.
RemovesOfType(clauses, c) ==
  FirstTaken(clauses, {i \in DOMAIN clauses : clauses[i].type = c.type})

\* The first clause of the giver and the type: values are not compared.
remove_clause(clauses, c) ==
  FirstTaken(clauses, {i \in DOMAIN clauses : /\ clauses[i].giver = c.giver
                                              /\ clauses[i].type = c.type})

handle_diplomacy_remove_clause(p) ==
  /\ Hears(p, "remove")
  /\ view' = [view EXCEPT ![p].clauses = remove_clause(@, Head(told[p]).clause)]

\* Mutant: both thumbs go up with either.
BothThumbs(v, accepted) ==
  IF \A q \in Party : accepted[q] THEN cancel_meeting(v)
  ELSE [v EXCEPT !.thumbs = [q \in Party |-> FALSE]]

accept_treaty(v, accepted) ==
  IF \A q \in Party : accepted[q] THEN cancel_meeting(v)
  ELSE [v EXCEPT !.thumbs = IF v.dialogs > 0 THEN accepted ELSE @]

handle_diplomacy_accept_treaty(p) ==
  /\ Hears(p, "accept")
  /\ view' = [view EXCEPT ![p] = accept_treaty(@, Head(told[p]).accepted)]

\* Every meeting's dialog is removed, the meeting goes on.
handle_end_turn(p) ==
  /\ Hears(p, "end_turn")
  /\ view' = [view EXCEPT ![p].dialogs = 0, ![p].hidden = FALSE]

Next_diplomacy ==
  \/ EndTurn
  \/ \E p \in Party :
       \/ diplomacy_init_meeting_req(p) \/ accept_treaty_req(p) \/ cancel_meeting_req(p)
       \/ create_clause_req(p) \/ meeting_gold_change_req(p) \/ remove_clause_req(p)
       \/ handle_diplomacy_init_meeting_req(p) \/ handle_diplomacy_cancel_meeting_req(p)
       \/ handle_diplomacy_remove_clause_req(p) \/ handle_diplomacy_create_clause_req(p)
       \/ handle_diplomacy_accept_treaty_req(p) \/ Rejoin(p)
       \/ handle_diplomacy_init_meeting(p) \/ handle_diplomacy_cancel_meeting(p)
       \/ handle_diplomacy_create_clause(p) \/ handle_diplomacy_remove_clause(p)
       \/ handle_diplomacy_accept_treaty(p) \/ handle_end_turn(p)

MeetSpec == Init_diplomacy /\ [][Next_diplomacy]_meetVars

-----------------------------------------------------------------------------
(***************************************************************************)
(* Properties                                                              *)
(***************************************************************************)
Given(clauses, g) == {i \in DOMAIN clauses : /\ clauses[i].giver = g
                                             /\ clauses[i].type = "ADVANCE"}

\* The last line that c would take the place of says what c says.
LastLine(shown, c) ==
  \E k \in DOMAIN shown :
    /\ Replaces(c, shown[k]) /\ shown[k].type = c.type /\ shown[k].value = c.value
    /\ \A j \in DOMAIN shown : j > k => ~Replaces(c, shown[j])

\* Nothing of the treaty is hidden from a player who heard all he was told,
\* as far as the client's matching of clauses without their value allows: of
\* each giver as many technologies are shown as are given, the last line on
\* gold has the amount, and the last pact shown is the pact.
NothingHidden ==
  \A p \in Party : treaty.open /\ told[p] = <<>> =>
    /\ \A g \in Party :
         Cardinality(Given(view[p].clauses, g)) = Cardinality(Given(treaty.clauses, g))
    /\ \A i \in DOMAIN treaty.clauses : treaty.clauses[i].type # "ADVANCE" =>
         LastLine(view[p].clauses, treaty.clauses[i])

\* A player sees every acceptance that stands, and so is not surprised by the
\* treaty that his own acceptance concludes.  (A thumb shown may be stale:
\* clauses that change withdraw both acceptances without a packet.)
AcceptanceShown ==
  \A p, q \in Party :
    treaty.accepted[q] /\ told[p] = <<>> /\ view[p].dialogs > 0 => view[p].thumbs[q]

\* What a player agrees to is what he sees, and a client that has heard the end
\* of a meeting has no dialog and no clause of it left (MeetTypeOK).
MeetingShown == MeetTypeOK /\ NothingHidden /\ AcceptanceShown
=============================================================================
