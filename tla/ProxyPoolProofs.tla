--------------------------- MODULE ProxyPoolProofs ---------------------------
(***************************************************************************)
(* Proofs about ProxyPool for every number of games, connections and calls *)
(* and every limit: its types, that slots, entries and connections agree   *)
(* (PoolSound), and that a connection that failed is given to nobody again *)
(* (NoResurrection).                                                       *)
(***************************************************************************)
EXTENDS ProxyPool, FiniteSetTheorems, TLAPS

\* The connection of an entry, and the one being closed, have been opened.
Opened == /\ \A g \in Present : ws[entry[g].conn] # "new"
          /\ closing # NoConn => ws[closing] # "new"

\* A connection that a call has opened and not added yet is its own.
HeldApart == \A k \in Call : pc[k] = "adding" =>
                /\ mine[k] \in OwnConn /\ ws[mine[k]] # "new" /\ mine[k] # closing
                /\ \A g \in Game : entry[g].conn # mine[k]
HeldOnce == \A j, k \in Call :
                pc[j] = "adding" /\ pc[k] = "adding" /\ mine[j] = mine[k] => j = k

\* What can fail is healthy, and no entry has failed its pings twice.
FailsOnce == \A g \in Game : /\ entry[g].hfails <= 1
                             /\ entry[g].status = "connected" => entry[g].hfails = 0

IInv == /\ TypeOK
        /\ CountExact /\ WithinCapacity /\ OneEntry
        /\ Opened /\ HeldApart /\ HeldOnce /\ FailsOnce

-----------------------------------------------------------------------------
(***************************************************************************)
(* What a step does to the entries: it marks them, adds one, or removes    *)
(* one.                                                                    *)
(***************************************************************************)

\* f is e with a time, an error or a failure more.
Marked(e, f) == /\ f \in Entry /\ f.conn = e.conn
                /\ f.status = "connected" => e.status = "connected"
                /\ \/ f.hfails = e.hfails
                   \/ e.status = "connected" /\ f.status = "failed" /\ f.hfails <= e.hfails + 1

Marks == /\ entry' \in [Game -> Entry] /\ count' = count
         /\ \A g \in Game : Marked(entry[g], entry'[g])

\* No WebSocket is new again.
Older == ws' \in [Conn -> {"new", "open", "closed"}]
         /\ \A c \in Conn : ws[c] # "new" => ws'[c] # "new"

LEMMA EntryType ==
  /\ Absent \in Entry
  /\ \A c \in Conn : Fresh(c) \in Entry
  BY PoolAssumption DEF Absent, Fresh, Entry

LEMMA MarksType ==
  ASSUME NEW e \in Entry
  PROVE  /\ Marked(e, e) /\ Marked(e, Touched(e))
         /\ e.status = "connected" => Marked(e, Unhealthy(e))
<1>1. /\ MaxRetry \in Nat /\ MaxHealth \in Nat
      /\ \A n \in 0..MaxRetry : Up(n, MaxRetry) \in 0..MaxRetry
      /\ \A n \in 0..MaxHealth : Up(n, MaxHealth) \in 0..MaxHealth /\ Up(n, MaxHealth) <= n + 1
  BY PoolAssumption DEF Up
<1>2. Marked(e, e) /\ Marked(e, Touched(e))
  BY DEF Entry, Marked, Touched
<1>3. ASSUME e.status = "connected" PROVE Marked(e, Unhealthy(e))
  BY <1>1, <1>3 DEF Entry, Marked, Unhealthy
<1> QED BY <1>2, <1>3

LEMMA FailedType ==
  ASSUME NEW e \in Entry, NEW t \in BOOLEAN
  PROVE  Marked(e, Failed(e, t))
<1>1. MaxRetry \in Nat /\ \A n \in 0..MaxRetry : Up(n, MaxRetry) \in 0..MaxRetry
  BY PoolAssumption DEF Up
<1> QED BY <1>1 DEF Entry, Marked, Failed

LEMMA GetHealthyMarks ==
  ASSUME TypeOK, NEW g \in Game, GetHealthy(g), count' = count
  PROVE  Marks
<1>1. \A h \in Game : entry[h] \in Entry
  BY DEF TypeOK
<1>2. \/ entry' = [entry EXCEPT ![g] = Touched(@)]
      \/ entry[g].status = "connected" /\ entry' = [entry EXCEPT ![g] = Unhealthy(@)]
      \/ entry' = entry
  BY DEF GetHealthy, Connected
<1>4. \A h \in Game : Marked(entry[h], entry'[h])
  <2>1. CASE entry' = [entry EXCEPT ![g] = Touched(@)]
    <3>1. \A h \in Game : entry'[h] = IF h = g THEN Touched(entry[h]) ELSE entry[h]
      BY <2>1 DEF TypeOK
    <3> QED BY <1>1, <3>1, MarksType
  <2>2. CASE entry[g].status = "connected" /\ entry' = [entry EXCEPT ![g] = Unhealthy(@)]
    <3>1. \A h \in Game : entry'[h] = IF h = g THEN Unhealthy(entry[h]) ELSE entry[h]
      BY <2>2 DEF TypeOK
    <3> QED BY <1>1, <2>2, <3>1, MarksType
  <2>3. CASE entry' = entry
    BY <1>1, <2>3, MarksType
  <2> QED BY <1>2, <2>1, <2>2, <2>3
<1>5. entry' \in [Game -> Entry]
  BY <1>2, <1>4 DEF TypeOK, Marked
<1> QED BY <1>4, <1>5 DEF Marks

LEMMA MarkFailedMarks ==
  ASSUME TypeOK, NEW g \in Game, NEW told \in BOOLEAN, MarkFailed(g, told), count' = count
  PROVE  Marks
<1>1. \A h \in Game : entry[h] \in Entry
  BY DEF TypeOK
<1>2. entry' = [entry EXCEPT ![g] = Failed(@, told)] \/ entry' = entry
  BY DEF MarkFailed
<1>3. \A h \in Game : entry'[h] \in {entry[h], Failed(entry[h], told)}
  BY <1>2 DEF TypeOK
<1>4. \A h \in Game : Marked(entry[h], entry'[h])
  BY <1>1, <1>3, MarksType, FailedType
<1>5. entry' \in [Game -> Entry]
  BY <1>2, <1>4 DEF TypeOK, Marked
<1> QED BY <1>4, <1>5 DEF Marks

LEMMA SameMarks ==
  ASSUME TypeOK, UNCHANGED pool
  PROVE  Marks
<1>1. \A g \in Game : entry[g] \in Entry
  BY DEF TypeOK
<1> QED BY <1>1, MarksType DEF Marks, pool, TypeOK

-----------------------------------------------------------------------------
(***************************************************************************)
(* The parts of the invariant under each kind of step                      *)
(***************************************************************************)

LEMMA PresentFinite == IsFiniteSet(Present) /\ Cardinality(Present) \in Nat
  BY PoolAssumption, FS_Subset, FS_CardinalityType DEF Present

\* The entries, apart from the calls.
Pool == /\ CountExact /\ WithinCapacity /\ OneEntry /\ Opened /\ FailsOnce

LEMMA MarksKeepPool ==
  ASSUME TypeOK, Pool, Marks, UNCHANGED lock, Older
  PROVE  Pool'
<1>1. \A g \in Game : entry'[g].conn = entry[g].conn
  BY DEF Marks, Marked
<1>2. Present' = Present
  BY <1>1 DEF Present
<1>3. CountExact' /\ WithinCapacity'
  BY <1>2 DEF Pool, CountExact, WithinCapacity, Free, Marks, lock
<1>4. OneEntry' /\ Opened'
  BY <1>1, <1>2 DEF Pool, OneEntry, Opened, Older, Present, lock, TypeOK, Entry
<1>5. FailsOnce'
  <2> SUFFICES ASSUME NEW g \in Game
               PROVE  /\ entry'[g].hfails <= 1
                      /\ entry'[g].status = "connected" => entry'[g].hfails = 0
    BY DEF FailsOnce
  <2>1. entry[g] \in Entry /\ entry'[g] \in Entry /\ Marked(entry[g], entry'[g])
    BY DEF Marks, TypeOK
  <2>2. entry[g].hfails <= 1 /\ (entry[g].status = "connected" => entry[g].hfails = 0)
    BY DEF Pool, FailsOnce
  <2> QED BY <2>1, <2>2 DEF Marked, Entry
<1> QED BY <1>3, <1>4, <1>5 DEF Pool

LEMMA AddKeepsPool ==
  ASSUME TypeOK, Pool, Free, HasRoom, NEW g \in Game, NEW c \in Conn, Add(g, c),
         \A h \in Game : entry[h].conn # c, ws'[c] # "new", UNCHANGED lock, Older
  PROVE  Pool' /\ entry' \in [Game -> Entry] /\ count' \in Nat
<1>1. entry' = [entry EXCEPT ![g] = Fresh(c)] /\ entry' \in [Game -> Entry]
  BY EntryType DEF Add, TypeOK
<1>2. entry'[g] = Fresh(c) /\ entry'[g].conn = c /\ c # NoConn
      /\ entry'[g].hfails = 0 /\ \A h \in Game \ {g} : entry'[h] = entry[h]
  BY <1>1, PoolAssumption DEF Fresh, TypeOK
<1>3. Present' = Present \cup {g}
  BY <1>2 DEF Present
<1>4. count' = Cardinality(Present') /\ count' \in Nat
  <2>1. count = Cardinality(Present)
    BY PresentFinite DEF Pool, CountExact, Free
  <2>2. /\ IsFiniteSet(Present') /\ Cardinality(Present') \in Nat
        /\ Cardinality(Present') = IF g \in Present THEN Cardinality(Present)
                                                     ELSE Cardinality(Present) + 1
    BY <1>3, PresentFinite, FS_AddElement, FS_CardinalityType
  <2>3. count' = IF g \in Present THEN count ELSE count + 1
    BY DEF Add
  <2> QED BY <2>1, <2>2, <2>3
<1>5. count' <= MaxConnections
  <2>1. count = Cardinality(Present) /\ Cardinality(Present) < MaxConnections
    BY PresentFinite DEF Pool, CountExact, Free, HasRoom
  <2>2. count' = count \/ count' = count + 1
    BY DEF Add
  <2>3. MaxConnections \in Nat
    BY PoolAssumption
  <2> QED BY <2>1, <2>2, <2>3, PresentFinite
<1>6. closing = NoConn /\ closing' = NoConn /\ Free'
  BY DEF TypeOK, Free, lock, Nobody
<1>7. CountExact' /\ WithinCapacity'
  BY <1>4, <1>5, <1>6 DEF CountExact, WithinCapacity
<1>8. OneEntry' /\ Opened'
  BY <1>2, <1>3, <1>6 DEF Pool, OneEntry, Opened, Older, Present, TypeOK, Entry
<1>9. FailsOnce'
  BY <1>2 DEF Pool, FailsOnce
<1> QED BY <1>1, <1>4, <1>7, <1>8, <1>9 DEF Pool

LEMMA StartsCloseKeepsPool ==
  ASSUME TypeOK, Pool, Free, NEW g \in Game, NEW a \in Call \cup {Cleaner, Ender},
         a # Nobody, StartsClose(a, g), Older
  PROVE  /\ Pool' /\ entry' \in [Game -> Entry]
         /\ closing' \in Conn /\ closing' = entry[g].conn
         /\ \A h \in Game : entry'[h].conn \in {entry[h].conn, NoConn}
<1>1. entry' = [entry EXCEPT ![g] = Absent] /\ entry' \in [Game -> Entry]
  BY EntryType DEF StartsClose, TypeOK
<1>2. entry'[g] = Absent /\ entry'[g].conn = NoConn
      /\ entry'[g].hfails = 0 /\ entry'[g].status = "failed"
      /\ \A h \in Game \ {g} : entry'[h] = entry[h]
  BY <1>1 DEF Absent, TypeOK
<1>3. g \in Present /\ entry[g].conn # NoConn /\ entry[g].conn \in Conn
  BY DEF StartsClose, Present, TypeOK, Entry
<1>4. Present' = Present \ {g}
  BY <1>2 DEF Present
<1>5. closing' = entry[g].conn /\ closer' = a /\ count' = count /\ ~Free'
  BY DEF StartsClose, Free, Nobody
<1>6. Cardinality(Present') = Cardinality(Present) - 1
  BY <1>3, <1>4, PresentFinite, FS_RemoveElement
<1>7. CountExact' /\ WithinCapacity'
  BY <1>5, <1>6, PresentFinite DEF Pool, CountExact, WithinCapacity, Free
<1>8. OneEntry'
  BY <1>2, <1>3, <1>5 DEF Pool, OneEntry, Present
<1>9. Opened'
  BY <1>2, <1>3, <1>4, <1>5 DEF Pool, Opened, Older, Present, TypeOK, Entry
<1>10. FailsOnce'
  BY <1>2 DEF Pool, FailsOnce
<1> QED BY <1>1, <1>2, <1>3, <1>5, <1>7, <1>8, <1>9, <1>10 DEF Pool

LEMMA RemovesKeepsPool ==
  ASSUME TypeOK, Pool, Free, NEW g \in Game, RemovesAtOnce(g), Older
  PROVE  /\ Pool' /\ entry' \in [Game -> Entry] /\ count' \in Nat
         /\ \A h \in Game : entry'[h].conn \in {entry[h].conn, NoConn}
<1>1. entry' = [entry EXCEPT ![g] = Absent] /\ entry' \in [Game -> Entry]
  BY EntryType DEF RemovesAtOnce, TypeOK
<1>2. entry'[g] = Absent /\ entry'[g].conn = NoConn
      /\ entry'[g].hfails = 0 /\ entry'[g].status = "failed"
      /\ \A h \in Game \ {g} : entry'[h] = entry[h]
  BY <1>1 DEF Absent, TypeOK
<1>3. Present' = Present \ {g}
  BY <1>2 DEF Present
<1>4. closing' = closing /\ closing = NoConn /\ Free'
  BY DEF RemovesAtOnce, lock, Free, TypeOK, Nobody
<1>5. count = Cardinality(Present) /\ count \in Nat
  BY PresentFinite DEF Pool, CountExact, Free
<1>6. count' = Cardinality(Present') /\ count' \in Nat /\ count' <= count
  <2>1. Cardinality(Present') = IF g \in Present THEN Cardinality(Present) - 1
                                                 ELSE Cardinality(Present)
    BY <1>3, PresentFinite, FS_RemoveElement
  <2>2. IsFiniteSet(Present') /\ Cardinality(Present') \in Nat
    BY <1>3, PresentFinite, FS_RemoveElement, FS_CardinalityType
  <2>3. count' = IF g \in Present /\ count > 0 THEN count - 1 ELSE count
    BY DEF RemovesAtOnce
  <2> QED BY <1>5, <2>1, <2>2, <2>3
<1>7. CountExact' /\ WithinCapacity'
  BY <1>4, <1>5, <1>6, PoolAssumption DEF Pool, CountExact, WithinCapacity
<1>8. OneEntry' /\ Opened'
  BY <1>2, <1>3, <1>4 DEF Pool, OneEntry, Opened, Older, Present, TypeOK, Entry
<1>9. FailsOnce'
  BY <1>2 DEF Pool, FailsOnce
<1> QED BY <1>1, <1>2, <1>6, <1>7, <1>8, <1>9 DEF Pool

Held == HeldApart /\ HeldOnce

\* What is held stays apart while no call opens a connection and none is added.
LEMMA HeldKept ==
  ASSUME TypeOK, Held, Older,
         \A g \in Game : entry'[g].conn \in {entry[g].conn, NoConn},
         closing' \in {closing, NoConn} \/ \E g \in Game : closing' = entry[g].conn,
         \A k \in Call : pc'[k] = "adding" => pc[k] = "adding" /\ mine'[k] = mine[k]
  PROVE  Held'
<1>1. \A k \in Call : pc[k] = "adding" => mine[k] # NoConn /\ mine[k] \in Conn
  BY DEF TypeOK, Held, HeldApart, Conn
<1>2. HeldApart'
  BY <1>1 DEF Held, HeldApart, Older
<1>3. HeldOnce'
  BY DEF Held, HeldOnce
<1> QED BY <1>2, <1>3 DEF Held

-----------------------------------------------------------------------------
(***************************************************************************)
(* The initial state and the steps                                         *)
(***************************************************************************)

LEMMA InitInv == Init => IInv
<1> SUFFICES ASSUME Init PROVE IInv
  OBVIOUS
<1>1. TypeOK
  <2>1. 1 \in 1..MaxAttempts
    BY PoolAssumption
  <2> QED BY <2>1, EntryType DEF Init, TypeOK
<1>2. Present = {}
  BY DEF Init, Present, Absent
<1>3. CountExact /\ WithinCapacity
  BY <1>2, FS_EmptySet, PoolAssumption DEF Init, CountExact, WithinCapacity, Free
<1>4. OneEntry /\ Opened
  BY <1>2 DEF Init, OneEntry, Opened
<1>5. HeldApart /\ HeldOnce
  BY DEF Init, HeldApart, HeldOnce
<1>6. FailsOnce
  BY DEF Init, FailsOnce, Absent
<1> QED BY <1>1, <1>3, <1>4, <1>5, <1>6 DEF IInv

LEMMA SameOlder ==
  ASSUME TypeOK, UNCHANGED ws
  PROVE  Older
  BY DEF TypeOK, Older

\* Of a step that marks entries it remains to show where the calls go.
LEMMA MarkingStep ==
  ASSUME IInv, Marks, UNCHANGED lock, Older,
         pc' \in [Call -> {"start", "ensure", "lookup", "opening", "marking", "adding", "init",
                           "retrieve", "sending", "sendfailed", "exhausted", "removing",
                           "sent", "refused"}],
         attempt' \in [Call -> 1..MaxAttempts],
         mine' \in [Call -> Conn \cup {NoConn}],
         \A k \in Call : pc'[k] \in {"adding", "sending"} => mine'[k] # NoConn,
         \A k \in Call : pc'[k] = "adding" => pc[k] = "adding" /\ mine'[k] = mine[k],
         snap' \in [Game -> Conn \cup {NoConn}],
         todo' \subseteq Game, bad' \subseteq Game, doomed' \subseteq Game
  PROVE  IInv'
<1>1. TypeOK'
  BY DEF IInv, TypeOK, Marks, Older, lock, Nobody
<1>2. Pool'
  BY MarksKeepPool DEF IInv, Pool
<1>3. Held'
  <2>1. \A g \in Game : entry'[g].conn \in {entry[g].conn, NoConn}
    BY DEF Marks, Marked
  <2>2. closing' \in {closing, NoConn}
    BY DEF lock
  <2> QED BY <2>1, <2>2, HeldKept DEF IInv, Held
<1> QED BY <1>1, <1>2, <1>3 DEF IInv, Pool, Held

\* A call takes a step that opens nothing and adds nothing.
LEMMA MarkingCall ==
  ASSUME IInv, NEW k \in Call, UNCHANGED <<count, ws, lock, health, doomed>>,
         Marks,
         NEW to \in {"ensure", "lookup", "opening", "marking", "init",
                     "retrieve", "sendfailed", "exhausted", "removing",
                     "sent", "refused"},
         pc' = [pc EXCEPT ![k] = to],
         attempt' \in [Call -> 1..MaxAttempts],
         mine' \in {mine, [mine EXCEPT ![k] = NoConn]}
  PROVE  IInv'
<1>1. Older
  BY SameOlder DEF IInv
<1>2. \A j \in Call : pc'[j] = IF j = k THEN to ELSE pc[j]
  BY DEF IInv, TypeOK
<1>3. \A j \in Call : j # k => mine'[j] = mine[j]
  BY DEF IInv, TypeOK
<1>4. /\ \A j \in Call : pc'[j] \in {"adding", "sending"} => mine'[j] # NoConn
      /\ \A j \in Call : pc'[j] = "adding" => pc[j] = "adding" /\ mine'[j] = mine[j]
  BY <1>2, <1>3 DEF IInv, TypeOK
<1>5. mine' \in [Call -> Conn \cup {NoConn}]
  BY DEF IInv, TypeOK
<1>6. pc' \in [Call -> {"start", "ensure", "lookup", "opening", "marking", "adding", "init",
                        "retrieve", "sending", "sendfailed", "exhausted", "removing",
                        "sent", "refused"}]
  BY DEF IInv, TypeOK
<1> QED BY <1>1, <1>4, <1>5, <1>6, MarkingStep DEF IInv, TypeOK, health

\* A call that is given the connection of its game's entry.
LEMMA ServedCall ==
  ASSUME IInv, NEW k \in Call, Usable(GameOf[k]), Marks,
         pc' = [pc EXCEPT ![k] = "sending"],
         mine' = [mine EXCEPT ![k] = entry[GameOf[k]].conn],
         UNCHANGED <<ws, lock, attempt, health, doomed>>
  PROVE  IInv'
<1>1. Older
  BY SameOlder DEF IInv
<1>2. entry[GameOf[k]].conn \in Conn /\ entry[GameOf[k]].conn # NoConn
  BY PoolAssumption DEF IInv, TypeOK, Usable, Connected, Entry
<1>3. \A j \in Call : /\ pc'[j] = IF j = k THEN "sending" ELSE pc[j]
                      /\ mine'[j] = IF j = k THEN entry[GameOf[k]].conn ELSE mine[j]
  BY DEF IInv, TypeOK
<1>4. /\ \A j \in Call : pc'[j] \in {"adding", "sending"} => mine'[j] # NoConn
      /\ \A j \in Call : pc'[j] = "adding" => pc[j] = "adding" /\ mine'[j] = mine[j]
  BY <1>2, <1>3 DEF IInv, TypeOK
<1>5. mine' \in [Call -> Conn \cup {NoConn}]
  BY <1>2 DEF IInv, TypeOK
<1>6. pc' \in [Call -> {"start", "ensure", "lookup", "opening", "marking", "adding", "init",
                        "retrieve", "sending", "sendfailed", "exhausted", "removing",
                        "sent", "refused"}]
  BY DEF IInv, TypeOK
<1> QED BY <1>1, <1>4, <1>5, <1>6, MarkingStep DEF IInv, TypeOK, health

LEMMA NextAttemptMoves ==
  ASSUME TypeOK, NEW k \in Call, NEW from, NextAttempt(k, from)
  PROVE  /\ pc[k] = from /\ attempt' \in [Call -> 1..MaxAttempts]
         /\ \E to \in {"lookup", "exhausted"} : pc' = [pc EXCEPT ![k] = to]
<1>1. MaxAttempts \in Nat /\ \A j \in Call : attempt[j] \in 1..MaxAttempts
  BY PoolAssumption DEF TypeOK
<1>2. CASE attempt[k] < MaxAttempts /\ Goes(k, from, "lookup") /\ attempt' = [attempt EXCEPT ![k] = @ + 1]
  <2>1. attempt[k] + 1 \in 1..MaxAttempts
    BY <1>1, <1>2
  <2> QED BY <1>2, <2>1 DEF Goes, TypeOK
<1>3. CASE Goes(k, from, "exhausted") /\ attempt' = attempt
  BY <1>3 DEF Goes, TypeOK
<1> QED BY <1>2, <1>3 DEF NextAttempt

\* A connection is added to the entries: by its call, or by an agent.
LEMMA OwnAdded ==
  ASSUME IInv, NEW k \in Call, AddOwn(k), HasRoom, Add(GameOf[k], mine[k]),
         Goes(k, "adding", "init"), UNCHANGED <<ws, attempt, mine>>
  PROVE  IInv'
<1> DEFINE g == GameOf[k]
           c == mine[k]
<1>1. Free /\ UNCHANGED <<lock, health, doomed>> /\ pc[k] = "adding"
      /\ pc' = [pc EXCEPT ![k] = "init"]
  BY DEF AddOwn, Goes
<1>2. /\ c \in OwnConn /\ c \in Conn /\ c # NoConn /\ ws[c] # "new" /\ g \in Game
      /\ \A h \in Game : entry[h].conn # c
  BY <1>1, PoolAssumption DEF IInv, HeldApart, Conn
<1>3. Older
  BY SameOlder DEF IInv
<1>4. Pool' /\ entry' \in [Game -> Entry] /\ count' \in Nat
  BY <1>1, <1>2, <1>3, AddKeepsPool DEF IInv, Pool
<1>5. \A j \in Call : pc'[j] = IF j = k THEN "init" ELSE pc[j]
  BY <1>1 DEF IInv, TypeOK
<1>6. TypeOK'
  <2>1. pc' \in [Call -> {"start", "ensure", "lookup", "opening", "marking", "adding", "init",
                          "retrieve", "sending", "sendfailed", "exhausted", "removing",
                          "sent", "refused"}]
    BY <1>1 DEF IInv, TypeOK
  <2>2. \A j \in Call : pc'[j] \in {"adding", "sending"} => mine'[j] # NoConn
    BY <1>5 DEF IInv, TypeOK
  <2> QED BY <1>1, <1>4, <2>1, <2>2 DEF IInv, TypeOK, lock, health, Nobody
<1>7. Held'
  <2>1. \A h \in Game : entry'[h].conn = IF h = g THEN c ELSE entry[h].conn
    BY DEF Add, Fresh, IInv, TypeOK
  <2>2. \A j \in Call : pc'[j] = "adding" => pc[j] = "adding" /\ j # k /\ mine[j] # c
    BY <1>1, <1>5 DEF IInv, HeldOnce
  <2>3. HeldApart'
    BY <1>1, <2>1, <2>2 DEF IInv, HeldApart, lock
  <2>4. HeldOnce'
    BY <2>2 DEF IInv, HeldOnce
  <2> QED BY <2>3, <2>4 DEF Held
<1> QED BY <1>4, <1>6, <1>7 DEF IInv, Pool, Held

LEMMA AgentAdded ==
  ASSUME IInv, NEW c \in AgentConn, AgentRegisters(c)
  PROVE  IInv'
<1>1. /\ Free /\ ws[c] = "new" /\ c \in Conn /\ c # NoConn /\ GameOf[c] \in Game
      /\ ws' = [ws EXCEPT ![c] = "open"] /\ UNCHANGED <<lock, call, health, doomed>>
  BY PoolAssumption DEF AgentRegisters, Conn
<1>2. Older /\ ws'[c] # "new"
  BY <1>1 DEF IInv, TypeOK, Older
<1>3. CASE UNCHANGED pool
  <2>1. Marks
    BY <1>3, SameMarks DEF IInv
  <2> QED BY <1>1, <1>2, <2>1, MarkingStep DEF IInv, TypeOK, call, health
<1>4. CASE HasRoom /\ Add(GameOf[c], c)
  <2>1. \A h \in Game : entry[h].conn # c
    BY <1>1 DEF IInv, Opened, Present
  <2>2. Pool' /\ entry' \in [Game -> Entry] /\ count' \in Nat
    BY <1>1, <1>2, <1>4, <2>1, AddKeepsPool DEF IInv, Pool
  <2>3. TypeOK'
    BY <1>1, <1>2, <2>2 DEF IInv, TypeOK, Older, lock, call, health, Nobody
  <2>4. \A h \in Game : entry'[h].conn = IF h = GameOf[c] THEN c ELSE entry[h].conn
    BY <1>4 DEF Add, Fresh, IInv, TypeOK
  <2>5. HeldApart'
    BY <1>1, <1>2, <2>4, PoolAssumption DEF IInv, HeldApart, Older, lock, call, Conn
  <2>6. HeldOnce'
    BY <1>1 DEF IInv, HeldOnce, call
  <2> QED BY <2>2, <2>3, <2>5, <2>6 DEF IInv, Pool
<1> QED BY <1>3, <1>4 DEF AgentRegisters

\* An entry is removed, by a call, by the cleanup loop or by the end of its game.
LEMMA RemovingStep ==
  ASSUME IInv, NEW g \in Game, NEW a \in Call \cup {Cleaner, Ender}, Free,
         StartsClose(a, g) \/ RemovesAtOnce(g),
         NEW k, pc' \in {pc, [pc EXCEPT ![k] = "refused"]},
         UNCHANGED <<ws, attempt, mine, health>>, doomed' \subseteq Game
  PROVE  IInv'
<1>1. Older
  BY SameOlder DEF IInv
<1>2. a # Nobody
  BY PoolAssumption DEF Nobody
<1>3. /\ Pool' /\ entry' \in [Game -> Entry] /\ count' \in Nat
      /\ \A h \in Game : entry'[h].conn \in {entry[h].conn, NoConn}
      /\ closing' \in {closing, NoConn} \/ \E h \in Game : closing' = entry[h].conn
      /\ closer' \in Call \cup {Cleaner, Ender, Nobody} /\ closing' \in Conn \cup {NoConn}
      /\ closer' = Nobody <=> closing' = NoConn
  <2>1. CASE StartsClose(a, g)
    <3>1. closer' = a /\ count' = count
      BY <2>1 DEF StartsClose
    <3>2. /\ Pool' /\ entry' \in [Game -> Entry]
          /\ closing' \in Conn /\ closing' = entry[g].conn
          /\ \A h \in Game : entry'[h].conn \in {entry[h].conn, NoConn}
      BY <1>1, <1>2, <2>1, StartsCloseKeepsPool DEF IInv, Pool
    <3> QED BY <1>2, <3>1, <3>2, PoolAssumption DEF IInv, TypeOK
  <2>2. CASE RemovesAtOnce(g)
    <3>1. /\ Pool' /\ entry' \in [Game -> Entry] /\ count' \in Nat
          /\ \A h \in Game : entry'[h].conn \in {entry[h].conn, NoConn}
      BY <1>1, <2>2, RemovesKeepsPool DEF IInv, Pool
    <3>2. closer' = closer /\ closing' = closing
      BY <2>2 DEF RemovesAtOnce, lock
    <3> QED BY <3>1, <3>2 DEF IInv, TypeOK
  <2> QED BY <2>1, <2>2
<1>4. \A j \in Call : pc'[j] \in {pc[j], "refused"}
  BY DEF IInv, TypeOK
<1>5. pc' \in [Call -> {"start", "ensure", "lookup", "opening", "marking", "adding", "init",
                        "retrieve", "sending", "sendfailed", "exhausted", "removing",
                        "sent", "refused"}]
  BY DEF IInv, TypeOK
<1>6. TypeOK'
  <2>1. \A j \in Call : pc'[j] \in {"adding", "sending"} => mine'[j] # NoConn
    BY <1>4 DEF IInv, TypeOK
  <2> QED BY <1>3, <1>5, <2>1 DEF IInv, TypeOK, health, Nobody
<1>7. \A j \in Call : pc'[j] = "adding" => pc[j] = "adding" /\ mine'[j] = mine[j]
  BY <1>4
<1>8. Held'
  BY <1>1, <1>3, <1>7, HeldKept DEF IInv, Held
<1> QED BY <1>3, <1>6, <1>8 DEF IInv, Pool, Held

-----------------------------------------------------------------------------
(***************************************************************************)
(* One case per action                                                     *)
(***************************************************************************)

LEMMA OpensInv ==
  ASSUME IInv, NEW k \in Call, Opens(k)
  PROVE  IInv'
<1>1. /\ pc[k] = "opening" /\ pc' = [pc EXCEPT ![k] = "adding"]
      /\ UNCHANGED <<pool, lock, attempt, health, doomed>>
  BY DEF Opens, Goes
<1>2. PICK c \in OwnConn : /\ ws[c] = "new" /\ ws' = [ws EXCEPT ![c] = "open"]
                           /\ mine' = [mine EXCEPT ![k] = c]
  BY DEF Opens
<1>3. c \in Conn /\ c # NoConn
  BY PoolAssumption DEF Conn
<1>4. Older /\ ws'[c] # "new"
  BY <1>2, <1>3 DEF IInv, TypeOK, Older
<1>5. \A j \in Call : /\ pc'[j] = IF j = k THEN "adding" ELSE pc[j]
                      /\ mine'[j] = IF j = k THEN c ELSE mine[j]
  BY <1>1, <1>2 DEF IInv, TypeOK
<1>6. TypeOK'
  <2>1. pc' \in [Call -> {"start", "ensure", "lookup", "opening", "marking", "adding", "init",
                          "retrieve", "sending", "sendfailed", "exhausted", "removing",
                          "sent", "refused"}]
    BY <1>1 DEF IInv, TypeOK
  <2>2. mine' \in [Call -> Conn \cup {NoConn}]
    BY <1>2, <1>3 DEF IInv, TypeOK
  <2>3. \A j \in Call : pc'[j] \in {"adding", "sending"} => mine'[j] # NoConn
    BY <1>3, <1>5 DEF IInv, TypeOK
  <2> QED BY <1>1, <1>4, <2>1, <2>2, <2>3 DEF IInv, TypeOK, Older, pool, lock, health, Nobody
<1>7. Pool'
  <2>1. Marks
    BY <1>1, SameMarks DEF IInv
  <2> QED BY <1>1, <1>4, <2>1, MarksKeepPool DEF IInv, Pool
<1>8. /\ c # closing /\ \A g \in Game : entry[g].conn # c
      /\ \A j \in Call : pc[j] = "adding" => mine[j] # c
  BY <1>2, <1>3 DEF IInv, Opened, Present, HeldApart
<1>9. HeldApart'
  <2>1. \A j \in Call : pc'[j] = "adding" =>
            mine'[j] \in OwnConn /\ ws'[mine'[j]] # "new" /\ mine'[j] # closing
    BY <1>4, <1>5, <1>8 DEF IInv, HeldApart, Older, Conn
  <2>2. \A j \in Call : pc'[j] = "adding" => \A g \in Game : entry[g].conn # mine'[j]
    BY <1>5, <1>8 DEF IInv, HeldApart
  <2> QED BY <1>1, <2>1, <2>2 DEF HeldApart, pool, lock
<1>10. HeldOnce'
  BY <1>5, <1>8 DEF IInv, HeldOnce
<1> QED BY <1>6, <1>7, <1>9, <1>10 DEF IInv, Pool

\* No room: the new connection is closed and forgotten.
LEMMA OwnRefused ==
  ASSUME IInv, NEW k \in Call, AddOwn(k), ~HasRoom
  PROVE  IInv'
<1>1. /\ ws' = [ws EXCEPT ![mine[k]] = "closed"] /\ mine' = [mine EXCEPT ![k] = NoConn]
      /\ NextAttempt(k, "adding") /\ UNCHANGED <<pool, lock, health, doomed>>
  BY DEF AddOwn
<1>2. PICK to \in {"lookup", "exhausted"} : pc' = [pc EXCEPT ![k] = to]
  BY <1>1, NextAttemptMoves DEF IInv
<1>3. attempt' \in [Call -> 1..MaxAttempts]
  BY <1>1, NextAttemptMoves DEF IInv
<1>4. \A j \in Call : /\ pc'[j] = IF j = k THEN to ELSE pc[j]
                      /\ mine'[j] = IF j = k THEN NoConn ELSE mine[j]
  BY <1>1, <1>2 DEF IInv, TypeOK
<1>5. Older
  BY <1>1 DEF IInv, TypeOK, Older
<1>6. Marks
  BY <1>1, SameMarks DEF IInv
<1>7. /\ \A j \in Call : pc'[j] \in {"adding", "sending"} => mine'[j] # NoConn
      /\ \A j \in Call : pc'[j] = "adding" => pc[j] = "adding" /\ mine'[j] = mine[j]
  BY <1>4 DEF IInv, TypeOK
<1>8. mine' \in [Call -> Conn \cup {NoConn}]
  BY <1>1 DEF IInv, TypeOK
<1>9. pc' \in [Call -> {"start", "ensure", "lookup", "opening", "marking", "adding", "init",
                        "retrieve", "sending", "sendfailed", "exhausted", "removing",
                        "sent", "refused"}]
  BY <1>2 DEF IInv, TypeOK
<1> QED BY <1>1, <1>3, <1>5, <1>6, <1>7, <1>8, <1>9, MarkingStep DEF IInv, TypeOK, health

\* Each step of a call.
LEMMA CallInv ==
  ASSUME IInv, NEW k \in Call, CallStep(k)
  PROVE  IInv'
<1> DEFINE g == GameOf[k]
<1>1. TypeOK /\ g \in Game
  BY PoolAssumption DEF IInv
<1>2. attempt \in [Call -> 1..MaxAttempts]
  BY <1>1 DEF TypeOK
<1>3. CASE Start(k) \/ Retrieve(k)
  <2>1. GetHealthy(g) /\ UNCHANGED <<count, ws, lock, attempt, health, doomed>>
    BY <1>3 DEF Start, Retrieve
  <2>2. Marks
    BY <1>1, <2>1, GetHealthyMarks
  <2>3. CASE Usable(g) /\ pc' = [pc EXCEPT ![k] = "sending"]
             /\ mine' = [mine EXCEPT ![k] = entry[g].conn]
    BY <2>1, <2>2, <2>3, ServedCall
  <2>4. CASE /\ pc' = [pc EXCEPT ![k] = "ensure"] \/ pc' = [pc EXCEPT ![k] = "refused"]
             /\ mine' \in {mine, [mine EXCEPT ![k] = NoConn]}
    BY <1>2, <2>1, <2>2, <2>4, MarkingCall
  <2> QED BY <1>3, <2>3, <2>4 DEF Start, Retrieve, Goes
<1>4. CASE Ensure(k) \/ OpenFails(k) \/ Initialised(k)
  <2>1. /\ UNCHANGED <<pool, ws, lock, attempt, mine, health, doomed>>
        /\ \/ pc' = [pc EXCEPT ![k] = "refused"] \/ pc' = [pc EXCEPT ![k] = "lookup"]
           \/ pc' = [pc EXCEPT ![k] = "marking"] \/ pc' = [pc EXCEPT ![k] = "retrieve"]
    BY <1>4 DEF Ensure, OpenFails, Initialised, Goes
  <2>2. Marks /\ count' = count
    BY <1>1, <2>1, SameMarks DEF pool
  <2> QED BY <1>2, <2>1, <2>2, MarkingCall
<1>5. CASE LookUp(k)
  <2>1. /\ UNCHANGED <<count, ws, lock, attempt, mine, health, doomed>>
        /\ \/ Connected(g) /\ entry' = [entry EXCEPT ![g] = Touched(@)]
              /\ pc' = [pc EXCEPT ![k] = "retrieve"]
           \/ entry' = entry /\ pc' = [pc EXCEPT ![k] = "opening"]
    BY <1>5 DEF LookUp, Goes
  <2>2. Marks
    <3>1. CASE entry' = entry
      BY <1>1, <2>1, <3>1, SameMarks DEF pool
    <3>2. CASE entry' = [entry EXCEPT ![g] = Touched(@)]
      <4>1. \A h \in Game : entry[h] \in Entry /\ Marked(entry[h], entry[h])
                            /\ Marked(entry[h], Touched(entry[h]))
        BY <1>1, MarksType DEF TypeOK
      <4>2. \A h \in Game : entry'[h] = IF h = g THEN Touched(entry[h]) ELSE entry[h]
        BY <1>1, <3>2 DEF TypeOK
      <4>3. entry' \in [Game -> Entry]
        BY <1>1, <3>2, <4>1 DEF TypeOK, Marked
      <4> QED BY <2>1, <4>1, <4>2, <4>3 DEF Marks
    <3> QED BY <2>1, <3>1, <3>2
  <2> QED BY <1>2, <2>1, <2>2, MarkingCall
<1>6. CASE Opens(k)
  BY <1>6, OpensInv
<1>7. CASE MarkAttempt(k)
  <2>1. (\E told \in BOOLEAN : MarkFailed(g, told)) /\ NextAttempt(k, "marking")
        /\ UNCHANGED <<count, ws, lock, mine, health, doomed>>
    BY <1>7 DEF MarkAttempt
  <2>2. Marks
    BY <1>1, <2>1, MarkFailedMarks
  <2>3. /\ attempt' \in [Call -> 1..MaxAttempts]
        /\ \E to \in {"lookup", "exhausted"} : pc' = [pc EXCEPT ![k] = to]
    BY <1>1, <2>1, NextAttemptMoves
  <2> QED BY <2>1, <2>2, <2>3, MarkingCall
<1>8. CASE AddOwn(k)
  BY <1>8, OwnAdded, OwnRefused DEF AddOwn
<1>9. CASE Send(k)
  <2>1. /\ mine' = [mine EXCEPT ![k] = NoConn]
        /\ UNCHANGED <<pool, ws, lock, attempt, health, doomed>>
        /\ pc' = [pc EXCEPT ![k] = "sent"] \/ pc' = [pc EXCEPT ![k] = "sendfailed"]
    BY <1>9 DEF Send, Goes
  <2>2. Marks /\ count' = count
    BY <1>1, <2>1, SameMarks DEF pool
  <2> QED BY <1>2, <2>1, <2>2, MarkingCall
<1>10. CASE MarkSend(k) \/ MarkExhausted(k)
  <2>1. /\ MarkFailed(g, TRUE)
        /\ UNCHANGED <<count, ws, lock, attempt, mine, health, doomed>>
        /\ pc' = [pc EXCEPT ![k] = "refused"] \/ pc' = [pc EXCEPT ![k] = "removing"]
    BY <1>10 DEF MarkSend, MarkExhausted, Goes
  <2>2. Marks
    BY <1>1, <2>1, MarkFailedMarks
  <2> QED BY <1>2, <2>1, <2>2, MarkingCall
<1>11. CASE RemoveExhausted(k)
  <2>1. /\ Free /\ (StartsClose(k, g) \/ RemovesAtOnce(g))
        /\ pc' \in {pc, [pc EXCEPT ![k] = "refused"]}
        /\ UNCHANGED <<ws, attempt, mine, health, doomed>>
    BY <1>11 DEF RemoveExhausted, Goes
  <2>2. doomed' \subseteq Game
    BY <1>1, <2>1 DEF TypeOK
  <2> QED BY <1>1, <2>1, <2>2, RemovingStep
<1> QED BY <1>3, <1>4, <1>5, <1>6, <1>7, <1>8, <1>9, <1>10, <1>11 DEF CallStep

\* A close returns: the slot of the entry that is gone is given back.
LEMMA ClosesInv ==
  ASSUME IInv, Closes
  PROVE  IInv'
<1>1. /\ closer # Nobody /\ closing # NoConn /\ closing \in Conn
      /\ ws' = [ws EXCEPT ![closing] = "closed"] /\ closer' = Nobody /\ closing' = NoConn
      /\ UNCHANGED <<entry, attempt, mine, health, doomed>>
  BY DEF IInv, TypeOK, Closes, Free
<1>2. Older
  BY <1>1 DEF IInv, TypeOK, Older
<1>3. Present' = Present
  BY <1>1 DEF Present
<1>4. count = Cardinality(Present) + 1 /\ count' = Cardinality(Present) /\ count' \in Nat
  BY <1>1, PresentFinite DEF IInv, CountExact, Closes, Free
<1>5. CountExact' /\ WithinCapacity'
  BY <1>1, <1>3, <1>4, PresentFinite, PoolAssumption DEF IInv, CountExact, WithinCapacity, Free
<1>6. OneEntry' /\ Opened' /\ FailsOnce'
  BY <1>1, <1>2, <1>3
     DEF IInv, OneEntry, Opened, FailsOnce, Older, Present, TypeOK, Entry
<1>7. \A j \in Call : pc'[j] \in {pc[j], "refused"}
  BY DEF IInv, TypeOK, Closes
<1>8. pc' \in [Call -> {"start", "ensure", "lookup", "opening", "marking", "adding", "init",
                        "retrieve", "sending", "sendfailed", "exhausted", "removing",
                        "sent", "refused"}]
  BY DEF IInv, TypeOK, Closes
<1>9. TypeOK'
  <2>1. \A j \in Call : pc'[j] \in {"adding", "sending"} => mine'[j] # NoConn
    BY <1>1, <1>7 DEF IInv, TypeOK
  <2> QED BY <1>1, <1>2, <1>4, <1>8, <2>1 DEF IInv, TypeOK, Older, health
<1>10. Held'
  <2>1. \A j \in Call : pc'[j] = "adding" => pc[j] = "adding" /\ mine'[j] = mine[j]
    BY <1>1, <1>7
  <2> QED BY <1>1, <1>2, <2>1, HeldKept DEF IInv, Held
<1> QED BY <1>5, <1>6, <1>9, <1>10 DEF IInv, Held

\* The loops, the clock and the WebSockets.
LEMMA OtherInv ==
  ASSUME IInv,
         \/ \E c \in Conn : Drops(c)
         \/ \E g \in Game : EndGame(g) \/ Ages(g)
         \/ HealthStep \/ CleanupStep \/ UNCHANGED vars
  PROVE  IInv'
<1>1. TypeOK /\ \A h \in Game : entry[h] \in Entry
  BY DEF IInv, TypeOK
<1>2. CASE \E c \in Conn : Drops(c)
  <2>1. PICK c \in Conn : ws' = [ws EXCEPT ![c] = "closed"]
                          /\ UNCHANGED <<pool, lock, call, health, doomed>>
    BY <1>2 DEF Drops
  <2>2. Older
    BY <1>1, <2>1 DEF TypeOK, Older
  <2>3. Marks
    BY <1>1, <2>1, SameMarks
  <2> QED BY <1>1, <2>1, <2>2, <2>3, MarkingStep DEF TypeOK, call, health
<1>3. CASE \E g \in Game : EndGame(g)
  <2>1. PICK g \in Game : EndGame(g)
    BY <1>3
  <2>2. Free /\ (StartsClose(Ender, g) \/ RemovesAtOnce(g)) /\ UNCHANGED <<ws, call, health, doomed>>
    BY <2>1 DEF EndGame
  <2>3. pc' = pc /\ attempt' = attempt /\ mine' = mine /\ doomed' \subseteq Game
    BY <1>1, <2>2 DEF call, TypeOK
  <2> QED BY <2>2, <2>3, RemovingStep
<1>4. CASE \E g \in Game : Ages(g)
  <2>1. PICK g \in Game : /\ entry[g].used # "hour"
                          /\ entry' = [entry EXCEPT ![g].used = IF @ = "recent" THEN "minute" ELSE "hour"]
                          /\ UNCHANGED <<count, ws, lock, call, health, doomed>>
    BY <1>4 DEF Ages
  <2>2. Marks
    <3>1. \A h \in Game : \/ entry'[h] = entry[h]
                          \/ entry'[h] = [entry[h] EXCEPT !.used = "minute"]
                          \/ entry'[h] = [entry[h] EXCEPT !.used = "hour"]
      BY <1>1, <2>1 DEF TypeOK
    <3>2. \A e \in Entry : \A t \in {"minute", "hour"} : Marked(e, [e EXCEPT !.used = t])
      BY DEF Marked, Entry
    <3>3. \A h \in Game : Marked(entry[h], entry'[h])
      BY <1>1, <3>1, <3>2, MarksType
    <3>4. entry' \in [Game -> Entry]
      BY <1>1, <2>1, <3>3 DEF Marked, TypeOK
    <3> QED BY <2>1, <3>3, <3>4 DEF Marks
  <2>3. Older
    BY <1>1, <2>1, SameOlder
  <2> QED BY <1>1, <2>1, <2>2, <2>3, MarkingStep DEF TypeOK, call, health
<1>5. CASE HealthBegins \/ \E g \in Game : HealthPing(g)
  <2>1. UNCHANGED <<pool, ws, lock, call, doomed>>
    BY <1>5 DEF HealthBegins, HealthPing
  <2>2. snap' \in [Game -> Conn \cup {NoConn}] /\ todo' \subseteq Game /\ bad' \subseteq Game
    BY <1>1, <1>5 DEF HealthBegins, HealthPing, TypeOK, Entry
  <2>3. Marks /\ Older
    BY <1>1, <2>1, SameMarks, SameOlder
  <2> QED BY <1>1, <2>1, <2>2, <2>3, MarkingStep DEF TypeOK, call
<1>6. CASE HealthMarks
  <2>1. /\ UNCHANGED <<count, ws, lock, call, todo, doomed>> /\ snap' = NoSnap /\ bad' = {}
        /\ entry' = [g \in Game |-> IF g \in bad /\ Connected(g) THEN Unhealthy(entry[g])
                                                                 ELSE entry[g]]
    BY <1>6 DEF HealthMarks
  <2>2. \A h \in Game : Marked(entry[h], entry'[h])
    <3> SUFFICES ASSUME NEW h \in Game PROVE Marked(entry[h], entry'[h])
      OBVIOUS
    <3>1. \/ entry[h].status = "connected" /\ entry'[h] = Unhealthy(entry[h])
          \/ entry'[h] = entry[h]
      BY <2>1 DEF Connected
    <3> QED BY <1>1, <3>1, MarksType
  <2>3. entry' \in [Game -> Entry]
    BY <2>1, <2>2 DEF Marked
  <2>4. Marks /\ Older
    BY <1>1, <2>1, <2>2, <2>3, SameOlder DEF Marks
  <2>5. snap' \in [Game -> Conn \cup {NoConn}]
    BY <2>1 DEF NoSnap
  <2> QED BY <1>1, <2>1, <2>4, <2>5, MarkingStep DEF TypeOK, call
<1>7. CASE CleanupScan
  <2>1. UNCHANGED <<pool, ws, lock, call, health>> /\ doomed' \subseteq Game
    BY <1>7 DEF CleanupScan
  <2>2. Marks /\ Older
    BY <1>1, <2>1, SameMarks, SameOlder
  <2> QED BY <1>1, <2>1, <2>2, MarkingStep DEF TypeOK, call, health
<1>8. CASE \E g \in Game : CleanupRemove(g)
  <2>1. PICK g \in Game : CleanupRemove(g)
    BY <1>8
  <2>2. Free /\ (StartsClose(Cleaner, g) \/ RemovesAtOnce(g)) /\ UNCHANGED <<ws, call, health>>
        /\ doomed' = doomed \ {g}
    BY <2>1 DEF CleanupRemove
  <2>3. pc' = pc /\ attempt' = attempt /\ mine' = mine /\ doomed' \subseteq Game
    BY <1>1, <2>2 DEF call, TypeOK
  <2> QED BY <2>2, <2>3, RemovingStep
<1>9. CASE UNCHANGED vars
  <2>1. UNCHANGED <<pool, lock, ws, call, health, doomed>>
    BY <1>9 DEF vars, pool, lock, call, health
  <2>2. Marks /\ Older
    BY <1>1, <2>1, SameMarks, SameOlder
  <2> QED BY <1>1, <2>1, <2>2, MarkingStep DEF TypeOK, call, health
<1> QED BY <1>2, <1>3, <1>4, <1>5, <1>6, <1>7, <1>8, <1>9 DEF HealthStep, CleanupStep

LEMMA NextInv == IInv /\ [Next]_vars => IInv'
  BY CallInv, AgentAdded, ClosesInv, OtherInv DEF Next

-----------------------------------------------------------------------------
(***************************************************************************)
(* The theorems                                                            *)
(***************************************************************************)

\* Every variable has its type, and a call that adds or sends has a connection.
THEOREM PoolTypes == Spec => []TypeOK
<1>1. IInv => TypeOK
  BY DEF IInv
<1> QED BY <1>1, InitInv, NextInv, PTL DEF Spec

\* However calls, agents, health checks, cleanup and ends of games interleave,
\* the global count is that of the entries and the close under way, the limit
\* is kept, no connection is in two entries or in one while it is closed, and
\* no entry is found unhealthy twice.
THEOREM PoolAgrees == Spec => []PoolSound
<1>1. IInv => PoolSound
  BY DEF IInv, PoolSound, UnhealthyOnce, FailsOnce
<1> QED BY <1>1, InitInv, NextInv, PTL DEF Spec

\* What becomes usable has another connection than before.
Renewed(g) == entry[g].status = "failed" /\ entry'[g].status = "connected"
                 => entry'[g].conn # entry[g].conn

LEMMA RenewedAll ==
  ASSUME IInv, Next
  PROVE  \A g \in Game : Renewed(g)
<1> SUFFICES ASSUME NEW g \in Game PROVE Renewed(g)
  OBVIOUS
<1>1. TypeOK /\ entry[g] \in Entry /\ \A k \in Call : GameOf[k] \in Game
  BY PoolAssumption DEF IInv, TypeOK
<1>2. Marks => Renewed(g)
  BY DEF Marks, Marked, Renewed
<1>3. entry' = entry => Renewed(g)
  BY DEF Renewed
<1>4. ASSUME NEW h \in Game, entry' = [entry EXCEPT ![h] = Absent]
      PROVE  Renewed(g)
  <2>1. entry'[g] = Absent \/ entry'[g] = entry[g]
    BY <1>1, <1>4 DEF TypeOK
  <2> QED BY <2>1 DEF Renewed, Absent
<1>5. ASSUME NEW h \in Game, NEW c \in Conn, Add(h, c), \A x \in Game : entry[x].conn # c
      PROVE  Renewed(g)
  <2>1. \/ entry'[g] = entry[g]
        \/ entry'[g] = Fresh(c)
    BY <1>1, <1>5 DEF Add, TypeOK
  <2> QED BY <1>5, <2>1 DEF Renewed, Fresh
<1>6. ASSUME NEW k \in Call, CallStep(k)
      PROVE  Renewed(g)
  <2>1. CASE Start(k) \/ Retrieve(k)
    BY <1>1, <1>2, <2>1, GetHealthyMarks DEF Start, Retrieve
  <2>2. CASE Ensure(k) \/ Opens(k) \/ OpenFails(k) \/ Initialised(k) \/ Send(k)
    BY <1>3, <2>2 DEF Ensure, Opens, OpenFails, Initialised, Send, pool
  <2>3. CASE LookUp(k)
    <3>1. entry' = entry \/ entry' = [entry EXCEPT ![GameOf[k]] = Touched(@)]
      BY <2>3 DEF LookUp
    <3>2. entry'[g].status = entry[g].status
      BY <1>1, <3>1 DEF Touched, TypeOK, Entry
    <3> QED BY <3>2 DEF Renewed
  <2>4. CASE MarkAttempt(k) \/ MarkSend(k) \/ MarkExhausted(k)
    BY <1>1, <1>2, <2>4, MarkFailedMarks DEF MarkAttempt, MarkSend, MarkExhausted
  <2>5. CASE AddOwn(k)
    <3>1. pc[k] = "adding"
      BY <2>5 DEF AddOwn, NextAttempt, Goes
    <3>2. mine[k] \in Conn /\ \A x \in Game : entry[x].conn # mine[k]
      BY <3>1 DEF IInv, HeldApart, Conn
    <3> QED BY <1>1, <1>3, <1>5, <2>5, <3>2 DEF AddOwn, pool
  <2>6. CASE RemoveExhausted(k)
    BY <1>1, <1>4, <2>6 DEF RemoveExhausted, StartsClose, RemovesAtOnce
  <2> QED BY <1>6, <2>1, <2>2, <2>3, <2>4, <2>5, <2>6 DEF CallStep
<1>7. ASSUME NEW c \in AgentConn, AgentRegisters(c)
      PROVE  Renewed(g)
  <2>1. c \in Conn /\ c # NoConn /\ GameOf[c] \in Game /\ ws[c] = "new"
    BY <1>7, PoolAssumption DEF AgentRegisters, Conn
  <2>2. \A x \in Game : entry[x].conn # c
    BY <2>1 DEF IInv, Opened, Present
  <2> QED BY <1>3, <1>5, <1>7, <2>1, <2>2 DEF AgentRegisters, pool
<1>8. ASSUME NEW h \in Game, EndGame(h) \/ Ages(h) \/ CleanupRemove(h)
      PROVE  Renewed(g)
  <2>1. CASE EndGame(h) \/ CleanupRemove(h)
    BY <1>4, <2>1 DEF EndGame, CleanupRemove, StartsClose, RemovesAtOnce
  <2>2. CASE Ages(h)
    <3>1. entry'[g].status = entry[g].status
      BY <1>1, <2>2 DEF Ages, TypeOK, Entry
    <3> QED BY <3>1 DEF Renewed
  <2> QED BY <1>8, <2>1, <2>2
<1>9. CASE HealthMarks
  <2>1. entry'[g] = entry[g] \/ entry'[g] = Unhealthy(entry[g])
    BY <1>9 DEF HealthMarks
  <2>2. entry'[g] = entry[g] \/ entry'[g].status = "failed"
    BY <1>1, <2>1 DEF Unhealthy, Entry
  <2> QED BY <2>2 DEF Renewed
<1>10. CASE \/ \E c \in Conn : Drops(c)
            \/ Closes \/ HealthBegins \/ CleanupScan
            \/ \E h \in Game : HealthPing(h)
  BY <1>3, <1>10 DEF Drops, Closes, HealthBegins, CleanupScan, HealthPing, pool
<1> QED BY <1>6, <1>7, <1>8, <1>9, <1>10 DEF Next, HealthStep, CleanupStep

\* A connection that failed is handed to nobody again, whatever the health
\* check, a call or an agent does meanwhile.
THEOREM FailedStaysFailed == Spec => NoResurrection
<1>1. IInv /\ [Next]_vars =>
        [\A g \in Game : entry[g].status = "failed" /\ entry'[g].status = "connected"
             => entry'[g].conn # entry[g].conn]_vars
  BY RenewedAll DEF Renewed
<1> QED BY <1>1, InitInv, NextInv, PTL DEF Spec, NoResurrection
=============================================================================
