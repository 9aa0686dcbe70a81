--------------------------- MODULE ObserverFollow ---------------------------
(***************************************************************************)
(* The camera of an observer's page: it follows one player, all players,   *)
(* the territory of all players or the whole map, as the URL says, and     *)
(* tells the parent page when there is something to see.  It is driven by  *)
(* three intervals of the browser, while packets fill in the world, the    *)
(* user moves the camera, and the page may be reset for a new attempt to   *)
(* connect.  Positions and zoom are left out: here the camera only   *)
(* has an owner.                                                           *)
(***************************************************************************)
EXTENDS Naturals, FiniteSets

CONSTANTS MaxAttempts,   \* MAX_INITIAL_CENTER_ATTEMPTS
          MaxGames,      \* times the client enters C_S_RUNNING (a bound)
          Timer,         \* intervals that can run at one time (a bound)
          NoTimer        \* a variable that holds no interval

ASSUME FollowAssumption == /\ MaxAttempts \in Nat \ {0}
                           /\ MaxGames \in Nat \ {0}
                           /\ NoTimer \notin Timer

VARIABLES mode,      \* what the URL asks for
          games,     \* times the client entered C_S_RUNNING
          world,     \* what the packets have brought
          timer,     \* the intervals that run in the browser
          var,       \* the variables that hold an interval
          follow,    \* observer_follow_player is set
          centered,  \* observer_centered_notified
          told,      \* observer_parent_notified
          listening, \* the map canvas reports what the user does
          camera,    \* who moved the camera last
          recent,    \* the user moved it less than 45 s ago
          notes      \* what the parent was told since the last reset (history)

followVars == <<mode, games, world, timer, var, follow, centered, told, listening, camera,
                recent, notes>>

Modes == {"player", "global", "dynamic", "static"}

\* The followed player is known and alive; the followed player
\* (in the worldmap: anybody) has a city, has a unit; some player has a unit;
\* some tile is explored; the map's size is known.
Facts == {"known", "alive", "city", "unit", "anyUnit", "explored", "map"}

\* The civserver removes what a player owns before it reports the player
\* dead.
Consistent(w) == /\ "alive" \in w => "known" \in w
                 /\ "unit" \in w => "anyUnit" \in w
                 /\ {"known", "alive"} \cap w = {"known"} => w \cap {"city", "unit"} = {}

\* An interval calls one function; the polls count their calls.
Timers == [fun : {"off", "auto", "initial", "search"}, tries : 0..(MaxAttempts - 1)]
Off == [fun |-> "off", tries |-> 0]

Slots == {"auto", "initial", "search"}   \* observer_<slot>_..._interval

FollowTypeOK == /\ mode \in Modes
                /\ games \in 0..MaxGames
                /\ world \subseteq Facts
                /\ timer \in [Timer -> Timers]
                /\ var \in [Slots -> Timer \cup {NoTimer}]
                /\ {follow, centered, told, listening, recent} \subseteq BOOLEAN
                /\ camera \in {"nobody", "page", "user"}
                /\ notes \in [ok : 0..2, none : 0..2]

Init_follow == /\ mode \in Modes
               /\ games = 0
               /\ world = {}
               /\ timer = [t \in Timer |-> Off]
               /\ var = [x \in Slots |-> NoTimer]
               /\ follow = FALSE /\ centered = FALSE /\ told = FALSE /\ listening = FALSE
               /\ camera = "nobody" /\ recent = FALSE
               /\ notes = [ok |-> 0, none |-> 0]

Note(n) == [notes EXCEPT ![n] = IF @ < 2 THEN @ + 1 ELSE @]

-----------------------------------------------------------------------------
(***************************************************************************)
(* Centering.  The operators say what becomes of the camera and of what    *)
(* the parent knows.                                                       *)
(***************************************************************************)
NothingMoves == UNCHANGED <<camera, centered, told, notes>>

\* Mutant: the parent is told every time.
ShowAndTell == /\ camera' = "page"
               /\ centered' = TRUE
               /\ told' = TRUE
               /\ notes' = Note("ok")

\* The camera moves; the first time the parent is told.
Show == /\ camera' = "page"
        /\ centered' = TRUE
        /\ told' = (told \/ ~centered)
        /\ notes' = IF centered THEN notes ELSE Note("ok")

\* There is nothing to show; the parent is told once, and the page goes on.
TellNone == /\ told' = TRUE
            /\ notes' = IF told THEN notes ELSE Note("none")
            /\ UNCHANGED <<camera, centered>>

ShowOrTell(something) == IF something THEN Show ELSE TellNone

\* observer_is_interaction_cooldown_active() holds off the page, but not
\* before the first time it has centered.
Held == centered /\ recent

\* Mutant: nobody asks whether the user moved the camera.
CenterRegardless(f, held) ==
  IF ~f \/ ~({"known", "alive"} \subseteq world) THEN NothingMoves
  ELSE IF ~centered THEN ShowOrTell(world \cap {"city", "explored"} # {})
       ELSE ShowOrTell(world \cap {"city", "unit", "explored"} # {})

observer_center_on_followed_player(f, held) ==
  IF ~f \/ ~({"known", "alive"} \subseteq world) \/ held THEN NothingMoves
  ELSE IF ~centered THEN ShowOrTell(world \cap {"city", "explored"} # {})
       ELSE ShowOrTell(world \cap {"city", "unit", "explored"} # {})

observer_center_global_view(held) ==
  IF held THEN NothingMoves ELSE ShowOrTell(world \cap {"anyUnit", "explored"} # {})

observer_worldmap_center_dynamic(held) ==
  IF held THEN NothingMoves
  ELSE ShowOrTell(world \cap {"anyUnit", "city", "explored"} # {})

\* The whole map is shown, and the parent told, without a look at what it
\* was told before.
observer_worldmap_fit_entire_map ==
  IF "map" \in world
  THEN camera' = "page" /\ centered' = TRUE /\ told' = TRUE /\ notes' = Note("ok")
  ELSE NothingMoves

\* The last resort, when a poll gives up.  It moves the camera in any case.
notify_observer_centered_fallback == ShowOrTell("explored" \in world)

\* What the interval "auto" calls.
AutoCenter ==
  CASE mode = "player"  -> observer_center_on_followed_player(follow, Held)
    [] mode = "global"  -> observer_center_global_view(Held)
    [] mode = "dynamic" -> observer_worldmap_center_dynamic(Held)
    [] OTHER            -> NothingMoves

\* What the interval "initial" waits for.
Loaded == CASE mode = "player" -> world \cap {"city", "unit"} # {}
            [] mode = "static" -> "map" \in world
            [] OTHER           -> "anyUnit" \in world

-----------------------------------------------------------------------------
(***************************************************************************)
(* Intervals                                                               *)
(***************************************************************************)
Running(tm) == {t \in Timer : tm[t].fun # "off"}

\* clearInterval on the variable x, which forgets it.
Cleared(tm, x) == IF var[x] = NoTimer THEN tm ELSE [tm EXCEPT ![var[x]] = Off]

\* setInterval for the functions of S, after the intervals of tm.
StartIntervals(tm, vr, S) ==
  \E new \in [S -> Timer \ Running(tm)] :
    /\ \A x, y \in S : x # y => new[x] # new[y]
    /\ timer' = [t \in Timer |->
                  IF \E x \in S : new[x] = t
                  THEN [fun |-> CHOOSE x \in S : new[x] = t, tries |-> 0] ELSE tm[t]]
    /\ var' = [x \in Slots |-> IF x \in S THEN new[x] ELSE vr[x]]

\* Mutant: the search for the player is not stopped.
CleanOthers == [t \in Timer |-> IF t \in {var[x] : x \in Slots \ {"search"}}
                                THEN Off ELSE timer[t]]

\* cleanup_observer_follow_mode()
CleanTimers == [t \in Timer |-> IF t \in {var[x] : x \in Slots} THEN Off ELSE timer[t]]
CleanVars == [x \in Slots |-> NoTimer]

\* start_observer_follow_intervals() and its siblings: center at once, then
\* start the intervals.  The static map needs them only while it is unknown.
StartFollowing(tm, vr, held) ==
  /\ observer_center_on_followed_player(TRUE, held)
  /\ StartIntervals(tm, vr, {"auto", "initial"})

StartGlobal ==
  /\ IF mode = "global" THEN observer_center_global_view(FALSE)
     ELSE observer_worldmap_center_dynamic(FALSE)
  /\ StartIntervals(CleanTimers, CleanVars, {"auto", "initial"})

StartStatic ==
  /\ observer_worldmap_fit_entire_map
  /\ StartIntervals(CleanTimers, CleanVars,
                    IF "map" \in world THEN {} ELSE {"initial"})

\* Called whenever the client enters C_S_RUNNING.  The cleanup forgets that
\* the user moved the camera.  A player who is not in
\* the list yet is searched for.
init_observer_follow_mode ==
  /\ games < MaxGames /\ games' = games + 1
  /\ recent' = FALSE /\ listening' = TRUE
  /\ \/ mode = "player" /\ "known" \in world /\ follow' = TRUE
        /\ StartFollowing(CleanTimers, CleanVars, FALSE)
     \/ mode = "player" /\ "known" \notin world /\ follow' = FALSE
        /\ StartIntervals(CleanTimers, CleanVars, {"search"}) /\ NothingMoves
     \/ mode \in {"global", "dynamic"} /\ follow' = FALSE /\ StartGlobal
     \/ mode = "static" /\ follow' = FALSE /\ StartStatic
  /\ UNCHANGED <<mode, world>>

\* OBSERVER_AUTO_CENTER_MS
AutoTick(t) ==
  /\ timer[t].fun = "auto"
  /\ AutoCenter
  /\ UNCHANGED <<mode, games, world, timer, var, follow, listening, recent>>

\* The polls count first; at the limit they look once more, then give up.
Tried(t) == [timer EXCEPT ![t].tries = @ + 1]
Stops(x) == /\ timer' = Cleared(timer, x)
            /\ var' = [var EXCEPT ![x] = NoTimer]

\* Mutant: the poll gives up without a word.
InitialTickSilent(t) ==
  /\ timer[t].fun = "initial"
  /\ \/ /\ Loaded /\ Stops("initial")
        /\ IF mode = "static" THEN observer_worldmap_fit_entire_map ELSE AutoCenter
     \/ /\ ~Loaded /\ Tried(t)[t].tries >= MaxAttempts
        /\ Stops("initial") /\ NothingMoves
     \/ /\ ~Loaded /\ Tried(t)[t].tries < MaxAttempts
        /\ timer' = Tried(t) /\ UNCHANGED var /\ NothingMoves
  /\ UNCHANGED <<mode, games, world, follow, listening, recent>>

\* Mutant: the poll gives up one attempt late.
InitialTickLate(t) ==
  /\ timer[t].fun = "initial"
  /\ \/ /\ Loaded /\ Stops("initial")
        /\ IF mode = "static" THEN observer_worldmap_fit_entire_map ELSE AutoCenter
     \/ /\ ~Loaded /\ Tried(t)[t].tries > MaxAttempts
        /\ Stops("initial") /\ notify_observer_centered_fallback
     \/ /\ ~Loaded /\ Tried(t)[t].tries <= MaxAttempts
        /\ timer' = Tried(t) /\ UNCHANGED var /\ NothingMoves
  /\ UNCHANGED <<mode, games, world, follow, listening, recent>>

InitialTick(t) ==
  /\ timer[t].fun = "initial"
  /\ \/ /\ Loaded /\ Stops("initial")
        /\ IF mode = "static" THEN observer_worldmap_fit_entire_map ELSE AutoCenter
     \/ /\ ~Loaded /\ Tried(t)[t].tries >= MaxAttempts
        /\ Stops("initial") /\ notify_observer_centered_fallback
     \/ /\ ~Loaded /\ Tried(t)[t].tries < MaxAttempts
        /\ timer' = Tried(t) /\ UNCHANGED var /\ NothingMoves
  /\ UNCHANGED <<mode, games, world, follow, listening, recent>>

SearchTick(t) ==
  /\ timer[t].fun = "search"
  /\ \/ /\ "known" \in world /\ follow' = TRUE
        /\ StartFollowing(Cleared(timer, "search"), [var EXCEPT !["search"] = NoTimer], Held)
     \/ /\ "known" \notin world /\ Tried(t)[t].tries >= MaxAttempts
        /\ Stops("search") /\ notify_observer_centered_fallback /\ UNCHANGED follow
     \/ /\ "known" \notin world /\ Tried(t)[t].tries < MaxAttempts
        /\ timer' = Tried(t) /\ UNCHANGED <<var, follow>> /\ NothingMoves
  /\ UNCHANGED <<mode, games, world, listening, recent>>

-----------------------------------------------------------------------------
(***************************************************************************)
(* The page around it                                                      *)
(***************************************************************************)

\* Packets bring the world in any order, and the followed player may die.
\* A unit or city of the followed player is one of some player.
Packet ==
  /\ \/ \E f \in Facts : world' = world \cup {f}
     \/ "alive" \in world /\ world' = world \ {"alive", "city", "unit"}
  /\ Consistent(world')
  /\ UNCHANGED <<mode, games, timer, var, follow, centered, told, listening, camera,
                 recent, notes>>

\* observer_mark_user_interaction(), and 45 s later.
UserMoves ==
  /\ listening
  /\ camera' = "user" /\ recent' = TRUE
  /\ UNCHANGED <<mode, games, world, timer, var, follow, centered, told, listening, notes>>

CooldownEnds ==
  /\ recent /\ recent' = FALSE
  /\ UNCHANGED <<mode, games, world, timer, var, follow, centered, told, listening,
                 camera, notes>>

\* reset_observer_state_for_retry(): the parent may be told again.  The
\* intervals run on; the map is unknown until the next attempt.
ResetForRetry ==
  /\ centered' = FALSE /\ told' = FALSE
  /\ notes' = [ok |-> 0, none |-> 0]
  /\ world' = world \ {"map"}
  /\ UNCHANGED <<mode, games, timer, var, follow, listening, camera, recent>>

\* beforeunload.observer_cleanup; the user may stay on the page.
Unload ==
  /\ timer' = CleanTimers /\ var' = CleanVars
  /\ follow' = FALSE /\ recent' = FALSE /\ listening' = FALSE
  /\ UNCHANGED <<mode, games, world, centered, told, camera, notes>>

Ticks == \E t \in Timer : AutoTick(t) \/ InitialTick(t) \/ SearchTick(t)

Next_follow == \/ init_observer_follow_mode \/ Ticks \/ Packet
               \/ UserMoves \/ CooldownEnds \/ ResetForRetry \/ Unload

FollowSpec == Init_follow /\ [][Next_follow]_followVars

\* The browser calls every interval that runs again and again.
FollowFairness == \A t \in Timer : /\ WF_followVars(AutoTick(t))
                                  /\ WF_followVars(InitialTick(t))
                                  /\ WF_followVars(SearchTick(t))

-----------------------------------------------------------------------------
(***************************************************************************)
(* Properties                                                              *)
(***************************************************************************)

\* Every interval that runs is held by the variable that can stop it, and
\* calls the function of that variable: entering the game again, finding the
\* player, giving up and unloading leave no interval behind (the comments
\* "prevent memory leaks", civclient.js 299 and 1616).
IntervalsHeld ==
  /\ Running(timer) = {var[x] : x \in Slots} \ {NoTimer}
  /\ \A x \in Slots : var[x] # NoTimer => timer[var[x]].fun = x

\* Between two resets the parent hears at most once that there is nothing to
\* see and, later, at most once that there is: five functions set the two
\* flags that ensure it.  The static map tells the parent whenever the game
\* is entered.
ParentToldOnce ==
  /\ centered => told
  /\ notes.none <= 1
  /\ mode # "static" => notes.ok <= 1

\* The camera's intervals and what it tells the parent agree with its flags.
CameraSound == IntervalsHeld /\ ParentToldOnce

\* The user's view is left alone for 45 s, except when a poll gives up (it
\* ends, and calls the fallback) or the game is entered again.
Ended(x) == var[x] # NoTimer /\ var'[x] # var[x]
ViewKept ==
  [][Held /\ camera = "user" /\ camera' = "page"
       => Ended("initial") \/ Ended("search") \/ ~recent']_followVars

\* A page that waits for its player, its units or its map tells the parent
\* something in the end, so that the overlay of the parent page goes away:
\* the polls are bounded and each of their ends tells.
Waiting == var["initial"] # NoTimer \/ var["search"] # NoTimer
ParentHears == Waiting ~> (told \/ ~listening)
=============================================================================
