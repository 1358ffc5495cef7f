------------------------------ MODULE WeatherCache ------------------------------
(***************************************************************************)
(* Weather for the flight site (internal/weather, internal/api/weather.go):*)
(* the observer's place, the refresher, the cache in memory and on disk.   *)
(*                                                                         *)
(* A place is a cell of about a kilometre, the key of the cache.  The      *)
(* source answers for its own grid point, so an entry is kept under the    *)
(* cell it was asked for and under the cell it is for.                     *)
(***************************************************************************)
EXTENDS Integers, Sequences, FiniteSets, FiniteSetsExt, SequencesExt

CONSTANTS Cells,     \* places, in the order of their file names
          GridOf,    \* cell |-> cell of the grid point the source answers for
          Site,      \* configured site, Nowhere when none
          Nowhere,
          Forecasts    \* what the source may say of the weather

Places == Range(Cells)
Fetchers == {"refresher", "api"}

ASSUME WeatherAssumption ==
    /\ Cells \in Seq(Places)
    /\ Nowhere \notin Places /\ Site \in Places \cup {Nowhere}

VARIABLES fix, homePlace,   \* cells of the station GPS and of telemetry home
          asking,      \* fetches under way: the refresher's and one of the API
          entries,     \* Cache.entries: cell |-> entry, {} when none
          files        \* the JSON files, by name

weatherVars == <<fix, homePlace, asking, entries, files>>

----------------------------------------------------------------------------
(* An entry says what was reported, whether that is younger than MaxAge,   *)
(* and the cell it is for.                                                 *)

Fetched(report, c) == [report |-> report, fresh |-> TRUE, grid |-> GridOf[c]]

Resolved == IF fix # Nowhere THEN fix ELSE IF homePlace # Nowhere THEN homePlace ELSE Site

Cached(c) == IF c = Nowhere THEN {} ELSE entries[c]

Keys(c) == {c, GridOf[c]}

Put(store, keys, entry) == [c \in Places |-> IF c \in keys THEN {entry} ELSE store[c]]

\* A fetch takes up to 15 s: the refresher asks for the place of the observer,
\* the API for any place whose entry is missing or too old.
Ask(who, c) ==
    /\ asking[who] = Nowhere /\ c # Nowhere
    /\ who = "refresher" => c = Resolved
    /\ who = "api" => \A e \in Cached(c) : ~e.fresh
    /\ asking' = [asking EXCEPT ![who] = c]
    /\ UNCHANGED <<fix, homePlace, entries, files>>

\* PutAt: both keys in memory; a file that cannot be written is dropped silently.
Store(c, report) ==
    /\ entries' = Put(entries, Keys(c), Fetched(report, c))
    /\ \E written \in {{}, Keys(c)} : files' = Put(files, written, Fetched(report, c))

\* Mutant: the answer is kept under the place the observer is at by now.
Answer_WhereNow(who) ==
    /\ asking[who] # Nowhere /\ Resolved # Nowhere
    /\ LET e(r) == [Fetched(r, asking[who]) EXCEPT !.fresh = TRUE]
       IN \E r \in Forecasts : /\ entries' = Put(entries, {Resolved, e(r).grid}, e(r))
                             /\ UNCHANGED files
    /\ asking' = [asking EXCEPT ![who] = Nowhere]
    /\ UNCHANGED <<fix, homePlace>>

Answer(who) ==
    /\ asking[who] # Nowhere
    /\ \E report \in Forecasts : Store(asking[who], report)
    /\ asking' = [asking EXCEPT ![who] = Nowhere]
    /\ UNCHANGED <<fix, homePlace>>

\* Without an answer the cache stays; a stale entry keeps being served.
NoAnswer(who) ==
    /\ asking[who] # Nowhere
    /\ asking' = [asking EXCEPT ![who] = Nowhere]
    /\ UNCHANGED <<fix, homePlace, entries, files>>

Age == /\ entries' = [c \in Places |-> {[e EXCEPT !.fresh = FALSE] : e \in entries[c]}]
       /\ files' = [c \in Places |-> {[e EXCEPT !.fresh = FALSE] : e \in files[c]}]
       /\ UNCHANGED <<fix, homePlace, asking>>

\* NewCache: each file, in the order of names, under the cell its entry is for.
Loaded == [c \in Places |->
             LET for == {i \in DOMAIN Cells : \E e \in files[Cells[i]] : e.grid = c}
             IN IF for = {} THEN {} ELSE files[Cells[Max(for)]]]

----------------------------------------------------------------------------
WeatherInit ==
    /\ fix \in Places \cup {Nowhere} /\ homePlace = Nowhere
    /\ entries = [c \in Places |-> {}] /\ files = [c \in Places |-> {}]
    /\ asking = [who \in Fetchers |-> Nowhere]

MoveFix == fix' \in (Places \cup {Nowhere}) \ {fix} /\ UNCHANGED <<homePlace, asking, entries, files>>

\* Telemetry home is recorded where the aircraft is armed.
HomeIsSet == homePlace' \in Places \ {homePlace} /\ UNCHANGED <<fix, asking, entries, files>>

RestartService ==
    /\ entries' = Loaded /\ homePlace' = Nowhere /\ asking' = [who \in Fetchers |-> Nowhere]
    /\ UNCHANGED <<fix, files>>

WeatherNext == \/ \E who \in Fetchers : \/ \E c \in Places : Ask(who, c)
                                       \/ Answer(who) \/ NoAnswer(who)
               \/ Age \/ MoveFix \/ HomeIsSet \/ RestartService

WeatherSpec == WeatherInit /\ [][WeatherNext]_weatherVars

----------------------------------------------------------------------------
\* What is found under a cell was asked for that cell or is for it, in memory
\* and on disk, wherever the observer moved while the answer was on its way,
\* after restarts and failed writes too: no place shows the weather of another.
WeatherIsOfPlace ==
    \A c \in Places : \A e \in entries[c] \cup files[c] : e.grid = c \/ e.grid = GridOf[c]
=============================================================================
