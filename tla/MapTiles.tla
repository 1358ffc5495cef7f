------------------------------ MODULE MapTiles -----------------------------
(***************************************************************************)
(* Map tiles of the ground station: the warmer that refreshes, once a day, *)
(* a region of satellite tiles on disk (internal/tilewarm,                 *)
(* cmd/zerotxd/tilewarm.go), and the request handler that looks for a tile *)
(* in the warm directory, in the archives and on the network               *)
(* (internal/api/maptiles.go).                                             *)
(*                                                                         *)
(* A picture is the tile it shows, or "torn" (part of a file), or "cut"    *)
(* (part of a body).  The class of the network is in NetClass; here it     *)
(* changes, as the tile server does, between two days.                     *)
(***************************************************************************)
EXTENDS Integers, SequencesExt

CONSTANTS Region,    \* the satellite tiles enumerateTiles lists, in their order
          NotServed, \* those of them the tile server does not have
          Beyond,    \* satellite tiles outside the region
          Vector,    \* tiles of the vector tileset
          Archived,  \* tiles of the local archives
          TileLife   \* days

ASSUME TilesAssumption == TileLife \in Nat /\ Beyond \cap ToSet(Region) = {}

VARIABLES fit,       \* the class allows background fetches
          online,    \* the tile server answers
          fallback,  \* requests may go to the network
          remaining, \* tiles of the pass still to look at
          put,       \* a tile being stored: how far Put is
          warm,      \* the warm directory: picture and age in days
          served     \* the answer to the last request

tilesVars == <<fit, online, fallback, remaining, put, warm, served>>

Warmed == ToSet(Region)
NoPut  == [st |-> "none"]
NoFile == [picture |-> "none", age |-> 0]
NoTile == [picture |-> "none"]

Fresh(t) == warm[t] # NoFile /\ warm[t].age <= TileLife

ServerHas(t) == online /\ t \notin NotServed

----------------------------------------------------------------------------
(* The warmer.                                                             *)

\* Sixty seconds after the start and every 24 hours; a pass is over by then.
OlderTile(f) == IF f = NoFile THEN f ELSE [f EXCEPT !.age = IF @ > TileLife THEN @ ELSE @ + 1]

Day ==
    /\ remaining = <<>> /\ put = NoPut
    /\ fit' \in BOOLEAN /\ online' \in BOOLEAN
    /\ warm' = [t \in Warmed |-> OlderTile(warm[t])]
    /\ remaining' = IF fit' THEN Region ELSE <<>>
    /\ UNCHANGED <<fallback, put, served>>

Skip ==
    /\ remaining # <<>> /\ put = NoPut /\ Fresh(Head(remaining)) /\ remaining' = Tail(remaining)
    /\ UNCHANGED <<fit, online, fallback, put, warm, served>>

\* Mutant: the first tile that cannot be fetched ends the pass.
AfterError_Abort == <<>>

AfterError == Tail(remaining)

\* fetch, and Put opens the temporary file; or the fetch fails.
FetchedTile ==
    /\ remaining # <<>> /\ put = NoPut /\ ~Fresh(Head(remaining))
    /\ IF ServerHas(Head(remaining))
       THEN remaining' = remaining /\ put' = [st |-> "temp", tile |-> Head(remaining)]
       ELSE remaining' = AfterError /\ put' = put
    /\ UNCHANGED <<fit, online, fallback, warm, served>>

\* The body breaks off: io.ReadAll fails, nothing is put.
FetchBreaks ==
    /\ remaining # <<>> /\ put = NoPut /\ ~Fresh(Head(remaining)) /\ ServerHas(Head(remaining))
    /\ remaining' = AfterError
    /\ UNCHANGED <<fit, online, fallback, put, warm, served>>

\* Mutant: the tile is written in place.
InPlace_Straight == TRUE

InPlace == FALSE

\* Part of the bytes are in the file.
PutSome ==
    /\ put.st = "temp" /\ put' = [put EXCEPT !.st = "part"]
    /\ warm' = IF InPlace THEN [warm EXCEPT ![put.tile] = [picture |-> "torn", age |-> 0]] ELSE warm
    /\ UNCHANGED <<fit, online, fallback, remaining, served>>

\* Closed and renamed.
PutAll ==
    /\ put.st = "part" /\ put' = NoPut /\ remaining' = Tail(remaining)
    /\ warm' = [warm EXCEPT ![put.tile] = [picture |-> put.tile, age |-> 0]]
    /\ UNCHANGED <<fit, online, fallback, served>>

\* A full disk: the temporary file is removed.
PutFails ==
    /\ put # NoPut /\ put' = NoPut /\ remaining' = Tail(remaining)
    /\ UNCHANGED <<fit, online, fallback, warm, served>>

\* The daemon starts again; a temporary file is not looked at.
RestartWarmer ==
    /\ remaining' = <<>> /\ put' = NoPut /\ served' = NoTile /\ fallback' \in BOOLEAN
    /\ UNCHANGED <<fit, online, warm>>

----------------------------------------------------------------------------
(* handleTile.                                                             *)

ProxyHas(t) == t \notin Vector /\ fallback /\ online /\ t \notin NotServed

WarmHas(t) == t \notin Vector /\ t \in Warmed /\ warm[t] # NoFile

Source(t) ==
    IF WarmHas(t) THEN "warm"
    ELSE IF t \in Archived THEN "archive"
    ELSE IF ProxyHas(t) THEN "online" ELSE "nowhere"

\* The public servers have raster pictures only.  A body of theirs that breaks off
\* or takes too long ends io.Copy when the status, 200, is out and the browser has
\* been told to keep the tile for a week; the error is dropped.
Pictures(t) ==
    CASE Source(t) = "warm"    -> {warm[t].picture}
      [] Source(t) = "archive" -> {t}
      [] Source(t) = "online"  -> {IF t \in Vector THEN "raster" ELSE t, "cut"}
      [] OTHER                 -> {"none"}

Serve(t) ==
    /\ \E p \in Pictures(t) : served' = [tile |-> t, from |-> Source(t), picture |-> p]
    /\ UNCHANGED <<fit, online, fallback, remaining, put, warm>>

TilesInit ==
    /\ fit = FALSE /\ online = FALSE /\ fallback \in BOOLEAN /\ remaining = <<>> /\ put = NoPut
    /\ warm = [t \in Warmed |-> NoFile] /\ served = NoTile

Warmer == Day \/ Skip \/ FetchedTile \/ PutSome \/ PutAll

TilesNext == Warmer \/ FetchBreaks \/ PutFails \/ RestartWarmer \/ (\E t \in Warmed \cup Beyond \cup Vector : Serve(t))

TilesFairness == WF_tilesVars(Warmer)

TilesSpec == TilesInit /\ [][TilesNext]_tilesVars /\ TilesFairness

----------------------------------------------------------------------------
\* The map shows a tile of its own kind or none, and shows it whole when it comes
\* from the station, though the directory it is read from is being written and a
\* crash may have ended a write (store.go:16-17, maptiles.go:205-209): only what
\* the online proxy hands on may have been cut short.
ServedIsWhole ==
    served # NoTile =>
        served.picture \in {served.tile, "none"} \cup (IF served.from = "online" THEN {"cut"} ELSE {})

\* As long as days come with a fit network, a server that answers to the end, a disk
\* with room and no restart, every tile of the region the server has is at some time fresh,
\* however many of them fail (tilewarm.go:142-143).
RegionIsRefreshed ==
    <>[](fit /\ online) /\ <>[][~FetchBreaks /\ ~PutFails /\ ~RestartWarmer]_tilesVars
      => \A t \in Warmed \ NotServed : []<>Fresh(t)
=============================================================================
