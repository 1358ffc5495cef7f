---------------------------- MODULE SatDownload ----------------------------
(***************************************************************************)
(* The downloader of satellite tiles (tools/maps/sat-download): for every  *)
(* zoom level a producer, a pool of workers and a writer, joined by two    *)
(* bounded channels, fill an MBTiles archive; a run may be interrupted or  *)
(* killed anywhere and the next one goes on with what the archive holds.   *)
(* The map server takes the archive as it is converted at the end of a run.*)
(*                                                                         *)
(* What a tile server answers is any of Answers.  The order of the tiles   *)
(* in a zoom level (row by row), the pace of the requests (rate.Limiter,   *)
(* the adaptive rate) and the progress lines are left out.                 *)
(***************************************************************************)
EXTENDS Integers, SequencesExt

CONSTANTS Grids,     \* for each zoom level asked for, its rows and columns
          Workers, JobDepth, MaxRetry,
          MaxRuns    \* bound: runs of the program

Answers == {"image", "throttle", "absent", "refused"}

ASSUME DownloadAssumption ==
    /\ \E low \in DOMAIN Grids, high \in DOMAIN Grids : DOMAIN Grids = low..high /\ low \in Nat
    /\ \A z \in DOMAIN Grids : IsFiniteSet(Grids[z]) /\ Grids[z] \subseteq Nat \X Nat
    /\ JobDepth \in Nat \ {0} /\ MaxRetry \in Nat \ {0} /\ MaxRuns \in Nat /\ Workers # {}

VARIABLES phase,     \* where run() is: "stopped", "zoom", "produce", "wait", "drain", "convert"
          zoom, missing, jobs, results, archive, published,
          work,      \* per worker: what it does, with which tile, at which attempt, what came of it
          writing,   \* the writer of this zoom has not closed done
          c,         \* counters
          cancelled, \* the context of the run
          complete,  \* the last run reported completion
          runs       \* bound

downloadVars == <<phase, zoom, missing, jobs, results, archive, published, work, writing, c, cancelled, complete, runs>>

ChannelVars == <<missing, jobs, results, work, writing>>

Exited == [st |-> "exit"]
IdleWorker == [st |-> "idle"]
NoCounts == [done |-> 0, downloaded |-> 0, skipped |-> 0, notFound |-> 0, errs |-> 0]

MinZoom == CHOOSE z \in DOMAIN Grids : \A y \in DOMAIN Grids : z <= y
MaxZoom == CHOOSE z \in DOMAIN Grids : \A y \in DOMAIN Grids : z >= y

Tile(z, at) == [z |-> z, x |-> at[1], y |-> at[2]]
Tiles(z) == {Tile(z, at) : at \in Grids[z]}
Wanted == UNION {Tiles(z) : z \in DOMAIN Grids}

\* The row an MBTiles archive keeps a tile in counts from the south.
Stored(t) == [t EXCEPT !.y = 2^t.z - 1 - @]

\* loadExistingTiles.
Existing(z) == {t \in Tiles(z) : Stored(t) \in archive}

----------------------------------------------------------------------------
(* run and runZoom.                                                        *)

NextZoom == IF zoom = MaxZoom THEN phase' = "convert" /\ zoom' = zoom ELSE phase' = "zoom" /\ zoom' = zoom + 1

Run ==
    /\ phase = "stopped" /\ runs < MaxRuns
    /\ runs' = runs + 1 /\ phase' = "zoom" /\ zoom' = MinZoom
    /\ c' = NoCounts /\ cancelled' = FALSE /\ complete' = FALSE
    /\ UNCHANGED <<ChannelVars, archive, published>>

Counted(n, d) == [c EXCEPT !.done = @ + d, !.skipped = @ + n]

\* A zoom with nothing missing is left without a look at the context.
BeginZoom ==
    /\ phase = "zoom"
    /\ LET present == Existing(zoom)
           absent  == Tiles(zoom) \ present
       IN /\ c' = Counted(Cardinality(present), Cardinality(present))
          /\ IF absent = {}
             THEN NextZoom /\ UNCHANGED ChannelVars
             ELSE /\ phase' = "produce" /\ zoom' = zoom /\ writing' = TRUE
                  /\ missing' = SetToSeq(absent)
                  /\ jobs' = <<>> /\ results' = <<>> /\ work' = [w \in Workers |-> IdleWorker]
    /\ UNCHANGED <<archive, published, cancelled, complete, runs>>

Produce ==
    /\ phase = "produce" /\ missing # <<>> /\ Len(jobs) < JobDepth
    /\ jobs' = Append(jobs, Head(missing)) /\ missing' = Tail(missing)
    /\ UNCHANGED <<phase, zoom, results, archive, published, work, writing, c, cancelled, complete, runs>>

StopProducing == phase = "produce" /\ (missing = <<>> \/ cancelled)

\* close(jobs).
CloseJobs ==
    /\ StopProducing /\ phase' = "wait" /\ missing' = <<>>
    /\ UNCHANGED <<zoom, jobs, results, archive, published, work, writing, c, cancelled, complete, runs>>

\* wg.Wait, then close(results).
CloseResults ==
    /\ phase = "wait" /\ (\A w \in Workers : work[w] = Exited) /\ phase' = "drain"
    /\ UNCHANGED <<zoom, ChannelVars, archive, published, c, cancelled, complete, runs>>

\* Mutant: the zoom ends beside its writer.
Drained_Unawaited == TRUE

Drained == ~writing

EndZoom ==
    /\ phase = "drain" /\ Drained
    /\ IF cancelled THEN phase' = "stopped" /\ zoom' = zoom ELSE NextZoom
    /\ UNCHANGED <<ChannelVars, archive, published, c, cancelled, complete, runs>>

\* convertToPMTiles, to a temporary file that is renamed; errors do not prevent it.
Convert ==
    /\ phase = "convert" /\ phase' = "stopped" /\ complete' = TRUE /\ cancelled' = FALSE
    /\ published' \in {published, archive}
    /\ UNCHANGED <<zoom, ChannelVars, archive, c, runs>>

----------------------------------------------------------------------------
(* worker and fetchTile.                                                   *)

Works(w, s) ==
    /\ work' = [work EXCEPT ![w] = s]
    /\ UNCHANGED <<phase, zoom, missing, archive, published, writing, c, cancelled, complete, runs>>

Live == phase \in {"produce", "wait"}

TakeJob(w) ==
    /\ Live /\ work[w] = IdleWorker /\ jobs # <<>>
    /\ Works(w, [st |-> "limit", job |-> Head(jobs)]) /\ jobs' = Tail(jobs) /\ UNCHANGED results

NoMoreJobs(w) == phase = "wait" /\ work[w] = IdleWorker /\ jobs = <<>> /\ Works(w, Exited) /\ UNCHANGED <<jobs, results>>

\* limiter.Wait: a job taken when the context is cancelled is dropped.
RateLimit(w) ==
    /\ work[w].st = "limit" /\ UNCHANGED <<jobs, results>>
    /\ Works(w, IF cancelled THEN Exited ELSE [st |-> "fetch", job |-> work[w].job, attempt |-> 1])

Outcome(answer) ==
    CASE answer = "image" -> "data" [] answer = "absent" -> "notFound" [] OTHER -> "err"

\* An answer, or none: a throttle or an error of the network is tried again, and a
\* cancelled context fails the request.
Fetch(w, answer) ==
    /\ work[w].st = "fetch" /\ UNCHANGED <<jobs, results>>
    /\ cancelled => answer = "refused"
    /\ Works(w, IF answer = "throttle" /\ work[w].attempt < MaxRetry
                THEN [work[w] EXCEPT !.attempt = @ + 1]
                ELSE [st |-> "send", job |-> work[w].job, res |-> Outcome(answer)])

SendResult(w) ==
    /\ work[w].st = "send" /\ Len(results) < JobDepth
    /\ results' = Append(results, [job |-> work[w].job, res |-> work[w].res])
    /\ Works(w, IdleWorker) /\ UNCHANGED jobs

DropResult(w) == work[w].st = "send" /\ cancelled /\ Works(w, Exited) /\ UNCHANGED <<jobs, results>>

----------------------------------------------------------------------------
(* writer.                                                                 *)

CountedAs(kind) == [c EXCEPT ![kind] = @ + 1, !.done = @ + 1]

\* writeTile may fail.
WriteResult ==
    /\ results # <<>> /\ results' = Tail(results)
    /\ LET r == Head(results)
       IN \/ r.res = "data" /\ archive' = archive \cup {Stored(r.job)} /\ c' = CountedAs("downloaded")
          \/ r.res \in {"data", "err"} /\ archive' = archive /\ c' = CountedAs("errs")
          \/ r.res = "notFound" /\ archive' = archive /\ c' = CountedAs("notFound")
    /\ UNCHANGED <<phase, zoom, missing, jobs, published, work, writing, cancelled, complete, runs>>

WriterEnds ==
    /\ phase = "drain" /\ writing /\ results = <<>> /\ writing' = FALSE
    /\ UNCHANGED <<phase, zoom, missing, jobs, results, archive, published, work, c, cancelled, complete, runs>>

----------------------------------------------------------------------------
\* SIGINT or SIGTERM.
Interrupt ==
    /\ phase # "stopped" /\ ~cancelled /\ cancelled' = TRUE
    /\ UNCHANGED <<phase, zoom, ChannelVars, archive, published, c, complete, runs>>

\* The machine goes; what the archive holds stays.
Kill ==
    /\ phase # "stopped" /\ phase' = "stopped" /\ cancelled' = FALSE
    /\ missing' = <<>> /\ jobs' = <<>> /\ results' = <<>> /\ work' = [w \in Workers |-> Exited] /\ writing' = FALSE
    /\ UNCHANGED <<zoom, archive, published, c, complete, runs>>

DownloadInit ==
    /\ phase = "stopped" /\ zoom = MinZoom /\ missing = <<>> /\ jobs = <<>> /\ results = <<>>
    /\ archive = {} /\ published = {} /\ work = [w \in Workers |-> Exited] /\ writing = FALSE
    /\ c = NoCounts /\ cancelled = FALSE /\ complete = FALSE /\ runs = 0

Main == BeginZoom \/ Produce \/ CloseJobs \/ CloseResults \/ EndZoom \/ Convert
Work(w) == TakeJob(w) \/ NoMoreJobs(w) \/ RateLimit(w) \/ SendResult(w) \/ DropResult(w) \/ \E a \in Answers : Fetch(w, a)
ResultWriter == WriteResult \/ WriterEnds

DownloadNext == Run \/ Main \/ (\E w \in Workers : Work(w)) \/ ResultWriter \/ Interrupt \/ Kill

DownloadFairness == WF_downloadVars(Main) /\ WF_downloadVars(ResultWriter) /\ \A w \in Workers : WF_downloadVars(Work(w))

DownloadSpec == DownloadInit /\ [][DownloadNext]_downloadVars /\ DownloadFairness

----------------------------------------------------------------------------
\* A run that reports completion has lost no tile between its channels: every one
\* is counted once, and those not counted as failed are in the archive
\* (main.go runZoom, writer).
RunAccounts ==
    complete =>
      /\ c.done = Cardinality(Wanted)
      /\ c.downloaded + c.skipped = Cardinality({t \in Wanted : Stored(t) \in archive})
      /\ c.notFound + c.errs = Cardinality({t \in Wanted : Stored(t) \notin archive})

\* A tile the archive holds is not asked for again, whatever ended the runs before
\* (main.go:2 "Resumes on interrupt by skipping tiles already present").
PresentIsNotFetched ==
    \A w \in Workers : work[w].st = "fetch" => Stored(work[w].job) \notin archive

\* However runs end and are resumed, the archive and the counts agree.
ArchiveAccounts == RunAccounts /\ PresentIsNotFetched

\* An interrupted run ends: no goroutine is left waiting on a channel another has
\* abandoned (main.go runZoom, worker).
InterruptEnds == cancelled ~> phase = "stopped"
=============================================================================
