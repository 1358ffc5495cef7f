------------------------------- MODULE IoHub -------------------------------
(***************************************************************************)
(* The client of the Mega I/O board (internal/iohub) and what uses it:     *)
(* the firehose, which scrolls the daemon's own log over the VFD           *)
(* (internal/vfd, internal/logbuf), and the other writers, the horizon     *)
(* (internal/glcd) and the VFD events (cmd/zerotxd/vfd_events.go).         *)
(*                                                                         *)
(* A log line is only counted: what matters is that a line shown may write *)
(* new lines, through a port that reopens, a command echoed to the log     *)
(* (-iohub-port=log) or a board that answers with an error.                *)
(***************************************************************************)
EXTENDS Integers, FiniteSetsExt

CONSTANTS LogLines,    \* capacity of the ring of log lines
          BoardLines   \* lines of the board that wait to be read

ASSUME HubAssumption == LogLines \in Nat \ {0} /\ BoardLines \in Nat \ {0}

VARIABLES address,   \* "serial" or "log": which client New chose
          glass,     \* the VFD answered at the board's start
          plugged,   \* the board is there
          port,      \* SerialClient.port: "none", "live", or "dead" since the board left
          reported,  \* SerialClient.logged: the failure to open is in the log
          reading,   \* the read goroutine: "idle", on the "current" port, on a "former" one
          unread,    \* log lines after the firehose's since
          row,       \* the next row of the line the firehose shows: 0, 1, or 2 when done
          replies    \* lines of the board that nobody has read

hubVars == <<address, glass, plugged, port, reported, reading, unread, row, replies>>

Logged(n) == unread' = Min({unread + n, LogLines})

----------------------------------------------------------------------------
(* SerialClient.                                                           *)

\* open: what it leaves behind when a port is missing.  A failure is logged
\* once until the next success.
Opened == [port |-> IF plugged THEN "live" ELSE "none", reported |-> ~plugged,
           lines |-> IF plugged \/ ~reported THEN 1 ELSE 0]

\* The board answers a command for a VFD that it could not start with an error.
Answered(commands) ==
    replies' = IF glass THEN replies ELSE Min({replies + commands, BoardLines})

\* Send on a port that works.
SentLive == port = "live" /\ Answered(1) /\ Logged(0) /\ UNCHANGED <<port, reported, reading>>

\* Send on a port that is missing, or fails and is closed: it is opened (once
\* more) and written to.  Whoever reads the failed port now reads a former one.
Reopened ==
    /\ port # "live"
    /\ port' = Opened.port /\ reported' = Opened.reported /\ Logged(Opened.lines)
    /\ reading' = IF reading = "current" THEN "former" ELSE reading
    /\ IF plugged THEN Answered(1) ELSE UNCHANGED replies

\* LogClient.Send.
Echoed == Logged(1) /\ UNCHANGED <<port, reported, reading, replies>>

Send == IF address = "log" THEN Echoed ELSE SentLive \/ Reopened

\* A handle that was opened before the board left is dead even when it is back.
Unplug == /\ plugged /\ plugged' = FALSE
          /\ port' = IF port = "live" THEN "dead" ELSE port
          /\ replies' = 0
          /\ UNCHANGED <<address, glass, reported, reading, unread, row>>

Plug == /\ ~plugged /\ plugged' = TRUE /\ glass' \in BOOLEAN
        /\ UNCHANGED <<address, port, reported, reading, unread, row, replies>>

----------------------------------------------------------------------------
(* Run, the read goroutine.                                                *)

Attach ==
    /\ address = "serial" /\ reading = "idle"
    /\ IF port # "none" THEN reading' = "current" /\ Logged(0) /\ UNCHANGED <<port, reported>>
       ELSE /\ port' = Opened.port /\ reported' = Opened.reported /\ Logged(Opened.lines)
            /\ reading' = IF plugged THEN "current" ELSE "idle"
    /\ UNCHANGED <<address, glass, plugged, row, replies>>

\* A line that is no blank one is logged, whichever kind it is of.
HandleLine ==
    /\ reading = "current" /\ port = "live" /\ replies > 0
    /\ replies' = replies - 1 /\ Logged(1)
    /\ UNCHANGED <<address, glass, plugged, port, reported, reading, row>>

\* The read failed.  What is closed is the port of now, whichever was read.
Dropped == "none"

LoseReader ==
    /\ reading = "former" \/ (reading = "current" /\ port # "live")
    /\ reading' = "idle" /\ port' = Dropped
    /\ \E worded \in 0..1 : Logged(worded)
    /\ UNCHANGED <<address, glass, plugged, reported, row, replies>>

----------------------------------------------------------------------------
(* The firehose and the other writers.                                     *)

ShowLine == /\ row = 2 /\ unread > 0 /\ row' = 0 /\ unread' = unread - 1
            /\ UNCHANGED <<address, glass, plugged, port, reported, reading, replies>>

\* WriteLines gives up when the first row could not be sent.
WriteRow ==
    /\ row < 2 /\ Send
    /\ row' = IF address = "serial" /\ port' # "live" THEN 2 ELSE row + 1
    /\ UNCHANGED <<address, glass, plugged>>

\* A push of the horizon on the graphic LCD, ten times a second.
PushHorizon == Send /\ UNCHANGED <<address, glass, plugged, row>>

\* An event of the VFD, when the arm state or a telemetry value changes.
EmitEvent == Send /\ UNCHANGED <<address, glass, plugged, row>>

\* Anything else in the daemon logs, the heartbeat of the board included.
OtherLine == Logged(1) /\ UNCHANGED <<address, glass, plugged, port, reported, reading, row, replies>>

HubInit ==
    /\ address \in {"serial", "log"} /\ glass \in BOOLEAN /\ plugged \in BOOLEAN
    /\ port = "none" /\ reported = FALSE /\ reading = "idle"
    /\ unread = 0 /\ row = 2 /\ replies = 0

Reader == Attach \/ HandleLine \/ LoseReader
Firehose == ShowLine \/ WriteRow

HubNext == Reader \/ Firehose \/ Plug \/ Unplug \/ PushHorizon \/ EmitEvent \/ OtherLine

\* Both goroutines run.
HubFairness == WF_hubVars(Reader) /\ WF_hubVars(LoseReader) /\ WF_hubVars(Firehose)

HubSpec == HubInit /\ [][HubNext]_hubVars /\ HubFairness

----------------------------------------------------------------------------
\* Once the board stays in, the port is open and read for good: the goroutine
\* that reads and the writers close and reopen it under each other a last time
\* (iohub.go:249 closes whatever port is current).
HubComesBack ==
    address = "serial" /\ <>[]plugged => <>[](port = "live" /\ reading = "current")

Comes == <>[][Reader \/ Firehose]_hubVars

\* When nobody else logs or writes, the firehose comes to rest: showing a line
\* does not make another one, whether the board is in or not, as long as the
\* VFD works.
FirehoseSettles ==
    address = "serial" /\ <>[]glass /\ Comes => <>[](unread = 0 /\ replies = 0)
=============================================================================
