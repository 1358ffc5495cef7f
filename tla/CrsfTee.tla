------------------------------ MODULE CrsfTee ------------------------------
(***************************************************************************)
(* The tee that forwards telemetry frames to TCP clients (internal/        *)
(* crsftee).  The reader of the serial link calls Forward; every client    *)
(* has a queue and a writer of its own, which may hang in a write for the  *)
(* two seconds of its deadline.  A frame is a number; buildFrame only adds *)
(* the length and the checksum that the serial link dropped.               *)
(***************************************************************************)
EXTENDS Integers, Sequences, FiniteSets

CONSTANTS Clients,    \* connections, each used once
          TeeDepth,   \* capacity of a client's queue
          Frames      \* telemetry frames in a behaviour

ASSUME TeeAssumption == TeeDepth \in Nat \ {0} /\ Frames \in Nat

VARIABLES accepting,  \* Run: "accept", "returned"
          serving,    \* the writer of each client: "out", "select", "write", "over"
          registered, \* Tee.clients
          closedTee,  \* Tee.closed
          backlog,    \* client.ch
          got,        \* the last frame each client received
          forwarded,  \* the frame of Forward
          targets,    \* the channels Forward has still to serve
          shutdown    \* the context is cancelled

teeVars == <<accepting, serving, registered, closedTee, backlog, got, forwarded, targets, shutdown>>

----------------------------------------------------------------------------
(* Forward, on the reader's goroutine.                                     *)

\* The clients are copied under the lock.
Forward ==
    /\ targets = {} /\ forwarded < Frames
    /\ forwarded' = forwarded + 1 /\ targets' = registered
    /\ UNCHANGED <<accepting, serving, registered, closedTee, backlog, got, shutdown>>

\* Mutant: Forward waits for a slow client.
Offer_Blocking(c) ==
    /\ c \in targets /\ Len(backlog[c]) < TeeDepth
    /\ targets' = targets \ {c} /\ backlog' = [backlog EXCEPT ![c] = Append(@, forwarded)]
    /\ UNCHANGED <<accepting, serving, registered, closedTee, got, forwarded, shutdown>>

\* A send that does not block: a client whose queue is full misses the frame.
\* The client may be gone by now.
Offer(c) ==
    /\ c \in targets /\ targets' = targets \ {c}
    /\ backlog' = IF Len(backlog[c]) < TeeDepth THEN [backlog EXCEPT ![c] = Append(@, forwarded)] ELSE backlog
    /\ UNCHANGED <<accepting, serving, registered, closedTee, got, forwarded, shutdown>>

----------------------------------------------------------------------------
(* Run and the writers.                                                    *)

\* Accept and handleClient.
HandleClient(c) ==
    /\ accepting = "accept" /\ serving[c] = "out"
    /\ IF closedTee THEN serving' = [serving EXCEPT ![c] = "over"] /\ UNCHANGED registered
       ELSE registered' = registered \cup {c} /\ serving' = [serving EXCEPT ![c] = "select"]
    /\ UNCHANGED <<accepting, closedTee, backlog, got, forwarded, targets, shutdown>>

Take(c) ==
    /\ serving[c] = "select" /\ backlog[c] # <<>> /\ serving' = [serving EXCEPT ![c] = "write"]
    /\ UNCHANGED <<accepting, registered, closedTee, backlog, got, forwarded, targets, shutdown>>

\* Write ends: with the frame on its way ...
Written(c) ==
    /\ serving[c] = "write" /\ serving' = [serving EXCEPT ![c] = "select"]
    /\ got' = [got EXCEPT ![c] = Head(backlog[c])] /\ backlog' = [backlog EXCEPT ![c] = Tail(@)]
    /\ UNCHANGED <<accepting, registered, closedTee, forwarded, targets, shutdown>>

\* ... or with an error, the deadline's at the latest.  The writer also leaves
\* once the context is cancelled.
Leave(c) ==
    /\ serving[c] = "write" \/ (serving[c] = "select" /\ shutdown)
    /\ serving' = [serving EXCEPT ![c] = "over"] /\ registered' = registered \ {c}
    /\ UNCHANGED <<accepting, closedTee, backlog, got, forwarded, targets, shutdown>>

Cancel ==
    /\ ~shutdown /\ shutdown' = TRUE
    /\ UNCHANGED <<accepting, serving, registered, closedTee, backlog, got, forwarded, targets>>

\* The closer: closed first, then the listener.
MarkClosed ==
    /\ shutdown /\ ~closedTee /\ closedTee' = TRUE
    /\ UNCHANGED <<accepting, serving, registered, backlog, got, forwarded, targets, shutdown>>

CloseListener ==
    /\ closedTee /\ accepting = "accept" /\ accepting' = "returned"
    /\ UNCHANGED <<serving, registered, closedTee, backlog, got, forwarded, targets, shutdown>>

----------------------------------------------------------------------------
TeeInit ==
    /\ accepting = "accept" /\ serving = [c \in Clients |-> "out"] /\ registered = {}
    /\ closedTee = FALSE /\ backlog = [c \in Clients |-> <<>>] /\ got = [c \in Clients |-> 0]
    /\ forwarded = 0 /\ targets = {} /\ shutdown = FALSE

Writer(c) == Take(c) \/ Written(c) \/ Leave(c)
Closer == MarkClosed \/ CloseListener

TeeNext ==
    \/ Forward \/ Cancel \/ Closer
    \/ \E c \in Clients : Offer(c) \/ HandleClient(c) \/ Writer(c)

\* Goroutines run; a write ends by its deadline.  Nothing makes a client read.
TeeFairness ==
    /\ WF_teeVars(Closer)
    /\ \A c \in Clients : WF_teeVars(Offer(c)) /\ WF_teeVars(Writer(c) /\ shutdown)

TeeSpec == TeeInit /\ [][TeeNext]_teeVars /\ TeeFairness

----------------------------------------------------------------------------
\* The reader of the serial link comes back from Forward even if no client
\* ever reads, and the tee that shuts down leaves no client behind: neither a
\* connection accepted meanwhile nor one whose writer hung.  crsftee.go.
ReaderIsNeverStalled ==
    /\ targets # {} ~> targets = {}
    /\ shutdown ~> [](registered = {})
=============================================================================
