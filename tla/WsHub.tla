------------------------------- MODULE WsHub -------------------------------
(***************************************************************************)
(* The WebSocket hub of the API (internal/api/stream.go) and the loop that *)
(* feeds it (internal/api/server.go broadcastLoop).  A client has a send   *)
(* buffer, a writer and a reader goroutine; the writer, the reader and the *)
(* closing broadcast loop may each remove it, in two steps: out of the     *)
(* map under the lock, then close of its closed channel and connection.    *)
(*                                                                         *)
(* The far end answers pings until it turns deaf (takes what it is sent,   *)
(* answers nothing), stuck (takes nothing) or gone (reads and writes fail);*)
(* a silence shorter than the read deadline of 60 s is none.               *)
(***************************************************************************)
EXTENDS Naturals, FiniteSets

CONSTANTS Tabs,     \* browsers; each connects once
          SendDepth \* capacity of a send buffer

ASSUME WsAssumption == SendDepth \in Nat \ {0}

VARIABLES peer,        \* state of the far end
          members,     \* hub.clients
          queued,      \* payloads in the send buffer
          writer,      \* "none", "idle", "writing", "leaving", "closing", "done"
          pump,        \* the same for the reader
          closes,      \* how often the closed channel has been closed
          offering,    \* clients of the running broadcast that are still to be offered
          closingTabs, \* clients closeAll has still to remove
          hanging,     \* the client closeAll has taken out of the map, as a set
          loop         \* "running", "closing", "returned"

wsVars == <<peer, members, queued, writer, pump, closes, offering, closingTabs, hanging, loop>>

\* The connection is closed with the channel.
Cut(t) == closes[t] > 0

----------------------------------------------------------------------------
\* handleStream and addClient.
AddClient(t) ==
    /\ peer[t] = "away" /\ peer' = [peer EXCEPT ![t] = "answers"]
    /\ members' = members \cup {t}
    /\ writer' = [writer EXCEPT ![t] = "idle"] /\ pump' = [pump EXCEPT ![t] = "idle"]
    /\ UNCHANGED <<queued, closes, offering, closingTabs, hanging, loop>>

PeerTurns(t) ==
    /\ peer[t] = "answers" /\ \E p \in {"deaf", "stuck", "gone"} : peer' = [peer EXCEPT ![t] = p]
    /\ UNCHANGED <<members, queued, writer, pump, closes, offering, closingTabs, hanging, loop>>

----------------------------------------------------------------------------
(* removeClient: by the writer, the reader or closeAll.                    *)

\* Mutant: membership is not looked at.
NextAfter_Unchecked(t, done) == "closing"

\* Who finds the client gone from the map returns.
NextAfter(t, done) == IF t \in members THEN "closing" ELSE done

Deregister(t) == members' = members \ {t}
Close(t) == closes' = [closes EXCEPT ![t] = @ + 1]

WriterLeaves(t) ==
    /\ writer[t] = "leaving" /\ Deregister(t)
    /\ writer' = [writer EXCEPT ![t] = NextAfter(t, "done")]
    /\ UNCHANGED <<peer, queued, pump, closes, offering, closingTabs, hanging, loop>>

WriterCloses(t) ==
    /\ writer[t] = "closing" /\ Close(t) /\ writer' = [writer EXCEPT ![t] = "done"]
    /\ UNCHANGED <<peer, members, queued, pump, offering, closingTabs, hanging, loop>>

ReaderLeaves(t) ==
    /\ pump[t] = "leaving" /\ Deregister(t)
    /\ pump' = [pump EXCEPT ![t] = NextAfter(t, "done")]
    /\ UNCHANGED <<peer, queued, writer, closes, offering, closingTabs, hanging, loop>>

ReaderCloses(t) ==
    /\ pump[t] = "closing" /\ Close(t) /\ pump' = [pump EXCEPT ![t] = "done"]
    /\ UNCHANGED <<peer, members, queued, writer, offering, closingTabs, hanging, loop>>

----------------------------------------------------------------------------
(* writePump.                                                              *)

\* A payload of the buffer, or a ping after 30 s.
StartWrite(t) ==
    /\ writer[t] = "idle" /\ writer' = [writer EXCEPT ![t] = "writing"]
    /\ \E n \in {0, 1} : n <= queued[t] /\ queued' = [queued EXCEPT ![t] = @ - n]
    /\ UNCHANGED <<peer, members, pump, closes, offering, closingTabs, hanging, loop>>

\* A write to a stuck peer ends with its deadline of 5 s.
EndWrite(t) ==
    /\ writer[t] = "writing"
    /\ writer' = [writer EXCEPT ![t] = IF Cut(t) \/ peer[t] \in {"stuck", "gone"} THEN "leaving" ELSE "idle"]
    /\ UNCHANGED <<peer, members, queued, pump, closes, offering, closingTabs, hanging, loop>>

SeeClosed(t) ==
    /\ writer[t] = "idle" /\ Cut(t) /\ writer' = [writer EXCEPT ![t] = "leaving"]
    /\ UNCHANGED <<peer, members, queued, pump, closes, offering, closingTabs, hanging, loop>>

(* readPump.                                                               *)

\* The connection is closed, or 60 s have gone by without a pong.
ReadFails(t) == Cut(t) \/ peer[t] # "answers"

EndRead(t) ==
    /\ pump[t] = "idle" /\ ReadFails(t) /\ pump' = [pump EXCEPT ![t] = "leaving"]
    /\ UNCHANGED <<peer, members, queued, writer, closes, offering, closingTabs, hanging, loop>>

----------------------------------------------------------------------------
(* broadcastLoop, every 100 ms.                                            *)

\* clientCount and broadcast's copy of the map.
BeginBroadcast ==
    /\ loop = "running" /\ offering = {} /\ members # {} /\ offering' = members
    /\ UNCHANGED <<peer, members, queued, writer, pump, closes, closingTabs, hanging, loop>>

\* A full buffer drops; a client removed meanwhile is offered all the same.
OfferTo(t) ==
    /\ t \in offering /\ offering' = offering \ {t}
    /\ queued' = [queued EXCEPT ![t] = IF @ < SendDepth THEN @ + 1 ELSE @]
    /\ UNCHANGED <<peer, members, writer, pump, closes, closingTabs, hanging, loop>>

\* ctx.Done: closeAll copies the map.
BeginClose ==
    /\ loop = "running" /\ offering = {} /\ loop' = "closing" /\ closingTabs' = members
    /\ UNCHANGED <<peer, members, queued, writer, pump, closes, offering, hanging>>

\* removeClient of the next one.
CloseNext(t) ==
    /\ t \in closingTabs /\ hanging = {} /\ closingTabs' = closingTabs \ {t}
    /\ hanging' = (IF NextAfter(t, "done") = "closing" THEN {t} ELSE {}) /\ Deregister(t)
    /\ UNCHANGED <<peer, queued, writer, pump, closes, offering, loop>>

HangUp(t) ==
    /\ t \in hanging /\ hanging' = {} /\ Close(t)
    /\ UNCHANGED <<peer, members, queued, writer, pump, offering, closingTabs, loop>>

EndLoop ==
    /\ loop = "closing" /\ closingTabs = {} /\ hanging = {} /\ loop' = "returned"
    /\ UNCHANGED <<peer, members, queued, writer, pump, closes, offering, closingTabs, hanging>>

WsInit ==
    /\ peer = [t \in Tabs |-> "away"] /\ members = {} /\ queued = [t \in Tabs |-> 0]
    /\ writer = [t \in Tabs |-> "none"] /\ pump = [t \in Tabs |-> "none"] /\ closes = [t \in Tabs |-> 0]
    /\ offering = {} /\ closingTabs = {} /\ hanging = {} /\ loop = "running"

PumpTurn(t) ==
    \/ WriterLeaves(t) \/ WriterCloses(t) \/ ReaderLeaves(t) \/ ReaderCloses(t)
    \/ EndWrite(t) \/ SeeClosed(t) \/ EndRead(t)

LoopStep == (\E t \in Tabs : OfferTo(t) \/ CloseNext(t) \/ HangUp(t)) \/ EndLoop

WsNext ==
    \/ \E t \in Tabs : AddClient(t) \/ PeerTurns(t) \/ PumpTurn(t) \/ StartWrite(t)
    \/ BeginBroadcast \/ BeginClose \/ LoopStep

\* Goroutines run; deadlines of reads and writes pass.
WsFairness ==
    /\ \A t \in Tabs : WF_wsVars(EndRead(t)) /\ WF_wsVars(ReaderLeaves(t)) /\ WF_wsVars(ReaderCloses(t))
                       /\ WF_wsVars(WriterLeaves(t)) /\ WF_wsVars(WriterCloses(t)) /\ WF_wsVars(EndWrite(t) \/ SeeClosed(t))
    /\ WF_wsVars(LoopStep)

WsSpec == WsInit /\ [][WsNext]_wsVars /\ WsFairness

----------------------------------------------------------------------------
\* Three goroutines may remove a client at once; its closed channel is closed
\* by one of them, a second close would end the daemon (stream.go removeClient,
\* "Safe to call multiple times").
ClosedOnce == \A t \in Tabs : closes[t] <= 1

\* A client whose peer has gone or fallen silent leaves the map and
\* both its goroutines end; whatever clients do, a broadcast comes to its end
\* (stream.go writePump, readPump, broadcast).
ClientsLeave ==
    /\ \A t \in Tabs : (peer[t] \notin {"away", "answers"}) ~> (t \notin members /\ writer[t] = "done" /\ pump[t] = "done")
    /\ (offering # {}) ~> (offering = {})
=============================================================================
