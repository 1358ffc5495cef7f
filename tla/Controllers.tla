---------------------------- MODULE Controllers ----------------------------
(***************************************************************************)
(* The joystick readers (internal/joystick) and the holder of the one in   *)
(* use (cmd/zerotxd/joystick_holder.go), with those who replace it: the    *)
(* requests of the API and the hot-plug callback of main, which runs on    *)
(* the goroutine that pumps the SDL events.                                *)
(*                                                                         *)
(* SDL finds a change when the pump polls it, one at a time, and knows a   *)
(* device by an instance that does not survive an unplug.  Axes, buttons   *)
(* and hats are data that no step here depends on.                         *)
(***************************************************************************)
EXTENDS Integers, FiniteSets

CONSTANTS Sticks,     \* the controllers, by their GUID
          Readers,    \* slots for Reader values
          MaxRequests \* requests of the API in a behaviour

\* Memory never runs out: with one Reader in use and one in the hands of a request
\* there is room for a third.
ASSUME ControllersAssumption ==
    /\ Readers \subseteq Nat \ {0} /\ \A r, q \in Readers \cup {0} : Readers \ {r, q} # {}
    /\ MaxRequests \in Nat

VARIABLES listed,      \* the controllers SDL lists
          stickEvent,  \* the event the pump has in hand
          reader,      \* the Reader values
          held,        \* joystickHolder.reader, 0 for nil
          flightArmed, \* joystickHolder.flightArmed
          returning,   \* the disconnected reader whose controller the callback found again
          selection,   \* the request of the API in progress
          requests,    \* how many requests there were
          missed       \* history: controllers whose last return came to nothing

stickVars == <<listed, stickEvent, reader, held, flightArmed, returning, selection, requests,
               missed>>

NoEvent == [kind |-> "none"]
NoSelection == [at |-> "none"]

\* A Reader: whether its handle is open, whether dispatchEvent reaches it, its
\* connected flag, and whether its instance is "here", "leaving" (the removal
\* is not dispatched yet) or "gone".
Free == [open |-> FALSE]
Opening(c) == [open |-> TRUE, stick |-> c, registered |-> FALSE, connected |-> TRUE, instance |-> "here"]
OpenedReader(c) == [Opening(c) EXCEPT !.registered = TRUE]

Unused == CHOOSE r \in Readers : ~reader[r].open
Connected(r) == r # 0 /\ reader[r].connected

----------------------------------------------------------------------------
(* SDL.                                                                    *)

PlugIn(c) ==
    /\ stickEvent = NoEvent /\ c \notin listed
    /\ listed' = listed \cup {c} /\ stickEvent' = [kind |-> "added", stick |-> c]
    /\ missed' = missed \ {c}
    /\ UNCHANGED <<reader, held, flightArmed, returning, selection, requests>>

PullOut(c) ==
    /\ stickEvent = NoEvent /\ c \in listed
    /\ listed' = listed \ {c} /\ stickEvent' = [kind |-> "removed", stick |-> c]
    /\ reader' = [r \in Readers |->
                    IF reader[r].open /\ reader[r].stick = c /\ reader[r].instance = "here"
                    THEN [reader[r] EXCEPT !.instance = "leaving"] ELSE reader[r]]
    /\ UNCHANGED <<held, flightArmed, returning, selection, requests, missed>>

----------------------------------------------------------------------------
(* The pump.                                                               *)

\* dispatchEvent of a removal: it reaches the readers registered by now.
Removed ==
    /\ stickEvent.kind = "removed" /\ stickEvent' = NoEvent
    /\ reader' = [r \in Readers |->
                    IF reader[r].open /\ reader[r].instance = "leaving"
                    THEN [reader[r] EXCEPT !.instance = "gone", !.connected = @ /\ ~reader[r].registered]
                    ELSE reader[r]]
    /\ UNCHANGED <<listed, held, flightArmed, returning, selection, requests, missed>>

\* The callback for an added device: it must be the controller of the reader
\* in use, and that reader disconnected.
Added ==
    /\ stickEvent.kind = "added" /\ returning = 0
    /\ IF held # 0 /\ ~Connected(held) /\ reader[held].stick = stickEvent.stick
       THEN returning' = held /\ UNCHANGED stickEvent
       ELSE stickEvent' = NoEvent /\ UNCHANGED returning
    /\ UNCHANGED <<listed, reader, held, flightArmed, selection, requests, missed>>

\* Mutant: the callback closes the reader it looked at, not the one it replaced.
Reattach_ClosesSeen ==
    /\ returning # 0 /\ returning' = 0 /\ stickEvent' = NoEvent
    /\ held' = Unused
    /\ reader' = [reader EXCEPT ![Unused] = OpenedReader(stickEvent.stick), ![returning] = Free]
    /\ UNCHANGED <<listed, flightArmed, selection, requests, missed>>

\* The callback opens the device, swaps the reader in, in flight too, and
\* closes the one it replaced.
Reattach ==
    /\ returning # 0 /\ returning' = 0 /\ stickEvent' = NoEvent
    /\ held' = Unused
    /\ reader' = [r \in Readers |-> IF r = Unused THEN OpenedReader(stickEvent.stick)
                                    ELSE IF r = held THEN Free ELSE reader[r]]
    /\ UNCHANGED <<listed, flightArmed, selection, requests, missed>>

\* SDL has no GUID for the index any more, or the device does not open: the
\* callback returns, and nothing tries again.
AddedInVain ==
    /\ stickEvent.kind = "added" /\ stickEvent' = NoEvent /\ returning' = 0
    /\ missed' = missed \cup {stickEvent.stick}
    /\ UNCHANGED <<listed, reader, held, flightArmed, selection, requests>>

----------------------------------------------------------------------------
(* The API.                                                                *)

\* SelectJoystick opens the device, if it is there and opens.
Select(c, emergency) ==
    /\ selection = NoSelection /\ requests < MaxRequests /\ requests' = requests + 1
    /\ \/ /\ c \in listed
          /\ selection' = [at |-> "opening", reader |-> Unused, emergency |-> emergency]
          /\ reader' = [reader EXCEPT ![Unused] = Opening(c)]
       \/ UNCHANGED <<selection, reader>>
    /\ UNCHANGED <<listed, stickEvent, held, flightArmed, returning, missed>>

\* Open's last step: registerReader.
Register ==
    /\ selection.at = "opening" /\ selection' = [selection EXCEPT !.at = "swap"]
    /\ reader' = [reader EXCEPT ![selection.reader] = [@ EXCEPT !.registered = TRUE]]
    /\ UNCHANGED <<listed, stickEvent, held, flightArmed, returning, requests, missed>>

\* Swap of the holder, and Close of whichever reader is not wanted any more.
SwapHeld ==
    /\ selection.at = "swap" /\ selection' = NoSelection
    /\ IF flightArmed /\ ~selection.emergency
       THEN reader' = [reader EXCEPT ![selection.reader] = Free] /\ UNCHANGED held
       ELSE /\ held' = selection.reader
            /\ reader' = [r \in Readers |-> IF r = held THEN Free ELSE reader[r]]
    /\ UNCHANGED <<listed, stickEvent, flightArmed, returning, requests, missed>>

\* ReleaseJoystick.
Release ==
    /\ selection = NoSelection /\ requests < MaxRequests /\ requests' = requests + 1
    /\ ~flightArmed /\ held # 0 /\ held' = 0 /\ reader' = [reader EXCEPT ![held] = Free]
    /\ UNCHANGED <<listed, stickEvent, flightArmed, returning, selection, missed>>

\* SetFlightArmed, from the drain of the arm machine's events.
SetFlightArmed ==
    /\ flightArmed' = ~flightArmed
    /\ UNCHANGED <<listed, stickEvent, reader, held, returning, selection, requests, missed>>

----------------------------------------------------------------------------
\* At the start main opens the controller it is told to, the first one, or none.
ControllersInit ==
    /\ listed \in SUBSET Sticks
    /\ \E first \in listed \cup {"none"} :
         LET one == CHOOSE r \in Readers : TRUE IN
         IF first = "none" THEN held = 0 /\ reader = [r \in Readers |-> Free]
         ELSE held = one /\ reader = [r \in Readers |-> IF r = one THEN OpenedReader(first) ELSE Free]
    /\ stickEvent = NoEvent /\ returning = 0 /\ selection = NoSelection /\ missed = {}
    /\ flightArmed = FALSE /\ requests = 0

PumpStep == Removed \/ Added \/ Reattach \/ AddedInVain

ControllersNext ==
    \/ \E c \in Sticks : PlugIn(c) \/ PullOut(c) \/ \E e \in BOOLEAN : Select(c, e)
    \/ PumpStep \/ Register \/ SwapHeld \/ Release \/ SetFlightArmed

\* The pump polls every 5 ms.
ControllersFairness == WF_stickVars(PumpStep)

ControllersSpec == ControllersInit /\ [][ControllersNext]_stickVars /\ ControllersFairness

----------------------------------------------------------------------------
\* Nobody reads a closed controller and none stays open unused: the reader in
\* the holder is open, and every other open one is in the hands of a request.
\* joystick_holder.go Swap with the Close calls of main.go, which pick the
\* reader to close while the other side may be swapping too.
ReadersAreAccounted ==
    /\ held # 0 => reader[held].open
    /\ \A r \in Readers : reader[r].open => r = held \/ (selection # NoSelection /\ selection.reader = r)

\* Unless the operator intervenes, a controller that was lost and stays plugged in
\* is in use again, in flight too (main.go, SetOnDeviceAdded), or its return came to
\* nothing: the callback of that very return got no GUID or could not open it, and
\* it stays lost until it is plugged in once more.
ControllerComesBack ==
    requests = 0 /\ held # 0 /\ ~Connected(held)
      ~> \/ requests > 0 \/ Connected(held)
         \/ held # 0 /\ (reader[held].stick \notin listed \/ reader[held].stick \in missed)
=============================================================================
