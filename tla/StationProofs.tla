----------------------------- MODULE StationProofs -----------------------------
(*****************************************************************************)
(* The parts of the ground station that share no variable, proved for every  *)
(* value of the constants: the hub of the browsers (WsHub), the network      *)
(* class (NetClass), the map tiles (MapTiles), the controllers               *)
(* (Controllers), the station's position (StationGps), the gate of the       *)
(* status page (Health), what claims to be alive (HeartbeatLed and           *)
(* Telemetry, together as in MCStation), the downloader of the map tiles     *)
(* (SatDownload) and the frames on the serial line (Framing).                *)
(*****************************************************************************)
EXTENDS MCStation, FiniteSetTheorems, SequenceTheorems, NaturalsInduction,
        WellFoundedInduction, TLAPS

-----------------------------------------------------------------------------
(* The hub of the browsers.                                                  *)

\* Who has taken t out of the map and is about to close it.
WriterHolds(t) == writer[t] = "closing"
ReaderHolds(t) == pump[t] = "closing"
LoopHolds(t)   == t \in hanging

Unheld(t) == ~WriterHolds(t) /\ ~ReaderHolds(t) /\ ~LoopHolds(t)

HeldByOne(t) ==
    /\ ~(WriterHolds(t) /\ ReaderHolds(t))
    /\ ~(WriterHolds(t) /\ LoopHolds(t))
    /\ ~(ReaderHolds(t) /\ LoopHolds(t))

\* The right to close t moves from the map to one holder, and from there to the
\* count.  ClosedOnce alone is not inductive: it does not say that a holder's
\* close is the first.
OnceFor(t) ==
    /\ closes[t] \in {0, 1}
    /\ HeldByOne(t)
    /\ ~Unheld(t) => t \notin members /\ closes[t] = 0
    /\ t \in members => closes[t] = 0 /\ peer[t] # "away"
    /\ peer[t] = "away" => closes[t] = 0 /\ Unheld(t)

Peers  == {"away", "answers", "deaf", "stuck", "gone"}
Phases == {"none", "idle", "writing", "leaving", "closing", "done"}

Shapes ==
    /\ members \subseteq Tabs /\ hanging \subseteq Tabs
    /\ peer \in [Tabs -> Peers] /\ closes \in [Tabs -> Nat]
    /\ writer \in [Tabs -> Phases] /\ pump \in [Tabs -> Phases]

OnceInv == Shapes /\ \A t \in Tabs : OnceFor(t)

LEMMA OnceInit == WsInit => OnceInv
  BY DEF WsInit, OnceInv, Shapes, Peers, Phases, OnceFor, HeldByOne, Unheld, WriterHolds, ReaderHolds, LoopHolds

\* Each step moves the right of one client, and leaves the others alone.
LEMMA OnceStep == OnceInv /\ [WsNext]_wsVars => OnceInv'
<1> SUFFICES ASSUME OnceInv, [WsNext]_wsVars PROVE OnceInv'
  OBVIOUS
<1> USE DEF OnceInv, Shapes, Peers, Phases, OnceFor, HeldByOne, Unheld, WriterHolds, ReaderHolds, LoopHolds
<1>1. ASSUME NEW t \in Tabs, AddClient(t) PROVE OnceInv'
  BY <1>1 DEF AddClient
<1>2. ASSUME NEW t \in Tabs, PeerTurns(t) PROVE OnceInv'
  BY <1>2 DEF PeerTurns
<1>3. ASSUME NEW t \in Tabs, WriterLeaves(t) PROVE OnceInv'
  BY <1>3 DEF WriterLeaves, Deregister, NextAfter
<1>4. ASSUME NEW t \in Tabs, WriterCloses(t) PROVE OnceInv'
  BY <1>4 DEF WriterCloses, Close
<1>5. ASSUME NEW t \in Tabs, ReaderLeaves(t) PROVE OnceInv'
  BY <1>5 DEF ReaderLeaves, Deregister, NextAfter
<1>6. ASSUME NEW t \in Tabs, ReaderCloses(t) PROVE OnceInv'
  BY <1>6 DEF ReaderCloses, Close
<1>7. ASSUME NEW t \in Tabs, StartWrite(t) \/ EndWrite(t) \/ SeeClosed(t) PROVE OnceInv'
  BY <1>7 DEF StartWrite, EndWrite, SeeClosed
<1>8. ASSUME NEW t \in Tabs, EndRead(t) PROVE OnceInv'
  BY <1>8 DEF EndRead
<1>9. ASSUME NEW t \in Tabs, CloseNext(t) PROVE OnceInv'
  BY <1>9 DEF CloseNext, Deregister, NextAfter
<1>10. ASSUME NEW t \in Tabs, HangUp(t) PROVE OnceInv'
  BY <1>10 DEF HangUp, Close
<1>11. ASSUME NEW t \in Tabs, OfferTo(t) PROVE OnceInv'
  BY <1>11 DEF OfferTo
<1>12. CASE BeginBroadcast \/ BeginClose \/ EndLoop
  BY <1>12 DEF BeginBroadcast, BeginClose, EndLoop
<1>13. CASE UNCHANGED wsVars
  BY <1>13 DEF wsVars
<1>14. QED
  BY <1>1, <1>2, <1>3, <1>4, <1>5, <1>6, <1>7, <1>8, <1>9, <1>10, <1>11, <1>12, <1>13
     DEF WsNext, PumpTurn, LoopStep

\* The writer, the reader and the closing loop may all find the same client: its
\* channel is closed once whatever their number and order (stream.go removeClient).
THEOREM RemovedOnce == WsSpec => []ClosedOnce
<1>1. OnceInv => ClosedOnce
  BY DEF OnceInv, OnceFor, ClosedOnce
<1>2. QED
  BY <1>1, OnceInit, OnceStep, PTL DEF WsSpec

-----------------------------------------------------------------------------
(* The network class.                                                        *)

PostsFrom(D) ==
    {NoPost} \cup [st : {"open", "rename"}, class : D]
             \cup [st : {"write"}, class : D, inode : 1..Len(inode)]

ClassShapes ==
    /\ inode \in Seq(declared \cup {Torn})
    /\ file \in 0..Len(inode) /\ temp \in 0..Len(inode)
    /\ classPost \in [ClassPosters -> PostsFrom(declared)]

ClassInv == ClassShapes /\ class \in declared \cup {"offline"}

LEMMA ClassInit == NetClassInit => ClassInv
  BY DEF NetClassInit, ClassInv, ClassShapes, PostsFrom

LEMMA ClassStep == ClassInv /\ [NetClassNext]_netclassVars => ClassInv'
<1> SUFFICES ASSUME ClassInv, [NetClassNext]_netclassVars PROVE ClassInv'
  OBVIOUS
<1> USE DEF ClassInv, ClassShapes, PostsFrom, NoPost
<1>1. ASSUME NEW p \in ClassPosters, NEW new \in Classes, SetClass(p, new) PROVE ClassInv'
  BY <1>1 DEF SetClass
<1>2. ASSUME NEW p \in ClassPosters, OpenTemp(p) PROVE ClassInv'
  <2>1. classPost[p] \in [st : {"open"}, class : declared]
    BY <1>2 DEF OpenTemp, netclassHistory
  <2>2. CASE temp = 0
    <3>1. inode' = Append(inode, Torn) /\ temp' = Len(inode) + 1
      BY <1>2, <2>2 DEF OpenTemp
    <3>2. inode' \in Seq(declared \cup {Torn}) /\ Len(inode') = Len(inode) + 1
      BY <3>1
    <3>3. classPost' = [classPost EXCEPT ![p] = [st |-> "write", class |-> classPost[p].class, inode |-> temp']]
      BY <1>2 DEF OpenTemp, netclassHistory
    <3>4. [st |-> "write", class |-> classPost[p].class, inode |-> temp'] \in [st : {"write"}, class : declared, inode : 1..Len(inode')]
      BY <2>1, <3>1, <3>2
    <3>5. classPost' \in [ClassPosters -> PostsFrom(declared)']
      <4>1. declared' = declared
        BY <1>2 DEF OpenTemp, netclassHistory
      <4>2. PostsFrom(declared) \subseteq PostsFrom(declared)'
        BY <3>2, <4>1
      <4>3. QED BY <3>3, <3>4, <4>1, <4>2
    <3>6. QED BY <1>2, <3>1, <3>2, <3>5 DEF OpenTemp, netclassHistory
  <2>3. CASE temp # 0
    <3>1. inode' = [inode EXCEPT ![temp] = Torn] /\ temp' = temp
      BY <1>2, <2>3 DEF OpenTemp
    <3>2. inode' \in Seq(declared \cup {Torn}) /\ Len(inode') = Len(inode)
      BY <3>1, <2>3
    <3>3. classPost' = [classPost EXCEPT ![p] = [st |-> "write", class |-> classPost[p].class, inode |-> temp']]
      BY <1>2 DEF OpenTemp, netclassHistory
    <3>4. [st |-> "write", class |-> classPost[p].class, inode |-> temp'] \in [st : {"write"}, class : declared, inode : 1..Len(inode')]
      BY <2>1, <2>3, <3>1, <3>2
    <3>5. classPost' \in [ClassPosters -> PostsFrom(declared)']
      <4>1. declared' = declared
        BY <1>2 DEF OpenTemp, netclassHistory
      <4>2. PostsFrom(declared) \subseteq PostsFrom(declared)'
        BY <3>2, <4>1
      <4>3. QED BY <3>3, <3>4, <4>1, <4>2
    <3>6. UNCHANGED <<class, declared, file>>
      BY <1>2 DEF OpenTemp, netclassHistory
    <3>7. QED BY <3>1, <3>2, <3>5, <3>6
  <2>4. QED BY <2>2, <2>3
<1>3. ASSUME NEW p \in ClassPosters, WriteTemp(p) PROVE ClassInv'
  BY <1>3 DEF WriteTemp, netclassHistory
<1>4. ASSUME NEW p \in ClassPosters, RenameTemp(p) PROVE ClassInv'
  BY <1>4 DEF RenameTemp
<1>5. ASSUME NEW p \in ClassPosters, FailPersist(p) PROVE ClassInv'
  BY <1>5 DEF FailPersist
<1>6. CASE RestartHolder
  BY <1>6 DEF RestartHolder, LoadedClass, netclassHistory
<1>7. CASE UNCHANGED netclassVars
  BY <1>7 DEF netclassVars, netclassHistory
<1>8. QED BY <1>1, <1>2, <1>3, <1>4, <1>5, <1>6, <1>7 DEF NetClassNext

\* The file after a write that nobody disturbed, and the temporary file during one.
LatestType ==
    /\ declared \subseteq Classes
    /\ lastPost \in [class : Classes, by : ClassPosters \cup {0}, answer : {"none", "ok", "failed"}]
Saved ==
    unsaved = {} =>
        /\ \A p \in ClassPosters : ~Persisting(p)
        /\ backed /\ class = lastPost.class
        /\ IF file = 0 THEN class = "offline" ELSE inode[file] = class
WrittenAlone(p) ==
    /\ \A q \in ClassPosters \ {p} : ~Persisting(q)
    /\ backed /\ class = lastPost.class /\ classPost[p].class = class
    /\ classPost[p].st = "write"  => temp # 0 /\ classPost[p].inode = temp /\ inode[temp] = Torn
    /\ classPost[p].st = "rename" => temp # 0 /\ inode[temp] = class
Pending == unsaved = {"pending"} => \A p \in ClassPosters : Persisting(p) => WrittenAlone(p)

SavedInv == ClassInv /\ LatestType /\ Saved /\ Pending

LEMMA SavedInit == NetClassInit => SavedInv
  BY ClassInit, NetClassAssumption
     DEF NetClassInit, SavedInv, LatestType, Saved, Pending, Persisting, NoPost

LEMMA AnsweredKeeps ==
    ASSUME LatestType, NEW p, NEW answer \in {"ok", "failed"}, AnswerPost(p, answer), declared' = declared
    PROVE  LatestType' /\ lastPost'.class = lastPost.class
  BY DEF LatestType, AnswerPost

LEMMA PostTypes ==
    ASSUME ClassInv, NEW p \in ClassPosters
    PROVE  /\ classPost[p] = NoPost \/ (classPost[p].st \in {"open", "write", "rename"} /\ classPost[p].class \in declared)
           /\ classPost[p].st = "write" => classPost[p].inode \in 1..Len(inode)
           /\ Persisting(p) <=> classPost[p].st # "none"
           /\ DOMAIN classPost = ClassPosters
           /\ inode \in Seq(declared \cup {Torn}) /\ file \in 0..Len(inode) /\ temp \in 0..Len(inode)
  BY DEF ClassInv, ClassShapes, PostsFrom, NoPost, Persisting

LEMMA SavedSet ==
    ASSUME SavedInv, NEW p \in ClassPosters, NEW new \in Classes, SetClass(p, new)
    PROVE  LatestType' /\ Saved' /\ Pending'
<1> USE DEF SavedInv
<1>1. LatestType'
  BY DEF LatestType, SetClass
<1>2. CASE new = class \/ ~backed
  <2>1. /\ lastPost' = [class |-> new, by |-> p, answer |-> "ok"] /\ class' = new
        /\ UNCHANGED <<classPost, unsaved, backed, inode, file, temp>>
    BY <1>2 DEF SetClass
  <2>2. Saved'
    BY <1>2, <2>1 DEF Saved, Persisting
  <2>3. Pending'
    BY <1>2, <2>1 DEF Pending, Persisting, WrittenAlone
  <2>4. QED BY <1>1, <2>2, <2>3
<1>3. CASE new # class /\ backed
  <2>1. /\ lastPost' = [class |-> new, by |-> p, answer |-> "none"] /\ class' = new
        /\ classPost' = [classPost EXCEPT ![p] = [st |-> "open", class |-> new]]
        /\ UNCHANGED <<backed, inode, file, temp>>
        /\ unsaved' = IF \E q \in ClassPosters : Persisting(q) THEN unsaved \cup {"overlap"} ELSE {"pending"}
    BY <1>3 DEF SetClass
  <2>2. unsaved' # {}
    BY <2>1
  <2>3. CASE \E q \in ClassPosters : Persisting(q)
    <3>1. "overlap" \in unsaved'
      BY <2>1, <2>3
    <3>2. QED BY <1>1, <2>2, <3>1 DEF Saved, Pending
  <2>4. CASE \A q \in ClassPosters : ~Persisting(q)
    <3>1. classPost'[p] = [st |-> "open", class |-> new] /\ \A q \in ClassPosters \ {p} : ~Persisting(q)'
      BY <2>1, <2>4, PostTypes DEF Persisting
    <3>2. WrittenAlone(p)'
      BY <1>3, <2>1, <3>1 DEF WrittenAlone
    <3>3. QED BY <1>1, <2>2, <3>1, <3>2 DEF Saved, Pending
  <2>5. QED BY <2>3, <2>4
<1>4. QED BY <1>2, <1>3

LEMMA SavedOpen ==
    ASSUME SavedInv, NEW p \in ClassPosters, OpenTemp(p)
    PROVE  LatestType' /\ Saved' /\ Pending'
<1> USE DEF SavedInv
<1>1. UNCHANGED <<class, backed, file, declared, lastPost, unsaved>> /\ Persisting(p)
  BY PostTypes DEF OpenTemp, netclassHistory
<1>2. LatestType' /\ Saved'
  BY <1>1 DEF LatestType, Saved
<1>3. ASSUME unsaved = {"pending"} PROVE WrittenAlone(p)' /\ \A q \in ClassPosters \ {p} : ~Persisting(q)'
  <2>1. WrittenAlone(p)
    BY <1>1, <1>3 DEF Pending
  <2>2. /\ classPost' = [classPost EXCEPT ![p] = [st |-> "write", class |-> classPost[p].class, inode |-> temp']]
        /\ temp' # 0 /\ inode'[temp'] = Torn
    BY PostTypes DEF OpenTemp
  <2>3. classPost'[p] = [st |-> "write", class |-> classPost[p].class, inode |-> temp']
    BY <2>2, PostTypes
  <2>4. \A q \in ClassPosters \ {p} : ~Persisting(q)'
    BY <2>1, <2>2, PostTypes DEF Persisting, WrittenAlone
  <2>5. QED BY <1>1, <2>1, <2>2, <2>3, <2>4 DEF WrittenAlone
<1>4. QED BY <1>1, <1>2, <1>3 DEF Pending

LEMMA SavedWrite ==
    ASSUME SavedInv, NEW p \in ClassPosters, WriteTemp(p)
    PROVE  LatestType' /\ Saved' /\ Pending'
<1> USE DEF SavedInv
<1>1. UNCHANGED <<class, backed, file, temp, declared, lastPost, unsaved>> /\ Persisting(p)
      /\ classPost[p].st = "write"
  BY PostTypes DEF WriteTemp, netclassHistory
<1>2. LatestType' /\ Saved'
  BY <1>1 DEF LatestType, Saved
<1>3. ASSUME unsaved = {"pending"} PROVE WrittenAlone(p)' /\ \A q \in ClassPosters \ {p} : ~Persisting(q)'
  <2>1. WrittenAlone(p)
    BY <1>1, <1>3 DEF Pending
  <2>2. inode' = [inode EXCEPT ![temp] = classPost[p].class] /\ temp \in 1..Len(inode)
    BY <1>1, <2>1, PostTypes DEF WriteTemp, WrittenAlone
  <2>3. inode'[temp] = class
    BY <2>1, <2>2, PostTypes DEF WrittenAlone
  <2>4. classPost' = [classPost EXCEPT ![p] = [st |-> "rename", class |-> classPost[p].class]]
    BY DEF WriteTemp
  <2>5. classPost'[p] = [st |-> "rename", class |-> classPost[p].class]
    BY <2>4, PostTypes
  <2>6. \A q \in ClassPosters \ {p} : ~Persisting(q)'
    BY <2>1, <2>4, PostTypes DEF Persisting, WrittenAlone
  <2>7. QED BY <1>1, <2>1, <2>3, <2>5, <2>6 DEF WrittenAlone
<1>4. QED BY <1>1, <1>2, <1>3 DEF Pending

LEMMA SavedRename ==
    ASSUME SavedInv, NEW p \in ClassPosters, RenameTemp(p)
    PROVE  LatestType' /\ Saved' /\ Pending'
<1> USE DEF SavedInv
<1>1. /\ UNCHANGED <<class, backed, inode, declared>> /\ Persisting(p)
      /\ classPost[p].st = "rename" /\ file' = temp /\ temp # 0
      /\ classPost' = [classPost EXCEPT ![p] = NoPost]
      /\ unsaved' = (IF unsaved = {"pending"} THEN {} ELSE unsaved)
  BY PostTypes DEF RenameTemp
<1>2. LatestType' /\ lastPost'.class = lastPost.class
  BY <1>1, AnsweredKeeps DEF RenameTemp
<1>3. unsaved # {}
  BY <1>1 DEF Saved
<1>4. CASE unsaved = {"pending"}
  <2>1. WrittenAlone(p)
    BY <1>1, <1>4 DEF Pending
  <2>2. \A q \in ClassPosters : ~Persisting(q)'
    BY <1>1, <2>1, PostTypes DEF Persisting, WrittenAlone
  <2>3. QED BY <1>1, <1>2, <1>4, <2>1, <2>2 DEF WrittenAlone, Saved, Pending
<1>5. CASE unsaved # {"pending"}
  BY <1>1, <1>2, <1>3, <1>5 DEF Saved, Pending
<1>6. QED BY <1>4, <1>5

LEMMA SavedStep == SavedInv /\ [NetClassNext]_netclassVars => SavedInv'
<1> SUFFICES ASSUME SavedInv, [NetClassNext]_netclassVars PROVE SavedInv'
  OBVIOUS
<1>1. ClassInv'
  BY ClassStep DEF SavedInv
<1>2. ASSUME LatestType' /\ Saved' /\ Pending' PROVE SavedInv'
  BY <1>1, <1>2 DEF SavedInv
<1>3. ASSUME NEW p \in ClassPosters, FailPersist(p) PROVE SavedInv'
  <2>1. "failed" \in unsaved'
    BY <1>3 DEF FailPersist
  <2>2. LatestType'
    BY <1>3, AnsweredKeeps DEF FailPersist, SavedInv
  <2>3. QED BY <1>2, <2>1, <2>2 DEF Saved, Pending
<1>4. CASE RestartHolder
  <2>1. /\ UNCHANGED <<inode, file, temp, declared, lastPost, unsaved>>
        /\ \A q \in ClassPosters : ~Persisting(q)'
        /\ class' = LoadedClass.class /\ backed' = LoadedClass.backed
    BY <1>4 DEF RestartHolder, netclassHistory, Persisting
  <2>2. LatestType' /\ Pending'
    BY <2>1 DEF SavedInv, LatestType, Pending
  <2>3. ASSUME unsaved = {}
        PROVE  class' = lastPost.class /\ backed' /\ IF file = 0 THEN class' = "offline" ELSE inode[file] = class'
    <3>1. class = lastPost.class /\ IF file = 0 THEN class = "offline" ELSE inode[file] = class
      BY <2>3 DEF SavedInv, Saved
    <3>2. class # Torn
      BY <3>1, NetClassAssumption DEF SavedInv, LatestType
    <3>3. QED BY <2>1, <3>1, <3>2 DEF LoadedClass
  <2>4. Saved'
    BY <2>1, <2>3 DEF Saved
  <2>5. QED BY <1>2, <2>2, <2>4
<1>5. CASE UNCHANGED netclassVars
  BY <1>2, <1>5
     DEF netclassVars, netclassHistory, SavedInv, LatestType, Saved, Pending, Persisting, WrittenAlone
<1>6. ASSUME NEW p \in ClassPosters, NEW new \in Classes, SetClass(p, new) PROVE SavedInv'
  BY <1>2, <1>6, SavedSet
<1>7. ASSUME NEW p \in ClassPosters, OpenTemp(p) \/ WriteTemp(p) \/ RenameTemp(p) PROVE SavedInv'
  BY <1>2, <1>7, SavedOpen, SavedWrite, SavedRename
<1>8. QED BY <1>3, <1>4, <1>5, <1>6, <1>7 DEF NetClassNext

\* netclass.go New, Set and persist, for every set of classes and every number of requests,
\* crashes and failed writes: a class that allows background fetching was declared, and is the
\* one declared last unless that one was never written, or written by two requests at a time.
THEOREM FetchingDeclared == NetClassSpec => []FetchingIsDeclared
<1>1. SavedInv => FetchingIsDeclared
  BY DEF SavedInv, ClassInv, Saved, FetchingIsDeclared, Background
<1>2. QED BY <1>1, SavedInit, SavedStep, PTL DEF NetClassSpec

-----------------------------------------------------------------------------
(* Map tiles.                                                                *)

TilesInv ==
    /\ warm = [t \in Warmed |-> warm[t]]
    /\ \A t \in Warmed : warm[t] = NoFile \/ warm[t] \in [picture : {t}, age : Nat]
    /\ ServedIsWhole

LEMMA TilesStart == TilesInit => TilesInv
  BY DEF TilesInit, TilesInv, ServedIsWhole

LEMMA TilesKeep == TilesInv /\ [TilesNext]_tilesVars => TilesInv'
<1> SUFFICES ASSUME TilesInv, [TilesNext]_tilesVars PROVE TilesInv'
  OBVIOUS
<1> USE TilesAssumption DEF TilesInv, ServedIsWhole, NoFile, NoTile
<1>1. CASE Day
  <2>1. warm' = [t \in Warmed |-> OlderTile(warm[t])] /\ served' = served
    BY <1>1 DEF Day
  <2>2. ASSUME NEW t \in Warmed PROVE OlderTile(warm[t]) = NoFile \/ OlderTile(warm[t]) \in [picture : {t}, age : Nat]
    BY DEF OlderTile
  <2>3. QED BY <2>1, <2>2
<1>2. CASE Skip \/ FetchedTile \/ FetchBreaks \/ PutFails
  BY <1>2 DEF Skip, FetchedTile, FetchBreaks, PutFails
<1>3. CASE PutSome
  BY <1>3 DEF PutSome, InPlace
<1>4. CASE PutAll
  <2>1. warm' = [warm EXCEPT ![put.tile] = [picture |-> put.tile, age |-> 0]] /\ served' = served
    BY <1>4 DEF PutAll
  <2>2. \A t \in Warmed : warm'[t] = warm[t] \/ warm'[t] = [picture |-> t, age |-> 0]
    BY <2>1
  <2>3. warm' = [t \in Warmed |-> warm'[t]]
    BY <2>1
  <2>4. QED BY <2>1, <2>2, <2>3
<1>5. CASE RestartWarmer
  BY <1>5 DEF RestartWarmer
<1>6. ASSUME NEW t \in Warmed \cup Beyond \cup Vector, Serve(t) PROVE TilesInv'
  <2>1. PICK p \in Pictures(t) :
           served' = [tile |-> t, from |-> Source(t), picture |-> p] /\ UNCHANGED warm
    BY <1>6 DEF Serve
  <2>2. p \in {t, "none"} \/ (p = "cut" /\ Source(t) = "online")
    BY DEF Pictures, Source, WarmHas, ProxyHas
  <2>3. QED BY <2>1, <2>2
<1>7. CASE UNCHANGED tilesVars
  BY <1>7 DEF tilesVars
<1>8. QED
  BY <1>1, <1>2, <1>3, <1>4, <1>5, <1>6, <1>7 DEF TilesNext, Warmer

\* maptiles.go handleTile over the warmed region (store.go Put), for every region and every
\* order of writes, crashes, broken bodies and requests: a tile that is served is the one that
\* was asked for, and whole unless it came through the online proxy.
THEOREM TilesAreWhole == TilesSpec => []ServedIsWhole
<1>1. TilesInv => ServedIsWhole
  BY DEF TilesInv
<1>2. QED BY <1>1, TilesStart, TilesKeep, PTL DEF TilesSpec

-----------------------------------------------------------------------------
(* Controllers.                                                              *)

OpenReaders == [open : {TRUE}, stick : Sticks, registered : BOOLEAN, connected : BOOLEAN,
                instance : {"here", "leaving", "gone"}]
Selections  == [at : {"opening", "swap"}, reader : Readers, emergency : BOOLEAN]

StickShapes ==
    /\ listed \subseteq Sticks
    /\ stickEvent \in {NoEvent} \cup [kind : {"added", "removed"}, stick : Sticks]
    /\ reader \in [Readers -> {Free} \cup OpenReaders]
    /\ held \in Readers \cup {0} /\ returning \in Readers \cup {0}
    /\ returning # 0 => stickEvent.kind = "added"
    /\ selection \in {NoSelection} \cup Selections

\* The reader a request has opened is its own until it is swapped in or closed.
RequestHolds ==
    selection # NoSelection => reader[selection.reader].open /\ selection.reader # held

StickInv == StickShapes /\ RequestHolds /\ ReadersAreAccounted

LEMMA UnusedFacts ==
  ASSUME StickInv
  PROVE  /\ Unused \in Readers /\ ~reader[Unused].open /\ Unused # held
         /\ selection # NoSelection => Unused # selection.reader
<1>1. PICK r \in Readers : r # held /\ (selection # NoSelection => r # selection.reader)
  <2>1. CASE selection = NoSelection
    <3>1. held \in Readers \cup {0}
      BY DEF StickInv, StickShapes
    <3>2. Readers \ {held, held} # {}
      BY <3>1, ControllersAssumption
    <3>3. QED BY <2>1, <3>2
  <2>2. CASE selection # NoSelection
    <3>1. selection.reader \in Readers /\ held \in Readers \cup {0}
      BY <2>2 DEF StickInv, StickShapes, Selections
    <3>2. Readers \ {selection.reader, held} # {}
      BY <3>1, ControllersAssumption
    <3>3. QED BY <3>2
  <2>3. QED BY <2>1, <2>2
<1>2. ~reader[r].open
  BY <1>1 DEF StickInv, ReadersAreAccounted
<1>3. Unused \in Readers /\ ~reader[Unused].open
  BY <1>2 DEF Unused
<1>4. Unused # 0
  BY <1>3, ControllersAssumption
<1>5. QED BY <1>3, <1>4 DEF StickInv, ReadersAreAccounted, RequestHolds

LEMMA SticksStart == ControllersInit => StickInv
<1> SUFFICES ASSUME ControllersInit PROVE StickInv
  OBVIOUS
<1> DEFINE one == CHOOSE r \in Readers : TRUE
<1>1. one \in Readers /\ one # 0
  BY ControllersAssumption
<1> HIDE DEF one
<1>2. PICK first \in listed \cup {"none"} :
        IF first = "none" THEN held = 0 /\ reader = [r \in Readers |-> Free]
        ELSE held = one /\ reader = [r \in Readers |-> IF r = one THEN OpenedReader(first) ELSE Free]
  BY DEF ControllersInit, one
<1>3. listed \subseteq Sticks /\ stickEvent = NoEvent /\ returning = 0 /\ selection = NoSelection
  BY DEF ControllersInit
<1>4. ~Free.open
  BY DEF Free
<1>5. CASE first = "none"
  BY <1>2, <1>3, <1>4, <1>5 DEF StickInv, StickShapes, RequestHolds, ReadersAreAccounted
<1>6. CASE first # "none"
  <2>1. OpenedReader(first) \in OpenReaders /\ OpenedReader(first).open
    BY <1>2, <1>3, <1>6 DEF OpenedReader, Opening, OpenReaders
  <2>2. held = one /\ reader = [r \in Readers |-> IF r = one THEN OpenedReader(first) ELSE Free]
    BY <1>2, <1>6
  <2>3. QED BY <1>1, <1>3, <1>4, <2>1, <2>2 DEF StickInv, StickShapes, RequestHolds, ReadersAreAccounted
<1>7. QED BY <1>5, <1>6

LEMMA SticksKeep == StickInv /\ [ControllersNext]_stickVars => StickInv'
<1> SUFFICES ASSUME StickInv, [ControllersNext]_stickVars PROVE StickInv'
  OBVIOUS
<1>f. ~Free.open /\ NoEvent.kind = "none" /\ NoSelection.at = "none"
  BY DEF Free, NoEvent, NoSelection
<1>r. \A q \in OpenReaders : q.open
  BY DEF OpenReaders
<1>1. ASSUME NEW s \in Sticks, PlugIn(s) PROVE StickInv'
  BY <1>1 DEF PlugIn, StickInv, StickShapes, RequestHolds, ReadersAreAccounted, NoEvent
<1>2. ASSUME NEW s \in Sticks, PullOut(s) PROVE StickInv'
  <2>1. reader' = [r \in Readers |->
                    IF reader[r].open /\ reader[r].stick = s /\ reader[r].instance = "here"
                    THEN [reader[r] EXCEPT !.instance = "leaving"] ELSE reader[r]]
    BY <1>2 DEF PullOut
  <2>2. ASSUME NEW r \in Readers PROVE reader'[r] \in {Free} \cup OpenReaders /\ (reader'[r].open <=> reader[r].open)
    <3>1. reader[r] \in {Free} \cup OpenReaders
      BY DEF StickInv, StickShapes
    <3>2. CASE reader[r] \in OpenReaders
      BY <2>1, <3>2 DEF OpenReaders
    <3>3. CASE reader[r] = Free
      BY <1>f, <2>1, <3>3
    <3>4. QED BY <3>1, <3>2, <3>3
  <2>3. StickShapes'
    BY <1>2, <2>1, <2>2 DEF PullOut, StickInv, StickShapes, NoEvent
  <2>4. QED BY <1>2, <2>2, <2>3 DEF PullOut, StickInv, StickShapes, RequestHolds, ReadersAreAccounted, Selections
<1>3. CASE Removed
  <2>1. reader' = [r \in Readers |->
                    IF reader[r].open /\ reader[r].instance = "leaving"
                    THEN [reader[r] EXCEPT !.instance = "gone", !.connected = @ /\ ~reader[r].registered]
                    ELSE reader[r]]
    BY <1>3 DEF Removed
  <2>2. ASSUME NEW r \in Readers PROVE reader'[r] \in {Free} \cup OpenReaders /\ (reader'[r].open <=> reader[r].open)
    <3>1. reader[r] \in {Free} \cup OpenReaders
      BY DEF StickInv, StickShapes
    <3>2. CASE reader[r] \in OpenReaders
      BY <2>1, <3>2 DEF OpenReaders
    <3>3. CASE reader[r] = Free
      BY <1>f, <2>1, <3>3
    <3>4. QED BY <3>1, <3>2, <3>3
  <2>3. returning' = 0
    BY <1>3, <1>f DEF Removed, StickInv, StickShapes
  <2>4. QED BY <1>3, <2>1, <2>2, <2>3 DEF Removed, StickInv, StickShapes, RequestHolds, ReadersAreAccounted, Selections
<1>4. CASE Added
  BY <1>4, <1>f DEF Added, StickInv, StickShapes, RequestHolds, ReadersAreAccounted
<1>5. CASE Reattach
  <2>1. stickEvent.stick \in Sticks /\ OpenedReader(stickEvent.stick) \in OpenReaders
    <3>1. stickEvent.kind = "added"
      BY <1>5 DEF Reattach, StickInv, StickShapes
    <3>2. stickEvent.stick \in Sticks
      BY <1>f, <3>1 DEF StickInv, StickShapes
    <3>3. QED BY <3>2 DEF OpenedReader, Opening, OpenReaders
  <2>2. PICK u \in Readers : u = Unused /\ u # held /\ (selection # NoSelection => u # selection.reader)
    BY UnusedFacts
  <2>3. /\ reader' = [r \in Readers |-> IF r = u THEN OpenedReader(stickEvent.stick)
                                        ELSE IF r = held THEN Free ELSE reader[r]]
        /\ held' = u /\ returning' = 0 /\ stickEvent' = NoEvent /\ UNCHANGED <<listed, selection>>
    BY <1>5, <2>2 DEF Reattach
  <2>4. StickShapes'
    BY <2>1, <2>3 DEF StickInv, StickShapes
  <2>5. RequestHolds'
    BY <2>2, <2>3 DEF StickInv, StickShapes, RequestHolds, Selections
  <2>6. ReadersAreAccounted'
    BY <1>f, <1>r, <2>1, <2>2, <2>3 DEF StickInv, ReadersAreAccounted
  <2>7. QED BY <2>4, <2>5, <2>6 DEF StickInv
<1>6. ASSUME NEW s \in Sticks, NEW e \in BOOLEAN, Select(s, e) PROVE StickInv'
  <2>1. CASE UNCHANGED <<selection, reader>>
    BY <1>6, <2>1 DEF Select, StickInv, StickShapes, RequestHolds, ReadersAreAccounted
  <2>2. CASE ~UNCHANGED <<selection, reader>>
    <3>1. PICK u \in Readers : u = Unused /\ u # held
      BY UnusedFacts
    <3>2. /\ selection = NoSelection
          /\ selection' = [at |-> "opening", reader |-> u, emergency |-> e]
          /\ reader' = [reader EXCEPT ![u] = Opening(s)] /\ UNCHANGED <<listed, stickEvent, held, returning>>
      BY <1>6, <2>2, <3>1 DEF Select
    <3>3. Opening(s) \in OpenReaders /\ Opening(s).open
      BY DEF Opening, OpenReaders
    <3>4. selection' \in Selections /\ selection' # NoSelection /\ selection'.reader = u
      BY <1>f, <3>2 DEF Selections
    <3>5. StickShapes'
      BY <3>2, <3>3, <3>4 DEF StickInv, StickShapes
    <3>6. reader'[u].open /\ \A r \in Readers \ {u} : reader'[r] = reader[r]
      BY <3>2, <3>3 DEF StickInv, StickShapes
    <3>7. RequestHolds' /\ ReadersAreAccounted'
      BY <3>1, <3>2, <3>4, <3>6 DEF StickInv, StickShapes, RequestHolds, ReadersAreAccounted
    <3>8. QED BY <3>5, <3>7 DEF StickInv
  <2>3. QED BY <2>1, <2>2
<1>7. CASE Register
  <2>1. selection \in Selections /\ selection.reader \in Readers
    BY <1>7, <1>f DEF Register, StickInv, StickShapes, Selections
  <2>2. PICK own \in Readers : own = selection.reader /\ reader[own] \in OpenReaders
    BY <1>f, <2>1 DEF StickInv, StickShapes, RequestHolds, Selections, NoSelection
  <2>3. reader' = [reader EXCEPT ![own] = [reader[own] EXCEPT !.registered = TRUE]]
    BY <1>7, <2>2 DEF Register
  <2>4. [reader[own] EXCEPT !.registered = TRUE] \in OpenReaders
    BY <2>2 DEF OpenReaders
  <2>5. \A r \in Readers : reader'[r].open <=> reader[r].open
    BY <1>r, <2>2, <2>3, <2>4 DEF StickInv, StickShapes
  <2>6. selection' = [selection EXCEPT !.at = "swap"] /\ UNCHANGED <<listed, stickEvent, held, returning>>
    BY <1>7 DEF Register
  <2>7. selection' \in Selections /\ selection'.reader = selection.reader
    BY <2>1, <2>6 DEF Selections
  <2>8. selection # NoSelection /\ selection' # NoSelection
    BY <1>f, <2>1, <2>7 DEF Selections
  <2>9. StickShapes'
    BY <2>3, <2>4, <2>6, <2>7 DEF StickInv, StickShapes
  <2>10. QED BY <2>5, <2>6, <2>7, <2>8, <2>9, <2>1 DEF StickInv, StickShapes, RequestHolds, ReadersAreAccounted
<1>8. CASE SwapHeld
  <2>1. selection \in Selections /\ selection.reader \in Readers
    BY <1>8, <1>f DEF SwapHeld, StickInv, StickShapes, Selections
  <2>2. selection # NoSelection /\ reader[selection.reader].open /\ selection.reader # held
    BY <1>8, <1>f DEF SwapHeld, StickInv, RequestHolds
  <2>3. selection' = NoSelection /\ UNCHANGED <<listed, stickEvent, returning>>
    BY <1>8 DEF SwapHeld
  <2>4. CASE flightArmed /\ ~selection.emergency
    <3>1. reader' = [reader EXCEPT ![selection.reader] = Free] /\ held' = held
      BY <1>8, <2>4 DEF SwapHeld
    <3>2. StickShapes'
      BY <2>3, <3>1 DEF StickInv, StickShapes
    <3>3. RequestHolds'
      BY <2>3 DEF RequestHolds
    <3>4. ReadersAreAccounted'
      BY <1>f, <2>1, <2>2, <3>1 DEF StickInv, StickShapes, ReadersAreAccounted
    <3>5. QED BY <3>2, <3>3, <3>4 DEF StickInv
  <2>5. CASE ~(flightArmed /\ ~selection.emergency)
    <3>1. reader' = [r \in Readers |-> IF r = held THEN Free ELSE reader[r]] /\ held' = selection.reader
      BY <1>8, <2>5 DEF SwapHeld
    <3>2. StickShapes'
      BY <2>1, <2>3, <3>1 DEF StickInv, StickShapes
    <3>3. RequestHolds'
      BY <2>3 DEF RequestHolds
    <3>4. ReadersAreAccounted'
      BY <1>f, <2>1, <2>2, <3>1 DEF StickInv, StickShapes, ReadersAreAccounted
    <3>5. QED BY <3>2, <3>3, <3>4 DEF StickInv
  <2>6. QED BY <2>4, <2>5
<1>9. CASE Release
  <2>1. /\ held \in Readers /\ selection = NoSelection /\ held' = 0 /\ reader' = [reader EXCEPT ![held] = Free]
        /\ UNCHANGED <<listed, stickEvent, returning, selection>>
    BY <1>9 DEF Release, StickInv, StickShapes
  <2>2. StickShapes'
    BY <2>1 DEF StickInv, StickShapes
  <2>3. QED BY <1>f, <2>1, <2>2 DEF StickInv, StickShapes, RequestHolds, ReadersAreAccounted
<1>10. CASE SetFlightArmed
  BY <1>10 DEF SetFlightArmed, StickInv, StickShapes, RequestHolds, ReadersAreAccounted
<1>11. CASE UNCHANGED stickVars
  BY <1>11 DEF stickVars, StickInv, StickShapes, RequestHolds, ReadersAreAccounted
<1>12. CASE AddedInVain
  BY <1>12, <1>f DEF AddedInVain, StickInv, StickShapes, RequestHolds, ReadersAreAccounted
<1>13. QED
  BY <1>1, <1>2, <1>3, <1>4, <1>5, <1>6, <1>7, <1>8, <1>9, <1>10, <1>11, <1>12
     DEF ControllersNext, PumpStep

\* joystick_holder.go Swap and the callers that open and close readers (main.go): the reader in
\* use is open, and every other open one is in the hands of a request, for every set of sticks.
THEOREM ReadersAccounted == ControllersSpec => []ReadersAreAccounted
<1>1. StickInv => ReadersAreAccounted
  BY DEF StickInv
<1>2. QED BY <1>1, SticksStart, SticksKeep, PTL DEF ControllersSpec

-----------------------------------------------------------------------------
(* The station's position.                                                   *)

LEMMA DigitFacts ==
  ASSUME NEW n \in Nat
  PROVE  LET digits == 100 * (n \div 60) + (n % 60)
         IN 60 * (digits \div 100) + (digits % 100) = n
<1> DEFINE d == n \div 60
           m == n % 60
<1>1. d \in Nat
  OBVIOUS
<1>2. m \in 0..59
  OBVIOUS
<1>3. n = 60 * d + m
  OBVIOUS
<1> HIDE DEF d, m
<1>4. (100 * d + m) \div 100 = d
  BY <1>1, <1>2
<1>5. (100 * d + m) % 100 = m
  BY <1>1, <1>2
<1>6. 60 * ((100 * d + m) \div 100) + ((100 * d + m) % 100) = n
  BY <1>1, <1>2, <1>3, <1>4, <1>5
<1>7. QED BY <1>6 DEF d, m

\* What is written of a coordinate is read back.
LEMMA CoordinateFacts ==
  ASSUME NEW v \in Int, NEW positive \in {"N", "E"}, NEW negative \in {"S", "W"}
  PROVE  parseLatLon(Coordinate(v, positive, negative)) = v
<1>1. PICK n \in Nat : n = Size(v) /\ v = IF v < 0 THEN -n ELSE n
  BY DEF Size
<1>2. PICK digits : digits = 100 * (n \div 60) + (n % 60)
  OBVIOUS
<1>3. 60 * (digits \div 100) + (digits % 100) = n
  BY <1>2, DigitFacts
<1>4. Coordinate(v, positive, negative) = [digits |-> digits, hemi |-> IF v < 0 THEN negative ELSE positive]
  BY <1>1, <1>2 DEF Coordinate
<1>5. QED BY <1>1, <1>3, <1>4 DEF parseLatLon

LEMMA YearFacts ==
  ASSUME NEW y \in Years
  PROVE  parseRMCTime(y % 100) = y /\ (CHOOSE z \in Years : z % 100 = y % 100) = y
<1>1. \A z \in Years : z \in 1980..2079
  BY GpsAssumption
<1>2. \A z \in Years : z % 100 = y % 100 => z = y
  BY <1>1
<1>3. parseRMCTime(y % 100) = y
  BY <1>1 DEF parseRMCTime
<1>4. (CHOOSE z \in Years : z % 100 = y % 100) = y
  BY <1>2
<1>5. QED BY <1>3, <1>4

Positions == {NoPosition} \cup {Coordinates(s) : s \in Stands}

GgaLines == {[id |-> "GGA", quality |-> q, sats |-> n, lat |-> p.lat, lon |-> p.lon, at |-> p.at] :
               q \in {0, 1}, n \in Int, p \in Positions}
RmcLines == {[id |-> "RMC", yy |-> y, lat |-> p.lat, lon |-> p.lon, at |-> p.at] :
               y \in {z % 100 : z \in Years} \cup {Empty}, p \in Positions}

GpsShapes ==
    /\ place \in Stands /\ sats \in Nat
    /\ heard.place \in Stands \cup {NoCoords}
    /\ sentence \in {NoLine, Garbage} \cup GgaLines \cup RmcLines
    /\ state \in [fix : {"none", "2D", "3D"}, sats : Int, place : Stands \cup {NoCoords}, year : Int]

GpsInv == GpsShapes /\ StationIsTrue

LEMMA PositionFacts ==
  ASSUME NEW p \in Positions
  PROVE  \/ p.at = NoCoords /\ p.lat = NoCoords
         \/ /\ p.at \in Stands /\ p.at # NoCoords /\ p.lat # NoCoords
            /\ <<parseLatLon(p.lat), parseLatLon(p.lon)>> = p.at
<1>1. CASE p = NoPosition
  BY <1>1 DEF NoPosition
<1>2. ASSUME NEW s \in Stands, p = Coordinates(s)
      PROVE  /\ p.at \in Stands /\ p.at # NoCoords /\ p.lat # NoCoords
             /\ <<parseLatLon(p.lat), parseLatLon(p.lon)>> = p.at
  <2>1. s \in Int \X Int /\ s = <<s[1], s[2]>> /\ s[1] \in Int /\ s[2] \in Int
    BY GpsAssumption
  <2>2. p.lat = Coordinate(s[1], "N", "S") /\ p.lon = Coordinate(s[2], "E", "W") /\ p.at = s
    BY <1>2 DEF Coordinates
  <2>3. parseLatLon(p.lat) = s[1] /\ parseLatLon(p.lon) = s[2]
    BY <2>1, <2>2, CoordinateFacts
  <2>4. s # NoCoords
    BY <2>1 DEF NoCoords
  <2>5. p.lat # NoCoords
    BY <2>2 DEF Coordinate, NoCoords
  <2>6. QED BY <2>1, <2>2, <2>3, <2>4, <2>5
<1>3. QED BY <1>1, <1>2 DEF Positions

LEMMA MovedFacts ==
  ASSUME NEW p \in Positions, NEW l, l.lat = p.lat, l.lon = p.lon, l.at = p.at,
         NEW s \in [fix : {"none", "2D", "3D"}, sats : Int, place : Stands \cup {NoCoords}, year : Int]
  PROVE  Moved(s, l) = [s EXCEPT !.place = IF l.at = NoCoords THEN s.place ELSE l.at]
  BY PositionFacts DEF Moved

LEMMA AppliedFacts ==
  ASSUME GpsInv, sentence # NoLine,
         heard' = [place |-> IF sentence.id \in {"GGA", "RMC"} /\ sentence.at # NoCoords THEN sentence.at ELSE heard.place,
                   year |-> IF sentence.id = "RMC" /\ sentence.yy # Empty
                            THEN CHOOSE y \in Years : y % 100 = sentence.yy ELSE heard.year],
         state' = Applied(state, sentence)
  PROVE  /\ state' \in [fix : {"none", "2D", "3D"}, sats : Int, place : Stands \cup {NoCoords}, year : Int]
         /\ heard'.place \in Stands \cup {NoCoords}
         /\ StationIsTrue'
<1> DEFINE States == [fix : {"none", "2D", "3D"}, sats : Int, place : Stands \cup {NoCoords}, year : Int]
<1>s. state \in States /\ heard.place \in Stands \cup {NoCoords} /\ state.place = heard.place /\ state.year = heard.year
  BY DEF GpsInv, GpsShapes, StationIsTrue
<1>1. CASE sentence = Garbage
  <2>1. sentence.id = "garbage" /\ Applied(state, sentence) = state
    BY <1>1 DEF Garbage, Applied
  <2>2. heard'.place = heard.place /\ heard'.year = heard.year
    BY <2>1
  <2>3. QED BY <1>s, <2>1, <2>2 DEF StationIsTrue
<1>2. ASSUME NEW q \in {0, 1}, NEW n \in Int, NEW p \in Positions,
             sentence = [id |-> "GGA", quality |-> q, sats |-> n, lat |-> p.lat, lon |-> p.lon, at |-> p.at]
      PROVE  state' \in States /\ heard'.place \in Stands \cup {NoCoords} /\ StationIsTrue'
  <2>1. PICK s \in States : s.place = state.place /\ s.year = state.year /\ applyGGA(state, sentence) = Moved(s, sentence)
    <3> DEFINE fix == IF q <= 0 THEN "none" ELSE IF n \in 0..3 THEN "2D" ELSE "3D"
               t == [state EXCEPT !.fix = fix, !.sats = IF n = Empty THEN state.sats ELSE n]
    <3>1. applyGGA(state, sentence) = Moved(t, sentence)
      BY <1>2 DEF applyGGA, Empty
    <3>2. t \in States /\ t.place = state.place /\ t.year = state.year
      BY <1>s
    <3> HIDE DEF t
    <3>3. QED BY <3>1, <3>2
  <2>2. Moved(s, sentence) = [s EXCEPT !.place = IF sentence.at = NoCoords THEN s.place ELSE sentence.at]
    BY <1>2, MovedFacts
  <2>3. state' = Moved(s, sentence)
    BY <1>2, <2>1 DEF Applied
  <2>4. heard'.place = (IF sentence.at # NoCoords THEN sentence.at ELSE heard.place) /\ heard'.year = heard.year
    BY <1>2
  <2>5. sentence.at \in Stands \cup {NoCoords}
    BY <1>2, PositionFacts
  <2>6. QED BY <1>s, <2>1, <2>2, <2>3, <2>4, <2>5 DEF StationIsTrue
<1>3. ASSUME NEW yy \in {z % 100 : z \in Years} \cup {Empty}, NEW p \in Positions,
             sentence = [id |-> "RMC", yy |-> yy, lat |-> p.lat, lon |-> p.lon, at |-> p.at]
      PROVE  state' \in States /\ heard'.place \in Stands \cup {NoCoords} /\ StationIsTrue'
  <2>1. PICK year \in Int : /\ year = IF yy = Empty THEN state.year ELSE parseRMCTime(yy)
                            /\ year = IF yy = Empty THEN heard.year ELSE CHOOSE y \in Years : y % 100 = yy
    <3>1. CASE yy = Empty
      BY <1>s, <3>1
    <3>2. ASSUME NEW z \in Years, yy = z % 100, yy # Empty
          PROVE  parseRMCTime(yy) \in Int /\ parseRMCTime(yy) = CHOOSE y \in Years : y % 100 = yy
      BY <3>2, YearFacts, GpsAssumption
    <3>3. QED BY <3>1, <3>2
  <2> DEFINE s == [state EXCEPT !.year = year]
  <2>2. s \in States /\ s.place = state.place /\ s.year = year
    BY <1>s, <2>1
  <2>3. applyRMC(state, sentence) = Moved(s, sentence)
    <3>1. s = IF yy = Empty THEN state ELSE [state EXCEPT !.year = parseRMCTime(yy)]
      BY <1>s, <2>1
    <3>2. QED BY <1>3, <3>1 DEF applyRMC
  <2> HIDE DEF s
  <2>4. Moved(s, sentence) = [s EXCEPT !.place = IF sentence.at = NoCoords THEN s.place ELSE sentence.at]
    BY <1>3, <2>2, MovedFacts
  <2>5. state' = Moved(s, sentence)
    BY <1>3, <2>3 DEF Applied
  <2>6. heard'.place = (IF sentence.at # NoCoords THEN sentence.at ELSE heard.place) /\ heard'.year = year
    BY <1>3, <2>1
  <2>7. sentence.at \in Stands \cup {NoCoords}
    BY <1>3, PositionFacts
  <2>8. QED BY <1>s, <2>2, <2>4, <2>5, <2>6, <2>7 DEF StationIsTrue
<1>4. QED BY <1>1, <1>2, <1>3 DEF GpsInv, GpsShapes, GgaLines, RmcLines

LEMMA GpsStarts == GpsInit => GpsInv
  BY DEF GpsInit, GpsInv, GpsShapes, StationIsTrue

LEMMA GpsKeeps == GpsInv /\ [GpsNext]_gpsVars => GpsInv'
<1> SUFFICES ASSUME GpsInv, [GpsNext]_gpsVars PROVE GpsInv'
  OBVIOUS
<1> USE DEF GpsInv
<1>1. CASE SendSentence
  <2>1. sentence' \in GgaLines \cup RmcLines
    <3>1. sats \in Nat /\ place \in Stands /\ heard.place \in Stands \cup {NoCoords} /\ Empty \in Int
      BY DEF GpsShapes, Empty
    <3>2. (IF sats > 0 THEN {Coordinates(place)}
           ELSE {NoPosition} \cup (IF heard.place = NoCoords THEN {} ELSE {Coordinates(heard.place)})) \subseteq Positions
      BY <3>1 DEF Positions
    <3>3. Sentences \subseteq GgaLines \cup RmcLines
      BY <3>1, <3>2 DEF Sentences, GgaLines, RmcLines
    <3>4. QED BY <1>1, <3>3 DEF SendSentence
  <2>2. UNCHANGED <<place, sats, heard, state>>
    BY <1>1 DEF SendSentence, GpsUnchanged
  <2>3. QED BY <2>1, <2>2 DEF GpsShapes, StationIsTrue, GgaLines, RmcLines, Positions
<1>2. CASE Garble
  <2>1. sentence' = Garbage /\ UNCHANGED <<place, sats, heard, state>>
    BY <1>2 DEF Garble, GpsUnchanged
  <2>2. QED BY <2>1 DEF GpsShapes, StationIsTrue
<1>3. CASE MoveStation
  <2>1. place' \in Stands /\ sats' \in Nat /\ UNCHANGED <<sentence, heard, state>>
    BY <1>3, GpsAssumption DEF MoveStation, GpsUnchanged
  <2>2. QED BY <2>1 DEF GpsShapes, StationIsTrue
<1>4. CASE ReadLine
  <2>1. sentence' = NoLine /\ UNCHANGED <<place, sats>>
    BY <1>4 DEF ReadLine
  <2>2. CASE shut
    <3>1. UNCHANGED <<state, heard>>
      BY <1>4, <2>2 DEF ReadLine
    <3>2. QED BY <2>1, <3>1 DEF GpsShapes, StationIsTrue
  <2>3. CASE ~shut
    <3>1. /\ state' \in [fix : {"none", "2D", "3D"}, sats : Int, place : Stands \cup {NoCoords}, year : Int]
          /\ heard'.place \in Stands \cup {NoCoords}
          /\ StationIsTrue'
      BY <1>4, <2>3, AppliedFacts DEF ReadLine
    <3>2. QED BY <2>1, <3>1 DEF GpsShapes
  <2>4. QED BY <2>2, <2>3
<1>5. CASE LoseSource
  <2>1. sentence' = NoLine /\ UNCHANGED <<place, sats, heard, state>>
    BY <1>5 DEF LoseSource
  <2>2. QED BY <2>1 DEF GpsShapes, StationIsTrue
<1>6. CASE CloseReader \/ WatchFix \/ UNCHANGED gpsVars
  <2>1. UNCHANGED <<place, sats, sentence, heard, state>>
    BY <1>6 DEF CloseReader, WatchFix, gpsVars
  <2>2. QED BY <2>1 DEF GpsShapes, StationIsTrue
<1>7. QED BY <1>1, <1>2, <1>3, <1>4, <1>5, <1>6 DEF GpsNext

\* nmea.go parse and apply: the position and the year published are those of the last intact
\* sentence that had any, for every place on earth and every sequence of sentences.
THEOREM StationTrue == GpsSpec => []StationIsTrue
<1>1. GpsInv => StationIsTrue
  BY DEF GpsInv
<1>2. QED BY <1>1, GpsStarts, GpsKeeps, PTL DEF GpsSpec

-----------------------------------------------------------------------------
(* The gate of the status page.                                              *)

\* A report is never younger than the last time its device was there.
HealthInv ==
    /\ seen \in [Devices -> Int] /\ gone \in [Blocking -> Nat]
    /\ \A d \in Blocking : /\ seen[d] >= Never
                           /\ seen[d] >= 0 => gone[d] <= seen[d]
                           /\ d \in attached => gone[d] = 0

LEMMA HealthStarts == HealthInit => HealthInv
  BY HealthAssumption DEF HealthInit, HealthInv, Devices, Never, Absent

LEMMA HealthKeeps == HealthInv /\ [HealthNext]_healthVars => HealthInv'
<1> SUFFICES ASSUME HealthInv, [HealthNext]_healthVars PROVE HealthInv'
  OBVIOUS
<1>1. ASSUME NEW d \in Blocking, ReportDevice(d) PROVE HealthInv'
  <2>1. seen' = seen \/ (seen' = [seen EXCEPT ![d] = 0] /\ d \in attached)
    BY <1>1 DEF ReportDevice, Touch, TouchFault, Scan
  <2>2. UNCHANGED <<gone, attached>>
    BY <1>1 DEF ReportDevice
  <2>3. QED BY <2>1, <2>2 DEF HealthInv, Devices, Never
<1>2. ASSUME NEW target \in {Board, Subsystem}, BoardEvent(target) PROVE HealthInv'
  <2>1. seen' = [d \in Devices |-> IF d \in {Board, target} THEN 0 ELSE seen[d]] /\ UNCHANGED <<gone, attached>>
    BY <1>2 DEF BoardEvent
  <2>2. \A d \in Blocking : seen'[d] = seen[d]
    BY <2>1, HealthAssumption DEF Devices
  <2>3. QED BY <2>1, <2>2 DEF HealthInv
<1>3. CASE HealthTime
  <2>1. /\ seen' = [d \in Devices |-> IF seen[d] \in {Absent, Never} THEN seen[d] ELSE Older(d, seen[d])]
        /\ gone' = [d \in Blocking |-> IF d \in attached' THEN 0 ELSE Older(d, gone[d])]
    BY <1>3 DEF HealthTime
  <2>2. \A d \in Devices : Window[d] \in Nat
    BY HealthAssumption
  <2>3. QED BY <2>1, <2>2 DEF HealthInv, Older, Devices, Absent, Never
<1>4. CASE Compare \/ AskPreflight \/ Dismiss \/ ChangeModel \/ UNCHANGED healthVars
  <2>1. UNCHANGED <<seen, gone, attached>>
    BY <1>4 DEF Compare, AskPreflight, Dismiss, ChangeModel, healthVars
  <2>2. QED BY <2>1 DEF HealthInv
<1>5. QED BY <1>1, <1>2, <1>3, <1>4 DEF HealthNext

\* handleSyscheckDismiss over buildPreflight and the registry (server.go): a dismissal as ready
\* comes only when every blocking device was there within its own window.
THEOREM ReadyIsAttached == HealthSpec => ReadyMeansAttached
<1>1. HealthInv /\ [HealthNext]_healthVars =>
        [dismissal' = "ready" /\ dismissal = "none" => \A d \in Blocking : gone[d] <= Window[d]]_healthVars
  <2> SUFFICES ASSUME HealthInv, HealthNext, dismissal' = "ready", dismissal = "none", NEW d \in Blocking
               PROVE  gone[d] <= Window[d]
    OBVIOUS
  <2>1. AskPreflight
    BY DEF HealthNext, ReportDevice, BoardEvent, HealthTime, Compare, Dismiss, ChangeModel
  <2>2. Status(d) = "up"
    BY <2>1 DEF AskPreflight, Ready, BlockingDown
  <2>3. seen[d] # Never /\ seen[d] <= Window[d]
    BY <2>2 DEF Status
  <2>4. seen[d] \in Int /\ gone[d] \in Nat /\ Window[d] \in Nat
    BY HealthAssumption DEF HealthInv, Devices
  <2>5. QED BY <2>3, <2>4 DEF HealthInv, Never
<1>2. QED BY <1>1, HealthStarts, HealthKeeps, PTL DEF HealthSpec, ReadyMeansAttached

-----------------------------------------------------------------------------
(* What claims to be alive.                                                  *)

LedShapes ==
    /\ quiet \in 0..Freshness + 2
    /\ toggler \in {"ticker", "write", "returned"}
    /\ next \in {0, 1} /\ lit \in {0, 1} /\ line \in {0, 1}
    /\ closing \in {"no", "stop", "closed"}

\* How old the last tick of the mixer may be while the LED is lit or about to be.
LedWindow ==
    /\ toggler = "write" => ~ledWoken /\ (next = 1 => quiet <= Freshness)
    /\ toggler = "ticker" /\ ~ledWoken /\ line = 1 => quiet <= Freshness
    /\ toggler = "returned" => closing # "no"
    /\ closing = "closed" => toggler = "returned"

LedInv == LedShapes /\ LedWindow /\ LedIsHonest

LEMMA LedStarts == LedInit => LedInv
<1> SUFFICES ASSUME LedInit PROVE LedInv
  OBVIOUS
<1>1. LedShapes
  BY LedAssumption DEF LedInit, LedShapes
<1>2. LedWindow
  BY LedAssumption DEF LedInit, LedWindow
<1>3. LedIsHonest
  BY LedAssumption DEF LedInit, LedIsHonest
<1>4. QED BY <1>1, <1>2, <1>3 DEF LedInv

LEMMA LedKeeps == LedInv /\ [LedNext]_ledVars => LedInv'
<1> SUFFICES ASSUME LedInv, [LedNext]_ledVars PROVE LedInv'
  OBVIOUS
<1> USE LedAssumption DEF LedInv, LedShapes, LedWindow, LedIsHonest
<1>1. CASE Tick
  BY <1>1 DEF Tick
<1>2. CASE Toggle
  BY <1>2 DEF Toggle
<1>3. CASE SetValue
  BY <1>3 DEF SetValue
<1>4. CASE StopToggling
  BY <1>4 DEF StopToggling
<1>5. CASE CloseLed
  BY <1>5 DEF CloseLed
<1>6. CASE TurnOff
  BY <1>6 DEF TurnOff
<1>7. CASE LedTime
  <2>1. ~ledWoken /\ toggler # "write" /\ closing # "stop" /\ UNCHANGED <<toggler, next, lit, line, closing>>
    BY <1>7 DEF LedTime
  <2>2. ledWoken' <=> toggler = "ticker"
    BY <1>7 DEF LedTime
  <2>3. quiet' = IF quiet > Freshness + 1 THEN quiet ELSE quiet + 1
    BY <1>7 DEF LedTime
  <2>4. line = 1 => quiet <= Freshness
    BY <2>1
  <2>5. LedShapes'
    BY <2>1, <2>3
  <2>6. LedIsHonest'
    BY <2>1, <2>3, <2>4
  <2>7. LedWindow'
    BY <2>1, <2>2
  <2>8. QED BY <2>5, <2>6, <2>7
<1>8. CASE UNCHANGED ledVars
  BY <1>8 DEF ledVars
<1>9. QED BY <1>1, <1>2, <1>3, <1>4, <1>5, <1>6, <1>7, <1>8 DEF LedNext

FcInv ==
    /\ age \in [Sensors -> 0..MaxAge] /\ unlooked \in 0..MaxAge
    /\ FcReadyIsRecent

LEMMA FcStarts == TelemetryInit => FcInv
  BY TelemetryAssumption DEF TelemetryInit, FcInv, FcReadyIsRecent

LEMMA FcKeeps == FcInv /\ [TelemetryNext]_telemetryVars => FcInv'
<1> SUFFICES ASSUME FcInv, [TelemetryNext]_telemetryVars PROVE FcInv'
  OBVIOUS
<1> USE TelemetryAssumption DEF FcInv, FcReadyIsRecent
<1>1. ASSUME NEW s \in Sensors, NEW value \in Readings[s], FeedFrame(s, value) PROVE FcInv'
  BY <1>1 DEF FeedFrame
<1>2. CASE LoopTick
  <2>1. age' = [s \in Sensors |-> IF age[s] = MaxAge THEN MaxAge ELSE age[s] + 1]
    BY <1>2 DEF LoopTick
  <2>2. CASE inUse /\ ~stickGone
    BY <1>2, <2>1, <2>2 DEF LoopTick, FcReady
  <2>3. CASE ~(inUse /\ ~stickGone)
    BY <1>2, <2>1, <2>3 DEF LoopTick
  <2>4. QED BY <2>2, <2>3
<1>3. ASSUME UNCHANGED <<age, unlooked, fcReady>> PROVE FcInv'
  BY <1>3
<1>4. QED
  BY <1>1, <1>2, <1>3 DEF TelemetryNext, FeedOther, TelemHandler, LookForRecovery,
     UpdateLastKnown, FreezeView, TriggerView, DismissView, RecordHome, UnloadTelemetry, LoadedAgain, StickGoes, StickComes, telemetryVars

\* heartbeat.go and the readiness of the flight controller (main.go), for every window: a
\* blinking LED is no older than its window, and a ready flight controller no older than its own
\* and the ticks that the mixer loop has skipped, without a model or without its joystick, since
\* it last looked.
THEOREM SignalsFresh == StationSpec => []SignalsAreFresh
<1>1. StationInit => LedInv /\ FcInv
  BY LedStarts, FcStarts DEF StationInit
<1>2. LedInv /\ FcInv /\ [StationNext]_stationVars => (LedInv /\ FcInv)'
  <2> SUFFICES ASSUME LedInv, FcInv, [StationNext]_stationVars PROVE LedInv' /\ FcInv'
    OBVIOUS
  <2>1. [LedNext]_ledVars
    BY DEF StationNext, Others, stationVars
  <2>2. [TelemetryNext]_telemetryVars
    BY DEF StationNext, Others, stationVars
  <2>3. QED BY <2>1, <2>2, LedKeeps, FcKeeps
<1>3. LedInv /\ FcInv => SignalsAreFresh
  BY DEF LedInv, FcInv, SignalsAreFresh
<1>4. QED BY <1>1, <1>2, <1>3, PTL DEF StationSpec

-----------------------------------------------------------------------------
(* The downloader.  Every tile of a zoom level is in one place: in the        *)
(* producer's list, in a channel, in a worker's hands, or counted (OnePlace); *)
(* what is under way is not in the archive (NotStored); no channel holds a    *)
(* tile when a zoom level ends that nobody cancelled (Emptied).  So what is   *)
(* counted is everything else (Accounts).                                     *)

Downloading == phase \in {"produce", "wait", "drain"}

Members(s)  == {s[i] : i \in 1..Len(s)}
NoRepeat(s) == \A i, j \in 1..Len(s) : s[i] = s[j] => i = j
JobsOf(s)   == [i \in 1..Len(s) |-> s[i].job]

Holding(wk)   == {w \in Workers : wk[w].st \in {"limit", "fetch", "send"}}
InHands(wk)   == {wk[w].job : w \in Holding(wk)}
OneEach(wk)   == \A v, w \in Holding(wk) : wk[v].job = wk[w].job => v = w

Apart(A, B, C, D) ==
    A \cap B = {} /\ A \cap C = {} /\ A \cap D = {} /\ B \cap C = {} /\ B \cap D = {} /\ C \cap D = {}

OnePlace ==
    /\ NoRepeat(missing) /\ NoRepeat(jobs) /\ NoRepeat(JobsOf(results)) /\ OneEach(work)
    /\ Apart(Members(missing), Members(jobs), InHands(work), Members(JobsOf(results)))

Underway ==
    Members(missing) \cup Members(jobs) \cup InHands(work) \cup Members(JobsOf(results))

NotStored == \A t \in Underway : Stored(t) \notin archive

Before(z) == {t \in Wanted : t.z < z}
UpTo(z) == {t \in Wanted : t.z <= z}

Kept(S, tiles) == {t \in S : Stored(t) \in tiles}

Accounted(n, tiles, S) ==
    /\ n.done = Cardinality(S)
    /\ n.downloaded + n.skipped = Cardinality(Kept(S, tiles))
    /\ n.notFound + n.errs = Cardinality(S \ Kept(S, tiles))

Counts == [done : Nat, downloaded : Nat, skipped : Nat, notFound : Nat, errs : Nat]

WorkerStates(S) ==
    {Exited, IdleWorker} \cup [st : {"limit"}, job : S]
        \cup [st : {"fetch"}, job : S, attempt : Nat]
        \cup [st : {"send"}, job : S, res : {"data", "notFound", "err"}]
ResultsOf(S) == [job : S, res : {"data", "notFound", "err"}]

DownloadShapes ==
    /\ phase \in {"stopped", "zoom", "produce", "wait", "drain", "convert"}
    /\ zoom \in DOMAIN Grids
    /\ c \in Counts
    /\ Downloading => /\ missing \in Seq(Tiles(zoom)) /\ jobs \in Seq(Tiles(zoom))
                 /\ results \in Seq(ResultsOf(Tiles(zoom)))
                 /\ work \in [Workers -> WorkerStates(Tiles(zoom))]
    /\ ~Downloading => results = <<>> /\ work = [w \in Workers |-> Exited]

Emptied ==
    /\ phase \in {"wait", "drain"} => missing = <<>>
    /\ phase = "drain" => \A w \in Workers : work[w] = Exited
    /\ phase \in {"produce", "wait"} => writing
    /\ phase = "drain" /\ ~writing => results = <<>>
    /\ ~cancelled =>
         /\ phase = "produce" => \A w \in Workers : work[w] # Exited
         /\ phase = "wait" /\ (\E w \in Workers : work[w] = Exited) => jobs = <<>>
         /\ phase = "drain" => jobs = <<>>

Accounts ==
    /\ complete => phase = "stopped" /\ Accounted(c, archive, Wanted)
    /\ phase = "zoom" => Accounted(c, archive, Before(zoom))
    /\ phase = "convert" => Accounted(c, archive, Wanted)
    /\ Downloading /\ ~cancelled => Accounted(c, archive, UpTo(zoom) \ Underway)

DownloadInv ==
    /\ DownloadShapes /\ Emptied /\ Accounts
    /\ Downloading => OnePlace /\ NotStored

-----------------------------------------------------------------------------

LEMMA HeadOut ==
    ASSUME NEW S, NEW s \in Seq(S), s # <<>>, NoRepeat(s)
    PROVE  /\ Tail(s) \in Seq(S) /\ NoRepeat(Tail(s))
           /\ Head(s) \in Members(s) /\ Head(s) \in S
           /\ Members(Tail(s)) = Members(s) \ {Head(s)}
<1> DEFINE t == Tail(s)
<1>1. /\ Len(s) \in Nat \ {0} /\ t \in Seq(S) /\ Len(t) = Len(s) - 1 /\ Head(s) = s[1]
      /\ Head(s) \in S /\ \A i \in 1..Len(t) : t[i] = s[i + 1]
  OBVIOUS
<1>2. NoRepeat(t)
  BY <1>1 DEF NoRepeat
<1>3. Head(s) \in Members(s)
  BY <1>1 DEF Members
<1>4. ASSUME NEW e \in Members(t) PROVE e \in Members(s) \ {Head(s)}
  <2>1. PICK i \in 1..Len(t) : e = t[i]
    BY DEF Members
  <2>2. i + 1 \in 1..Len(s) /\ 1 \in 1..Len(s) /\ i + 1 # 1 /\ e = s[i + 1]
    BY <1>1, <2>1
  <2>3. e # s[1]
    BY <2>2 DEF NoRepeat
  <2>4. QED
    BY <1>1, <2>2, <2>3 DEF Members
<1>5. ASSUME NEW e \in Members(s) \ {Head(s)} PROVE e \in Members(t)
  <2>1. PICK i \in 1..Len(s) : e = s[i]
    BY DEF Members
  <2>2. i # 1
    BY <1>1, <2>1
  <2>3. i - 1 \in 1..Len(t) /\ (i - 1) + 1 = i
    BY <1>1, <2>1, <2>2
  <2>4. QED
    BY <1>1, <2>1, <2>3 DEF Members
<1>6. QED
  BY <1>1, <1>2, <1>3, <1>4, <1>5

LEMMA AppendIn ==
    ASSUME NEW S, NEW s \in Seq(S), NEW e \in S, NoRepeat(s), e \notin Members(s)
    PROVE  /\ Append(s, e) \in Seq(S) /\ NoRepeat(Append(s, e))
           /\ Members(Append(s, e)) = Members(s) \cup {e}
<1> DEFINE t == Append(s, e)
<1>1. /\ Len(s) \in Nat /\ t \in Seq(S) /\ Len(t) = Len(s) + 1 /\ t[Len(s) + 1] = e
      /\ \A i \in 1..Len(s) : t[i] = s[i]
  OBVIOUS
<1>2. \A i \in 1..Len(t) : i = Len(s) + 1 \/ i \in 1..Len(s)
  BY <1>1
<1>3. NoRepeat(t)
  BY <1>1, <1>2 DEF NoRepeat, Members
<1>4. Members(t) = Members(s) \cup {e}
  BY <1>1, <1>2 DEF Members
<1>5. QED
  BY <1>1, <1>3, <1>4

LEMMA EmptyHas == Members(<<>>) = {} /\ NoRepeat(<<>>) /\ JobsOf(<<>>) = <<>>
  BY DEF Members, NoRepeat, JobsOf

\* The jobs of the results are a sequence, moved like the results.
LEMMA JobsMove ==
    ASSUME NEW S, NEW r \in Seq(ResultsOf(S))
    PROVE  /\ JobsOf(r) \in Seq(S)
           /\ \A x \in ResultsOf(S) : JobsOf(Append(r, x)) = Append(JobsOf(r), x.job)
           /\ r # <<>> => /\ JobsOf(r) # <<>> /\ JobsOf(Tail(r)) = Tail(JobsOf(r))
                          /\ Head(JobsOf(r)) = Head(r).job
<1>1. /\ Len(r) \in Nat /\ \A i \in 1..Len(r) : r[i].job \in S
  <2>1. Len(r) \in Nat /\ \A i \in 1..Len(r) : r[i] \in ResultsOf(S)
    OBVIOUS
  <2>2. \A x \in ResultsOf(S) : x.job \in S
    BY DEF ResultsOf
  <2>3. QED
    BY <2>1, <2>2
<1>2. JobsOf(r) \in Seq(S) /\ Len(JobsOf(r)) = Len(r)
      /\ \A i \in 1..Len(r) : JobsOf(r)[i] = r[i].job
  BY <1>1 DEF JobsOf
<1>3. ASSUME NEW x \in ResultsOf(S) PROVE JobsOf(Append(r, x)) = Append(JobsOf(r), x.job)
  <2> DEFINE a == JobsOf(Append(r, x))
             b == Append(JobsOf(r), x.job)
  <2>1. x.job \in S
    BY DEF ResultsOf
  <2>2. Len(Append(r, x)) = Len(r) + 1
    BY <1>1
  <2>3. a = [i \in 1..(Len(r) + 1) |-> Append(r, x)[i].job]
    BY <2>2 DEF JobsOf
  <2>4. b = [i \in 1..(Len(r) + 1) |-> IF i <= Len(r) THEN r[i].job ELSE x.job]
    BY <1>1, <1>2, <2>1
  <2>5. \A i \in 1..(Len(r) + 1) :
           Append(r, x)[i].job = IF i <= Len(r) THEN r[i].job ELSE x.job
    BY <1>1
  <2>6. QED
    BY <2>3, <2>4, <2>5
<1>4. ASSUME r # <<>>
      PROVE  /\ JobsOf(r) # <<>> /\ JobsOf(Tail(r)) = Tail(JobsOf(r))
             /\ Head(JobsOf(r)) = Head(r).job
  <2>1. Len(r) >= 1 /\ Len(Tail(r)) = Len(r) - 1
    BY <1>1, <1>4
  <2>2. JobsOf(r) # <<>> /\ Head(JobsOf(r)) = Head(r).job
    BY <1>2, <2>1
  <2>3. JobsOf(Tail(r)) \in Seq(S) /\ Len(JobsOf(Tail(r))) = Len(r) - 1
        /\ \A i \in 1..(Len(r) - 1) : JobsOf(Tail(r))[i] = r[i + 1].job
    <3>1. Tail(r) \in Seq(ResultsOf(S)) /\ \A i \in 1..(Len(r) - 1) : Tail(r)[i] = r[i + 1]
      BY <1>4
    <3>2. \A i \in 1..(Len(r) - 1) : i + 1 \in 1..Len(r)
      BY <1>1
    <3>3. \A i \in 1..(Len(r) - 1) : Tail(r)[i].job \in S /\ Tail(r)[i].job = r[i + 1].job
      BY <1>1, <3>1, <3>2
    <3>4. JobsOf(Tail(r)) = [i \in 1..(Len(r) - 1) |-> Tail(r)[i].job]
      BY <2>1 DEF JobsOf
    <3>5. Len(r) - 1 \in Nat
      BY <1>1, <2>1
    <3>6. QED
      BY <3>3, <3>4, <3>5
  <2>4. Tail(JobsOf(r)) \in Seq(S) /\ Len(Tail(JobsOf(r))) = Len(r) - 1
        /\ \A i \in 1..(Len(r) - 1) : Tail(JobsOf(r))[i] = r[i + 1].job
    <3>1. \A q \in Seq(S) : q # <<>> =>
             /\ Tail(q) \in Seq(S) /\ Len(Tail(q)) = Len(q) - 1
             /\ \A i \in 1..(Len(q) - 1) : Tail(q)[i] = q[i + 1]
      OBVIOUS
    <3>2. \A i \in 1..(Len(r) - 1) : i + 1 \in 1..Len(r)
      BY <1>1
    <3>3. QED
      BY <1>2, <2>2, <3>1, <3>2
  <2>5. JobsOf(Tail(r)) = Tail(JobsOf(r))
    BY <2>3, <2>4, SeqEqual
  <2>6. QED
    BY <2>2, <2>5
<1>5. QED
  BY <1>2, <1>3, <1>4

\* One worker's step moves one job into its hands, keeps it there, or out of them.
LEMMA HandsMove ==
    ASSUME NEW wk, NEW w \in Workers, NEW s, wk = [v \in Workers |-> wk[v]], OneEach(wk)
    PROVE  LET new == [wk EXCEPT ![w] = s]
               busy(x) == x.st \in {"limit", "fetch", "send"}
           IN  /\ busy(wk[w]) /\ busy(s) /\ s.job = wk[w].job =>
                     OneEach(new) /\ InHands(new) = InHands(wk)
               /\ busy(wk[w]) /\ ~busy(s) =>
                     OneEach(new) /\ InHands(new) = InHands(wk) \ {wk[w].job}
               /\ ~busy(wk[w]) /\ ~busy(s) =>
                     OneEach(new) /\ InHands(new) = InHands(wk)
<1> DEFINE new == [wk EXCEPT ![w] = s]
           busy(x) == x.st \in {"limit", "fetch", "send"}
<1>1. new[w] = s /\ \A v \in Workers \ {w} : new[v] = wk[v]
  OBVIOUS
<1>2. \A v \in Workers : (v \in Holding(wk) <=> busy(wk[v])) /\ (v \in Holding(new) <=> busy(new[v]))
  BY DEF Holding
<1>3. Holding(wk) \subseteq Workers /\ Holding(new) \subseteq Workers
  BY DEF Holding
<1> HIDE DEF new, busy
<1>4. ASSUME busy(wk[w]), busy(s), s.job = wk[w].job
      PROVE  OneEach(new) /\ InHands(new) = InHands(wk)
  BY <1>1, <1>2, <1>3, <1>4 DEF OneEach, InHands
<1>5. ASSUME busy(wk[w]), ~busy(s)
      PROVE  OneEach(new) /\ InHands(new) = InHands(wk) \ {wk[w].job}
  BY <1>1, <1>2, <1>3, <1>5 DEF OneEach, InHands
<1>6. ASSUME ~busy(wk[w]), ~busy(s)
      PROVE  OneEach(new) /\ InHands(new) = InHands(wk)
  BY <1>1, <1>2, <1>3, <1>6 DEF OneEach, InHands
<1>7. QED
  BY <1>4, <1>5, <1>6 DEF new, busy

LEMMA HandsIn ==
    ASSUME NEW wk, NEW w \in Workers, NEW s, wk = [v \in Workers |-> wk[v]], OneEach(wk),
           wk[w].st \notin {"limit", "fetch", "send"}, s.st \in {"limit", "fetch", "send"},
           s.job \notin InHands(wk)
    PROVE  OneEach([wk EXCEPT ![w] = s]) /\ InHands([wk EXCEPT ![w] = s]) = InHands(wk) \cup {s.job}
<1> DEFINE new == [wk EXCEPT ![w] = s]
<1>1. new[w] = s /\ \A v \in Workers \ {w} : new[v] = wk[v]
  OBVIOUS
<1> HIDE DEF new
<1>2. Holding(new) = Holding(wk) \cup {w} /\ w \notin Holding(wk)
  BY <1>1 DEF Holding
<1>3. \A v \in Holding(wk) : new[v] = wk[v] /\ wk[v].job # s.job
  BY <1>1, <1>2 DEF Holding, InHands
<1>4. OneEach(new)
  BY <1>1, <1>2, <1>3 DEF OneEach
<1>5. InHands(new) = InHands(wk) \cup {s.job}
  BY <1>1, <1>2, <1>3 DEF InHands
<1>6. QED
  BY <1>4, <1>5 DEF new

LEMMA HandsOut ==
    ASSUME NEW wk, NEW w \in Workers, NEW s, wk = [v \in Workers |-> wk[v]], OneEach(wk),
           wk[w].st \in {"limit", "fetch", "send"}, s.st \notin {"limit", "fetch", "send"}
    PROVE  OneEach([wk EXCEPT ![w] = s]) /\ InHands([wk EXCEPT ![w] = s]) = InHands(wk) \ {wk[w].job}
  BY HandsMove

-----------------------------------------------------------------------------

LEMMA GridFacts ==
    /\ MinZoom \in DOMAIN Grids /\ MaxZoom \in DOMAIN Grids /\ DOMAIN Grids \subseteq Nat
    /\ \A z \in DOMAIN Grids : /\ MinZoom <= z /\ z <= MaxZoom
                               /\ z # MaxZoom => z + 1 \in DOMAIN Grids
    /\ IsFiniteSet(DOMAIN Grids)
<1>1. PICK low \in DOMAIN Grids, high \in DOMAIN Grids : DOMAIN Grids = low..high /\ low \in Nat
  BY DownloadAssumption
<1>2. DOMAIN Grids \subseteq Nat /\ high \in Nat
  BY <1>1
<1>3. MinZoom \in DOMAIN Grids /\ \A y \in DOMAIN Grids : MinZoom <= y
  BY <1>1, <1>2 DEF MinZoom
<1>4. MaxZoom \in DOMAIN Grids /\ \A y \in DOMAIN Grids : MaxZoom >= y
  BY <1>1, <1>2 DEF MaxZoom
<1>5. \A z \in DOMAIN Grids : z # MaxZoom => z + 1 \in DOMAIN Grids
  BY <1>1, <1>2, <1>4
<1>6. IsFiniteSet(DOMAIN Grids)
  BY <1>1, <1>2, FS_Interval
<1>7. QED
  BY <1>2, <1>3, <1>4, <1>5, <1>6

LEMMA TileFacts ==
    /\ \A z \in DOMAIN Grids : Tiles(z) = {t \in Wanted : t.z = z}
    /\ \A t \in Wanted : t.z \in DOMAIN Grids /\ t \in [z : DOMAIN Grids, x : Nat, y : Nat]
<1>1. \A z \in DOMAIN Grids : \A at \in Grids[z] :
         at[1] \in Nat /\ at[2] \in Nat
  BY DownloadAssumption
<1>2. \A z \in DOMAIN Grids : \A at \in Grids[z] :
         Tile(z, at).z = z /\ Tile(z, at) \in [z : DOMAIN Grids, x : Nat, y : Nat]
  BY <1>1 DEF Tile
<1>3. \A z \in DOMAIN Grids : \A t \in Tiles(z) :
         t.z = z /\ t \in [z : DOMAIN Grids, x : Nat, y : Nat]
  BY <1>2 DEF Tiles
<1>4. \A t : t \in Wanted <=> \E z \in DOMAIN Grids : t \in Tiles(z)
  BY DEF Wanted
<1>5. QED
  BY <1>3, <1>4

LEMMA StoredOnce ==
    \A t, u \in Wanted : Stored(t) = Stored(u) => t = u
<1> SUFFICES ASSUME NEW t \in Wanted, NEW u \in Wanted, Stored(t) = Stored(u)
             PROVE  t = u
  OBVIOUS
<1>1. /\ t \in [z : DOMAIN Grids, x : Nat, y : Nat] /\ u \in [z : DOMAIN Grids, x : Nat, y : Nat]
  BY TileFacts
<1>2. /\ Stored(t).z = t.z /\ Stored(t).x = t.x /\ Stored(t).y = 2^t.z - 1 - t.y
      /\ Stored(u).z = u.z /\ Stored(u).x = u.x /\ Stored(u).y = 2^u.z - 1 - u.y
  BY <1>1 DEF Stored
<1>3. t.z = u.z /\ t.x = u.x
  BY <1>2
<1>4. t.z \in Nat
  BY <1>1, GridFacts
<1>5. \A z \in Nat : 2^z \in Int
  OBVIOUS
<1>6. \A p \in Int : \A m, n \in Nat : p - 1 - m = p - 1 - n => m = n
  OBVIOUS
<1>7. 2^t.z \in Int /\ t.y \in Nat /\ u.y \in Nat
  BY <1>1, <1>4, <1>5
<1>8. t.y = u.y
  BY <1>2, <1>3, <1>6, <1>7
<1>9. QED
  BY <1>1, <1>3, <1>8

LEMMA WantedFinite == IsFiniteSet(Wanted)
<1>1. ASSUME NEW z \in DOMAIN Grids PROVE IsFiniteSet(Tiles(z))
  <2> DEFINE f == [at \in Grids[z] |-> Tile(z, at)]
  <2>1. f \in Surjection(Grids[z], Tiles(z))
    BY DEF Tiles, Surjection
  <2>2. IsFiniteSet(Grids[z])
    BY DownloadAssumption
  <2>3. QED
    BY <2>1, <2>2, FS_Surjection
<1>2. IsFiniteSet({Tiles(z) : z \in DOMAIN Grids})
  <2> DEFINE T == {Tiles(z) : z \in DOMAIN Grids}
             f == [z \in DOMAIN Grids |-> Tiles(z)]
  <2>1. f \in Surjection(DOMAIN Grids, T)
    BY DEF Surjection
  <2>2. QED
    BY <2>1, GridFacts, FS_Surjection
<1>3. QED
  BY <1>1, <1>2, FS_UNION DEF Wanted

LEMMA ZoomFacts ==
    /\ Before(MinZoom) = {} /\ UpTo(MaxZoom) = Wanted
    /\ \A z \in DOMAIN Grids : /\ UpTo(z) = Before(z + 1)
                               /\ UpTo(z) = Before(z) \cup Tiles(z) /\ Before(z) \cap Tiles(z) = {}
                               /\ Tiles(z) \subseteq Wanted
                               /\ IsFiniteSet(Before(z)) /\ IsFiniteSet(UpTo(z)) /\ IsFiniteSet(Tiles(z))
<1>1. \A t \in Wanted : t.z \in Nat /\ MinZoom <= t.z /\ t.z <= MaxZoom
  BY TileFacts, GridFacts
<1>2. MinZoom \in Nat /\ MaxZoom \in Nat /\ DOMAIN Grids \subseteq Nat
  BY GridFacts
<1>3. \A m, n \in Nat : /\ m < n <=> ~(n <= m)
                        /\ m < n + 1 <=> m <= n
                        /\ m <= n <=> m < n \/ m = n
                        /\ ~(m < m)
  OBVIOUS
<1>4. Before(MinZoom) = {}
  BY <1>1, <1>2, <1>3, Zenon DEF Before
<1>5. UpTo(MaxZoom) = Wanted
  BY <1>1 DEF UpTo
<1>6. ASSUME NEW z \in DOMAIN Grids
      PROVE  /\ UpTo(z) = Before(z + 1)
             /\ UpTo(z) = Before(z) \cup Tiles(z) /\ Before(z) \cap Tiles(z) = {}
             /\ Tiles(z) \subseteq Wanted
  <2>1. z \in Nat
    BY <1>2
  <2>2. Tiles(z) = {t \in Wanted : t.z = z}
    BY TileFacts
  <2>3. \A t \in Wanted : /\ t.z <= z <=> t.z < z + 1
                          /\ t.z <= z <=> t.z < z \/ t.z = z
                          /\ ~(t.z < z /\ t.z = z)
    BY <1>1, <2>1
  <2>4. QED
    BY <2>2, <2>3, Zenon DEF UpTo, Before
<1>7. \A z : IsFiniteSet(Before(z)) /\ IsFiniteSet(UpTo(z))
  BY WantedFinite, FS_Subset DEF UpTo, Before
<1>8. \A z \in DOMAIN Grids : IsFiniteSet(Tiles(z))
  BY <1>6, WantedFinite, FS_Subset
<1>9. QED
  BY <1>4, <1>5, <1>6, <1>7, <1>8

-----------------------------------------------------------------------------
(* Counting.                                                                 *)

LEMMA ListOf ==
    ASSUME NEW S, IsFiniteSet(S)
    PROVE  SetToSeq(S) \in Seq(S) /\ NoRepeat(SetToSeq(S)) /\ Members(SetToSeq(S)) = S
<1> DEFINE n == Cardinality(S)
           f == SetToSeq(S)
<1>1. n \in Nat /\ ExistsBijection(1..n, S)
  BY FS_CardinalityType
<1>2. PICK g : g \in Bijection(1..n, S)
  BY <1>1 DEF ExistsBijection
<1>3. g \in [1..n -> S] /\ IsInjective(g)
  BY <1>2 DEF Bijection, Injection, IsInjective
<1>4. f \in [1..n -> S] /\ IsInjective(f)
  BY <1>3 DEF SetToSeq
<1>5. f \in Seq(S) /\ Len(f) = n
  BY <1>1, <1>4
<1>6. NoRepeat(f)
  BY <1>4, <1>5 DEF NoRepeat, IsInjective
<1>7. f \in Injection(1..n, S)
  BY <1>4 DEF Injection, IsInjective
<1>8. IsFiniteSet(1..n) /\ Cardinality(1..n) = n
  BY <1>1, FS_Interval
<1>9. f \in Surjection(1..n, S)
  BY <1>7, <1>8, FS_Injection
<1>10. Members(f) = S
  BY <1>4, <1>5, <1>9 DEF Members, Surjection
<1>11. QED
  BY <1>5, <1>6, <1>10

LEMMA NothingCounted == \A tiles : NoCounts \in Counts /\ Accounted(NoCounts, tiles, {})
<1>1. \A tiles : Kept({}, tiles) = {}
  BY DEF Kept
<1>2. QED
  BY <1>1, FS_EmptySet DEF Accounted, NoCounts, Counts

\* What is found in the archive is counted as skipped.
LEMMA CountedIn ==
    ASSUME NEW n \in Counts, NEW tiles, NEW S, NEW T, IsFiniteSet(S), IsFiniteSet(T), S \cap T = {},
           Accounted(n, tiles, S), \A t \in T : Stored(t) \in tiles
    PROVE  LET k == Cardinality(T)
               m == [n EXCEPT !.done = @ + k, !.skipped = @ + k]
           IN  m \in Counts /\ Accounted(m, tiles, S \cup T)
<1> DEFINE k == Cardinality(T)
           m == [n EXCEPT !.done = @ + k, !.skipped = @ + k]
           K == Kept(S, tiles)
           U == S \cup T
<1>1. K \subseteq S /\ IsFiniteSet(K) /\ K \cap T = {}
  BY FS_Subset DEF Kept
<1>2. Kept(U, tiles) = K \cup T /\ U \ (K \cup T) = S \ K
  BY DEF Kept
<1>3. Cardinality(K) \in Nat /\ k \in Nat /\ Cardinality(S) \in Nat /\ Cardinality({}) = 0
  BY <1>1, FS_CardinalityType, FS_EmptySet
<1>4. Cardinality(U) = Cardinality(S) + k
  <2>1. Cardinality(U) = Cardinality(S) + k - Cardinality(S \cap T)
    BY FS_Union
  <2>2. Cardinality(S \cap T) = 0
    BY FS_EmptySet
  <2>3. QED
    BY <1>3, <2>1, <2>2
<1>5. Cardinality(K \cup T) = Cardinality(K) + k
  <2>1. Cardinality(K \cup T) = Cardinality(K) + k - Cardinality(K \cap T)
    BY <1>1, FS_Union
  <2>2. Cardinality(K \cap T) = 0
    BY <1>1, FS_EmptySet
  <2>3. QED
    BY <1>3, <2>1, <2>2
<1>6. /\ n.done \in Nat /\ n.skipped \in Nat /\ n.downloaded \in Nat
      /\ m \in Counts
      /\ m.done = n.done + k /\ m.skipped = n.skipped + k /\ m.downloaded = n.downloaded
      /\ m.notFound = n.notFound /\ m.errs = n.errs
  <2> HIDE DEF k
  <2>1. k \in Nat
    BY <1>3
  <2>2. \A i, j \in Nat : LET q == [n EXCEPT !.done = i, !.skipped = j]
                          IN  /\ q \in Counts /\ q.done = i /\ q.skipped = j
                              /\ q.downloaded = n.downloaded /\ q.notFound = n.notFound /\ q.errs = n.errs
    BY DEF Counts
  <2>3. n.done \in Nat /\ n.skipped \in Nat /\ n.downloaded \in Nat /\ n.notFound \in Nat /\ n.errs \in Nat
    BY DEF Counts
  <2>4. n.done + k \in Nat /\ n.skipped + k \in Nat
    BY <2>1, <2>3
  <2>5. /\ m \in Counts /\ m.done = n.done + k /\ m.skipped = n.skipped + k
        /\ m.downloaded = n.downloaded /\ m.notFound = n.notFound /\ m.errs = n.errs
    BY <2>2, <2>4, Zenon
  <2>6. QED
    BY <2>3, <2>5, Zenon
<1>7. n.done = Cardinality(S) /\ n.downloaded + n.skipped = Cardinality(K)
      /\ n.notFound + n.errs = Cardinality(S \ K)
  BY DEF Accounted
<1>8. m.done = Cardinality(U)
  BY <1>4, <1>6, <1>7
<1>9. m.downloaded + m.skipped = Cardinality(Kept(U, tiles))
  BY <1>2, <1>3, <1>5, <1>6, <1>7
<1>10. m.notFound + m.errs = Cardinality(U \ Kept(U, tiles))
  BY <1>2, <1>6, <1>7
<1>11. QED
  BY <1>6, <1>8, <1>9, <1>10 DEF Accounted

\* One tile more, written or not.
LEMMA OneMore ==
    ASSUME NEW n \in Counts, NEW tiles, NEW S \in SUBSET Wanted, NEW t \in Wanted, t \notin S,
           Stored(t) \notin tiles, Accounted(n, tiles, S)
    PROVE  /\ \A m \in Counts :
                 /\ m.done = n.done + 1 /\ m.notFound + m.errs = n.notFound + n.errs
                 /\ m.downloaded + m.skipped = n.downloaded + n.skipped + 1
                 => Accounted(m, tiles \cup {Stored(t)}, S \cup {t})
           /\ \A m \in Counts :
                 /\ m.done = n.done + 1 /\ m.notFound + m.errs = n.notFound + n.errs + 1
                 /\ m.downloaded + m.skipped = n.downloaded + n.skipped
                 => Accounted(m, tiles, S \cup {t})
<1> DEFINE K == Kept(S, tiles)
           U == S \cup {t}
           more == tiles \cup {Stored(t)}
<1>1. IsFiniteSet(S) /\ K \subseteq S /\ IsFiniteSet(K) /\ IsFiniteSet(S \ K) /\ t \notin K
  <2>1. IsFiniteSet(S)
    BY WantedFinite, FS_Subset
  <2>2. K \subseteq S
    BY DEF Kept
  <2>3. QED
    BY <2>1, <2>2, FS_Subset
<1>2. Kept(U, more) = K \cup {t} /\ U \ (K \cup {t}) = S \ K
  <2>1. \A u \in S : Stored(u) # Stored(t)
    BY StoredOnce
  <2>2. QED
    BY <1>1, <2>1 DEF Kept
<1>3. Kept(U, tiles) = K /\ U \ K = (S \ K) \cup {t}
  BY <1>1 DEF Kept
<1>4. /\ Cardinality(U) = Cardinality(S) + 1
      /\ Cardinality(K \cup {t}) = Cardinality(K) + 1
      /\ Cardinality((S \ K) \cup {t}) = Cardinality(S \ K) + 1
  BY <1>1, FS_AddElement
<1>5. n.done = Cardinality(S) /\ n.downloaded + n.skipped = Cardinality(K)
      /\ n.notFound + n.errs = Cardinality(S \ K)
  BY DEF Accounted
<1>6. ASSUME NEW m \in Counts, m.done = n.done + 1, m.notFound + m.errs = n.notFound + n.errs,
             m.downloaded + m.skipped = n.downloaded + n.skipped + 1
      PROVE  Accounted(m, more, U)
  BY <1>2, <1>4, <1>5, <1>6 DEF Accounted
<1>7. ASSUME NEW m \in Counts, m.done = n.done + 1, m.notFound + m.errs = n.notFound + n.errs + 1,
             m.downloaded + m.skipped = n.downloaded + n.skipped
      PROVE  Accounted(m, tiles, U)
  BY <1>3, <1>4, <1>5, <1>7 DEF Accounted
<1>8. QED
  BY <1>6, <1>7

LEMMA CountsMove ==
    ASSUME c \in Counts
    PROVE  /\ LET m == CountedAs("downloaded")
              IN  /\ m \in Counts /\ m.done = c.done + 1 /\ m.notFound + m.errs = c.notFound + c.errs
                  /\ m.downloaded + m.skipped = c.downloaded + c.skipped + 1
           /\ LET m == CountedAs("notFound")
              IN  /\ m \in Counts /\ m.done = c.done + 1 /\ m.notFound + m.errs = c.notFound + c.errs + 1
                  /\ m.downloaded + m.skipped = c.downloaded + c.skipped
           /\ LET m == CountedAs("errs")
              IN  /\ m \in Counts /\ m.done = c.done + 1 /\ m.notFound + m.errs = c.notFound + c.errs + 1
                  /\ m.downloaded + m.skipped = c.downloaded + c.skipped
<1>1. c.done + 1 \in Nat /\ c.downloaded + 1 \in Nat /\ c.notFound + 1 \in Nat /\ c.errs + 1 \in Nat
  BY DEF Counts
<1>2. \A i, j \in Nat : /\ [c EXCEPT !["downloaded"] = i, !.done = j] \in Counts
                        /\ [c EXCEPT !["notFound"] = i, !.done = j] \in Counts
                        /\ [c EXCEPT !["errs"] = i, !.done = j] \in Counts
  BY DEF Counts
<1>3. CountedAs("downloaded") \in Counts /\ CountedAs("notFound") \in Counts /\ CountedAs("errs") \in Counts
  BY <1>1, <1>2 DEF CountedAs
<1>4. LET m == CountedAs("downloaded")
      IN  /\ m.done = c.done + 1 /\ m.notFound + m.errs = c.notFound + c.errs
          /\ m.downloaded + m.skipped = c.downloaded + c.skipped + 1
  BY DEF CountedAs, Counts
<1>5. LET m == CountedAs("notFound")
      IN  /\ m.done = c.done + 1 /\ m.notFound + m.errs = c.notFound + c.errs + 1
          /\ m.downloaded + m.skipped = c.downloaded + c.skipped
  BY DEF CountedAs, Counts
<1>6. LET m == CountedAs("errs")
      IN  /\ m.done = c.done + 1 /\ m.notFound + m.errs = c.notFound + c.errs + 1
          /\ m.downloaded + m.skipped = c.downloaded + c.skipped
  BY DEF CountedAs, Counts
<1>7. QED
  BY <1>3, <1>4, <1>5, <1>6

-----------------------------------------------------------------------------
(* The channels and the workers.                                             *)

LEMMA StateFacts ==
    ASSUME NEW S
    PROVE  /\ Exited.st = "exit" /\ IdleWorker.st = "idle"
           /\ \A x \in WorkerStates(S) :
                /\ x.st \in {"limit", "fetch", "send"} => x.job \in S
                /\ x.st = "fetch" => \A n \in Nat : [x EXCEPT !.attempt = n] \in [st : {"fetch"}, job : S, attempt : Nat]
                /\ x.st = "fetch" => x.attempt \in Nat
                /\ x.st = "send" => x.res \in {"data", "notFound", "err"}
  BY DEF WorkerStates, Exited, IdleWorker

LEMMA Within ==
    ASSUME NEW S, NEW s \in Seq(S) PROVE Members(s) \subseteq S
  BY DEF Members

LEMMA UnderwayIn == DownloadShapes /\ Downloading => Underway \subseteq Tiles(zoom)
<1> SUFFICES ASSUME DownloadShapes, Downloading PROVE Underway \subseteq Tiles(zoom)
  OBVIOUS
<1>1. Members(missing) \subseteq Tiles(zoom) /\ Members(jobs) \subseteq Tiles(zoom)
  BY Within DEF DownloadShapes
<1>2. JobsOf(results) \in Seq(Tiles(zoom))
  BY JobsMove DEF DownloadShapes
<1>3. Members(JobsOf(results)) \subseteq Tiles(zoom)
  BY <1>2, Within
<1>4. InHands(work) \subseteq Tiles(zoom)
  <2>1. \A w \in Workers : work[w] \in WorkerStates(Tiles(zoom))
    BY DEF DownloadShapes
  <2>2. QED
    BY <2>1, StateFacts DEF InHands, Holding
<1>5. QED
  BY <1>1, <1>3, <1>4 DEF Underway

\* A step that moves tiles between the places of a zoom level, or drops some of
\* them because the run is cancelled.
LEMMA ChannelStep ==
    ASSUME DownloadInv, Downloading, Downloading', zoom' = zoom, archive' = archive, c' = c, complete' = complete,
           missing' \in Seq(Tiles(zoom)), jobs' \in Seq(Tiles(zoom)), results' \in Seq(ResultsOf(Tiles(zoom))),
           work' \in [Workers -> WorkerStates(Tiles(zoom))],
           OnePlace', Underway' \subseteq Underway, ~cancelled' => ~cancelled /\ Underway' = Underway, Emptied'
    PROVE  DownloadInv'
<1>1. DownloadShapes'
  BY DEF DownloadInv, DownloadShapes, Downloading
<1>2. NotStored'
  BY DEF DownloadInv, NotStored
<1>3. ~complete' /\ phase' # "zoom" /\ phase' # "convert"
  <2>1. ~complete
    BY DEF DownloadInv, Accounts, Downloading
  <2>2. ~complete'
    BY <2>1, Zenon
  <2>3. QED
    BY <2>2 DEF Downloading
<1>4. Accounts'
  <2>1. ASSUME ~cancelled' PROVE Accounted(c', archive', UpTo(zoom') \ Underway')
    <3>1. Accounted(c, archive, UpTo(zoom) \ Underway)
      BY <2>1, Zenon DEF DownloadInv, Accounts
    <3>2. Underway' = Underway
      BY <2>1, Zenon
    <3>3. QED
      BY <3>1, <3>2, Zenon
  <2>2. QED
    BY <1>3, <2>1, Zenon DEF Accounts
<1>5. QED
  BY <1>1, <1>2, <1>4, Zenon DEF DownloadInv

LEMMA ProduceStep == DownloadInv /\ Produce => DownloadInv'
<1> SUFFICES ASSUME DownloadInv, Produce PROVE DownloadInv'
  OBVIOUS
<1>1. /\ Downloading /\ Downloading' /\ phase = "produce" /\ phase' = phase /\ missing # <<>>
      /\ jobs' = Append(jobs, Head(missing)) /\ missing' = Tail(missing)
      /\ zoom' = zoom /\ archive' = archive /\ c' = c /\ results' = results /\ work' = work
  BY DEF Produce, Downloading
<1>2. /\ missing \in Seq(Tiles(zoom)) /\ jobs \in Seq(Tiles(zoom)) /\ results \in Seq(ResultsOf(Tiles(zoom)))
      /\ work \in [Workers -> WorkerStates(Tiles(zoom))] /\ OnePlace
  BY <1>1 DEF DownloadInv, DownloadShapes
<1>3. /\ missing' \in Seq(Tiles(zoom)) /\ NoRepeat(missing') /\ Head(missing) \in Tiles(zoom)
      /\ Head(missing) \in Members(missing) /\ Members(missing') = Members(missing) \ {Head(missing)}
  BY <1>1, <1>2, HeadOut DEF OnePlace
<1>4. Head(missing) \notin Members(jobs)
  BY <1>2, <1>3 DEF OnePlace, Apart
<1>5. jobs' \in Seq(Tiles(zoom)) /\ NoRepeat(jobs') /\ Members(jobs') = Members(jobs) \cup {Head(missing)}
  BY <1>1, <1>2, <1>3, <1>4, AppendIn DEF OnePlace
<1>6. InHands(work)' = InHands(work) /\ OneEach(work)' = OneEach(work) /\ JobsOf(results)' = JobsOf(results)
  BY <1>1, Zenon
<1>7. OnePlace'
  BY <1>1, <1>2, <1>3, <1>5, <1>6 DEF OnePlace, Apart
<1>8. Underway' = Underway
  BY <1>1, <1>3, <1>5, <1>6 DEF Underway
<1>9. complete' = complete /\ cancelled' = cancelled /\ writing' = writing
  BY DEF Produce
<1>10. Emptied'
  <2>1. writing
    BY <1>1 DEF DownloadInv, Emptied
  <2>2. writing'
    BY <1>9, <2>1, Zenon
  <2>3. ~cancelled => \A w \in Workers : work[w] # Exited
    BY <1>1 DEF DownloadInv, Emptied
  <2>4. ~cancelled' => \A w \in Workers : work'[w] # Exited
    BY <1>1, <1>9, <2>3, Zenon
  <2>5. QED
    BY <1>1, <2>2, <2>4 DEF Emptied
<1>11. ~cancelled' => ~cancelled
  BY <1>9, Zenon
<1>12. QED
  BY <1>1, <1>2, <1>3, <1>5, <1>7, <1>8, <1>9, <1>10, <1>11, ChannelStep

LEMMA CloseJobsStep == DownloadInv /\ CloseJobs => DownloadInv'
<1> SUFFICES ASSUME DownloadInv, CloseJobs PROVE DownloadInv'
  OBVIOUS
<1>1. /\ Downloading /\ Downloading' /\ phase = "produce" /\ phase' = "wait" /\ missing' = <<>> /\ jobs' = jobs
      /\ zoom' = zoom /\ archive' = archive /\ c' = c /\ results' = results /\ work' = work
  BY DEF CloseJobs, StopProducing, Downloading
<1>2. /\ missing \in Seq(Tiles(zoom)) /\ jobs \in Seq(Tiles(zoom)) /\ results \in Seq(ResultsOf(Tiles(zoom)))
      /\ work \in [Workers -> WorkerStates(Tiles(zoom))] /\ OnePlace
  BY <1>1 DEF DownloadInv, DownloadShapes
<1>3. missing' \in Seq(Tiles(zoom)) /\ NoRepeat(missing') /\ Members(missing') = {}
  BY <1>1, EmptyHas
<1>4. /\ InHands(work)' = InHands(work) /\ OneEach(work)' = OneEach(work) /\ JobsOf(results)' = JobsOf(results)
      /\ Members(jobs)' = Members(jobs) /\ NoRepeat(jobs)' = NoRepeat(jobs)
  BY <1>1, Zenon
<1>5. OnePlace'
  BY <1>1, <1>2, <1>3, <1>4 DEF OnePlace, Apart
<1>6. Underway' \subseteq Underway
  BY <1>1, <1>3, <1>4 DEF Underway
<1>7. complete' = complete /\ cancelled' = cancelled /\ writing' = writing
  BY DEF CloseJobs
<1>8. ~cancelled' => ~cancelled
  BY <1>7, Zenon
<1>9. ~cancelled => Underway' = Underway
  <2>1. ~cancelled => missing = <<>>
    BY DEF CloseJobs, StopProducing
  <2>2. missing = <<>> => Members(missing)' = Members(missing)
    BY <1>3, EmptyHas
  <2>3. QED
    BY <1>1, <1>4, <2>1, <2>2 DEF Underway
<1>10. Emptied'
  <2>1. writing
    BY <1>1 DEF DownloadInv, Emptied
  <2>2. writing'
    BY <1>7, <2>1, Zenon
  <2>3. ~cancelled => \A w \in Workers : work[w] # Exited
    BY <1>1 DEF DownloadInv, Emptied
  <2>4. ~cancelled' => \A w \in Workers : work'[w] # Exited
    BY <1>1, <1>7, <2>3, Zenon
  <2>5. QED
    BY <1>1, <2>2, <2>4 DEF Emptied
<1>11. QED
  BY <1>1, <1>2, <1>3, <1>5, <1>6, <1>7, <1>8, <1>9, <1>10, ChannelStep

LEMMA CloseResultsStep == DownloadInv /\ CloseResults => DownloadInv'
<1> SUFFICES ASSUME DownloadInv, CloseResults PROVE DownloadInv'
  OBVIOUS
<1>1. /\ Downloading /\ Downloading' /\ phase = "wait" /\ phase' = "drain" /\ missing' = missing /\ jobs' = jobs
      /\ zoom' = zoom /\ archive' = archive /\ c' = c /\ results' = results /\ work' = work
      /\ \A w \in Workers : work[w] = Exited
  BY DEF CloseResults, ChannelVars, Downloading
<1>2. /\ missing \in Seq(Tiles(zoom)) /\ jobs \in Seq(Tiles(zoom)) /\ results \in Seq(ResultsOf(Tiles(zoom)))
      /\ work \in [Workers -> WorkerStates(Tiles(zoom))] /\ OnePlace
  BY <1>1 DEF DownloadInv, DownloadShapes
<1>3. OnePlace' = OnePlace /\ Underway' = Underway
  BY <1>1, Zenon DEF OnePlace, Underway
<1>4. complete' = complete /\ cancelled' = cancelled /\ writing' = writing
  BY DEF CloseResults, ChannelVars
<1>5. OnePlace' /\ (~cancelled' => ~cancelled)
  BY <1>2, <1>3, <1>4, Zenon
<1>6. Emptied'
  <2>1. writing /\ missing = <<>>
    BY <1>1 DEF DownloadInv, Emptied
  <2>2. writing'
    BY <1>4, <2>1, Zenon
  <2>3. ~cancelled => jobs = <<>>
    <3>1. \E w \in Workers : work[w] = Exited
      BY <1>1, DownloadAssumption
    <3>2. QED
      BY <1>1, <3>1 DEF DownloadInv, Emptied
  <2>4. ~cancelled' => jobs' = <<>>
    BY <1>1, <1>4, <2>3, Zenon
  <2>5. QED
    BY <1>1, <2>1, <2>2, <2>4 DEF Emptied
<1>7. QED
  BY <1>1, <1>2, <1>3, <1>4, <1>5, <1>6, ChannelStep

LEMMA InterruptStep == DownloadInv /\ Interrupt => DownloadInv'
<1> SUFFICES ASSUME DownloadInv, Interrupt PROVE DownloadInv'
  OBVIOUS
<1>1. /\ phase' = phase /\ missing' = missing /\ jobs' = jobs /\ zoom' = zoom /\ archive' = archive /\ c' = c
      /\ results' = results /\ work' = work /\ complete' = complete /\ writing' = writing
      /\ phase # "stopped"
  BY DEF Interrupt, ChannelVars
<1>2. cancelled'
  BY DEF Interrupt
<1>3. DownloadShapes' = DownloadShapes /\ OnePlace' = OnePlace /\ NotStored' = NotStored /\ Downloading' = Downloading
  BY <1>1, Zenon DEF DownloadShapes, OnePlace, NotStored, Underway, Downloading
<1>4. Emptied'
  <2>1. /\ phase \in {"wait", "drain"} => missing = <<>>
        /\ phase = "drain" => \A w \in Workers : work[w] = Exited
        /\ phase \in {"produce", "wait"} => writing
        /\ phase = "drain" /\ ~writing => results = <<>>
    BY DEF DownloadInv, Emptied
  <2>2. QED
    BY <1>1, <1>2, <2>1, Zenon DEF Emptied
<1>5. Accounts'
  <2>1. ~complete
    BY <1>1 DEF DownloadInv, Accounts
  <2>2. ~complete'
    BY <1>1, <2>1, Zenon
  <2>3. /\ phase = "zoom" => Accounted(c, archive, Before(zoom))
        /\ phase = "convert" => Accounted(c, archive, Wanted)
    BY DEF DownloadInv, Accounts
  <2>4. QED
    BY <1>1, <1>2, <2>2, <2>3, Zenon DEF Accounts
<1>6. QED
  BY <1>3, <1>4, <1>5, Zenon DEF DownloadInv

LEMMA WriterEndsStep == DownloadInv /\ WriterEnds => DownloadInv'
<1> SUFFICES ASSUME DownloadInv, WriterEnds PROVE DownloadInv'
  OBVIOUS
<1>1. /\ phase' = phase /\ missing' = missing /\ jobs' = jobs /\ zoom' = zoom /\ archive' = archive /\ c' = c
      /\ results' = results /\ work' = work /\ complete' = complete /\ cancelled' = cancelled
      /\ phase = "drain" /\ results = <<>>
  BY DEF WriterEnds
<1>2. /\ DownloadShapes' = DownloadShapes /\ OnePlace' = OnePlace /\ NotStored' = NotStored /\ Downloading' = Downloading
      /\ Accounts' = Accounts
  BY <1>1, Zenon DEF DownloadShapes, OnePlace, NotStored, Underway, Downloading, Accounts
<1>3. Emptied'
  <2>1. /\ missing = <<>> /\ \A w \in Workers : work[w] = Exited
        /\ ~cancelled => jobs = <<>>
    BY <1>1 DEF DownloadInv, Emptied
  <2>2. ~cancelled' => jobs' = <<>>
    BY <1>1, <2>1, Zenon
  <2>3. QED
    BY <1>1, <2>1, <2>2 DEF Emptied
<1>4. QED
  BY <1>2, <1>3, Zenon DEF DownloadInv

\* Where no zoom level is under way, there is little to say.
LEMMA NoZoom ==
    ASSUME ~Downloading, phase \in {"stopped", "zoom", "convert"}, zoom \in DOMAIN Grids, c \in Counts,
           results = <<>>, work = [w \in Workers |-> Exited], Accounts
    PROVE  DownloadInv
<1>1. DownloadShapes
  BY DEF DownloadShapes
<1>2. phase \notin {"wait", "drain", "produce"}
  BY DEF Downloading
<1>3. Emptied
  BY <1>2 DEF Emptied
<1>4. QED
  BY <1>1, <1>3 DEF DownloadInv

LEMMA KillStep == DownloadInv /\ Kill => DownloadInv'
<1> SUFFICES ASSUME DownloadInv, Kill PROVE DownloadInv'
  OBVIOUS
<1>1. /\ phase' = "stopped" /\ phase # "stopped" /\ zoom' = zoom /\ c' = c /\ complete' = complete
      /\ results' = <<>> /\ work' = [w \in Workers |-> Exited]
  BY DEF Kill
<1>2. ~complete
  BY <1>1 DEF DownloadInv, Accounts
<1>3. ~complete'
  BY <1>1, <1>2, Zenon
<1>4. Accounts'
  BY <1>1, <1>3 DEF Accounts, Downloading
<1>5. zoom \in DOMAIN Grids /\ c \in Counts
  BY DEF DownloadInv, DownloadShapes
<1>6. ~Downloading' /\ phase' \in {"stopped", "zoom", "convert"}
  BY <1>1 DEF Downloading
<1>7. (~Downloading /\ phase \in {"stopped", "zoom", "convert"} /\ zoom \in DOMAIN Grids /\ c \in Counts
          /\ results = <<>> /\ work = [w \in Workers |-> Exited] /\ Accounts => DownloadInv)'
  BY NoZoom, PTL
<1>8. QED
  BY <1>1, <1>4, <1>5, <1>6, <1>7

LEMMA NoZoomNext ==
    ASSUME ~Downloading', phase' \in {"stopped", "zoom", "convert"}, zoom' \in DOMAIN Grids, c' \in Counts,
           results' = <<>>, work' = [w \in Workers |-> Exited], Accounts'
    PROVE  DownloadInv'
<1>1. (~Downloading /\ phase \in {"stopped", "zoom", "convert"} /\ zoom \in DOMAIN Grids /\ c \in Counts
          /\ results = <<>> /\ work = [w \in Workers |-> Exited] /\ Accounts => DownloadInv)'
  BY NoZoom, PTL
<1>2. QED
  BY <1>1

\* The step to the next zoom level, with every tile up to this one counted.
LEMMA NextZoomStep ==
    ASSUME NextZoom, zoom \in DOMAIN Grids, ~complete', c' \in Counts, Accounted(c', archive', UpTo(zoom)),
           results' = <<>>, work' = [w \in Workers |-> Exited]
    PROVE  DownloadInv'
<1>1. CASE zoom = MaxZoom
  <2>1. phase' = "convert" /\ zoom' = zoom
    BY <1>1 DEF NextZoom
  <2>2. Accounted(c', archive', Wanted)
    BY <1>1, ZoomFacts
  <2>3. Accounts'
    BY <2>1, <2>2 DEF Accounts, Downloading
  <2>4. QED
    BY <2>1, <2>3, NoZoomNext DEF Downloading
<1>2. CASE zoom # MaxZoom
  <2>1. phase' = "zoom" /\ zoom' = zoom + 1
    BY <1>2 DEF NextZoom
  <2>2. zoom' \in DOMAIN Grids
    BY <1>2, <2>1, GridFacts
  <2>3. Accounted(c', archive', Before(zoom'))
    BY <2>1, ZoomFacts
  <2>4. Accounts'
    BY <2>1, <2>3 DEF Accounts, Downloading
  <2>5. QED
    BY <2>1, <2>2, <2>4, NoZoomNext DEF Downloading
<1>3. QED
  BY <1>1, <1>2

LEMMA EndZoomStep == DownloadInv /\ EndZoom => DownloadInv'
<1> SUFFICES ASSUME DownloadInv, EndZoom PROVE DownloadInv'
  OBVIOUS
<1>1. /\ phase = "drain" /\ Downloading /\ ~writing /\ archive' = archive /\ c' = c /\ complete' = complete
      /\ results' = results /\ work' = work
  BY DEF EndZoom, Drained, ChannelVars, Downloading
<1>2. /\ missing = <<>> /\ results = <<>> /\ \A w \in Workers : work[w] = Exited
      /\ ~cancelled => jobs = <<>>
  BY <1>1 DEF DownloadInv, Emptied
<1>3. zoom \in DOMAIN Grids /\ c \in Counts /\ work = [w \in Workers |-> Exited]
  <2>1. zoom \in DOMAIN Grids /\ c \in Counts /\ work \in [Workers -> WorkerStates(Tiles(zoom))]
    BY <1>1 DEF DownloadInv, DownloadShapes
  <2>2. QED
    BY <1>2, <2>1
<1>4. ~complete'
  <2>1. ~complete
    BY <1>1 DEF DownloadInv, Accounts
  <2>2. QED
    BY <1>1, <2>1, Zenon
<1>5. CASE cancelled
  <2>1. phase' = "stopped" /\ zoom' = zoom
    BY <1>5 DEF EndZoom
  <2>2. Accounts'
    BY <1>4, <2>1 DEF Accounts, Downloading
  <2>3. QED
    BY <1>1, <1>2, <1>3, <2>1, <2>2, NoZoomNext DEF Downloading
<1>6. CASE ~cancelled
  <2>1. NextZoom
    BY <1>6 DEF EndZoom
  <2>2. Underway = {}
    <3>1. InHands(work) = {}
      <4>1. \A w \in Workers : work[w].st = "exit"
        BY <1>2 DEF Exited
      <4>2. QED
        BY <4>1 DEF InHands, Holding
    <3>2. QED
      BY <1>2, <1>6, <3>1, EmptyHas DEF Underway
  <2>3. Accounted(c, archive, UpTo(zoom) \ Underway)
    BY <1>1, <1>6 DEF DownloadInv, Accounts
  <2>4. UpTo(zoom) \ Underway = UpTo(zoom)
    BY <2>2
  <2>5. Accounted(c', archive', UpTo(zoom))
    BY <1>1, <2>3, <2>4
  <2>6. QED
    BY <1>1, <1>2, <1>3, <1>4, <2>1, <2>5, NextZoomStep
<1>7. QED
  BY <1>5, <1>6

LEMMA ConvertStep == DownloadInv /\ Convert => DownloadInv'
<1> SUFFICES ASSUME DownloadInv, Convert PROVE DownloadInv'
  OBVIOUS
<1>1. /\ phase = "convert" /\ ~Downloading /\ phase' = "stopped" /\ zoom' = zoom /\ archive' = archive /\ c' = c
      /\ results' = results /\ work' = work
  BY DEF Convert, ChannelVars, Downloading
<1>2. /\ Accounted(c, archive, Wanted) /\ zoom \in DOMAIN Grids /\ c \in Counts
      /\ results = <<>> /\ work = [w \in Workers |-> Exited]
  BY <1>1 DEF DownloadInv, DownloadShapes, Accounts
<1>3. Accounted(c', archive', Wanted)
  BY <1>1, <1>2
<1>4. Accounts'
  BY <1>1, <1>3 DEF Accounts, Downloading
<1>5. QED
  BY <1>1, <1>2, <1>4, NoZoomNext DEF Downloading

LEMMA RunStep == DownloadInv /\ Run => DownloadInv'
<1> SUFFICES ASSUME DownloadInv, Run PROVE DownloadInv'
  OBVIOUS
<1>1. /\ phase = "stopped" /\ ~Downloading /\ phase' = "zoom" /\ zoom' = MinZoom /\ c' = NoCounts /\ ~complete'
      /\ results' = results /\ work' = work
  BY DEF Run, ChannelVars, Downloading
<1>2. results = <<>> /\ work = [w \in Workers |-> Exited]
  BY <1>1 DEF DownloadInv, DownloadShapes
<1>3. Accounted(c', archive', Before(zoom')) /\ c' \in Counts /\ zoom' \in DOMAIN Grids
  BY <1>1, NothingCounted, ZoomFacts, GridFacts
<1>4. Accounts'
  BY <1>1, <1>3 DEF Accounts, Downloading
<1>5. QED
  BY <1>1, <1>2, <1>3, <1>4, NoZoomNext DEF Downloading

LEMMA DownloadStarts == DownloadInit => DownloadInv
<1> SUFFICES ASSUME DownloadInit PROVE DownloadInv
  OBVIOUS
<1>1. /\ phase = "stopped" /\ zoom \in DOMAIN Grids /\ c \in Counts /\ ~complete
      /\ results = <<>> /\ work = [w \in Workers |-> Exited]
  BY GridFacts, NothingCounted DEF DownloadInit
<1>2. ~Downloading /\ Accounts
  BY <1>1 DEF Downloading, Accounts
<1>3. QED
  BY <1>1, <1>2, NoZoom

LEMMA BeginZoomStep == DownloadInv /\ BeginZoom => DownloadInv'
<1> SUFFICES ASSUME DownloadInv, BeginZoom PROVE DownloadInv'
  OBVIOUS
<1> DEFINE present == Existing(zoom)
           absent  == Tiles(zoom) \ present
           k == Cardinality(present)
<1>1. /\ phase = "zoom" /\ ~Downloading /\ archive' = archive /\ cancelled' = cancelled /\ complete' = complete
      /\ c' = [c EXCEPT !.done = @ + k, !.skipped = @ + k]
  BY DEF BeginZoom, Downloading, Counted
<1>2. /\ zoom \in DOMAIN Grids /\ c \in Counts /\ results = <<>> /\ work = [w \in Workers |-> Exited]
      /\ Accounted(c, archive, Before(zoom)) /\ ~complete
  BY <1>1 DEF DownloadInv, DownloadShapes, Accounts
<1>3. ~complete'
  BY <1>1, <1>2, Zenon
<1>4. present \subseteq Tiles(zoom) /\ (\A t \in present : Stored(t) \in archive)
      /\ (\A t \in absent : Stored(t) \notin archive)
  BY DEF Existing
<1>5. /\ IsFiniteSet(Before(zoom)) /\ IsFiniteSet(Tiles(zoom)) /\ Before(zoom) \cap Tiles(zoom) = {}
      /\ UpTo(zoom) = Before(zoom) \cup Tiles(zoom)
  BY <1>2, ZoomFacts
<1>6. IsFiniteSet(present) /\ IsFiniteSet(absent)
  BY <1>4, <1>5, FS_Subset
<1>7. Before(zoom) \cap present = {}
  BY <1>4, <1>5
<1> HIDE DEF present
<1>8. c' \in Counts /\ Accounted(c', archive', Before(zoom) \cup present)
  BY <1>1, <1>2, <1>4, <1>5, <1>6, <1>7, CountedIn
<1>9. UpTo(zoom) \ absent = Before(zoom) \cup present
  BY <1>4, <1>5
<1>10. CASE absent = {}
  <2>1. NextZoom /\ results' = results /\ work' = work
    BY <1>10 DEF BeginZoom, ChannelVars, present
  <2>2. Accounted(c', archive', UpTo(zoom))
    <3>1. UpTo(zoom) = Before(zoom) \cup present
      BY <1>9, <1>10
    <3>2. QED
      BY <1>8, <3>1
  <2>3. QED
    BY <1>2, <1>3, <1>8, <2>1, <2>2, NextZoomStep
<1>11. CASE absent # {}
  <2>1. /\ phase' = "produce" /\ zoom' = zoom /\ missing' = SetToSeq(absent) /\ jobs' = <<>> /\ results' = <<>>
        /\ work' = [w \in Workers |-> IdleWorker] /\ writing'
    BY <1>11 DEF BeginZoom, present
  <2>2. missing' \in Seq(absent) /\ NoRepeat(missing') /\ Members(missing') = absent
    BY <1>6, <2>1, ListOf
  <2>3. missing' \in Seq(Tiles(zoom))
    BY <2>2
  <2>4. /\ Members(jobs') = {} /\ NoRepeat(jobs') /\ JobsOf(results') = <<>>
        /\ Members(JobsOf(results')) = {} /\ NoRepeat(JobsOf(results'))
    BY <2>1, EmptyHas
  <2>5. Holding(work') = {} /\ InHands(work') = {} /\ OneEach(work')
    <3>1. \A w \in Workers : work'[w].st = "idle"
      BY <2>1 DEF IdleWorker
    <3>2. Holding(work') = {}
      BY <3>1 DEF Holding
    <3>3. QED
      BY <3>2 DEF InHands, OneEach
  <2>6. Downloading' /\ OnePlace' /\ Underway' = absent
    BY <2>1, <2>2, <2>4, <2>5 DEF Downloading, OnePlace, Apart, Underway
  <2>7. NotStored'
    BY <1>1, <1>4, <2>6 DEF NotStored
  <2>8. Accounts'
    <3>1. Accounted(c', archive', UpTo(zoom') \ Underway')
      BY <1>8, <1>9, <2>1, <2>6
    <3>2. phase' # "zoom" /\ phase' # "convert"
      BY <2>1
    <3>3. QED
      BY <1>3, <3>1, <3>2, Zenon DEF Accounts
  <2>9. DownloadShapes'
    <3>1. jobs' \in Seq(Tiles(zoom)) /\ results' \in Seq(ResultsOf(Tiles(zoom)))
      BY <2>1
    <3>2. work' \in [Workers -> WorkerStates(Tiles(zoom))]
      BY <2>1 DEF WorkerStates
    <3>3. QED
      BY <1>2, <1>8, <2>1, <2>3, <2>6, <3>1, <3>2 DEF DownloadShapes
  <2>10. Emptied'
    <3>1. \A w \in Workers : work'[w] # Exited
      BY <2>1 DEF IdleWorker, Exited
    <3>2. QED
      BY <2>1, <3>1 DEF Emptied
  <2>11. QED
    BY <2>6, <2>7, <2>8, <2>9, <2>10 DEF DownloadInv
<1>12. QED
  BY <1>10, <1>11

\* What a worker does is done while the zoom level is under way.
LEMMA BusyIsLive ==
    ASSUME DownloadInv, NEW w \in Workers, work[w].st \in {"limit", "fetch", "send"}
    PROVE  phase \in {"produce", "wait"} /\ w \in Holding(work) /\ work[w].job \in InHands(work)
<1>1. work[w] # Exited
  BY DEF Exited
<1>2. Downloading
  BY <1>1 DEF DownloadInv, DownloadShapes
<1>3. phase # "drain"
  BY <1>1 DEF DownloadInv, Emptied
<1>4. QED
  BY <1>2, <1>3 DEF Downloading, Holding, InHands

\* A step of one worker.
LEMMA WorkerStep ==
    ASSUME DownloadInv, NEW w \in Workers, NEW s \in WorkerStates(Tiles(zoom)), Works(w, s),
           phase \in {"produce", "wait"},
           jobs' \in Seq(Tiles(zoom)), results' \in Seq(ResultsOf(Tiles(zoom))),
           jobs = <<>> => jobs' = <<>>,
           s = Exited => cancelled \/ (phase = "wait" /\ jobs' = <<>>),
           OnePlace', Underway' \subseteq Underway, ~cancelled => Underway' = Underway
    PROVE  DownloadInv'
<1>1. /\ phase' = phase /\ zoom' = zoom /\ missing' = missing /\ archive' = archive /\ writing' = writing
      /\ c' = c /\ cancelled' = cancelled /\ complete' = complete /\ work' = [work EXCEPT ![w] = s]
  BY DEF Works
<1>2. Downloading /\ Downloading'
  BY <1>1 DEF Downloading
<1>3. missing \in Seq(Tiles(zoom)) /\ work \in [Workers -> WorkerStates(Tiles(zoom))]
  BY <1>2 DEF DownloadInv, DownloadShapes
<1>4. work' \in [Workers -> WorkerStates(Tiles(zoom))] /\ work'[w] = s /\ \A v \in Workers \ {w} : work'[v] = work[v]
  BY <1>1, <1>3
<1>5. ~cancelled' => ~cancelled /\ Underway' = Underway
  BY <1>1, Zenon
<1>6. Emptied'
  <2>1. /\ phase = "wait" => missing = <<>>
        /\ writing
        /\ ~cancelled => /\ phase = "produce" => \A v \in Workers : work[v] # Exited
                         /\ phase = "wait" /\ (\E v \in Workers : work[v] = Exited) => jobs = <<>>
    BY DEF DownloadInv, Emptied
  <2>2. writing'
    BY <1>1, <2>1, Zenon
  <2>3. ~cancelled => /\ phase = "produce" => \A v \in Workers : work'[v] # Exited
                      /\ phase = "wait" /\ (\E v \in Workers : work'[v] = Exited) => jobs' = <<>>
    BY <1>4, <2>1
  <2>4. ~cancelled' => /\ phase' = "produce" => \A v \in Workers : work'[v] # Exited
                       /\ phase' = "wait" /\ (\E v \in Workers : work'[v] = Exited) => jobs' = <<>>
    BY <1>1, <2>3, Zenon
  <2>5. QED
    BY <1>1, <2>1, <2>2, <2>4 DEF Emptied
<1>7. QED
  BY <1>1, <1>2, <1>3, <1>4, <1>5, <1>6, ChannelStep

LEMMA TakeJobStep == ASSUME DownloadInv, NEW w \in Workers, TakeJob(w) PROVE DownloadInv'
<1> DEFINE s == [st |-> "limit", job |-> Head(jobs)]
<1>1. /\ Downloading /\ phase \in {"produce", "wait"} /\ work[w] = IdleWorker /\ jobs # <<>> /\ Works(w, s)
      /\ jobs' = Tail(jobs) /\ results' = results /\ missing' = missing /\ work' = [work EXCEPT ![w] = s]
  BY DEF TakeJob, Live, Downloading, Works
<1>2. /\ jobs \in Seq(Tiles(zoom)) /\ results \in Seq(ResultsOf(Tiles(zoom)))
      /\ work \in [Workers -> WorkerStates(Tiles(zoom))] /\ OnePlace
  BY <1>1 DEF DownloadInv, DownloadShapes
<1>3. /\ jobs' \in Seq(Tiles(zoom)) /\ NoRepeat(jobs') /\ Head(jobs) \in Members(jobs) /\ Head(jobs) \in Tiles(zoom)
      /\ Members(jobs') = Members(jobs) \ {Head(jobs)}
  BY <1>1, <1>2, HeadOut DEF OnePlace
<1>4. s \in WorkerStates(Tiles(zoom)) /\ s.st = "limit" /\ s.job = Head(jobs) /\ s # Exited
  BY <1>3 DEF WorkerStates, Exited
<1>5. Head(jobs) \notin InHands(work) /\ OneEach(work)
  BY <1>2, <1>3 DEF OnePlace, Apart
<1>6. work[w].st = "idle" /\ work = [v \in Workers |-> work[v]]
  BY <1>1, <1>2 DEF IdleWorker
<1> HIDE DEF s
<1>7. OneEach(work') /\ InHands(work') = InHands(work) \cup {Head(jobs)}
  <2>1. s.st \in {"limit", "fetch", "send"} /\ s.job \notin InHands(work)
        /\ work[w].st \notin {"limit", "fetch", "send"}
    BY <1>4, <1>5, <1>6
  <2>2. OneEach([work EXCEPT ![w] = s]) /\ InHands([work EXCEPT ![w] = s]) = InHands(work) \cup {s.job}
    BY <1>5, <1>6, <2>1, HandsIn
  <2>3. QED
    BY <1>1, <1>4, <2>2
<1>8. OnePlace'
  BY <1>1, <1>2, <1>3, <1>5, <1>7 DEF OnePlace, Apart
<1>9. Underway' = Underway
  BY <1>1, <1>3, <1>7 DEF Underway
<1>10. QED
  BY <1>1, <1>2, <1>3, <1>4, <1>8, <1>9, WorkerStep

LEMMA NoMoreJobsStep == ASSUME DownloadInv, NEW w \in Workers, NoMoreJobs(w) PROVE DownloadInv'
<1>1. /\ Downloading /\ phase = "wait" /\ work[w] = IdleWorker /\ jobs = <<>> /\ Works(w, Exited)
      /\ jobs' = jobs /\ results' = results /\ missing' = missing /\ work' = [work EXCEPT ![w] = Exited]
  BY DEF NoMoreJobs, Downloading, Works
<1>2. /\ jobs \in Seq(Tiles(zoom)) /\ results \in Seq(ResultsOf(Tiles(zoom)))
      /\ work \in [Workers -> WorkerStates(Tiles(zoom))] /\ OnePlace
  BY <1>1 DEF DownloadInv, DownloadShapes
<1>3. work[w].st = "idle" /\ Exited.st = "exit" /\ work = [v \in Workers |-> work[v]] /\ OneEach(work)
      /\ Exited \in WorkerStates(Tiles(zoom))
  BY <1>1, <1>2 DEF IdleWorker, Exited, OnePlace, WorkerStates
<1>4. OneEach(work') /\ InHands(work') = InHands(work)
  BY <1>1, <1>3, HandsMove
<1>5. OnePlace'
  BY <1>1, <1>2, <1>4 DEF OnePlace, Apart
<1>6. Underway' = Underway
  BY <1>1, <1>4 DEF Underway
<1>7. QED
  BY <1>1, <1>2, <1>3, <1>5, <1>6, WorkerStep

\* A worker goes on with its tile, or drops it and leaves.
LEMMA KeepOrDrop ==
    ASSUME DownloadInv, NEW w \in Workers, NEW s \in WorkerStates(Tiles(zoom)), Works(w, s),
           work[w].st \in {"limit", "fetch", "send"}, jobs' = jobs, results' = results,
           \/ s.st \in {"limit", "fetch", "send"} /\ s.job = work[w].job
           \/ s = Exited /\ cancelled
    PROVE  DownloadInv'
<1>1. /\ phase \in {"produce", "wait"} /\ Downloading /\ w \in Holding(work) /\ work[w].job \in InHands(work)
      /\ missing' = missing /\ work' = [work EXCEPT ![w] = s]
  BY BusyIsLive DEF Downloading, Works
<1>2. /\ jobs \in Seq(Tiles(zoom)) /\ results \in Seq(ResultsOf(Tiles(zoom)))
      /\ work \in [Workers -> WorkerStates(Tiles(zoom))] /\ OnePlace
  BY <1>1 DEF DownloadInv, DownloadShapes
<1>3. work = [v \in Workers |-> work[v]] /\ OneEach(work) /\ Exited.st = "exit"
  BY <1>2 DEF OnePlace, Exited
<1>4. CASE s.st \in {"limit", "fetch", "send"} /\ s.job = work[w].job
  <2>1. OneEach(work') /\ InHands(work') = InHands(work)
    BY <1>1, <1>3, <1>4, HandsMove
  <2>2. OnePlace'
    BY <1>1, <1>2, <2>1 DEF OnePlace, Apart
  <2>3. Underway' = Underway
    BY <1>1, <2>1 DEF Underway
  <2>4. s # Exited
    BY <1>3, <1>4
  <2>5. QED
    BY <1>1, <1>2, <2>2, <2>3, <2>4, WorkerStep
<1>5. CASE s = Exited /\ cancelled
  <2>1. OneEach(work') /\ InHands(work') = InHands(work) \ {work[w].job}
    BY <1>1, <1>3, <1>5, HandsMove
  <2>2. OnePlace'
    BY <1>1, <1>2, <2>1 DEF OnePlace, Apart
  <2>3. Underway' \subseteq Underway
    BY <1>1, <2>1 DEF Underway
  <2>4. QED
    BY <1>1, <1>2, <1>5, <2>2, <2>3, WorkerStep
<1>6. QED
  BY <1>4, <1>5

LEMMA HeldState ==
    ASSUME DownloadInv, NEW w \in Workers, work[w].st \in {"limit", "fetch", "send"}
    PROVE  work[w] \in WorkerStates(Tiles(zoom)) /\ work[w].job \in Tiles(zoom)
<1>1. Downloading
  BY BusyIsLive DEF Downloading
<1>2. work[w] \in WorkerStates(Tiles(zoom))
  BY <1>1 DEF DownloadInv, DownloadShapes
<1>3. QED
  BY <1>2, StateFacts

LEMMA RateLimitStep == ASSUME DownloadInv, NEW w \in Workers, RateLimit(w) PROVE DownloadInv'
<1>1. work[w].st = "limit" /\ jobs' = jobs /\ results' = results
  BY DEF RateLimit
<1>2. work[w].job \in Tiles(zoom)
  BY <1>1, HeldState
<1>3. CASE cancelled
  <2>1. Works(w, Exited)
    BY <1>3 DEF RateLimit
  <2>2. Exited \in WorkerStates(Tiles(zoom))
    BY DEF WorkerStates
  <2>3. QED
    BY <1>1, <1>3, <2>1, <2>2, KeepOrDrop
<1>4. CASE ~cancelled
  <2> DEFINE s == [st |-> "fetch", job |-> work[w].job, attempt |-> 1]
  <2>1. Works(w, s)
    BY <1>4 DEF RateLimit
  <2>2. s \in WorkerStates(Tiles(zoom)) /\ s.st = "fetch" /\ s.job = work[w].job
    BY <1>2 DEF WorkerStates
  <2> HIDE DEF s
  <2>3. QED
    BY <1>1, <2>1, <2>2, KeepOrDrop
<1>5. QED
  BY <1>3, <1>4

LEMMA FetchStep == ASSUME DownloadInv, NEW w \in Workers, NEW a \in Answers, Fetch(w, a) PROVE DownloadInv'
<1>1. work[w].st = "fetch" /\ jobs' = jobs /\ results' = results
  BY DEF Fetch
<1>2. work[w] \in WorkerStates(Tiles(zoom)) /\ work[w].job \in Tiles(zoom)
  BY <1>1, HeldState
<1>3. CASE a = "throttle" /\ work[w].attempt < MaxRetry
  <2> DEFINE s == [work[w] EXCEPT !.attempt = @ + 1]
  <2>1. Works(w, s)
    BY <1>3 DEF Fetch
  <2>2. work[w] \in [st : {"fetch"}, job : Tiles(zoom), attempt : Nat]
    BY <1>1, <1>2 DEF WorkerStates, Exited, IdleWorker
  <2>3. s \in [st : {"fetch"}, job : Tiles(zoom), attempt : Nat] /\ s.st = "fetch" /\ s.job = work[w].job
    BY <2>2
  <2>4. s \in WorkerStates(Tiles(zoom))
    BY <2>3 DEF WorkerStates
  <2> HIDE DEF s
  <2>5. QED
    BY <1>1, <2>1, <2>3, <2>4, KeepOrDrop
<1>4. CASE ~(a = "throttle" /\ work[w].attempt < MaxRetry)
  <2> DEFINE s == [st |-> "send", job |-> work[w].job, res |-> Outcome(a)]
  <2>1. Works(w, s)
    BY <1>4 DEF Fetch
  <2>2. Outcome(a) \in {"data", "notFound", "err"}
    BY DEF Outcome, Answers
  <2>3. s \in WorkerStates(Tiles(zoom)) /\ s.st = "send" /\ s.job = work[w].job
    BY <1>2, <2>2 DEF WorkerStates
  <2> HIDE DEF s
  <2>4. QED
    BY <1>1, <2>1, <2>3, KeepOrDrop
<1>5. QED
  BY <1>3, <1>4

LEMMA DropResultStep == ASSUME DownloadInv, NEW w \in Workers, DropResult(w) PROVE DownloadInv'
<1>1. work[w].st = "send" /\ jobs' = jobs /\ results' = results /\ cancelled /\ Works(w, Exited)
  BY DEF DropResult
<1>2. Exited \in WorkerStates(Tiles(zoom))
  BY DEF WorkerStates
<1>3. QED
  BY <1>1, <1>2, KeepOrDrop

LEMMA SendResultStep == ASSUME DownloadInv, NEW w \in Workers, SendResult(w) PROVE DownloadInv'
<1> DEFINE t == work[w].job
           r == [job |-> work[w].job, res |-> work[w].res]
<1>1. /\ work[w].st = "send" /\ results' = Append(results, r) /\ Works(w, IdleWorker)
      /\ jobs' = jobs /\ missing' = missing /\ work' = [work EXCEPT ![w] = IdleWorker]
  BY DEF SendResult, Works
<1>2. phase \in {"produce", "wait"} /\ Downloading /\ t \in InHands(work)
  BY <1>1, BusyIsLive DEF Downloading
<1>3. /\ jobs \in Seq(Tiles(zoom)) /\ results \in Seq(ResultsOf(Tiles(zoom)))
      /\ work \in [Workers -> WorkerStates(Tiles(zoom))] /\ OnePlace
  BY <1>2 DEF DownloadInv, DownloadShapes
<1>4. t \in Tiles(zoom) /\ work[w].res \in {"data", "notFound", "err"}
  BY <1>1, <1>3, StateFacts
<1>5. r \in ResultsOf(Tiles(zoom)) /\ r.job = t
  BY <1>4 DEF ResultsOf
<1> HIDE DEF r, t
<1>6. results' \in Seq(ResultsOf(Tiles(zoom)))
  BY <1>1, <1>3, <1>5
<1>7. JobsOf(results') = Append(JobsOf(results), t) /\ JobsOf(results) \in Seq(Tiles(zoom))
  BY <1>1, <1>3, <1>5, JobsMove
<1>8. t \notin Members(JobsOf(results)) /\ NoRepeat(JobsOf(results))
  BY <1>2, <1>3 DEF OnePlace, Apart
<1>9. NoRepeat(JobsOf(results')) /\ Members(JobsOf(results')) = Members(JobsOf(results)) \cup {t}
  BY <1>4, <1>7, <1>8, AppendIn
<1>10. work = [v \in Workers |-> work[v]] /\ OneEach(work) /\ IdleWorker.st = "idle"
       /\ IdleWorker \in WorkerStates(Tiles(zoom)) /\ IdleWorker # Exited
  BY <1>3 DEF OnePlace, IdleWorker, Exited, WorkerStates
<1>11. OneEach(work') /\ InHands(work') = InHands(work) \ {t}
  <2>1. /\ OneEach([work EXCEPT ![w] = IdleWorker])
        /\ InHands([work EXCEPT ![w] = IdleWorker]) = InHands(work) \ {work[w].job}
    BY <1>1, <1>10, HandsOut
  <2>2. QED
    BY <1>1, <2>1 DEF t
<1>12. OnePlace'
  BY <1>1, <1>2, <1>3, <1>9, <1>11 DEF OnePlace, Apart
<1>13. Underway' = Underway
  BY <1>1, <1>2, <1>9, <1>11 DEF Underway
<1>14. QED
  BY <1>1, <1>2, <1>3, <1>6, <1>10, <1>12, <1>13, WorkerStep

\* The writer counts a tile that no other place holds.
LEMMA WriteResultStep == DownloadInv /\ WriteResult => DownloadInv'
<1> SUFFICES ASSUME DownloadInv, WriteResult PROVE DownloadInv'
  OBVIOUS
<1> DEFINE t == Head(results).job
           counted == UpTo(zoom) \ Underway
<1>1. /\ results # <<>> /\ results' = Tail(results) /\ phase' = phase /\ zoom' = zoom /\ missing' = missing
      /\ jobs' = jobs /\ work' = work /\ writing' = writing /\ cancelled' = cancelled /\ complete' = complete
  BY DEF WriteResult
<1>2. Downloading /\ Downloading'
  BY <1>1 DEF DownloadInv, DownloadShapes, Downloading
<1>3. /\ zoom \in DOMAIN Grids /\ c \in Counts
      /\ missing \in Seq(Tiles(zoom)) /\ jobs \in Seq(Tiles(zoom)) /\ results \in Seq(ResultsOf(Tiles(zoom)))
      /\ work \in [Workers -> WorkerStates(Tiles(zoom))] /\ OnePlace /\ NotStored
      /\ Emptied /\ Accounts /\ DownloadShapes
  BY <1>2 DEF DownloadInv, DownloadShapes
<1>4. /\ results' \in Seq(ResultsOf(Tiles(zoom))) /\ Head(results) \in ResultsOf(Tiles(zoom))
      /\ JobsOf(results) \in Seq(Tiles(zoom)) /\ JobsOf(results) # <<>>
      /\ JobsOf(results') = Tail(JobsOf(results)) /\ Head(JobsOf(results)) = t
  <2>1. results' \in Seq(ResultsOf(Tiles(zoom))) /\ Head(results) \in ResultsOf(Tiles(zoom))
    BY <1>1, <1>3
  <2>2. QED
    BY <1>1, <1>3, <2>1, JobsMove
<1> HIDE DEF t
<1>5. /\ NoRepeat(JobsOf(results')) /\ t \in Members(JobsOf(results)) /\ t \in Tiles(zoom)
      /\ Members(JobsOf(results')) = Members(JobsOf(results)) \ {t}
  <2>1. NoRepeat(JobsOf(results))
    BY <1>3 DEF OnePlace
  <2>2. QED
    BY <1>4, <2>1, HeadOut
<1>6. OnePlace'
  BY <1>1, <1>3, <1>5 DEF OnePlace, Apart
<1>7. Underway' = Underway \ {t} /\ t \in Underway
  BY <1>1, <1>3, <1>5 DEF Underway, OnePlace, Apart
<1>8. t \in Wanted /\ Underway \subseteq Wanted /\ t \in UpTo(zoom)
  BY <1>2, <1>3, <1>5, UnderwayIn, ZoomFacts
<1>9. Stored(t) \notin archive
  BY <1>3, <1>7 DEF NotStored
<1>10. UpTo(zoom) \ Underway' = counted \cup {t} /\ t \notin counted /\ counted \in SUBSET Wanted
  BY <1>7, <1>8 DEF UpTo
<1>11. \/ archive' = archive \cup {Stored(t)} /\ c' = CountedAs("downloaded")
       \/ archive' = archive /\ (c' = CountedAs("errs") \/ c' = CountedAs("notFound"))
  BY DEF WriteResult, t
<1>12. c' \in Counts
  BY <1>3, <1>11, CountsMove
<1>13. NotStored'
  <2>1. \A u \in Underway' : Stored(u) \notin archive /\ Stored(u) # Stored(t)
    BY <1>3, <1>7, <1>8, StoredOnce DEF NotStored
  <2>2. QED
    BY <1>11, <2>1 DEF NotStored
<1>14. Emptied'
  <2>1. /\ phase \in {"wait", "drain"} => missing = <<>>
        /\ phase = "drain" => \A w \in Workers : work[w] = Exited
        /\ phase \in {"produce", "wait"} => writing
        /\ phase = "drain" => writing
        /\ ~cancelled => /\ phase = "produce" => \A w \in Workers : work[w] # Exited
                         /\ phase = "wait" /\ (\E w \in Workers : work[w] = Exited) => jobs = <<>>
                         /\ phase = "drain" => jobs = <<>>
    BY <1>1, <1>3 DEF Emptied
  <2>2. QED
    BY <1>1, <2>1, Zenon DEF Emptied
<1>15. Accounts'
  <2>1. ~complete'
    <3>1. ~complete
      BY <1>2, <1>3 DEF Accounts, Downloading
    <3>2. QED
      BY <1>1, <3>1, Zenon
  <2>2. ASSUME ~cancelled' PROVE Accounted(c', archive', UpTo(zoom') \ Underway')
    <3>1. Accounted(c, archive, counted)
      <4>1. ~cancelled
        BY <1>1, <2>2, Zenon
      <4>2. QED
        BY <1>2, <1>3, <4>1, Zenon DEF Accounts
    <3>2. Accounted(c', archive', counted \cup {t})
      <4> HIDE DEF counted
      <4>1. CASE archive' = archive \cup {Stored(t)} /\ c' = CountedAs("downloaded")
        <5>1. /\ c' \in Counts /\ c'.done = c.done + 1 /\ c'.notFound + c'.errs = c.notFound + c.errs
              /\ c'.downloaded + c'.skipped = c.downloaded + c.skipped + 1
          BY <1>3, <4>1, CountsMove
        <5>2. QED
          BY <1>3, <1>8, <1>9, <1>10, <3>1, <4>1, <5>1, OneMore
      <4>2. CASE archive' = archive /\ (c' = CountedAs("errs") \/ c' = CountedAs("notFound"))
        <5>1. /\ c' \in Counts /\ c'.done = c.done + 1 /\ c'.notFound + c'.errs = c.notFound + c.errs + 1
              /\ c'.downloaded + c'.skipped = c.downloaded + c.skipped
          BY <1>3, <4>2, CountsMove
        <5>2. QED
          BY <1>3, <1>8, <1>9, <1>10, <3>1, <4>2, <5>1, OneMore
      <4>3. QED
        BY <1>11, <4>1, <4>2
    <3>3. QED
      BY <1>1, <1>10, <3>2
  <2>3. phase' # "zoom" /\ phase' # "convert"
    BY <1>2 DEF Downloading
  <2>4. QED
    BY <2>1, <2>2, <2>3, Zenon DEF Accounts
<1>16. DownloadShapes'
  BY <1>1, <1>2, <1>3, <1>4, <1>12 DEF DownloadShapes
<1>17. QED
  BY <1>6, <1>13, <1>14, <1>15, <1>16, Zenon DEF DownloadInv

LEMMA DownloadKeeps == DownloadInv /\ [DownloadNext]_downloadVars => DownloadInv'
<1> SUFFICES ASSUME DownloadInv, [DownloadNext]_downloadVars PROVE DownloadInv'
  OBVIOUS
<1>1. CASE Run
  BY <1>1, RunStep
<1>2. CASE Main
  BY <1>2, BeginZoomStep, ProduceStep, CloseJobsStep, CloseResultsStep, EndZoomStep, ConvertStep DEF Main
<1>3. ASSUME NEW w \in Workers, Work(w) PROVE DownloadInv'
  BY <1>3, TakeJobStep, NoMoreJobsStep, RateLimitStep, FetchStep, SendResultStep, DropResultStep DEF Work
<1>4. CASE ResultWriter
  BY <1>4, WriteResultStep, WriterEndsStep DEF ResultWriter
<1>5. CASE Interrupt \/ Kill
  BY <1>5, InterruptStep, KillStep
<1>6. CASE UNCHANGED downloadVars
  BY <1>6, Zenon DEF downloadVars, DownloadInv, DownloadShapes, Emptied, Accounts, OnePlace, NotStored, Underway,
                     Downloading
<1>7. QED
  BY <1>1, <1>2, <1>3, <1>4, <1>5, <1>6 DEF DownloadNext

\* The counts and the archive of a run that reports completion agree, tile for
\* tile, and no tile the archive holds is asked for again, however many workers
\* there are, however deep the channels, and wherever runs were cut off
\* (tools/maps/sat-download/main.go runZoom, worker, writer).
THEOREM TilesAccounted == DownloadSpec => []ArchiveAccounts
<1>1. DownloadInv => RunAccounts
  <2> SUFFICES ASSUME DownloadInv, complete PROVE Accounted(c, archive, Wanted)
    BY DEF RunAccounts, Accounted, Kept
  <2>1. QED
    BY DEF DownloadInv, Accounts
<1>2. DownloadInv => PresentIsNotFetched
  <2> SUFFICES ASSUME DownloadInv, NEW w \in Workers, work[w].st = "fetch"
               PROVE  Stored(work[w].job) \notin archive
    BY DEF PresentIsNotFetched
  <2>1. Downloading /\ work[w].job \in InHands(work)
    BY BusyIsLive DEF Downloading
  <2>2. QED
    BY <2>1 DEF DownloadInv, NotStored, Underway
<1>3. DownloadSpec => []DownloadInv
  BY DownloadStarts, DownloadKeeps, PTL DEF DownloadSpec
<1>4. QED
  BY <1>1, <1>2, <1>3, PTL DEF ArchiveAccounts

-----------------------------------------------------------------------------
(* The frames on the serial line.  The library states induction with a        *)
(* predicate as a parameter; here it is the absence of a least element of the *)
(* set of the counterexamples.                                                *)

\* Induction, as the absence of a least counterexample.
LEMMA Least == ASSUME NEW T \in SUBSET Nat, T # {} PROVE \E m \in T : \A n \in T : m <= n
<1>1. IsWellFoundedOn(OpToRel(<, Nat), Nat)
  BY NatLessThanWellFounded
<1>2. PICK x \in T : \A y \in T : ~(<<y, x>> \in OpToRel(<, Nat))
  BY <1>1, WFMin
<1>3. \A y \in T : ~(y < x)
  BY <1>2 DEF OpToRel
<1>4. QED
  BY <1>3

LEMMA Ascent ==
    ASSUME NEW T, \A n \in Nat : (\A k \in Nat : k < n => k \in T) => n \in T
    PROVE  \A n \in Nat : n \in T
<1> SUFFICES ASSUME Nat \ T # {} PROVE FALSE
  OBVIOUS
<1>1. PICK m \in Nat \ T : \A n \in Nat \ T : m <= n
  BY Least
<1>2. \A k \in Nat : k < m => k \in T
  BY <1>1
<1>3. QED
  BY <1>1, <1>2

LEMMA SumsExist ==
    ASSUME NEW bytes, Len(bytes) \in Nat
    PROVE  Sums(bytes) = [i \in 0..Len(bytes) |->
               IF i = 0 THEN Full ELSE (2 * Sums(bytes)[i - 1] + bytes[i]) % (Full + 1)]
<1> DEFINE Next1(f, i) == IF i = 0 THEN Full ELSE (2 * f[i - 1] + bytes[i]) % (Full + 1)
           T == {n \in Nat : \E f : f = [i \in 0..n |-> Next1(f, i)]}
<1>1. \A n \in Nat : n \in T
  <2>1. ASSUME NEW n \in Nat, \A k \in Nat : k < n => k \in T PROVE n \in T
    <3>1. CASE n = 0
      <4>1. [i \in 0..0 |-> Full] = [i \in 0..0 |-> Next1([j \in 0..0 |-> Full], i)]
        OBVIOUS
      <4>2. QED
        BY <3>1, <4>1
    <3>2. CASE n # 0
      <4>0. n - 1 \in Nat /\ n - 1 < n
        BY <3>2
      <4>1. n - 1 \in T
        BY <2>1, <4>0, Zenon
      <4>2. PICK g : g = [i \in 0..n - 1 |-> Next1(g, i)]
        BY <4>1
      <4> DEFINE h == [i \in 0..n |-> IF i = n THEN (2 * g[n - 1] + bytes[n]) % (Full + 1) ELSE g[i]]
      <4>3. ASSUME NEW i \in 0..n PROVE h[i] = Next1(h, i)
        <5>1. CASE i = n
          BY <5>1, <3>2
        <5>2. CASE i # n
          <6>1. i \in 0..n - 1
            BY <5>2
          <6>2. g[i] = Next1(g, i)
            BY <4>2, <6>1
          <6>3. i # 0 => i - 1 \in 0..n /\ i - 1 # n
            BY <6>1
          <6>4. QED
            BY <6>1, <6>2, <6>3, <5>2
        <5>3. QED
          BY <5>1, <5>2
      <4> HIDE DEF Next1
      <4>4. h = [i \in 0..n |-> Next1(h, i)]
        BY <4>3
      <4> HIDE DEF h
      <4>5. QED
        BY <4>4
    <3>3. QED
      BY <3>1, <3>2
  <2> HIDE DEF T
  <2>2. QED
    BY <2>1, Ascent
<1>2. \E f : f = [i \in 0..Len(bytes) |-> Next1(f, i)]
  BY <1>1
<1>3. QED
  BY <1>2 DEF Sums

LEMMA StretchEnds ==
    ASSUME NEW bytes, Len(bytes) \in Nat, NEW p \in 1..Len(bytes) + 1
    PROVE  /\ Stretch(bytes, p) \in 0..Full - 1 /\ p + Stretch(bytes, p) \in p..Len(bytes) + 1
           /\ EndsAt(bytes, p, Stretch(bytes, p))
           /\ \A q \in 0..Stretch(bytes, p) - 1 : p + q <= Len(bytes) /\ bytes[p + q] # 0
<1> DEFINE T == {r \in 0..Full - 1 : EndsAt(bytes, p, r)}
<1>0. Full \in Nat /\ Full >= 2
  BY FramingAssumption
<1>1. Full - 1 \in T /\ T \in SUBSET Nat
  BY <1>0 DEF EndsAt
<1>2. PICK m \in T : \A n \in T : m <= n
  <2> HIDE DEF T
  <2>1. QED
    BY <1>1, Least
<1>3. m \in 0..Full - 1 /\ EndsAt(bytes, p, m)
  OBVIOUS
<1>4. \A q \in 0..m - 1 : ~EndsAt(bytes, p, q)
  <2>1. ASSUME NEW q \in 0..m - 1, EndsAt(bytes, p, q) PROVE FALSE
    <3>1. q \in 0..Full - 1 /\ q < m
      BY <1>0, <1>3
    <3>2. q \in T
      BY <3>1, <2>1
    <3>3. QED
      BY <3>1, <3>2, <1>2, <1>3
  <2>2. QED
    BY <2>1
<1>5. /\ Stretch(bytes, p) \in 0..Full - 1 /\ EndsAt(bytes, p, Stretch(bytes, p))
      /\ \A q \in 0..Stretch(bytes, p) - 1 : ~EndsAt(bytes, p, q)
  BY <1>3, <1>4 DEF Stretch
<1>6. \A q \in 0..Stretch(bytes, p) - 1 : p + q <= Len(bytes) /\ bytes[p + q] # 0
  BY <1>5, <1>0 DEF EndsAt
<1>7. p + Stretch(bytes, p) \in p..Len(bytes) + 1
  <2>1. CASE Stretch(bytes, p) = 0
    BY <2>1
  <2>2. CASE Stretch(bytes, p) # 0
    <3>1. Stretch(bytes, p) - 1 \in 0..Stretch(bytes, p) - 1
      BY <1>5, <2>2
    <3>2. p + (Stretch(bytes, p) - 1) <= Len(bytes)
      BY <1>6, <3>1
    <3>3. QED
      BY <3>2, <1>5, <1>0
  <2>3. QED
    BY <2>1, <2>2
<1>8. QED
  BY <1>5, <1>6, <1>7

\* What f makes of position p, for the blocks that follow it.
BlocksAt(bytes, f, p) ==
    LET after == p + Stretch(bytes, p)
    IN IF Stretch(bytes, p) = Full - 1 THEN Block(bytes, p) \o f[after]
       ELSE IF after > Len(bytes) THEN Block(bytes, p)
       ELSE Block(bytes, p) \o f[after + 1]

LEMMA BlocksExist ==
    ASSUME NEW bytes, Len(bytes) \in Nat
    PROVE  Blocks(bytes) = [p \in 1..Len(bytes) + 1 |-> BlocksAt(bytes, Blocks(bytes), p)]
<1> DEFINE L == Len(bytes) + 1
           T == {n \in Nat : n < L => \E f : f = [p \in L - n..L |-> BlocksAt(bytes, f, p)]}
<1>0. Full \in Nat /\ Full >= 2 /\ L \in Nat /\ L >= 1
  BY FramingAssumption
<1>1. \A n \in Nat : n \in T
  <2>1. ASSUME NEW n \in Nat, \A k \in Nat : k < n => k \in T, n < L
        PROVE  \E f : f = [p \in L - n..L |-> BlocksAt(bytes, f, p)]
    <3>1. PICK g : n # 0 => g = [p \in L - (n - 1)..L |-> BlocksAt(bytes, g, p)]
      <4>1. CASE n = 0
        BY <4>1
      <4>2. CASE n # 0
        <5>1. n - 1 \in Nat /\ n - 1 < n /\ n - 1 < L
          BY <4>2, <2>1, <1>0
        <5>2. n - 1 \in T
          BY <2>1, <5>1, Zenon
        <5>3. QED
          BY <5>1, <5>2
      <4>3. QED
        BY <4>1, <4>2
    <3> DEFINE h == [p \in L - n..L |-> IF p = L - n THEN BlocksAt(bytes, g, p) ELSE g[p]]
    <3>2. ASSUME NEW p \in L - n..L PROVE h[p] = BlocksAt(bytes, h, p)
      <4>1. p \in 1..Len(bytes) + 1
        BY <1>0, <2>1
      <4>2. /\ Stretch(bytes, p) \in 0..Full - 1 /\ p + Stretch(bytes, p) \in p..L
        BY <4>1, StretchEnds
      <4>3. ASSUME NEW q \in L - n..L, q > p PROVE h[q] = g[q]
        BY <4>3, <1>0
      <4>4. /\ Stretch(bytes, p) = Full - 1 => p + Stretch(bytes, p) \in L - n..L /\ p + Stretch(bytes, p) > p
            /\ ~(p + Stretch(bytes, p) > Len(bytes))
                 => p + Stretch(bytes, p) + 1 \in L - n..L /\ p + Stretch(bytes, p) + 1 > p
        BY <4>2, <1>0, <2>1
      <4>5. BlocksAt(bytes, h, p) = BlocksAt(bytes, g, p)
        <5>1. Stretch(bytes, p) = Full - 1 => h[p + Stretch(bytes, p)] = g[p + Stretch(bytes, p)]
          BY <4>3, <4>4
        <5>2. ~(p + Stretch(bytes, p) > Len(bytes)) => h[p + Stretch(bytes, p) + 1] = g[p + Stretch(bytes, p) + 1]
          BY <4>3, <4>4
        <5> HIDE DEF h
        <5>3. QED
          BY <5>1, <5>2, Zenon DEF BlocksAt
      <4>6. h[p] = BlocksAt(bytes, g, p)
        <5>1. CASE p = L - n
          BY <5>1
        <5>2. CASE p # L - n
          <6>1. p \in L - (n - 1)..L /\ n # 0
            BY <5>2, <1>0
          <6>2. h[p] = g[p]
            BY <5>2
          <6>3. g[p] = BlocksAt(bytes, g, p)
            BY <3>1, <6>1
          <6>4. QED
            BY <6>2, <6>3
        <5>3. QED
          BY <5>1, <5>2
      <4>7. QED
        BY <4>5, <4>6
    <3>3. h = [p \in L - n..L |-> BlocksAt(bytes, h, p)]
      <4>1. h = [p \in L - n..L |-> h[p]]
        OBVIOUS
      <4> HIDE DEF h
      <4>2. QED
        BY <4>1, <3>2
    <3> HIDE DEF h
    <3>4. QED
      BY <3>3
  <2>2. ASSUME NEW n \in Nat, \A k \in Nat : k < n => k \in T PROVE n \in T
    BY <2>1, <2>2
  <2> HIDE DEF T
  <2>3. QED
    BY <2>2, Ascent
<1>2. \E f : f = [p \in L - Len(bytes)..L |-> BlocksAt(bytes, f, p)]
  BY <1>1, <1>0
<1>3. L - Len(bytes) = 1
  OBVIOUS
<1>4. \E f : f = [p \in 1..Len(bytes) + 1 |-> BlocksAt(bytes, f, p)]
  BY <1>2, <1>3
<1>5. QED
  BY <1>4, Zenon DEF Blocks, BlocksAt

\* The same from the other end of an interval.
LEMMA Descent ==
    ASSUME NEW L \in Nat, NEW T,
           \A p \in 1..L : (\A q \in 1..L : q > p => q \in T) => p \in T
    PROVE  \A p \in 1..L : p \in T
<1> DEFINE S == {n \in Nat : n < L => L - n \in T}
<1>1. ASSUME NEW n \in Nat, \A k \in Nat : k < n => k \in S, n < L PROVE L - n \in T
  <2>1. ASSUME NEW q \in 1..L, q > L - n PROVE q \in T
    <3>1. L - q \in Nat /\ L - q < n /\ L - q < L /\ L - (L - q) = q
      BY <2>1, <1>1
    <3>2. L - q \in S
      BY <3>1, <1>1, Zenon
    <3>3. L - (L - q) \in T
      BY <3>1, <3>2
    <3>4. QED
      BY <3>1, <3>3
  <2>2. L - n \in 1..L
    BY <1>1
  <2>3. QED
    BY <2>1, <2>2
<1>2. ASSUME NEW n \in Nat, \A k \in Nat : k < n => k \in S PROVE n \in S
  BY <1>1, <1>2
<1>3. \A n \in Nat : n \in S
  <2> HIDE DEF S
  <2>1. QED
    BY <1>2, Ascent
<1>4. ASSUME NEW p \in 1..L PROVE p \in T
  <2>1. L - p \in Nat /\ L - p < L /\ L - (L - p) = p
    BY <1>4
  <2>2. L - (L - p) \in T
    BY <2>1, <1>3
  <2>3. QED
    BY <2>1, <2>2
<1>5. QED
  BY <1>4

UnblockedAt(coded, f, i) ==
    LET after == i + coded[i]
        zero == IF coded[i] # Full /\ after <= Len(coded) THEN << 0 >> ELSE <<>>
    IN IF i > Len(coded) THEN {<<>>}
       ELSE IF coded[i] = 0 \/ after > Len(coded) + 1 THEN {}
       ELSE {SubSeq(coded, i + 1, after - 1) \o zero \o rest : rest \in f[after]}

LEMMA UnblockedExist ==
    ASSUME NEW coded \in Seq(Nat)
    PROVE  Unblocked(coded) = [i \in 1..Len(coded) + 1 |-> UnblockedAt(coded, Unblocked(coded), i)]
<1> DEFINE L == Len(coded) + 1
           T == {p \in 1..L : \E f : f = [i \in p..L |-> UnblockedAt(coded, f, i)]}
<1>0. L \in Nat /\ L >= 1
  OBVIOUS
<1>1. \A p \in 1..L : p \in T
  <2>1. ASSUME NEW p \in 1..L, \A q \in 1..L : q > p => q \in T
        PROVE  \E f : f = [i \in p..L |-> UnblockedAt(coded, f, i)]
    <3>1. PICK g : p # L => g = [i \in p + 1..L |-> UnblockedAt(coded, g, i)]
      <4>1. CASE p = L
        BY <4>1
      <4>2. CASE p # L
        <5>1. p + 1 \in 1..L /\ p + 1 > p
          BY <4>2
        <5>2. p + 1 \in T
          BY <2>1, <5>1, Zenon
        <5>3. QED
          BY <5>2
      <4>3. QED
        BY <4>1, <4>2
    <3> DEFINE h == [i \in p..L |-> IF i = p THEN UnblockedAt(coded, g, i) ELSE g[i]]
    <3>2. ASSUME NEW i \in p..L PROVE h[i] = UnblockedAt(coded, h, i)
      <4>1. UnblockedAt(coded, h, i) = UnblockedAt(coded, g, i)
        <5>1. CASE i > Len(coded)
          BY <5>1 DEF UnblockedAt
        <5>2. CASE i <= Len(coded) /\ (coded[i] = 0 \/ i + coded[i] > Len(coded) + 1)
          <6> HIDE DEF h
          <6>0. ~(i > Len(coded))
            BY <5>2
          <6>1. QED
            BY <5>2, <6>0, Zenon DEF UnblockedAt
        <5>3. CASE i <= Len(coded) /\ coded[i] # 0 /\ ~(i + coded[i] > Len(coded) + 1)
          <6>1. coded[i] \in Nat
            BY <5>3, ElementOfSeq, <1>0
          <6>2. i + coded[i] \in p..L /\ i + coded[i] # p
            BY <6>1, <5>3, <1>0
          <6>3. h[i + coded[i]] = g[i + coded[i]]
            BY <6>2
          <6> HIDE DEF h
          <6>4. QED
            BY <6>3, Zenon DEF UnblockedAt
        <5>4. QED
          BY <5>1, <5>2, <5>3
      <4>2. h[i] = UnblockedAt(coded, g, i)
        <5>1. CASE i = p
          BY <5>1
        <5>2. CASE i # p
          <6>1. i \in p + 1..L /\ p # L
            BY <5>2
          <6>2. h[i] = g[i]
            BY <5>2
          <6>3. g[i] = UnblockedAt(coded, g, i)
            BY <3>1, <6>1
          <6>4. QED
            BY <6>2, <6>3
        <5>3. QED
          BY <5>1, <5>2
      <4>3. QED
        BY <4>1, <4>2
    <3>3. h = [i \in p..L |-> UnblockedAt(coded, h, i)]
      <4>1. h = [i \in p..L |-> h[i]]
        OBVIOUS
      <4> HIDE DEF h
      <4>2. QED
        BY <4>1, <3>2
    <3> HIDE DEF h
    <3>4. QED
      BY <3>3
  <2>2. ASSUME NEW p \in 1..L, \A q \in 1..L : q > p => q \in T PROVE p \in T
    BY <2>1, <2>2
  <2> HIDE DEF T, L
  <2>3. QED
    BY <2>2, <1>0, Descent
<1>2. \E f : f = [i \in 1..Len(coded) + 1 |-> UnblockedAt(coded, f, i)]
  BY <1>1, <1>0
<1>3. QED
  BY <1>2, Zenon DEF Unblocked, UnblockedAt

-----------------------------------------------------------------------------
LEMMA CheckIsByte == ASSUME NEW bytes \in Seq(Byte) PROVE Check(bytes) \in Byte
<1>0. Full \in Nat /\ Full >= 2
  BY FramingAssumption
<1> DEFINE T == {n \in Nat : n <= Len(bytes) => Sums(bytes)[n] \in Byte}
<1>1. ASSUME NEW n \in Nat, \A k \in Nat : k < n => k \in T, n <= Len(bytes) PROVE Sums(bytes)[n] \in Byte
  <2>1. Sums(bytes)[n] = IF n = 0 THEN Full ELSE (2 * Sums(bytes)[n - 1] + bytes[n]) % (Full + 1)
    BY <1>1, SumsExist
  <2>2. CASE n = 0
    BY <2>1, <2>2, <1>0 DEF Byte
  <2>3. CASE n # 0
    <3>1. n - 1 \in Nat /\ n - 1 < n
      BY <2>3
    <3>2. n - 1 \in T
      BY <3>1, <1>1, Zenon
    <3>3. Sums(bytes)[n - 1] \in Byte
      BY <3>1, <3>2, <1>1
    <3>4. bytes[n] \in Byte
      BY <2>3, <1>1, ElementOfSeq
    <3>5. 2 * Sums(bytes)[n - 1] + bytes[n] \in Nat
      BY <3>3, <3>4, <1>0 DEF Byte
    <3>6. \A z \in Nat : z % (Full + 1) \in 0..Full
      BY <1>0
    <3>7. QED
      BY <2>1, <2>3, <3>5, <3>6 DEF Byte
  <2>4. QED
    BY <2>2, <2>3
<1>2. ASSUME NEW n \in Nat, \A k \in Nat : k < n => k \in T PROVE n \in T
  BY <1>1, <1>2
<1>3. \A n \in Nat : n \in T
  <2> HIDE DEF T
  <2>1. QED
    BY <1>2, Ascent
<1>4. QED
  BY <1>3 DEF Check

LEMMA BlockShape ==
    ASSUME NEW bytes \in Seq(Byte), NEW p \in 1..Len(bytes) + 1
    PROVE  /\ Block(bytes, p) \in Seq(1..Full) /\ Len(Block(bytes, p)) = Stretch(bytes, p) + 1
           /\ Block(bytes, p)[1] = Stretch(bytes, p) + 1
           /\ \A q \in 1..Stretch(bytes, p) : Block(bytes, p)[q + 1] = bytes[p + q - 1]
<1> DEFINE r == Stretch(bytes, p)
           s == SubSeq(bytes, p, p + r - 1)
<1>0. Full \in Nat /\ Full >= 2
  BY FramingAssumption
<1>1. /\ r \in 0..Full - 1 /\ p + r \in p..Len(bytes) + 1
      /\ \A q \in 0..r - 1 : p + q <= Len(bytes) /\ bytes[p + q] # 0
  BY StretchEnds
<1>2. \A j \in p..p + r - 1 : bytes[j] \in 1..Full
  <2>1. ASSUME NEW j \in p..p + r - 1 PROVE bytes[j] \in 1..Full
    <3>1. j - p \in 0..r - 1 /\ p + (j - p) = j
      BY <1>1
    <3>2. bytes[j] # 0 /\ j <= Len(bytes)
      BY <1>1, <3>1
    <3>3. bytes[j] \in Byte
      BY <3>2, ElementOfSeq, <1>1
    <3>4. QED
      BY <3>2, <3>3, <1>0 DEF Byte
  <2>2. QED
    BY <2>1
<1>3. s \in Seq(1..Full) /\ Len(s) = r /\ \A q \in 1..r : s[q] = bytes[p + q - 1]
  <2>1. /\ (p + r - 1) - p + 1 = r /\ (IF p <= p + r - 1 THEN (p + r - 1) - p + 1 ELSE 0) = r
        /\ p \in Int /\ p + r - 1 \in Int
    BY <1>0, <1>1
  <2> HIDE DEF r
  <2>2. QED
    BY <1>2, <2>1, SubSeqProperties
<1>4. <<r + 1>> \in Seq(1..Full) /\ Len(<<r + 1>>) = 1 /\ <<r + 1>>[1] = r + 1
  BY <1>0, <1>1
<1> HIDE DEF r, s
<1>5. /\ <<r + 1>> \o s \in Seq(1..Full) /\ Len(<<r + 1>> \o s) = r + 1
      /\ (<<r + 1>> \o s)[1] = r + 1
      /\ \A q \in 1..r : (<<r + 1>> \o s)[q + 1] = s[q]
  BY <1>1, <1>3, <1>4
<1>6. Block(bytes, p) = <<r + 1>> \o s
  BY DEF Block, r, s
<1>7. QED
  BY <1>5, <1>6, <1>3 DEF r

LEMMA DivSteps ==
    ASSUME NEW k \in Nat \ {0}
    PROVE  /\ \A m \in Nat : m \div k \in Nat
           /\ \A m \in Nat : (m + k) \div k = m \div k + 1
           /\ \A m, n \in Nat : m <= n => m \div k <= n \div k
  OBVIOUS

LEMMA SplitSeq ==
    ASSUME NEW S, NEW s \in Seq(S), NEW p \in 1..Len(s) + 1, NEW q \in p..Len(s) + 1
    PROVE  SubSeq(s, p, q - 1) \o SubSeq(s, q, Len(s)) = SubSeq(s, p, Len(s))
<1> DEFINE a == SubSeq(s, p, q - 1)
           b == SubSeq(s, q, Len(s))
           cs == SubSeq(s, p, Len(s))
<1>0. Len(s) \in Nat /\ p \in Nat /\ q \in Nat
  BY LenProperties
<1>1. \A i \in 1..Len(s) : s[i] \in S
  BY ElementOfSeq
<1>2. a \in Seq(S) /\ Len(a) = q - p /\ \A i \in 1..q - p : a[i] = s[p + i - 1]
  <2>1. (IF p <= q - 1 THEN (q - 1) - p + 1 ELSE 0) = q - p /\ (q - 1) - p + 1 = q - p
    BY <1>0
  <2>2. \A i \in p..q - 1 : s[i] \in S
    BY <1>0, <1>1
  <2>3. p \in Int /\ q - 1 \in Int
    BY <1>0
  <2>4. QED
    BY <2>1, <2>2, <2>3, SubSeqProperties
<1>3. b \in Seq(S) /\ Len(b) = Len(s) + 1 - q /\ \A i \in 1..Len(s) + 1 - q : b[i] = s[q + i - 1]
  <2>1. /\ (IF q <= Len(s) THEN Len(s) - q + 1 ELSE 0) = Len(s) + 1 - q
        /\ Len(s) - q + 1 = Len(s) + 1 - q
    BY <1>0
  <2>2. \A i \in q..Len(s) : s[i] \in S
    BY <1>0, <1>1
  <2>3. q \in Int /\ Len(s) \in Int
    BY <1>0
  <2>4. QED
    BY <2>1, <2>2, <2>3, SubSeqProperties
<1>4. cs \in Seq(S) /\ Len(cs) = Len(s) + 1 - p /\ \A i \in 1..Len(s) + 1 - p : cs[i] = s[p + i - 1]
  <2>1. /\ (IF p <= Len(s) THEN Len(s) - p + 1 ELSE 0) = Len(s) + 1 - p
        /\ Len(s) - p + 1 = Len(s) + 1 - p
    BY <1>0
  <2>2. \A i \in p..Len(s) : s[i] \in S
    BY <1>0, <1>1
  <2>3. p \in Int /\ Len(s) \in Int
    BY <1>0
  <2>4. QED
    BY <2>1, <2>2, <2>3, SubSeqProperties
<1> HIDE DEF a, b, cs
<1>5. /\ a \o b \in Seq(S) /\ Len(a \o b) = Len(a) + Len(b)
      /\ \A i \in 1..Len(a) + Len(b) : (a \o b)[i] = IF i <= Len(a) THEN a[i] ELSE b[i - Len(a)]
  BY <1>2, <1>3, ConcatProperties
<1>6. Len(a \o b) = Len(cs)
  BY <1>0, <1>2, <1>3, <1>4, <1>5
<1>7. ASSUME NEW i \in 1..Len(cs) PROVE (a \o b)[i] = cs[i]
  <2>0. i \in 1..Len(a) + Len(b) /\ i \in 1..Len(s) + 1 - p
    BY <1>0, <1>4, <1>5, <1>6
  <2>1. CASE i <= Len(a)
    <3>1. i \in 1..q - p
      BY <2>0, <2>1, <1>0, <1>2
    <3>2. QED
      BY <2>0, <2>1, <3>1, <1>2, <1>4, <1>5
  <2>2. CASE ~(i <= Len(a))
    <3>1. i - Len(a) \in 1..Len(s) + 1 - q /\ q + (i - Len(a)) - 1 = p + i - 1
      BY <2>0, <2>2, <1>0, <1>2
    <3>2. (a \o b)[i] = b[i - Len(a)] /\ b[i - Len(a)] = s[q + (i - Len(a)) - 1]
      BY <2>0, <2>2, <3>1, <1>3, <1>5
    <3>3. QED
      BY <2>0, <3>1, <3>2, <1>4
  <2>3. QED
    BY <2>1, <2>2
<1>8. a \o b = cs
  BY <1>4, <1>5, <1>6, <1>7, SeqEqual
<1>9. QED
  BY <1>8 DEF a, b, cs

LEMMA OneElement ==
    ASSUME NEW S, NEW s \in Seq(S), NEW k \in 1..Len(s)
    PROVE  SubSeq(s, k, k) = <<s[k]>>
<1>1. s[k] \in S /\ k \in Int
  BY ElementOfSeq
<1>2. \A i \in k..k : s[i] \in S
  BY <1>1
<1>3. k - k + 1 = 1 /\ (IF k <= k THEN k - k + 1 ELSE 0) = 1 /\ k + 1 - 1 = k
  BY <1>1
<1>4. SubSeq(s, k, k) \in Seq(S) /\ Len(SubSeq(s, k, k)) = 1 /\ SubSeq(s, k, k)[1] = s[k]
  BY <1>1, <1>2, <1>3, SubSeqProperties
<1>5. <<s[k]>> \in Seq(S) /\ Len(<<s[k]>>) = 1 /\ <<s[k]>>[1] = s[k]
  BY <1>1
<1>6. \A i \in 1..Len(SubSeq(s, k, k)) : SubSeq(s, k, k)[i] = <<s[k]>>[i]
  BY <1>4, <1>5
<1>7. QED
  BY <1>4, <1>5, <1>6, SeqEqual

\* A block, the zero that ended it, and the rest.
LEMMA Rejoined ==
    ASSUME NEW bytes \in Seq(Byte), NEW p \in 1..Len(bytes) + 1, NEW q \in p..Len(bytes) + 1
    PROVE  /\ SubSeq(bytes, p, q - 1) \o <<>> \o SubSeq(bytes, q, Len(bytes)) = SubSeq(bytes, p, Len(bytes))
           /\ q <= Len(bytes) /\ bytes[q] = 0 =>
              SubSeq(bytes, p, q - 1) \o << 0 >> \o SubSeq(bytes, q + 1, Len(bytes)) = SubSeq(bytes, p, Len(bytes))
<1> DEFINE n == Len(bytes)
           a == SubSeq(bytes, p, q - 1)
<1>0. n \in Nat /\ Full \in Nat
  BY FramingAssumption, LenProperties
<1>1. a \in Seq(Byte)
  <2>1. \A i \in p..q - 1 : bytes[i] \in Byte
    BY <1>0, ElementOfSeq
  <2>2. QED
    BY <2>1, SubSeqProperties
<1>2. a \o SubSeq(bytes, q, n) = SubSeq(bytes, p, n)
  BY SplitSeq
<1>3. a \o <<>> = a
  BY <1>1, ConcatEmptySeq
<1>4. ASSUME q <= n, bytes[q] = 0
      PROVE  a \o << 0 >> \o SubSeq(bytes, q + 1, n) = SubSeq(bytes, p, n)
  <2>1. q \in 1..n /\ q + 1 \in q..n + 1 /\ q \in 1..n + 1 /\ (q + 1) - 1 = q
    BY <1>0, <1>4
  <2>2. SubSeq(bytes, q, q) = << 0 >>
    BY <2>1, <1>4, OneElement
  <2>3. SubSeq(bytes, q, (q + 1) - 1) \o SubSeq(bytes, q + 1, n) = SubSeq(bytes, q, n)
    BY <2>1, SplitSeq
  <2>4. << 0 >> \in Seq(Byte)
    BY <1>0 DEF Byte
  <2>5. SubSeq(bytes, q + 1, n) \in Seq(Byte)
    <3>1. \A i \in q + 1..n : bytes[i] \in Byte
      BY <2>1, <1>0, ElementOfSeq
    <3>2. q + 1 \in Int /\ n \in Int
      BY <2>1, <1>0
    <3>3. QED
      BY <3>1, <3>2, SubSeqProperties
  <2> HIDE DEF a
  <2>6. (a \o << 0 >>) \o SubSeq(bytes, q + 1, n) = a \o (<< 0 >> \o SubSeq(bytes, q + 1, n))
    <3> DEFINE zero == << 0 >>
               rest == SubSeq(bytes, q + 1, n)
    <3>1. zero \in Seq(Byte) /\ rest \in Seq(Byte)
      BY <2>4, <2>5
    <3> HIDE DEF zero, rest
    <3>2. (a \o zero) \o rest = a \o (zero \o rest)
      <4>1. \A x, y, z \in Seq(Byte) : (x \o y) \o z = x \o (y \o z)
        OBVIOUS
      <4>2. QED
        BY <1>1, <3>1, <4>1, SMTT(30)
    <3>3. QED
      BY <3>2 DEF zero, rest
  <2>7. QED
    BY <2>1, <2>2, <2>3, <2>6, <1>2
<1>5. QED
  BY <1>2, <1>3, <1>4

LEMMA JoinCodes ==
    ASSUME NEW s \in Seq(1..Full), NEW t \in Seq(1..Full)
    PROVE  /\ s \o t \in Seq(1..Full) /\ Len(s \o t) = Len(s) + Len(t)
           /\ Len(s) \in Nat /\ Len(t) \in Nat
           /\ \A i \in 1..Len(s) + Len(t) : (s \o t)[i] = IF i <= Len(s) THEN s[i] ELSE t[i - Len(s)]
  BY ConcatProperties, LenProperties

\* The code of the m bytes from p on has at most m + 1 + m \div (Full - 1) codes,
\* none of them zero.
LEMMA BlocksCode ==
    ASSUME NEW bytes \in Seq(Byte), NEW p \in 1..Len(bytes) + 1
    PROVE  /\ Blocks(bytes)[p] \in Seq(1..Full) /\ Len(Blocks(bytes)[p]) >= 1
           /\ Len(Blocks(bytes)[p]) <= (Len(bytes) + 1 - p) + 1 + (Len(bytes) + 1 - p) \div (Full - 1)
<1> DEFINE L == Len(bytes) + 1
           F == Blocks(bytes)
           Room(m) == m + 1 + m \div (Full - 1)
           T == {q \in 1..L : F[q] \in Seq(1..Full) /\ Len(F[q]) >= 1 /\ Len(F[q]) <= Room(L - q)}
<1>0. Full \in Nat /\ Full >= 2 /\ L \in Nat /\ L >= 1
  BY FramingAssumption
<1>1. ASSUME NEW q \in 1..L, \A o \in 1..L : o > q => o \in T PROVE q \in T
  <2> DEFINE r == Stretch(bytes, q)
  <2>1. /\ r \in 0..Full - 1 /\ q + r \in q..L /\ EndsAt(bytes, q, r)
    BY StretchEnds
  <2>2. Block(bytes, q) \in Seq(1..Full) /\ Len(Block(bytes, q)) = r + 1
    BY BlockShape
  <2>3. F[q] = BlocksAt(bytes, F, q)
    BY BlocksExist
  <2>4. CASE r = Full - 1
    <3>1. F[q] = Block(bytes, q) \o F[q + r]
      BY <2>3, <2>4 DEF BlocksAt
    <3>2. q + r \in T
      <4>1. q + r > q /\ q + r \in 1..L
        BY <2>1, <2>4, <1>0
      <4>2. QED
        BY <4>1, <1>1, Zenon
    <3>2a. F[q + r] \in Seq(1..Full)
      BY <3>2
    <3>3. /\ F[q] \in Seq(1..Full) /\ Len(F[q]) = r + 1 + Len(F[q + r])
      <4> HIDE DEF F, T
      <4>1. QED
        BY <3>1, <3>2a, <2>2, JoinCodes
    <3>4. /\ (L - q - r) \div (Full - 1) + 1 = (L - q) \div (Full - 1)
          /\ (L - q) \div (Full - 1) \in Nat
      <4>1. L - q - r \in Nat /\ (L - q - r) + (Full - 1) = L - q /\ Full - 1 \in Nat \ {0}
        BY <2>1, <2>4, <1>0
      <4>2. \A m \in Nat : (m + (Full - 1)) \div (Full - 1) = m \div (Full - 1) + 1 /\ m \div (Full - 1) \in Nat
        BY <4>1, DivSteps
      <4>3. ((L - q - r) + (Full - 1)) \div (Full - 1) = (L - q - r) \div (Full - 1) + 1
        BY <4>1, <4>2, Zenon
      <4>4. L - q \in Nat
        BY <1>0
      <4>5. (L - q) \div (Full - 1) \in Nat
        BY <4>2, <4>4, Zenon
      <4>6. QED
        BY <4>1, <4>3, <4>5, Zenon
    <3>5. Len(F[q + r]) <= (L - (q + r)) + 1 + (L - (q + r)) \div (Full - 1) /\ Len(F[q + r]) >= 1
      BY <3>2
    <3>5a. L - (q + r) = L - q - r
      BY <2>1
    <3>5b. Len(F[q + r]) \in Nat
      BY <3>2, LenProperties
    <3>6. Len(F[q]) <= Room(L - q) /\ Len(F[q]) >= 1
      <4> DEFINE cs == Len(F[q + r])
                 d == (L - q - r) \div (Full - 1)
                 e == (L - q) \div (Full - 1)
                 x == Len(F[q])
                 m == L - q
      <4>1. cs \in Nat /\ x = r + 1 + cs /\ d + 1 = e /\ e \in Nat /\ cs >= 1 /\ cs <= (m - r) + 1 + d
        BY <3>3, <3>4, <3>5, <3>5a, <3>5b
      <4>2. d \in Nat
        <5>1. L - q - r \in Nat /\ Full - 1 \in Nat \ {0}
          BY <2>1, <2>4, <1>0
        <5>2. \A z \in Nat : z \div (Full - 1) \in Nat
          BY <5>1, DivSteps
        <5>3. QED
          BY <5>1, <5>2, Zenon
      <4>3. m \in Nat /\ r \in Nat
        BY <2>1, <1>0
      <4> HIDE DEF cs, d, e, x, m, r
      <4>4. x <= m + 1 + e /\ x >= 1
        BY <4>1, <4>2, <4>3
      <4>5. QED
        BY <4>4 DEF e, x, m
    <3>7. QED
      BY <3>3, <3>6
  <2>5. CASE r # Full - 1 /\ q + r > Len(bytes)
    <3>1. F[q] = Block(bytes, q)
      BY <2>3, <2>5 DEF BlocksAt
    <3>2. q + r = L
      BY <2>1, <2>5
    <3>3. (L - q) \div (Full - 1) \in Nat
      <4>1. L - q \in Nat /\ Full - 1 \in Nat \ {0}
        BY <1>0
      <4>2. QED
        BY <4>1, DivSteps
    <3>4. QED
      BY <3>1, <3>2, <3>3, <2>1, <2>2
  <2>6. CASE r # Full - 1 /\ ~(q + r > Len(bytes))
    <3>1. F[q] = Block(bytes, q) \o F[q + r + 1]
      BY <2>3, <2>6 DEF BlocksAt
    <3>2. q + r + 1 \in T
      <4>1. q + r + 1 > q /\ q + r + 1 \in 1..L
        BY <2>1, <2>6, <1>0
      <4>2. QED
        BY <4>1, <1>1, Zenon
    <3>2a. F[q + r + 1] \in Seq(1..Full)
      BY <3>2
    <3>3. /\ F[q] \in Seq(1..Full) /\ Len(F[q]) = r + 1 + Len(F[q + r + 1])
      <4> HIDE DEF F, T
      <4>1. QED
        BY <3>1, <3>2a, <2>2, JoinCodes
    <3>4. /\ (L - (q + r + 1)) \div (Full - 1) <= (L - q) \div (Full - 1)
          /\ (L - (q + r + 1)) \div (Full - 1) \in Nat /\ (L - q) \div (Full - 1) \in Nat
      <4>1. L - (q + r + 1) \in Nat /\ L - q \in Nat /\ L - (q + r + 1) <= L - q /\ Full - 1 \in Nat \ {0}
        BY <2>1, <2>6, <1>0
      <4>2. QED
        BY <4>1, DivSteps
    <3>5. Len(F[q + r + 1]) <= (L - (q + r + 1)) + 1 + (L - (q + r + 1)) \div (Full - 1) /\ Len(F[q + r + 1]) >= 1
      BY <3>2
    <3>5b. Len(F[q + r + 1]) \in Nat
      BY <3>2, LenProperties
    <3>6. Len(F[q]) <= Room(L - q) /\ Len(F[q]) >= 1
      <4> DEFINE cs == Len(F[q + r + 1])
                 d == (L - (q + r + 1)) \div (Full - 1)
                 e == (L - q) \div (Full - 1)
                 x == Len(F[q])
                 m == L - q
      <4>1. cs \in Nat /\ x = r + 1 + cs /\ d <= e /\ d \in Nat /\ e \in Nat /\ cs >= 1
        BY <3>3, <3>4, <3>5, <3>5b
      <4>2. cs <= (m - r - 1) + 1 + d
        <5>1. L - (q + r + 1) = m - r - 1
          <6>1. q \in Int /\ r \in Int /\ L \in Int
            BY <2>1, <1>0
          <6> HIDE DEF L, r
          <6>2. QED
            BY <6>1
        <5> HIDE DEF cs, m
        <5>2. QED
          BY <5>1, <3>5 DEF cs
      <4>3. m \in Nat /\ r \in Nat
        BY <2>1, <1>0
      <4> HIDE DEF cs, d, e, x, m, r
      <4>4. x <= m + 1 + e /\ x >= 1
        BY <4>1, <4>2, <4>3
      <4>5. QED
        BY <4>4 DEF e, x, m
    <3>7. QED
      BY <3>3, <3>6
  <2>7. QED
    BY <2>4, <2>5, <2>6
<1>2. \A q \in 1..L : q \in T
  <2> HIDE DEF T
  <2>1. QED
    BY <1>0, <1>1, Descent
<1>3. QED
  BY <1>2

\* Decoding, whatever came before, leads from where a block begins to the bytes
\* that it and its successors stand for.
Restores(bytes, p) ==
    \A w \in Seq(1..Full) :
        Unblocked(w \o Blocks(bytes)[p])[Len(w) + 1] = {SubSeq(bytes, p, Len(bytes))}

LEMMA RestoresStep ==
    ASSUME NEW bytes \in Seq(Byte), NEW p \in 1..Len(bytes) + 1,
           \A q \in 1..Len(bytes) + 1 : q > p => Restores(bytes, q)
    PROVE  Restores(bytes, p)
<1> DEFINE n == Len(bytes)
           F == Blocks(bytes)
           r == Stretch(bytes, p)
           block == Block(bytes, p)
           run == SubSeq(bytes, p, p + r - 1)
<1>0. Full \in Nat /\ Full >= 2 /\ n \in Nat
  BY FramingAssumption
<1>1. /\ r \in 0..Full - 1 /\ p + r \in p..n + 1 /\ EndsAt(bytes, p, r)
  BY StretchEnds
<1>1r. r \in Nat
  BY <1>1, <1>0
<1>2. /\ block \in Seq(1..Full) /\ Len(block) = r + 1 /\ block[1] = r + 1
      /\ \A q \in 1..r : block[q + 1] = bytes[p + q - 1]
  BY BlockShape
<1>3. F[p] = BlocksAt(bytes, F, p)
  BY BlocksExist
<1>4. run \in Seq(Byte) /\ Len(run) = r /\ \A q \in 1..r : run[q] = bytes[p + q - 1]
  <2>1. \A j \in p..p + r - 1 : bytes[j] \in Byte
    BY <1>1, ElementOfSeq
  <2>2. QED
    BY <2>1, <1>1, SubSeqProperties
<1>11. /\ SubSeq(bytes, p, p + r - 1) \o <<>> \o SubSeq(bytes, p + r, n) = SubSeq(bytes, p, n)
       /\ p + r <= n /\ bytes[p + r] = 0 =>
          SubSeq(bytes, p, p + r - 1) \o << 0 >> \o SubSeq(bytes, p + r + 1, n) = SubSeq(bytes, p, n)
  <2> DEFINE k == p + r
  <2>1. k \in p..n + 1
    BY <1>1
  <2> HIDE DEF k
  <2>2. /\ SubSeq(bytes, p, k - 1) \o <<>> \o SubSeq(bytes, k, n) = SubSeq(bytes, p, n)
        /\ k <= n /\ bytes[k] = 0 =>
           SubSeq(bytes, p, k - 1) \o << 0 >> \o SubSeq(bytes, k + 1, n) = SubSeq(bytes, p, n)
    BY <2>1, Rejoined
  <2>3. k = p + r
    BY DEF k
  <2>4. QED
    <3> HIDE DEF r, n
    <3>1. k - 1 = p + r - 1 /\ k + 1 = p + r + 1
      BY <2>3, <1>1r
    <3>2. QED
      BY <2>2, <2>3, <3>1
<1>5. SUFFICES ASSUME NEW w \in Seq(1..Full)
      PROVE  Unblocked(w \o F[p])[Len(w) + 1] = {SubSeq(bytes, p, n)}
  BY DEF Restores
<1> DEFINE wb == w \o block
<1>6. /\ wb \in Seq(1..Full) /\ Len(wb) = Len(w) + r + 1 /\ wb[Len(w) + 1] = r + 1 /\ Len(w) \in Nat
      /\ \A q \in 1..r : wb[Len(w) + 1 + q] = bytes[p + q - 1]
  <2> HIDE DEF block, r
  <2>1. /\ wb \in Seq(1..Full) /\ Len(wb) = Len(w) + Len(block) /\ Len(w) \in Nat
        /\ \A i \in 1..Len(w) + Len(block) : wb[i] = IF i <= Len(w) THEN w[i] ELSE block[i - Len(w)]
    BY <1>2, JoinCodes
  <2> HIDE DEF wb
  <2>3. wb[Len(w) + 1] = block[1]
    <3>1. ASSUME NEW j, j = Len(w) + 1 PROVE wb[j] = block[1]
      <4>1. Len(w) \in Nat /\ Len(block) = r + 1 /\ r \in Nat
        BY <2>1, <1>2, <1>1r
      <4>2. j \in 1..Len(w) + Len(block) /\ ~(j <= Len(w)) /\ j - Len(w) = 1
        BY <3>1, <4>1
      <4>3. QED
        BY <2>1, <4>2
    <3>2. QED
      BY <3>1
  <2>4. ASSUME NEW q \in 1..r PROVE wb[Len(w) + 1 + q] = block[q + 1]
    <3>1. /\ Len(w) + 1 + q \in 1..Len(w) + Len(block) /\ ~(Len(w) + 1 + q <= Len(w))
          /\ Len(w) + 1 + q - Len(w) = q + 1
      <4>1. Len(w) \in Nat /\ Len(block) = r + 1
        BY <2>1, <1>2
      <4>2. QED
        BY <4>1, <1>1r
    <3>2. QED
      BY <2>1, <3>1
  <2>5. Len(wb) = Len(w) + r + 1
    BY <2>1, <1>2, <1>1, <1>0
  <2>6. QED
    BY <2>1, <2>3, <2>4, <2>5, <1>2
\* What decoding makes of any code that begins with w and the block.
<1> DEFINE Un(rest) == Unblocked(wb \o rest)
<1>7. ASSUME NEW rest \in Seq(1..Full)
      PROVE  /\ \A x : /\ r + 1 = Full \/ rest = <<>>
                       /\ Un(rest)[Len(wb) + 1] = {x}
                       => Un(rest)[Len(w) + 1] = {run \o <<>> \o x}
             /\ \A x : /\ r + 1 # Full /\ rest # <<>>
                       /\ Un(rest)[Len(wb) + 1] = {x}
                       => Un(rest)[Len(w) + 1] = {run \o << 0 >> \o x}
             /\ Un(<<>>)[Len(wb) + 1] = {<<>>}
  <2> DEFINE coded == wb \o rest
             i == Len(w) + 1
             after == Len(wb) + 1
  <2> HIDE DEF block, r, wb
  <2>1. /\ coded \in Seq(1..Full) /\ Len(coded) = Len(wb) + Len(rest)
        /\ Len(wb) \in Nat /\ Len(rest) \in Nat
        /\ \A j \in 1..Len(wb) + Len(rest) : coded[j] = IF j <= Len(wb) THEN wb[j] ELSE rest[j - Len(wb)]
    BY <1>6, JoinCodes
  <2>2. rest = <<>> <=> Len(rest) = 0
    BY EmptySeq
  <2>3. coded \in Seq(Nat)
    BY <2>1, <1>0
  <2>3a. wb \in Seq(Nat)
    BY <1>6, <1>0
  <2>3b. wb \o <<>> = wb
    BY <1>6, ConcatEmptySeq
  <2>4. \A cs \in Seq(Nat) : \A j \in 1..Len(cs) + 1 : Unblocked(cs)[j] = UnblockedAt(cs, Unblocked(cs), j)
    <3> SUFFICES ASSUME NEW cs \in Seq(Nat), NEW j \in 1..Len(cs) + 1
                 PROVE  Unblocked(cs)[j] = UnblockedAt(cs, Unblocked(cs), j)
      OBVIOUS
    <3>1. Unblocked(cs) = [k \in 1..Len(cs) + 1 |-> UnblockedAt(cs, Unblocked(cs), k)]
      BY UnblockedExist
    <3>2. QED
      BY <3>1
  <2> HIDE DEF coded
  <2>5. coded[i] = r + 1 /\ i \in 1..Len(coded) /\ i + coded[i] = after /\ after \in 1..Len(coded) + 1
    <3>0. Len(wb) = Len(w) + r + 1 /\ Len(w) \in Nat /\ Len(rest) \in Nat /\ Len(coded) = Len(wb) + Len(rest)
      BY <2>1, <1>6
    <3>1. i \in 1..Len(wb) + Len(rest) /\ i <= Len(wb)
      BY <3>0, <1>1r
    <3>2. coded[i] = r + 1
      BY <2>1, <3>1, <1>6
    <3>3. QED
      BY <3>0, <3>1, <3>2, <1>1r
  <2>6. after <= Len(coded) <=> rest # <<>>
    BY <2>1, <2>2
  <2>7. Len(coded) \in Nat
    BY <2>3, LenProperties
  <2>8. Unblocked(coded)[i] = UnblockedAt(coded, Unblocked(coded), i)
    <3>1. i \in 1..Len(coded) + 1
      BY <2>5, <2>7
    <3> HIDE DEF i
    <3>2. QED
      BY <2>3, <2>4, <3>1
  <2>9. ~(i > Len(coded)) /\ ~(coded[i] = 0) /\ ~(after > Len(coded) + 1)
    <3>1. ~(i > Len(coded)) /\ ~(after > Len(coded) + 1)
      BY <2>5, <2>7
    <3>2. r + 1 # 0
      BY <1>1r
    <3>3. QED
      BY <2>5, <3>1, <3>2
  <2>11. SubSeq(coded, i + 1, after - 1) = run
    <3>0. i + 1 = Len(w) + 2 /\ after - 1 = Len(w) + r + 1
      BY <1>6, <1>1, <1>0
    <3>1. \A j \in i + 1..after - 1 : coded[j] \in Nat
      <4>1. \A j \in 1..Len(coded) : coded[j] \in Nat
        BY <2>3, ElementOfSeq
      <4>2. \A j \in i + 1..after - 1 : j \in 1..Len(coded)
        BY <2>5, <2>7
      <4>3. QED
        BY <4>1, <4>2
    <3>2. /\ SubSeq(coded, i + 1, after - 1) \in Seq(Nat)
          /\ Len(SubSeq(coded, i + 1, after - 1)) = r
          /\ \A j \in 1..r : SubSeq(coded, i + 1, after - 1)[j] = coded[i + j]
      <4>1. (after - 1) - (i + 1) + 1 = r /\ i + 1 \in Int /\ after - 1 \in Int
            /\ (IF i + 1 <= after - 1 THEN (after - 1) - (i + 1) + 1 ELSE 0) = r
            /\ \A j \in 1..r : i + 1 + j - 1 = i + j
        BY <3>0, <1>6, <1>1, <1>0
      <4> HIDE DEF i, after
      <4>2. QED
        BY <3>1, <4>1, SubSeqProperties
    <3>3. \A j \in 1..r : coded[i + j] = bytes[p + j - 1]
      <4>1. ASSUME NEW j \in 1..r PROVE coded[i + j] = wb[Len(w) + 1 + j]
        <5>0. Len(wb) = Len(w) + r + 1 /\ Len(w) \in Nat /\ Len(rest) \in Nat
          BY <2>1, <1>6
        <5>1. i + j \in 1..Len(wb) + Len(rest) /\ i + j <= Len(wb) /\ i + j = Len(w) + 1 + j
          BY <5>0, <1>1r
        <5>2. QED
          BY <5>1, <2>1
      <4>2. QED
        BY <4>1, <1>6
    <3>4. QED
      <4>1. run \in Seq(Nat) /\ Len(run) = r
        BY <1>4, <1>0 DEF Byte
      <4>2. \A j \in 1..r : run[j] = bytes[p + j - 1]
        BY <1>4
      <4> HIDE DEF run, i, after
      <4>3. QED
        BY <4>1, <4>2, <3>2, <3>3, SeqEqual
  <2>10. ASSUME NEW x, NEW zero, Unblocked(coded)[after] = {x},
                zero = IF coded[i] # Full /\ after <= Len(coded) THEN << 0 >> ELSE <<>>
         PROVE  Unblocked(coded)[i] = {run \o zero \o x}
    <3> HIDE DEF i, after, run
    <3>1. UnblockedAt(coded, Unblocked(coded), i)
           = {SubSeq(coded, i + 1, after - 1) \o zero \o s : s \in Unblocked(coded)[after]}
      BY <2>5, <2>9, <2>10, Zenon DEF UnblockedAt
    <3>2. UnblockedAt(coded, Unblocked(coded), i) = {run \o zero \o s : s \in {x}}
      BY <3>1, <2>10, <2>11, Zenon
    <3>3. QED
      BY <3>2, <2>8
  <2>12. Unblocked(wb)[Len(wb) + 1] = {<<>>}
    <3>1. Len(wb) + 1 \in 1..Len(wb) + 1 /\ Len(wb) + 1 > Len(wb)
      BY <2>1
    <3>2. Unblocked(wb)[Len(wb) + 1] = UnblockedAt(wb, Unblocked(wb), Len(wb) + 1)
      BY <2>4, <2>3a, <3>1
    <3>3. QED
      BY <3>1, <3>2 DEF UnblockedAt
  <2>13. ASSUME NEW x, r + 1 = Full \/ rest = <<>>, Unblocked(coded)[after] = {x}
         PROVE  Unblocked(coded)[i] = {run \o <<>> \o x}
    <3>1. <<>> = IF coded[i] # Full /\ after <= Len(coded) THEN << 0 >> ELSE <<>>
      BY <2>13, <2>5, <2>6
    <3>2. QED
      BY <3>1, <2>13, <2>10
  <2>14. ASSUME NEW x, r + 1 # Full, rest # <<>>, Unblocked(coded)[after] = {x}
         PROVE  Unblocked(coded)[i] = {run \o << 0 >> \o x}
    <3>1. << 0 >> = IF coded[i] # Full /\ after <= Len(coded) THEN << 0 >> ELSE <<>>
      BY <2>14, <2>5, <2>6
    <3>2. QED
      BY <3>1, <2>14, <2>10
  <2>15. QED
    BY <2>12, <2>3b, <2>13, <2>14 DEF coded
<1> HIDE DEF wb, run, block, r
<1>8. CASE r = Full - 1
  <2>1. F[p] = block \o F[p + r] /\ p + r \in 1..n + 1 /\ p + r > p
    BY <1>3, <1>8, <1>1, <1>0 DEF BlocksAt, block, r
  <2>2. F[p + r] \in Seq(1..Full) /\ Len(F[p + r]) >= 1
    BY <2>1, BlocksCode
  <2>3. w \o F[p] = wb \o F[p + r]
    <3>1. (w \o block) \o F[p + r] = w \o (block \o F[p + r])
      <4> DEFINE rest == F[p + r]
      <4>1. rest \in Seq(1..Full) /\ block \in Seq(1..Full)
        BY <2>2, <1>2
      <4> HIDE DEF rest
      <4>2. (w \o block) \o rest = w \o (block \o rest)
        BY <4>1
      <4>3. QED
        BY <4>2 DEF rest
    <3>2. QED
      BY <3>1, <2>1 DEF wb
  <2>4. Unblocked(wb \o F[p + r])[Len(wb) + 1] = {SubSeq(bytes, p + r, n)}
    BY <2>1, <1>6 DEF Restores
  <2>5. Unblocked(w \o F[p])[Len(w) + 1] = {run \o <<>> \o SubSeq(bytes, p + r, n)}
    <3>1. r + 1 = Full
      BY <1>1, <1>0, <1>8
    <3>2. F[p + r] \in Seq(1..Full) /\ Un(F[p + r])[Len(wb) + 1] = {SubSeq(bytes, p + r, n)}
      BY <2>2, <2>4
    <3>3. Un(F[p + r])[Len(w) + 1] = {run \o <<>> \o SubSeq(bytes, p + r, n)}
      <4> HIDE DEF F, Un
      <4>1. QED
        BY <1>7, <2>2, <3>1, <3>2, Zenon
    <3>4. QED
      BY <3>3, <2>3
  <2>6. run \o <<>> \o SubSeq(bytes, p + r, n) = SubSeq(bytes, p, n)
    <3>1. SubSeq(bytes, p, p + r - 1) \o <<>> \o SubSeq(bytes, p + r, Len(bytes)) = SubSeq(bytes, p, Len(bytes))
      BY <1>11
    <3>2. QED
      BY <3>1 DEF run
  <2>7. QED
    BY <2>5, <2>6
<1>9. CASE r # Full - 1 /\ p + r > n
  <2>1. F[p] = block /\ p + r = n + 1
    BY <1>3, <1>9, <1>1, <1>0 DEF BlocksAt, block, r
  <2>2. w \o F[p] = wb \o <<>> /\ <<>> \in Seq(1..Full) /\ Len(wb \o <<>>) = Len(wb)
    BY <2>1, <1>6, ConcatEmptySeq, EmptySeq DEF wb
  <2>3. Unblocked(w \o F[p])[Len(w) + 1] = {run \o <<>> \o <<>>}
    BY <2>2, <1>7, Zenon
  <2>4. run \o <<>> \o <<>> = SubSeq(bytes, p, n)
    <3>1. run \o <<>> = run
      BY <1>4, ConcatEmptySeq
    <3>2. p + r - 1 = n
      BY <2>1, <1>0, <1>1r
    <3>3. run = SubSeq(bytes, p, n)
      BY <3>2 DEF run
    <3>4. QED
      BY <3>1, <3>3
  <2>5. QED
    BY <2>3, <2>4
<1>10. CASE r # Full - 1 /\ ~(p + r > n)
  <2>1. F[p] = block \o F[p + r + 1] /\ p + r + 1 \in 1..n + 1 /\ p + r + 1 > p
    <3> USE DEF block, r
    <3>1. p + r + 1 \in 1..n + 1 /\ p + r + 1 > p
      BY <1>10, <1>1, <1>0
    <3>2. F[p] = block \o F[p + r + 1]
      BY <1>3, <1>10, Zenon DEF BlocksAt
    <3>3. QED
      BY <3>1, <3>2
  <2>2. F[p + r + 1] \in Seq(1..Full) /\ F[p + r + 1] # <<>>
    <3>1. p + r + 1 \in 1..Len(bytes) + 1
      BY <2>1
    <3>2. F[p + r + 1] \in Seq(1..Full) /\ Len(F[p + r + 1]) >= 1
      BY <3>1, BlocksCode
    <3>3. Len(<<>>) = 0
      OBVIOUS
    <3>4. QED
      BY <3>2, <3>3
  <2>3. w \o F[p] = wb \o F[p + r + 1]
    <3>1. (w \o block) \o F[p + r + 1] = w \o (block \o F[p + r + 1])
      <4> DEFINE rest == F[p + r + 1]
      <4>1. rest \in Seq(1..Full) /\ block \in Seq(1..Full)
        BY <2>2, <1>2
      <4> HIDE DEF rest
      <4>2. (w \o block) \o rest = w \o (block \o rest)
        BY <4>1
      <4>3. QED
        BY <4>2 DEF rest
    <3>2. QED
      BY <3>1, <2>1 DEF wb
  <2>4. Unblocked(wb \o F[p + r + 1])[Len(wb) + 1] = {SubSeq(bytes, p + r + 1, n)}
    BY <2>1, <1>6 DEF Restores
  <2>5. Unblocked(w \o F[p])[Len(w) + 1] = {run \o << 0 >> \o SubSeq(bytes, p + r + 1, n)}
    <3>1. r + 1 # Full
      BY <1>1, <1>0, <1>10
    <3>2. F[p + r + 1] \in Seq(1..Full) /\ Un(F[p + r + 1])[Len(wb) + 1] = {SubSeq(bytes, p + r + 1, n)}
      BY <2>2, <2>4
    <3>3. Un(F[p + r + 1])[Len(w) + 1] = {run \o << 0 >> \o SubSeq(bytes, p + r + 1, n)}
      <4> HIDE DEF F, Un
      <4>1. QED
        BY <1>7, <2>2, <3>1, <3>2, Zenon
    <3>4. QED
      BY <3>3, <2>3
  <2>6. run \o << 0 >> \o SubSeq(bytes, p + r + 1, n) = SubSeq(bytes, p, n)
    <3>1. p + r <= n /\ bytes[p + r] = 0
      BY <1>1, <1>10, <1>1r, <1>0 DEF EndsAt
    <3>2. QED
      <4>1. SubSeq(bytes, p, p + r - 1) \o << 0 >> \o SubSeq(bytes, p + r + 1, Len(bytes)) = SubSeq(bytes, p, Len(bytes))
        BY <3>1, <1>11
      <4>2. QED
        BY <4>1 DEF run
  <2>7. QED
    BY <2>5, <2>6
<1>12. QED
  BY <1>8, <1>9, <1>10

\* COBS takes back what it gave, for any bytes.
THEOREM RoundTrip == \A bytes \in Seq(Byte) : Decoded(Encoded(bytes)) = {bytes}
<1> SUFFICES ASSUME NEW bytes \in Seq(Byte) PROVE Decoded(Encoded(bytes)) = {bytes}
  OBVIOUS
<1> DEFINE L == Len(bytes) + 1
           T == {p \in 1..L : Restores(bytes, p)}
<1>0. L \in Nat /\ 1 \in 1..L
  BY LenProperties
<1>1. ASSUME NEW p \in 1..L, \A q \in 1..L : q > p => q \in T PROVE p \in T
  BY <1>1, RestoresStep
<1>2. \A p \in 1..L : p \in T
  <2> HIDE DEF T, L
  <2>1. QED
    BY <1>0, <1>1, Descent
<1>3. Restores(bytes, 1)
  BY <1>0, <1>2
<1>4. <<>> \in Seq(1..Full) /\ Len(<<>>) = 0
  OBVIOUS
<1>5. Encoded(bytes) \in Seq(1..Full) /\ Encoded(bytes) # <<>>
  <2>1. Encoded(bytes) \in Seq(1..Full) /\ Len(Encoded(bytes)) >= 1
    BY <1>0, BlocksCode DEF Encoded
  <2>2. QED
    BY <2>1, <1>4
<1>6. <<>> \o Encoded(bytes) = Encoded(bytes)
  BY <1>5, ConcatEmptySeq
<1>7. SubSeq(bytes, 1, Len(bytes)) = bytes
  BY SubSeqFull
<1>8. Unblocked(<<>> \o Encoded(bytes))[Len(<<>>) + 1] = {SubSeq(bytes, 1, Len(bytes))}
  BY <1>3, <1>4, Zenon DEF Restores, Encoded
<1>9. QED
  BY <1>4, <1>5, <1>6, <1>7, <1>8 DEF Decoded

-----------------------------------------------------------------------------
(* The parser.                                                               *)

Raw(payload) == Append(<<Len(payload)>> \o payload, Check(<<Len(payload)>> \o payload))

\* What is sent has no zero but its last byte, fits the parser's buffer, and what
\* comes before the zero decodes to the payload and to nothing else.
LEMMA BuiltIsWhole ==
    ASSUME NEW p \in Payloads
    PROVE  LET code == Encoded(Raw(p))
           IN /\ Built(p) = code \o << 0 >>
              /\ code \in Seq(1..Full) /\ Len(code) >= 1 /\ Len(code) < MaxCoded
              /\ Decoded(code) = {Raw(p)} /\ Valid(Raw(p)) /\ Payload(Raw(p)) = p
<1> DEFINE body == <<Len(p)>> \o p
           raw == Raw(p)
           n == Len(p)
<1>0. /\ Full \in Nat /\ Full >= 2 /\ p \in Seq(Byte) /\ n + 2 <= MaxRaw /\ n <= Full
      /\ MaxCoded = MaxRaw + (1 + MaxRaw \div (Full - 1)) + 1
  BY FramingAssumption
<1>1. n \in Nat
  BY <1>0, LenProperties
<1>2. <<n>> \in Seq(Byte) /\ Len(<<n>>) = 1 /\ <<n>>[1] = n
  BY <1>0, <1>1 DEF Byte
<1>3. /\ body \in Seq(Byte) /\ Len(body) = n + 1 /\ body[1] = n
      /\ \A i \in 1..n : body[i + 1] = p[i]
  <2>1. /\ body \in Seq(Byte) /\ Len(body) = 1 + n
        /\ \A i \in 1..1 + n : body[i] = IF i <= 1 THEN <<n>>[i] ELSE p[i - 1]
    BY <1>0, <1>2, ConcatProperties
  <2> HIDE DEF body
  <2>2. body[1] = n
    BY <2>1, <1>1, <1>2
  <2>3. ASSUME NEW i \in 1..n PROVE body[i + 1] = p[i]
    <3>1. i + 1 \in 1..1 + n /\ ~(i + 1 <= 1) /\ (i + 1) - 1 = i
      BY <1>1
    <3>2. QED
      BY <2>1, <3>1
  <2>4. QED
    BY <2>1, <2>2, <2>3, <1>1
<1>4. Check(body) \in Byte
  BY <1>3, CheckIsByte
<1>5. raw = Append(body, Check(body))
  BY DEF Raw
<1> HIDE DEF body, raw
<1>6. /\ raw \in Seq(Byte) /\ Len(raw) = n + 2 /\ raw[n + 2] = Check(body)
      /\ \A i \in 1..n + 1 : raw[i] = body[i]
  BY <1>1, <1>3, <1>4, <1>5
<1>7. Front(raw) = body
  <2>1. Front(raw) = SubSeq(raw, 1, n + 1)
    BY <1>6, <1>1 DEF Front
  <2>2. \A i \in 1..n + 1 : raw[i] \in Byte
    BY <1>6, <1>1, ElementOfSeq
  <2>3. /\ n + 1 - 1 + 1 = n + 1 /\ (IF 1 <= n + 1 THEN n + 1 - 1 + 1 ELSE 0) = n + 1
        /\ n + 1 \in Int /\ 1 \in Int /\ \A i \in 1..n + 1 : 1 + i - 1 = i
    BY <1>1
  <2>4. /\ SubSeq(raw, 1, n + 1) \in Seq(Byte) /\ Len(SubSeq(raw, 1, n + 1)) = n + 1
        /\ \A i \in 1..n + 1 : SubSeq(raw, 1, n + 1)[i] = raw[i]
    BY <2>2, <2>3, SubSeqProperties
  <2>5. SubSeq(raw, 1, n + 1) = body
    BY <2>4, <1>3, <1>6, SeqEqual
  <2>6. QED
    BY <2>1, <2>5
<1>8. Valid(raw)
  <2>1. Last(raw) = Check(body)
    BY <1>6, <1>1 DEF Last
  <2>2. raw[1] = n
    BY <1>1, <1>3, <1>6
  <2>3. QED
    BY <2>1, <2>2, <1>1, <1>6, <1>7 DEF Valid
<1>9. Payload(raw) = p
  <2>1. Payload(raw) = SubSeq(raw, 2, n + 1)
    BY <1>1, <1>6 DEF Payload
  <2>2. \A i \in 2..n + 1 : raw[i] \in Byte
    BY <1>6, <1>1, ElementOfSeq
  <2>3. /\ n + 1 - 2 + 1 = n /\ (IF 2 <= n + 1 THEN n + 1 - 2 + 1 ELSE 0) = n
        /\ n + 1 \in Int /\ 2 \in Int /\ \A i \in 1..n : 2 + i - 1 = i + 1 /\ i + 1 \in 1..n + 1
    BY <1>1
  <2>4. /\ SubSeq(raw, 2, n + 1) \in Seq(Byte) /\ Len(SubSeq(raw, 2, n + 1)) = n
        /\ \A i \in 1..n : SubSeq(raw, 2, n + 1)[i] = raw[i + 1]
    BY <2>2, <2>3, SubSeqProperties
  <2>5. \A i \in 1..n : SubSeq(raw, 2, n + 1)[i] = p[i]
    BY <2>3, <2>4, <1>3, <1>6
  <2>6. SubSeq(raw, 2, n + 1) = p
    BY <2>4, <2>5, <1>0, SeqEqual
  <2>7. QED
    BY <2>1, <2>6
<1> DEFINE code == Encoded(raw)
<1>10. code \in Seq(1..Full) /\ Len(code) >= 1 /\ Len(code) <= (n + 2) + 1 + (n + 2) \div (Full - 1)
  <2>1. 1 \in 1..Len(raw) + 1 /\ Len(raw) + 1 - 1 = n + 2
    BY <1>1, <1>6
  <2>2. /\ Blocks(raw)[1] \in Seq(1..Full) /\ Len(Blocks(raw)[1]) >= 1
        /\ Len(Blocks(raw)[1]) <= (Len(raw) + 1 - 1) + 1 + (Len(raw) + 1 - 1) \div (Full - 1)
    BY <2>1, <1>6, BlocksCode
  <2>3. QED
    BY <2>1, <2>2 DEF Encoded
<1>11. Len(code) < MaxCoded
  <2>1. Full - 1 \in Nat \ {0} /\ n + 2 \in Nat
    BY <1>0, <1>1
  <2>2. MaxRaw \in Nat
    BY FramingAssumption
  <2>3. (n + 2) \div (Full - 1) <= MaxRaw \div (Full - 1)
    BY <2>1, <2>2, <1>0, DivSteps
  <2>4. (n + 2) \div (Full - 1) \in Nat /\ MaxRaw \div (Full - 1) \in Nat
    BY <2>1, <2>2, DivSteps
  <2> DEFINE d == (n + 2) \div (Full - 1)
             e == MaxRaw \div (Full - 1)
             cs == Len(code)
  <2>5. /\ cs <= (n + 2) + 1 + d /\ d <= e /\ n + 2 <= MaxRaw /\ MaxCoded = MaxRaw + (1 + e) + 1
        /\ d \in Nat /\ e \in Nat /\ cs \in Nat
    BY <2>3, <2>4, <1>0, <1>10, LenProperties
  <2> HIDE DEF d, e, cs, n
  <2>6. cs < MaxCoded
    BY <2>2, <2>5, <1>1
  <2>7. QED
    BY <2>6 DEF cs
<1>12. Decoded(code) = {raw}
  BY <1>6, RoundTrip
<1>13. Built(p) = code \o << 0 >>
  BY <1>5 DEF Built, body
<1>14. QED
  BY <1>8, <1>9, <1>10, <1>11, <1>12, <1>13 DEF raw


\* The same, position by position.
LEMMA BuiltByByte ==
    ASSUME NEW p \in Payloads
    PROVE  /\ Built(p) \in Seq(Byte) /\ Len(Built(p)) \in Nat \ {0, 1} /\ Len(Built(p)) <= MaxCoded
           /\ MaxCoded \in Nat
           /\ Built(p)[Len(Built(p))] = 0
           /\ \A i \in 1..Len(Built(p)) - 1 : Built(p)[i] # 0
           /\ SubSeq(Built(p), 1, Len(Built(p)) - 1) = Encoded(Raw(p))
<1> DEFINE code == Encoded(Raw(p))
           n == Len(code)
           B == Built(p)
<1>0. Full \in Nat /\ Full >= 2
  BY FramingAssumption
<1>1. B = code \o << 0 >> /\ code \in Seq(1..Full) /\ n >= 1 /\ n < MaxCoded
  BY BuiltIsWhole
<1>2. n \in Nat
  BY <1>1, LenProperties
<1>2a. MaxCoded \in Nat
  <2>1. MaxRaw \in Nat /\ Full - 1 \in Nat \ {0} /\ MaxCoded = MaxRaw + (1 + MaxRaw \div (Full - 1)) + 1
    BY FramingAssumption
  <2>2. MaxRaw \div (Full - 1) \in Nat
    BY <2>1, DivSteps
  <2>3. QED
    BY <2>1, <2>2
<1>3. code \in Seq(Byte) /\ \A i \in 1..n : code[i] # 0
  <2>1. \A i \in 1..n : code[i] \in 1..Full
    BY <1>1, ElementOfSeq
  <2>2. code \in Seq(Byte)
    BY <1>1, <1>0 DEF Byte
  <2>3. \A z \in 1..Full : z # 0
    BY <1>0
  <2> HIDE DEF code, n
  <2>4. QED
    BY <2>1, <2>2, <2>3
<1> HIDE DEF code, B
<1>4. << 0 >> \in Seq(Byte) /\ Len(<< 0 >>) = 1 /\ << 0 >>[1] = 0
  BY <1>0 DEF Byte
<1>5. /\ B \in Seq(Byte) /\ Len(B) = n + 1
      /\ \A i \in 1..n + 1 : B[i] = IF i <= n THEN code[i] ELSE << 0 >>[i - n]
  BY <1>1, <1>3, <1>4, ConcatProperties
<1>5a. \A i \in 1..n + 1 : B[i] = IF i <= n THEN code[i] ELSE << 0 >>[i - n]
  BY <1>5
<1>6. B[n + 1] = 0 /\ \A i \in 1..n : B[i] = code[i]
  <2>1. n + 1 \in 1..n + 1 /\ ~(n + 1 <= n) /\ n + 1 - n = 1
    BY <1>2
  <2>2. \A i \in 1..n : i \in 1..n + 1 /\ i <= n
    BY <1>2
  <2>3. B[n + 1] = IF n + 1 <= n THEN code[n + 1] ELSE << 0 >>[n + 1 - n]
    BY <2>1, <1>5a
  <2>4. B[n + 1] = 0
    BY <2>1, <2>3, <1>4, Zenon
  <2>5. ASSUME NEW i \in 1..n PROVE B[i] = code[i]
    BY <2>2, <1>5
  <2>6. QED
    BY <2>4, <2>5
<1>7. SubSeq(B, 1, n) = code
  <2>1. \A i \in 1..n : B[i] \in Byte
    BY <1>3, <1>6, ElementOfSeq
  <2>2. /\ n - 1 + 1 = n /\ (IF 1 <= n THEN n - 1 + 1 ELSE 0) = n
        /\ n \in Int /\ 1 \in Int /\ \A i \in 1..n : 1 + i - 1 = i
    BY <1>1, <1>2
  <2>3. /\ SubSeq(B, 1, n) \in Seq(Byte) /\ Len(SubSeq(B, 1, n)) = n
        /\ \A i \in 1..n : SubSeq(B, 1, n)[i] = B[i]
    BY <2>1, <2>2, SubSeqProperties
  <2>4. QED
    BY <2>3, <1>3, <1>6, SeqEqual
<1>8. Len(B) - 1 = n /\ Len(B) \in Nat \ {0, 1} /\ Len(B) <= MaxCoded
  BY <1>1, <1>2, <1>2a, <1>5
<1>9. QED
  <2> HIDE DEF n
  <2>1. QED
    BY <1>2a, <1>3, <1>5, <1>6, <1>7, <1>8 DEF B, code

\* What is still to arrive is the end of the frame.
EndOf(w, p) ==
    /\ w \in Seq(Byte)
    /\ w # <<>> => /\ p \in Payloads /\ Len(w) <= Len(Built(p))
                   /\ \A i \in 1..Len(w) : w[i] = Built(p)[Len(Built(p)) - Len(w) + i]

\* What the parser holds is what has arrived of it, when nothing was spoilt.
Follows(kept, over, w, p) ==
    /\ over = FALSE
    /\ w = <<>> => kept = <<>>
    /\ w # <<>> => kept = SubSeq(Built(p), 1, Len(Built(p)) - Len(w))

ParserInv ==
    /\ EndOf(wire, message)
    /\ intact \in BOOLEAN
    /\ intact => Follows(buffer, overflow, wire, message)
    /\ WholeFramesArrive

LEMMA EndShrinks ==
    ASSUME NEW w, NEW p, EndOf(w, p), w # <<>>
    PROVE  /\ EndOf(Tail(w), p) /\ Len(w) \in Nat \ {0} /\ Len(Tail(w)) = Len(w) - 1
           /\ (Tail(w) = <<>> <=> Len(w) = 1)
           /\ Head(w) = Built(p)[Len(Built(p)) - Len(w) + 1] /\ Head(w) \in Byte
           /\ (Head(w) = 0 <=> Len(w) = 1)
<1> DEFINE N == Len(Built(p))
           B == Built(p)
<1>1. /\ w \in Seq(Byte) /\ p \in Payloads /\ Len(w) <= N
      /\ \A i \in 1..Len(w) : w[i] = B[N - Len(w) + i]
  BY DEF EndOf
<1>2. /\ B \in Seq(Byte) /\ N \in Nat \ {0, 1} /\ B[N] = 0 /\ \A i \in 1..N - 1 : B[i] # 0
  BY <1>1, BuiltByByte
<1>3. Len(w) \in Nat \ {0}
  BY <1>1, EmptySeq
<1>4. Tail(w) \in Seq(Byte) /\ Len(Tail(w)) = Len(w) - 1 /\ \A i \in 1..Len(w) - 1 : Tail(w)[i] = w[i + 1]
  BY <1>1, <1>3
<1>5. Head(w) = w[1] /\ 1 \in 1..Len(w)
  BY <1>1, <1>3
<1> HIDE DEF N, B
<1>6. Head(w) = B[N - Len(w) + 1] /\ Head(w) \in Byte
  <2>1. w[1] \in Byte
    BY <1>1, <1>5, ElementOfSeq
  <2>2. QED
    BY <1>1, <1>5, <2>1
<1>7. Head(w) = 0 <=> Len(w) = 1
  <2>1. CASE Len(w) = 1
    <3>1. N - Len(w) + 1 = N
      BY <2>1, <1>2
    <3>2. QED
      BY <3>1, <2>1, <1>6, <1>2
  <2>2. CASE Len(w) # 1
    <3>1. N - Len(w) + 1 \in 1..N - 1
      <4>1. Len(w) <= N /\ N \in Nat
        BY <1>1, <1>2
      <4>2. \A m, l \in Nat : l # 0 /\ l # 1 /\ l <= m => m - l + 1 \in 1..m - 1
        OBVIOUS
      <4>3. Len(w) \in Nat /\ Len(w) # 0
        BY <1>3
      <4>4. QED
        BY <4>1, <4>2, <4>3, <2>2, Zenon
    <3>2. QED
      BY <3>1, <2>2, <1>6, <1>2
  <2>3. QED
    BY <2>1, <2>2
<1>8. Tail(w) = <<>> <=> Len(w) = 1
  <2>1. Tail(w) = <<>> <=> Len(Tail(w)) = 0
    BY <1>4, EmptySeq
  <2>2. QED
    BY <2>1, <1>3, <1>4
<1>9. EndOf(Tail(w), p)
  <2>1. Len(Tail(w)) <= N
    BY <1>1, <1>2, <1>3, <1>4
  <2>2. ASSUME NEW i \in 1..Len(Tail(w)) PROVE Tail(w)[i] = B[N - Len(Tail(w)) + i]
    <3>1. i \in 1..Len(w) - 1 /\ i + 1 \in 1..Len(w) /\ N - Len(w) + (i + 1) = N - Len(Tail(w)) + i
      BY <1>2, <1>3, <1>4
    <3>2. QED
      BY <3>1, <1>1, <1>4
  <2>3. QED
    BY <2>1, <2>2, <1>1, <1>4 DEF EndOf, N, B
<1>10. QED
  BY <1>3, <1>4, <1>6, <1>7, <1>8, <1>9 DEF N, B

LEMMA ByteMore ==
    ASSUME NEW S, NEW s \in Seq(S), NEW k \in 0..Len(s) - 1
    PROVE  Append(SubSeq(s, 1, k), s[k + 1]) = SubSeq(s, 1, k + 1) /\ Len(SubSeq(s, 1, k)) = k
<1>0. Len(s) \in Nat /\ k \in Nat /\ k + 1 \in 1..Len(s)
  BY LenProperties
<1>1. \A i \in 1..Len(s) : s[i] \in S
  BY ElementOfSeq
<1>2. ASSUME NEW j \in 0..Len(s)
      PROVE  /\ SubSeq(s, 1, j) \in Seq(S) /\ Len(SubSeq(s, 1, j)) = j
             /\ \A i \in 1..j : SubSeq(s, 1, j)[i] = s[i]
  <2>1. \A i \in 1..j : s[i] \in S
    BY <1>0, <1>1
  <2>2. /\ j - 1 + 1 = j /\ (IF 1 <= j THEN j - 1 + 1 ELSE 0) = j
        /\ j \in Int /\ 1 \in Int /\ \A i \in 1..j : 1 + i - 1 = i
    BY <1>0
  <2>3. QED
    BY <2>1, <2>2, SubSeqProperties
<1> DEFINE a == SubSeq(s, 1, k)
           b == SubSeq(s, 1, k + 1)
<1>3. a \in Seq(S) /\ Len(a) = k /\ \A i \in 1..k : a[i] = s[i]
  BY <1>2, <1>0
<1>4. b \in Seq(S) /\ Len(b) = k + 1 /\ \A i \in 1..k + 1 : b[i] = s[i]
  <2>1. k + 1 \in 0..Len(s)
    BY <1>0
  <2>2. QED
    BY <1>2, <2>1
<1> HIDE DEF a, b
<1>5. s[k + 1] \in S
  BY <1>0, <1>1
<1>6. /\ Append(a, s[k + 1]) \in Seq(S) /\ Len(Append(a, s[k + 1])) = k + 1
      /\ \A i \in 1..k : Append(a, s[k + 1])[i] = a[i]
      /\ Append(a, s[k + 1])[k + 1] = s[k + 1]
  BY <1>0, <1>3, <1>5
<1>7. \A i \in 1..k + 1 : Append(a, s[k + 1])[i] = b[i]
  BY <1>0, <1>3, <1>4, <1>6
<1>8. Append(a, s[k + 1]) = b
  BY <1>4, <1>6, <1>7, SeqEqual
<1>9. QED
  BY <1>3, <1>8 DEF a, b

\* A byte of a whole frame is taken in, its last one hands the frame on.
LEMMA TakesIn ==
    ASSUME EndOf(wire, message), wire # <<>>, Follows(buffer, overflow, wire, message), Feed(Head(wire))
    PROVE  /\ Head(wire) # 0 => Follows(buffer', overflow', Tail(wire), message)
           /\ Head(wire) = 0 => Follows(buffer', overflow', Tail(wire), message) /\ parsed' = {message}
<1> DEFINE N == Len(Built(message))
           B == Built(message)
           k == N - Len(wire)
<1>1. message \in Payloads /\ Len(wire) <= N
  BY DEF EndOf
<1>2. /\ Len(wire) \in Nat \ {0} /\ Len(Tail(wire)) = Len(wire) - 1
      /\ (Tail(wire) = <<>> <=> Len(wire) = 1)
      /\ Head(wire) = B[k + 1]
      /\ (Head(wire) = 0 <=> Len(wire) = 1)
  BY EndShrinks
<1>3. /\ B \in Seq(Byte) /\ N \in Nat \ {0, 1} /\ N <= MaxCoded /\ MaxCoded \in Nat
      /\ SubSeq(B, 1, N - 1) = Encoded(Raw(message))
  BY <1>1, BuiltByByte
<1>4. overflow = FALSE /\ buffer = SubSeq(B, 1, k)
  BY DEF Follows
<1> HIDE DEF N, B
<1>5. k \in 0..N - 1 /\ N - Len(Tail(wire)) = k + 1
  BY <1>1, <1>2, <1>3
<1>6. CASE Head(wire) # 0
  <2>1. Append(buffer, B[k + 1]) = SubSeq(B, 1, k + 1) /\ Len(buffer) = k
    <3> HIDE DEF k
    <3>1. QED
      BY <1>3, <1>4, <1>5, ByteMore DEF N
  <2>2. ~(Len(buffer) >= MaxCoded)
    BY <2>1, <1>3, <1>5
  <2>3. buffer' = Append(buffer, Head(wire)) /\ overflow' = overflow
    BY <1>6, <2>2 DEF Feed, Accumulate
  <2>4. Tail(wire) # <<>>
    BY <1>2, <1>6
  <2>5. buffer' = SubSeq(B, 1, N - Len(Tail(wire)))
    BY <2>1, <2>3, <1>2, <1>5
  <2>6. overflow' = FALSE
    BY <2>3, <1>4
  <2>7. QED
    BY <1>6, <2>4, <2>5, <2>6, Zenon DEF Follows, N, B
<1>7. CASE Head(wire) = 0
  <2>1. Tail(wire) = <<>> /\ k = N - 1
    BY <1>2, <1>3, <1>7
  <2>2. buffer = Encoded(Raw(message))
    BY <2>1, <1>3, <1>4
  <2>3. Decoded(buffer) = {Raw(message)} /\ Valid(Raw(message)) /\ Payload(Raw(message)) = message
    BY <2>2, <1>1, BuiltIsWhole
  <2>4. /\ parsed' = {Payload(raw) : raw \in {d \in Decoded(buffer) : Valid(d)}}
        /\ buffer' = <<>> /\ overflow' = FALSE
    BY <1>7, <1>4, Zenon DEF Feed, Delimit, Cleared
  <2>5. parsed' = {message}
    <3>1. {d \in {Raw(message)} : Valid(d)} = {Raw(message)}
      BY <2>3
    <3>2. {Payload(raw) : raw \in {Raw(message)}} = {message}
      BY <2>3
    <3>3. QED
      BY <2>3, <2>4, <3>1, <3>2, Zenon
  <2>6. Follows(buffer', overflow', Tail(wire), message)
    BY <2>1, <2>4, Zenon DEF Follows
  <2>7. QED
    BY <2>5, <2>6, <1>7, Zenon
<1>8. QED
  BY <1>6, <1>7, Zenon

LEMMA ParserInit == FramingInit => ParserInv
  BY EmptySeq DEF FramingInit, ParserInv, EndOf, Follows, WholeFramesArrive

LEMMA ParserStep == ParserInv /\ [FramingNext]_framingVars => ParserInv'
<1> SUFFICES ASSUME ParserInv, [FramingNext]_framingVars PROVE ParserInv'
  OBVIOUS
<1>0. /\ EndOf(wire, message) /\ intact \in BOOLEAN /\ due \subseteq parsed
      /\ intact => Follows(buffer, overflow, wire, message)
  BY DEF ParserInv, WholeFramesArrive
\* What a step has to show, of the values it leaves.
<1> DEFINE Good(w, p, ok, kept, over, handed, promised) ==
               /\ EndOf(w, p) /\ ok \in BOOLEAN /\ (ok => Follows(kept, over, w, p)) /\ promised \subseteq handed
<1>a. SUFFICES Good(wire', message', intact', buffer', overflow', parsed', due')
  BY Zenon DEF ParserInv, WholeFramesArrive, EndOf, Follows
<1>1. ASSUME NEW p \in Payloads, SendFrame(p)
      PROVE  Good(wire', message', intact', buffer', overflow', parsed', due')
  <2>1. /\ wire = <<>> /\ wire' = Built(p) /\ message' = p /\ due' = {}
        /\ intact' = intact /\ buffer' = buffer /\ overflow' = overflow
    BY <1>1 DEF SendFrame
  <2>2. Built(p) \in Seq(Byte) /\ Len(Built(p)) \in Nat \ {0, 1}
    BY BuiltByByte
  <2>3. Len(Built(p)) - Len(Built(p)) = 0
    BY <2>2
  <2>4. EndOf(Built(p), p)
    BY <2>2 DEF EndOf
  <2>5. SubSeq(Built(p), 1, Len(Built(p)) - Len(Built(p))) = <<>>
    BY <2>3, SubSeqEmpty
  <2>6. Built(p) # <<>>
    BY <2>2, EmptySeq
  <2>7. Follows(buffer, overflow, <<>>, message) => Follows(buffer, overflow, Built(p), p)
    BY <2>5, <2>6, Zenon DEF Follows
  <2>8. QED
    BY <2>1, <2>4, <2>7, <1>0, Zenon
<1>2. CASE Arrive
  <2>1. /\ wire # <<>> /\ wire' = Tail(wire) /\ Feed(Head(wire)) /\ message' = message
        /\ due' = IF Head(wire) = 0 /\ intact THEN {message} ELSE {}
        /\ intact' = (intact \/ Head(wire) = 0)
    BY <1>2, Zenon DEF Arrive
  <2>2. EndOf(Tail(wire), message) /\ (Tail(wire) = <<>> <=> Len(wire) = 1) /\ (Head(wire) = 0 <=> Len(wire) = 1)
    BY <2>1, <1>0, EndShrinks
  <2>3. CASE intact
    <3>1. Follows(buffer', overflow', Tail(wire), message) /\ (Head(wire) = 0 => parsed' = {message})
      BY <2>1, <2>3, <1>0, TakesIn, Zenon
    <3>2. due' \subseteq parsed'
      <4>1. CASE Head(wire) = 0
        BY <2>1, <3>1, <4>1, Zenon
      <4>2. CASE Head(wire) # 0
        BY <2>1, <4>2, Zenon
      <4>3. QED
        BY <4>1, <4>2
    <3>3. QED
      BY <2>1, <2>2, <3>1, <3>2, Zenon
  <2>4. CASE ~intact
    <3>1. due' = {}
      BY <2>1, <2>4, Zenon
    <3>2. Head(wire) = 0 => Follows(buffer', overflow', Tail(wire), message)
      <4>1. ASSUME Head(wire) = 0 PROVE Follows(buffer', overflow', Tail(wire), message)
        <5>1. buffer' = <<>> /\ overflow' = FALSE
          BY <4>1, <2>1, Zenon DEF Feed, Delimit, Cleared
        <5>2. Tail(wire) = <<>>
          BY <4>1, <2>2, Zenon
        <5>3. QED
          BY <5>1, <5>2, Zenon DEF Follows
      <4>2. QED
        BY <4>1
    <3>3. QED
      BY <2>1, <2>2, <2>4, <3>1, <3>2, Zenon
  <2>5. QED
    BY <2>3, <2>4
\* A spoilt byte leaves nothing promised.
<1>3. ASSUME Spoil, wire' = wire \/ wire' = Tail(wire)
      PROVE  Good(wire', message', intact', buffer', overflow', parsed', due')
  <2>1. wire # <<>> /\ intact' = FALSE /\ due' = {} /\ message' = message
    BY <1>3 DEF Spoil
  <2>2. EndOf(Tail(wire), message)
    BY <2>1, <1>0, EndShrinks
  <2>3. QED
    BY <2>1, <2>2, <1>0, <1>3, Zenon
<1>4. ASSUME NEW b \in Byte, Damage(b) PROVE Good(wire', message', intact', buffer', overflow', parsed', due')
  BY <1>4, <1>3, Zenon DEF Damage
<1>5. CASE LoseByte
  BY <1>5, <1>3, Zenon DEF LoseByte
<1>6. ASSUME NEW b \in Byte, AddByte(b) PROVE Good(wire', message', intact', buffer', overflow', parsed', due')
  BY <1>6, <1>3, Zenon DEF AddByte
<1>7. CASE UNCHANGED framingVars
  BY <1>7, <1>0, Zenon DEF framingVars
<1>8. QED
  BY <1>1, <1>2, <1>4, <1>5, <1>6, <1>7, Zenon DEF FramingNext

\* A frame of any payload that arrives whole is handed on as it was sent, whatever
\* was lost, damaged or added before it (parser.go Feed, framing.go).
THEOREM FramesArrive == FramingSpec => []WholeFramesArrive
<1>1. ParserInv => WholeFramesArrive
  BY DEF ParserInv
<1>2. QED
  BY ParserInit, ParserStep, <1>1, PTL DEF FramingSpec
================================================================================
