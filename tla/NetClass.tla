------------------------------ MODULE NetClass -----------------------------
(***************************************************************************)
(* The network class the operator declares (internal/netclass): in memory, *)
(* and in a file written after the lock is given up, through a temporary   *)
(* file all writers share.  Files are inodes, since a writer that has the  *)
(* temporary file open goes on with it after another has renamed it.       *)
(***************************************************************************)
EXTENDS Integers, Sequences

CONSTANTS Classes,      \* "offline" among them
          ClassPosters, \* requests that may be under way at a time
          MaxPosts      \* bound

Torn == "torn"   \* contents that do not parse

ASSUME NetClassAssumption == "offline" \in Classes /\ Torn \notin Classes /\ MaxPosts \in Nat

VARIABLES class,      \* Holder.class
          backed,     \* Holder.path is not empty
          classPost,  \* per request: what persist has still to write, and how far it is
          inode,      \* contents of the files written, in order of creation
          file, temp, \* the inode the name stands for, 0 for none
          declared,   \* history: the classes operators have posted
          lastPost,   \* history: the last of them, who posted it and what was answered
          unsaved,    \* history: why the file may not hold the last of them
          posts       \* bound

netclassHistory == <<declared, lastPost, unsaved>>
netclassVars    == <<class, backed, classPost, inode, file, temp, netclassHistory, posts>>

NoPost == [st |-> "none"]

Persisting(p) == classPost[p] # NoPost

\* The request of poster p is answered; nobody waits for an earlier declaration.
AnswerPost(p, answer) ==
    lastPost' = IF lastPost.by = p /\ lastPost.answer = "none" THEN [lastPost EXCEPT !.answer = answer]
              ELSE lastPost

\* AllowsBackgroundInternet.
Background == class \in {"home", "free"}

----------------------------------------------------------------------------
\* New: no file, or one that does not parse; then a holder without a file is made.
\* Mutant: the subsystem is disabled instead, which allows everything.
LoadedClass_Disabled ==
    IF file = 0 THEN [class |-> "offline", backed |-> TRUE]
    ELSE IF inode[file] = Torn THEN [class |-> "home", backed |-> FALSE]
    ELSE [class |-> inode[file], backed |-> TRUE]

LoadedClass ==
    IF file = 0 THEN [class |-> "offline", backed |-> TRUE]
    ELSE IF inode[file] = Torn THEN [class |-> "offline", backed |-> FALSE]
    ELSE [class |-> inode[file], backed |-> TRUE]

----------------------------------------------------------------------------
\* Set, under the lock; the class it has already is not written, and the request
\* for it succeeds at once.
SetClass(p, new) ==
    /\ ~Persisting(p) /\ posts < MaxPosts /\ posts' = posts + 1
    /\ class' = new /\ declared' = declared \cup {new}
    /\ \/ /\ new = class \/ ~backed
          /\ lastPost' = [class |-> new, by |-> p, answer |-> "ok"]
          /\ UNCHANGED <<classPost, unsaved>>
       \/ /\ new # class /\ backed
          /\ lastPost' = [class |-> new, by |-> p, answer |-> "none"]
          /\ classPost' = [classPost EXCEPT ![p] = [st |-> "open", class |-> new]]
          /\ unsaved' = IF \E q \in ClassPosters : Persisting(q) THEN unsaved \cup {"overlap"}
                        ELSE {"pending"}
    /\ UNCHANGED <<backed, inode, file, temp>>

\* os.WriteFile: open and truncate the temporary file ...
OpenTemp(p) ==
    /\ classPost[p].st = "open"
    /\ IF temp = 0 THEN inode' = Append(inode, Torn) /\ temp' = Len(inode) + 1
       ELSE inode' = [inode EXCEPT ![temp] = Torn] /\ temp' = temp
    /\ classPost' = [classPost EXCEPT ![p] = [st |-> "write", class |-> @.class, inode |-> temp']]
    /\ UNCHANGED <<class, backed, file, netclassHistory, posts>>

\* ... and write it, over what another may have written, which may have been longer.
WriteTemp(p) ==
    /\ classPost[p].st = "write"
    /\ \E content \in {classPost[p].class} \cup IF inode[classPost[p].inode] = Torn THEN {} ELSE {Torn} :
         inode' = [inode EXCEPT ![classPost[p].inode] = content]
    /\ classPost' = [classPost EXCEPT ![p] = [st |-> "rename", class |-> @.class]]
    /\ UNCHANGED <<class, backed, file, temp, netclassHistory, posts>>

RenameTemp(p) ==
    /\ classPost[p].st = "rename" /\ temp # 0
    /\ file' = temp /\ temp' = 0
    /\ classPost' = [classPost EXCEPT ![p] = NoPost]
    /\ unsaved' = IF unsaved = {"pending"} THEN {} ELSE unsaved
    /\ AnswerPost(p, "ok")
    /\ UNCHANGED <<class, backed, inode, declared, posts>>

\* No space, no directory, or the file was renamed by another: the request fails.
FailPersist(p) ==
    /\ classPost[p].st \in {"open", "write", "rename"}
    /\ classPost' = [classPost EXCEPT ![p] = NoPost] /\ temp' = IF classPost[p].st = "rename" THEN 0 ELSE temp
    /\ unsaved' = unsaved \cup {"failed"} /\ AnswerPost(p, "failed")
    /\ UNCHANGED <<class, backed, inode, file, declared, posts>>

\* The daemon dies anywhere and starts again.
RestartHolder ==
    /\ class' = LoadedClass.class /\ backed' = LoadedClass.backed
    /\ classPost' = [p \in ClassPosters |-> NoPost]
    /\ UNCHANGED <<inode, file, temp, netclassHistory, posts>>

NetClassInit ==
    /\ class = "offline" /\ backed = TRUE /\ classPost = [p \in ClassPosters |-> NoPost]
    /\ inode = <<>> /\ file = 0 /\ temp = 0 /\ posts = 0
    /\ declared = {} /\ lastPost = [class |-> "offline", by |-> 0, answer |-> "ok"] /\ unsaved = {}

NetClassNext ==
    \/ \E p \in ClassPosters : (\E c \in Classes : SetClass(p, c)) \/ OpenTemp(p) \/ WriteTemp(p) \/ RenameTemp(p) \/ FailPersist(p)
    \/ RestartHolder

NetClassSpec == NetClassInit /\ [][NetClassNext]_netclassVars

----------------------------------------------------------------------------
\* The daemon fetches in the background only on a network that was declared fit for
\* it, by the last declaration, whatever a crash or two requests at once have left
\* in the file - unless that declaration was being written when the daemon died,
\* failed to be written, or was written by two at a time (netclass.go Set, persist,
\* New: "the daemon remembers the operator's last setting across restarts").
FetchingIsDeclared ==
    Background => class \in declared /\ (class = lastPost.class \/ unsaved # {})

\* netclass.go: "State is persisted to a small JSON file so the daemon remembers
\* the operator's last setting across restarts": after a declaration answered with
\* success, nothing is fetched under an earlier one.
SettingIsRemembered == Background /\ lastPost.answer = "ok" => class = lastPost.class
=============================================================================
