---------------------------- MODULE JsonFileStore ----------------------------
(***************************************************************************)
(* The JSON file storage adapter (package jsonfile, src/unnamed/part_001): *)
(* the whole store kept in memory and written, after every change, to      *)
(* path.tmp and then renamed over path.                                    *)
(*                                                                         *)
(* Every method holds s.mu for its whole body, so calls never interleave   *)
(* and one caller is enough.  What the model adds is the process crashing  *)
(* between any two of a call's file-system steps, or while WriteFile is    *)
(* writing, and restarting with New(path), which loads path.  MkdirAll,    *)
(* WriteFile and Rename can each fail; the method then returns the error   *)
(* with its change already made in memory.                                 *)
(***************************************************************************)
EXTENDS Core

CONSTANTS
    Users,      \* user ids
    Metrics,    \* metrics
    Deltas,     \* deltas passed to AddPoints
    Badges,     \* badge ids
    Levels,     \* levels passed to SetLevel
    MaxCalls,   \* calls made, over all runs of the process
    MaxCrashes, \* crashes
    Nil,        \* no file
    Torn        \* a file cut short by a crash during its write

ASSUME Deltas \subseteq IntW /\ Levels \subseteq IntW

(* A user's UserState: points and levels (0 for a missing key), badges.    *)
State == [points : [Metrics -> IntW], badges : SUBSET Badges, levels : [Metrics -> IntW]]
NewState == [points |-> [m \in Metrics |-> 0], badges |-> {},
             levels |-> [m \in Metrics |-> 0]]

(* The contents of s.data, and of a file written from it: the users it     *)
(* holds and their states (NewState for the others).                       *)
Snapshot == [users : SUBSET Users, st : [Users -> State]]
Empty == [users |-> {}, st |-> [u \in Users |-> NewState]]

VARIABLES
    data,       \* s.data, or Nil while the process is down
    file,       \* the contents of path: a Snapshot, Nil or Torn
    tmp,        \* the contents of path.tmp: a Snapshot, Nil or Torn
    pc,         \* "idle", "write", "rename" (inside persist), or "down"
    calls,      \* calls made
    crashes,    \* crashes so far
    lastAck     \* s.data when the last call returned success (ghost)

vars == <<data, file, tmp, pc, calls, crashes, lastAck>>

Init ==
    /\ data = Empty
    /\ file = Nil
    /\ tmp = Nil
    /\ pc = "idle"
    /\ calls = 0
    /\ crashes = 0
    /\ lastAck = Empty

(* s.get(user): the stored state, or a new one, which is stored.           *)
Get(d, u) == [users |-> d.users \cup {u}, st |-> d.st]

(* The start of a call, up to persist, under s.mu.  AddPoints returns an   *)
(* AddSafe error without persisting (the new entry get made stays).        *)
(* GetState returns a clone and persists nothing.                          *)
AddPoints(u, m, d) ==
    LET r == AddSafe(data.st[u].points[m], d) IN
    /\ pc = "idle" /\ calls < MaxCalls
    /\ calls' = calls + 1
    /\ IF r.err
       THEN /\ data' = Get(data, u)
            /\ UNCHANGED pc
       ELSE /\ data' = [Get(data, u) EXCEPT !.st[u].points[m] = r.val]
            /\ pc' = "write"
    /\ UNCHANGED <<file, tmp, crashes, lastAck>>

AwardBadge(u, b) ==
    /\ pc = "idle" /\ calls < MaxCalls
    /\ calls' = calls + 1
    /\ data' = [Get(data, u) EXCEPT !.st[u].badges = @ \cup {b}]
    /\ pc' = "write"
    /\ UNCHANGED <<file, tmp, crashes, lastAck>>

(* Mutant: SetLevel writing the level into the Points map.                *)
SetLevelIntoPoints(u, m, l) ==
    /\ pc = "idle" /\ calls < MaxCalls
    /\ calls' = calls + 1
    /\ data' = [Get(data, u) EXCEPT !.st[u].points[m] = l]
    /\ pc' = "write"
    /\ UNCHANGED <<file, tmp, crashes, lastAck>>

SetLevel(u, m, l) ==
    /\ pc = "idle" /\ calls < MaxCalls
    /\ calls' = calls + 1
    /\ data' = [Get(data, u) EXCEPT !.st[u].levels[m] = l]
    /\ pc' = "write"
    /\ UNCHANGED <<file, tmp, crashes, lastAck>>

GetState(u) ==
    /\ pc = "idle" /\ calls < MaxCalls
    /\ calls' = calls + 1
    /\ data' = Get(data, u)
    /\ UNCHANGED <<file, tmp, pc, crashes, lastAck>>

(* Mutant: persist returning after WriteFile, without the rename.        *)
WriteNoRename ==
    /\ pc = "write"
    /\ \/ /\ tmp' = data
          /\ lastAck' = data
       \/ /\ tmp' \in {tmp, Torn}
          /\ UNCHANGED lastAck
    /\ pc' = "idle"
    /\ UNCHANGED <<data, file, calls, crashes>>

(* persist: MkdirAll and WriteFile(path.tmp).  On success the file holds   *)
(* the marshalled s.data; an error (of either) is returned, and a failed   *)
(* write may have left the file cut short.                                 *)
Write ==
    /\ pc = "write"
    /\ \/ /\ tmp' = data
          /\ pc' = "rename"
       \/ /\ tmp' \in {tmp, Torn}
          /\ pc' = "idle"
    /\ UNCHANGED <<data, file, calls, crashes, lastAck>>

(* persist: Rename(path.tmp, path).  Its result is the call's result.      *)
Rename ==
    /\ pc = "rename"
    /\ \/ /\ file' = tmp /\ tmp' = Nil
          /\ lastAck' = data
       \/ UNCHANGED <<file, tmp, lastAck>>
    /\ pc' = "idle"
    /\ UNCHANGED <<data, calls, crashes>>

(* The process dies: s.data is gone.  A crash during WriteFile leaves the  *)
(* file it was writing cut short.                                          *)
Crash ==
    /\ pc # "down" /\ crashes < MaxCrashes
    /\ crashes' = crashes + 1
    /\ data' = Nil
    /\ pc' = "down"
    /\ \/ UNCHANGED <<file, tmp>>
       \/ pc = "write" /\ tmp' = Torn /\ UNCHANGED file
    /\ UNCHANGED <<calls, lastAck>>

(* New(path): load reads path; a missing file gives an empty store, a      *)
(* file that does not unmarshal makes New fail, so the process stays down. *)
Restart ==
    /\ pc = "down" /\ file # Torn
    /\ data' = IF file = Nil THEN Empty ELSE file
    /\ pc' = "idle"
    /\ UNCHANGED <<file, tmp, calls, crashes, lastAck>>

(* No call is left to make.                                               *)
Terminating ==
    /\ pc = "idle" /\ calls = MaxCalls
    /\ UNCHANGED vars

Next ==
    \/ \E u \in Users, m \in Metrics, d \in Deltas : AddPoints(u, m, d)
    \/ \E u \in Users, b \in Badges : AwardBadge(u, b)
    \/ \E u \in Users, m \in Metrics, l \in Levels : SetLevel(u, m, l)
    \/ \E u \in Users : GetState(u)
    \/ Write \/ Rename \/ Crash \/ Restart
    \/ Terminating

Spec == Init /\ [][Next]_vars

-----------------------------------------------------------------------------
(* Properties.                                                             *)

(* A restart now would load exactly the store as it was when the last      *)
(* successful call returned: an acknowledged change survives any crash,    *)
(* and a crash in the middle of persist never leaves path unreadable.      *)
(* TestStorePersistAndLoad reloads the file after three successful calls. *)
RestartLoadsLastAck ==
    /\ file # Torn
    /\ (IF file = Nil THEN Empty ELSE file) = lastAck

(* The refinement mapping: the state the store serves is s.data, and the  *)
(* state a restart loads is path (an empty store while there is none).    *)
Durable == INSTANCE StorageSpec
               WITH mem <- IF data = Nil THEN Nil ELSE data.st,
                    disk <- IF file = Nil THEN Empty.st ELSE file.st,
                    Down <- Nil

(* The store implements the durable engine.Storage contract: every call   *)
(* changes s.data as the contract says, only the Rename of persist changes *)
(* path, and it puts there exactly the s.data of the moment, through any   *)
(* failed write, crash and restart.                                        *)
JsonFileImplementsStorage == Durable!Spec

=============================================================================
