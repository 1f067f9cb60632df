---------------------------- MODULE SharedSegment ----------------------------
(***************************************************************************)
(* chapter_2/sharedmm: shared_mm.cpp and shared_mm_read.cpp, writers and    *)
(* readers of the System V segment with key 100. Neither looks at what      *)
(* shmget() and shmat() return: with no segment the first access to it ends *)
(* the process.                                                             *)
(*                                                                          *)
(* A segment whose removal was asked for loses its key at once and is freed *)
(* when the last process detaches from it.                                  *)
(***************************************************************************)
EXTENDS Integers, FiniteSets

CONSTANTS Creators, Lookers

ASSUME SegmentAssumption == Creators \cap Lookers = {}

Users == Creators \cup Lookers

VARIABLES
  keyed,      \* the segment that has the key, or 0
  made,       \* how many segments were created; they are numbered
  attached,   \* the segment each process is attached to, or 0
  got,        \* the segment shmget() gave each process, or 0 for -1
  userPc      \* "start", "attach", "use", "remove", "ended"

segmentVars == <<keyed, made, attached, got, userPc>>

SegmentTypeOK ==
  /\ keyed \in 0..made
  /\ made \in Nat
  /\ attached \in [Users -> 0..made]
  /\ got \in [Users -> 0..made]
  /\ userPc \in [Users -> {"start", "attach", "use", "remove", "ended"}]

SegmentInit ==
  /\ keyed = 0 /\ made = 0
  /\ attached = [u \in Users |-> 0]
  /\ got = [u \in Users |-> 0]
  /\ userPc = [u \in Users |-> "start"]

UserGoto(u, label) == userPc' = [userPc EXCEPT ![u] = label]

(* shmget() with IPC_CREAT | IPC_EXCL fails when the key is taken; without  *)
(* IPC_EXCL and with size 0 it fails when the key is not.                   *)
GetSegment(u) ==
  /\ userPc[u] = "start"
  /\ \/ /\ u \in Creators /\ keyed = 0
        /\ made' = made + 1 /\ keyed' = made + 1
        /\ got' = [got EXCEPT ![u] = made + 1]
     \/ /\ u \in Creators /\ keyed # 0
        /\ UNCHANGED <<made, keyed, got>>
     \/ /\ u \in Lookers
        /\ got' = [got EXCEPT ![u] = keyed]
        /\ UNCHANGED <<made, keyed>>
  /\ UserGoto(u, "attach")
  /\ UNCHANGED attached

(* A segment is there while it has the key or somebody is attached to it.   *)
Exists(id) == id # 0 /\ (id = keyed \/ \E u \in Users : attached[u] = id)

(* shmat() of -1, or of a segment that is gone by now, fails: the access    *)
(* that follows ends the process.                                           *)
Attach(u) ==
  /\ userPc[u] = "attach"
  /\ IF Exists(got[u])
       THEN attached' = [attached EXCEPT ![u] = got[u]] /\ UserGoto(u, "use")
       ELSE UNCHANGED attached /\ UserGoto(u, "ended")
  /\ UNCHANGED <<keyed, made, got>>

(* After a key stroke.                                                      *)
Detach(u) ==
  /\ userPc[u] = "use"
  /\ attached' = [attached EXCEPT ![u] = 0]
  /\ UserGoto(u, "remove")
  /\ UNCHANGED <<keyed, made, got>>

(* Mutant: the process that only reads leaves before the removal, which it  *)
(* finds is the creator's business, and the creator before it as well.      *)
LeaveSegment(u) ==
  /\ userPc[u] = "remove"
  /\ UserGoto(u, "ended")
  /\ UNCHANGED <<keyed, made, attached, got>>

(* shmctl(IPC_RMID) of a segment that is already removed fails unnoticed.   *)
RemoveSegment(u) ==
  /\ userPc[u] = "remove"
  /\ keyed' = IF keyed = got[u] THEN 0 ELSE keyed
  /\ UserGoto(u, "ended")
  /\ UNCHANGED <<made, attached, got>>

SegmentNext ==
  \E u \in Users : GetSegment(u) \/ Attach(u) \/ Detach(u) \/ RemoveSegment(u)

SegmentSpec == SegmentInit /\ [][SegmentNext]_segmentVars

-----------------------------------------------------------------------------
(* What is to be shown.                                                     *)

(* A segment outlives the processes that made it only in one case: its      *)
(* creator is between shmget() and shmctl(). Readers that remove it first,  *)
(* writers that find the key taken and crash, and second segments with the  *)
(* same key leave nothing behind once every process has ended.              *)
NoSegmentLeft ==
  (\A u \in Users : userPc[u] = "ended") => \A id \in 1..made : ~Exists(id)
=============================================================================
