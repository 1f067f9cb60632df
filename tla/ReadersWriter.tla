---------------------------- MODULE ReadersWriter ----------------------------
(***************************************************************************)
(* chapter_3/thread/rwlock.cpp: readers and writers that try to get a       *)
(* readers-writer lock, and a counter of the readers that hold it, which a  *)
(* mutex of its own protects.                                               *)
(*                                                                          *)
(* rw_num is left out: it is only ever incremented, under the write lock.   *)
(* A lock that was not got changes nothing.                                 *)
(***************************************************************************)
EXTENDS Integers, FiniteSets

CONSTANTS Readers, Writers

ASSUME ReadersAssumption == IsFiniteSet(Readers) /\ Readers \cap Writers = {}

VARIABLES
  readLocks,    \* the threads that hold rwlock for reading
  writeLocks,   \* the threads that hold it for writing
  rdlockNum,    \* rdlock_num
  rwPc          \* "try", "enter", "inside", "leave" (readers), "write" (writers)

rwVars == <<readLocks, writeLocks, rdlockNum, rwPc>>

RwTypeOK ==
  /\ readLocks \subseteq Readers
  /\ writeLocks \subseteq Writers
  /\ rdlockNum \in Int
  /\ rwPc \in [Readers \cup Writers -> {"try", "enter", "inside", "leave", "write"}]

RwInit ==
  /\ readLocks = {}
  /\ writeLocks = {}
  /\ rdlockNum = 0
  /\ rwPc = [t \in Readers \cup Writers |-> "try"]

RwGoto(t, label) == rwPc' = [rwPc EXCEPT ![t] = label]

TryReadLock(r) ==
  /\ rwPc[r] = "try" /\ writeLocks = {}
  /\ readLocks' = readLocks \cup {r}
  /\ RwGoto(r, "enter")
  /\ UNCHANGED <<writeLocks, rdlockNum>>

CountIn(r) ==
  /\ rwPc[r] = "enter"
  /\ rdlockNum' = rdlockNum + 1
  /\ RwGoto(r, "inside")
  /\ UNCHANGED <<readLocks, writeLocks>>

(* Mutant: the lock is released before the reader is counted out.           *)
UnlockThenCountOut(r) ==
  /\ rwPc[r] = "inside"
  /\ readLocks' = readLocks \ {r}
  /\ RwGoto(r, "leave")
  /\ UNCHANGED <<writeLocks, rdlockNum>>

CountOut(r) ==
  /\ rwPc[r] = "inside"
  /\ rdlockNum' = rdlockNum - 1
  /\ RwGoto(r, "leave")
  /\ UNCHANGED <<readLocks, writeLocks>>

ReadUnlock(r) ==
  /\ rwPc[r] = "leave"
  /\ readLocks' = readLocks \ {r}
  /\ RwGoto(r, "try")
  /\ UNCHANGED <<writeLocks, rdlockNum>>

TryWriteLock(w) ==
  /\ rwPc[w] = "try" /\ readLocks = {} /\ writeLocks = {}
  /\ writeLocks' = {w}
  /\ RwGoto(w, "write")
  /\ UNCHANGED <<readLocks, rdlockNum>>

WriteAndUnlock(w) ==
  /\ rwPc[w] = "write"
  /\ writeLocks' = {}
  /\ RwGoto(w, "try")
  /\ UNCHANGED <<readLocks, rdlockNum>>

RwNext ==
  \/ \E r \in Readers : TryReadLock(r) \/ CountIn(r) \/ CountOut(r) \/ ReadUnlock(r)
  \/ \E w \in Writers : TryWriteLock(w) \/ WriteAndUnlock(w)

RwSpec == RwInit /\ [][RwNext]_rwVars

-----------------------------------------------------------------------------
(* What is to be shown.                                                     *)

(* The readers' counter, which is kept under another mutex than the lock it *)
(* counts, never exceeds the read locks held, and a writer that got the     *)
(* lock finds nobody counted.                                               *)
ReadersCounted ==
  /\ rdlockNum = Cardinality({r \in Readers : rwPc[r] = "inside"})
  /\ rdlockNum <= Cardinality(readLocks)
  /\ writeLocks # {} => rdlockNum = 0
=============================================================================
