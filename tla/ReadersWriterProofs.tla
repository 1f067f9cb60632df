------------------------- MODULE ReadersWriterProofs -------------------------
(***************************************************************************)
(* The readers' counter of rwlock.cpp is right for any number of readers    *)
(* and writers.                                                             *)
(***************************************************************************)
EXTENDS ReadersWriter, FiniteSetTheorems, TLAPS

(* The readers between CountIn and CountOut.                                *)
Inside == {r \in Readers : rwPc[r] = "inside"}

(* Who holds the lock follows from where the threads are, and the lock      *)
(* excludes.                                                                *)
LocksHeld ==
  /\ readLocks = {r \in Readers : rwPc[r] \in {"enter", "inside", "leave"}}
  /\ writeLocks = {w \in Writers : rwPc[w] = "write"}
  /\ readLocks = {} \/ writeLocks = {}
  /\ \A v, w \in writeLocks : v = w

Counted == rdlockNum = Cardinality(Inside)

RwInv == RwTypeOK /\ LocksHeld /\ Counted

LEMMA InitRwInv == RwInit => RwInv
<1> SUFFICES ASSUME RwInit PROVE RwInv
  OBVIOUS
<1>1. Inside = {}
  BY DEF RwInit, Inside
<1>2. Counted
  BY <1>1, FS_EmptySet DEF RwInit, Counted
<1>3. RwTypeOK /\ LocksHeld
  BY DEF RwInit, RwTypeOK, LocksHeld
<1> QED
  BY <1>2, <1>3 DEF RwInv

(* A thread that goes anywhere but in or out of "inside" leaves the set of  *)
(* those inside as it is.                                                   *)
LEMMA InsideSame ==
  ASSUME RwInv, NEW t \in Readers \cup Writers, NEW label, label # "inside", rwPc[t] # "inside",
         RwGoto(t, label), UNCHANGED rdlockNum
  PROVE  Counted'
<1>1. Inside' = Inside
  BY DEF RwInv, RwTypeOK, Inside, RwGoto
<1> QED
  BY <1>1 DEF RwInv, Counted

LEMMA InsideFinite == IsFiniteSet(Inside) /\ Cardinality(Inside) \in Nat
<1>1. IsFiniteSet(Inside)
  BY ReadersAssumption, FS_Subset DEF ReadersAssumption, Inside
<1> QED
  BY <1>1, FS_CardinalityType

LEMMA RwReaderStep ==
  ASSUME RwInv, NEW r \in Readers, TryReadLock(r) \/ CountIn(r) \/ CountOut(r) \/ ReadUnlock(r)
  PROVE  RwInv'
<1> USE DEF RwInv
<1>0. r \notin Writers
  BY ReadersAssumption DEF ReadersAssumption
<1>1. RwTypeOK'
  BY DEF RwTypeOK, TryReadLock, CountIn, CountOut, ReadUnlock, RwGoto
<1>2. LocksHeld'
  <2>1. CASE TryReadLock(r)
    BY <1>0, <2>1 DEF RwTypeOK, LocksHeld, TryReadLock, RwGoto
  <2>2. CASE CountIn(r)
    BY <1>0, <2>2 DEF RwTypeOK, LocksHeld, CountIn, RwGoto
  <2>3. CASE CountOut(r)
    BY <1>0, <2>3 DEF RwTypeOK, LocksHeld, CountOut, RwGoto
  <2>4. CASE ReadUnlock(r)
    BY <1>0, <2>4 DEF RwTypeOK, LocksHeld, ReadUnlock, RwGoto
  <2> QED
    BY <2>1, <2>2, <2>3, <2>4
<1>3. Counted'
  <2>1. CASE TryReadLock(r)
    BY <2>1, InsideSame DEF TryReadLock
  <2>2. CASE CountIn(r)
    <3>1. Inside' = Inside \cup {r} /\ r \notin Inside
      BY <2>2 DEF RwTypeOK, CountIn, RwGoto, Inside
    <3> QED
      BY <2>2, <3>1, InsideFinite, FS_AddElement DEF CountIn, Counted
  <2>3. CASE CountOut(r)
    <3>1. Inside' = Inside \ {r} /\ r \in Inside
      BY <2>3 DEF RwTypeOK, CountOut, RwGoto, Inside
    <3> QED
      BY <2>3, <3>1, InsideFinite, FS_RemoveElement DEF CountOut, Counted
  <2>4. CASE ReadUnlock(r)
    BY <2>4, InsideSame DEF ReadUnlock
  <2> QED
    BY <2>1, <2>2, <2>3, <2>4
<1> QED
  BY <1>1, <1>2, <1>3

LEMMA RwWriterStep ==
  ASSUME RwInv, NEW w \in Writers, TryWriteLock(w) \/ WriteAndUnlock(w)
  PROVE  RwInv'
<1> USE DEF RwInv
<1>0. w \notin Readers
  BY ReadersAssumption DEF ReadersAssumption
<1>1. RwTypeOK'
  BY DEF RwTypeOK, TryWriteLock, WriteAndUnlock, RwGoto
<1>2. LocksHeld'
  <2>1. CASE TryWriteLock(w)
    BY <1>0, <2>1 DEF RwTypeOK, LocksHeld, TryWriteLock, RwGoto
  <2>2. CASE WriteAndUnlock(w)
    BY <1>0, <2>2 DEF RwTypeOK, LocksHeld, WriteAndUnlock, RwGoto
  <2> QED
    BY <2>1, <2>2
<1>3. Counted'
  BY InsideSame DEF TryWriteLock, WriteAndUnlock
<1> QED
  BY <1>1, <1>2, <1>3

LEMMA NextRwInv == RwInv /\ [RwNext]_rwVars => RwInv'
<1> SUFFICES ASSUME RwInv, [RwNext]_rwVars PROVE RwInv'
  OBVIOUS
<1>1. CASE RwNext
  BY <1>1, RwReaderStep, RwWriterStep DEF RwNext
<1>2. CASE UNCHANGED rwVars
  BY <1>2 DEF rwVars, RwInv, RwTypeOK, LocksHeld, Counted, Inside
<1> QED
  BY <1>1, <1>2

LEMMA CountedIsRight == RwInv => ReadersCounted
<1> SUFFICES ASSUME RwInv PROVE ReadersCounted
  OBVIOUS
<1>1. Inside \subseteq readLocks
  BY DEF RwInv, LocksHeld, Inside
<1>2. Cardinality(Inside) <= Cardinality(readLocks)
  <2>1. IsFiniteSet(readLocks)
    BY ReadersAssumption, FS_Subset DEF ReadersAssumption, RwInv, RwTypeOK
  <2> QED
    BY <1>1, <2>1, FS_Subset
<1>3. writeLocks # {} => Cardinality(Inside) = 0
  BY <1>1, FS_EmptySet DEF RwInv, LocksHeld
<1> QED
  BY <1>2, <1>3 DEF RwInv, Counted, ReadersCounted, Inside

LEMMA RwInvariance == RwSpec => []RwInv
BY InitRwInv, NextRwInv, PTL DEF RwSpec

(* rdlock_num of rwlock.cpp, which has a mutex of its own, never exceeds    *)
(* the read locks held and is 0 while a writer has the lock.                *)
THEOREM CounterCorrect == RwSpec => []ReadersCounted
BY RwInvariance, CountedIsRight, PTL
=============================================================================
