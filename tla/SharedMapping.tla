---------------------------- MODULE SharedMapping ----------------------------
(***************************************************************************)
(* chapter_2/mmap: mmap.cpp ("file") and mmap_anon.cpp ("anon"), a parent   *)
(* and its child that pass a text through memory both have mapped           *)
(* (MAP_SHARED). In mmap.cpp the child writes and the parent waits for it   *)
(* before it reads; in mmap_anon.cpp the parent writes and then waits, and  *)
(* the child sleeps for a second before it reads, which promises nothing.   *)
(***************************************************************************)
EXTENDS Integers

CONSTANT TextLength     \* the bytes of the text, with the NUL at its end

ASSUME MappingAssumption == TextLength \in Nat \ {0}

VARIABLES
  mappingKind,    \* which program runs
  mappedText,     \* how many bytes of the text are in the mapping
  textSeen,       \* how many were there when the reader looked, -1 before
  parentAt,       \* "write", "wait", "read", "ended", "crashed"
  childAt         \* "write", "read", "ended"

mappingVars == <<mappingKind, mappedText, textSeen, parentAt, childAt>>

MappingTypeOK ==
  /\ mappingKind \in {"file", "anon"}
  /\ mappedText \in 0..TextLength
  /\ textSeen \in -1..TextLength
  /\ parentAt \in {"write", "wait", "read", "ended", "crashed"}
  /\ childAt \in {"write", "read", "ended"}

(* After fork(); the file is not empty, or mmap() would have failed.        *)
MappingInit ==
  /\ mappingKind \in {"file", "anon"}
  /\ mappedText = 0 /\ textSeen = -1
  /\ parentAt = IF mappingKind = "file" THEN "wait" ELSE "write"
  /\ childAt = IF mappingKind = "file" THEN "write" ELSE "read"

(* strcpy(), byte by byte: the other process may look in between.           *)
WriteByte ==
  /\ "write" \in {parentAt, childAt}
  /\ mappedText < TextLength
  /\ mappedText' = mappedText + 1
  /\ UNCHANGED <<mappingKind, textSeen, parentAt, childAt>>

ChildHasWritten ==
  /\ childAt = "write" /\ mappedText = TextLength
  /\ childAt' = "ended"
  /\ UNCHANGED <<mappingKind, mappedText, textSeen, parentAt>>

ParentHasWritten ==
  /\ parentAt = "write" /\ mappedText = TextLength
  /\ parentAt' = "wait"
  /\ UNCHANGED <<mappingKind, mappedText, textSeen, childAt>>

(* wait(); mmap_anon.cpp is done then.                                      *)
WaitForChild ==
  /\ parentAt = "wait" /\ childAt = "ended"
  /\ parentAt' = IF mappingKind = "file" THEN "read" ELSE "ended"
  /\ UNCHANGED <<mappingKind, mappedText, textSeen, childAt>>

(* The copy goes to where an uninitialised pointer points: it ends the      *)
(* process or it does not.                                                  *)
ReadAfterWait ==
  /\ parentAt = "read"
  /\ \/ textSeen' = mappedText /\ parentAt' = "ended"
     \/ UNCHANGED textSeen /\ parentAt' = "crashed"
  /\ UNCHANGED <<mappingKind, mappedText, childAt>>

ReadAfterSleep ==
  /\ childAt = "read"
  /\ textSeen' = mappedText
  /\ childAt' = "ended"
  /\ UNCHANGED <<mappingKind, mappedText, parentAt>>

MappingNext ==
  \/ WriteByte \/ ChildHasWritten \/ ParentHasWritten
  \/ WaitForChild \/ ReadAfterWait \/ ReadAfterSleep

MappingSpec == MappingInit /\ [][MappingNext]_mappingVars

-----------------------------------------------------------------------------
(* What is to be shown.                                                     *)

(* mmap.cpp prints the whole text if it prints at all, because wait() comes *)
(* before the copy (line 98). No parent leaves a child behind: the one of   *)
(* mmap_anon.cpp waits even for a child that read too early (line 38).      *)
TextReadWhole ==
  /\ mappingKind = "file" => textSeen \in {-1, TextLength}
  /\ parentAt \in {"ended", "crashed"} => childAt = "ended" /\ mappedText = TextLength
=============================================================================
