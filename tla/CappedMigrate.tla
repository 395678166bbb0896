--------------------------- MODULE CappedMigrate ---------------------------
(***************************************************************************)
(* NamespaceDetails::cappedCheckMigrate (db/cap.cpp), the migration of a   *)
(* capped collection from the old format, which kept its deleted records   *)
(* in one list per bucket, to the format with the single list              *)
(* cappedListOfAllDeletedRecords().                                        *)
(*                                                                         *)
(* The method writes straight into the memory-mapped namespace, one field  *)
(* at a time, and is run again whenever the collection is opened while     *)
(* capExtent still has the old format's zero.  Every write is a step here, *)
(* and the process may be killed between any two of them: what it wrote    *)
(* stays, what it held in local variables is gone.                         *)
(***************************************************************************)
EXTENDS Naturals, FiniteSets

CONSTANTS
    Buckets,    \* the number of deleted lists of the old format
    Deleted,    \* the deleted records of the collection
    Null,       \* DiskLoc(), the null location
    MaxKills    \* bound on how many times the process is killed mid-migration

ASSUME
    /\ Buckets \in Nat \ {0, 1}
    /\ IsFiniteSet(Deleted)
    /\ Null \notin Deleted
    /\ MaxKills \in Nat

VARIABLES
    deletedList,        \* head of the deleted list of each bucket
    nextDeleted,        \* DeletedRecord::nextDeleted of each deleted record
    capExtent,          \* "zero" in the old format, "firstExtent" once migrated
    capFirstNewRecord,  \* "zero" in the old format, "invalid" once line 112 ran
    pc,                 \* where the call of cappedCheckMigrate stands
    i, first, last,     \* its local variables
    kills               \* how many times the process was killed

persistent == <<deletedList, nextDeleted, capExtent, capFirstNewRecord>>
locals     == <<i, first, last>>
vars       == <<deletedList, nextDeleted, capExtent, capFirstNewRecord,
                pc, i, first, last, kills>>

BucketIds == 0 .. Buckets - 1
DiskLocs  == Deleted \cup {Null}

cappedListOfAllDeletedRecords == deletedList[0]

(***************************************************************************)
(* Chains of deleted records.                                              *)
(***************************************************************************)
RECURSIVE Following(_, _)
\* The records met in at most fuel steps along nextDeleted from l.
Following(l, fuel) ==
    IF l = Null \/ fuel = 0 THEN {}
    ELSE {l} \cup Following(nextDeleted[l], fuel - 1)

ChainFrom(l) == Following(l, Cardinality(Deleted))

\* The chain from l comes to an end, so that a walk along it returns.
Ends(l) == \E d \in ChainFrom(l) : nextDeleted[d] = Null

\* Faulty variant: the walk tests the record it stands on and not the one
\* after it, and so leaves the chain.
walkPastEnd(d) == Null

\* Faulty variant: the walk is left out and the first record taken as last.
noWalk(d) == d

\* for (; !last.drec()->nextDeleted.isNull(); last = last.drec()->nextDeleted);
lastOfChain(d) == CHOOSE l \in ChainFrom(d) : nextDeleted[l] = Null

\* Faulty variant: the loop over the buckets stops one bucket early.
moreBucketsButLast(b) == b < Buckets - 1

moreBuckets(b) == b < Buckets

(***************************************************************************)
(* The old format: every deleted record is on the list of exactly one      *)
(* bucket, and every list ends.                                            *)
(***************************************************************************)
LegacyFormat ==
    /\ \A b \in BucketIds : deletedList[b] # Null => Ends(deletedList[b])
    /\ \A b, c \in BucketIds :
          b # c => ChainFrom(deletedList[b]) \cap ChainFrom(deletedList[c]) = {}
    /\ UNION {ChainFrom(deletedList[b]) : b \in BucketIds} = Deleted

Init ==
    /\ deletedList \in [BucketIds -> DiskLocs]
    /\ nextDeleted \in [Deleted -> DiskLocs]
    /\ LegacyFormat
    /\ capExtent = "zero"
    /\ capFirstNewRecord = "zero"
    /\ pc = "closed"
    /\ i = 1 /\ first = Null /\ last = Null
    /\ kills = 0

(***************************************************************************)
(* cappedCheckMigrate, write by write.                                     *)
(***************************************************************************)
\* The collection is opened and the method called: nothing to do unless
\* capExtent is the old format's zero; else capFirstNewRecord is written.
Call ==
    /\ pc = "closed"
    /\ i' = 1 /\ first' = Null /\ last' = Null
    /\ IF capExtent = "zero"
       THEN /\ capFirstNewRecord' = "invalid"
            /\ pc' = "bucket"
       ELSE /\ pc' = "done"
            /\ UNCHANGED capFirstNewRecord
    /\ UNCHANGED <<deletedList, nextDeleted, capExtent, kills>>

\* The head of the loop over the buckets: an empty bucket is passed over,
\* the list of another is walked to its last record.
Bucket ==
    /\ pc = "bucket"
    /\ moreBuckets(i)
    /\ \/ /\ deletedList[i] = Null
          /\ i' = i + 1
          /\ UNCHANGED <<pc, first, last>>
       \/ /\ deletedList[i] # Null
          /\ Ends(deletedList[i])
          /\ first' = deletedList[i]
          /\ last' = lastOfChain(deletedList[i])
          /\ pc' = "link"
          /\ UNCHANGED i
    /\ UNCHANGED <<persistent, kills>>

\* The walk of a list that does not end: the method never returns.
WalkForever ==
    /\ pc = "bucket"
    /\ moreBuckets(i)
    /\ deletedList[i] # Null
    /\ ~Ends(deletedList[i])
    /\ UNCHANGED vars

\* Faulty variant: the end of the bucket's list is left as it is, so that
\* the old list of bucket 0 is on no list once the head is written.
LinkNothing ==
    /\ pc = "link"
    /\ nextDeleted' = [nextDeleted EXCEPT ![last] = Null]
    /\ pc' = "head"
    /\ UNCHANGED <<deletedList, capExtent, capFirstNewRecord, locals, kills>>

\* Faulty variant: the writes of lines 120 and 121 in the other order, the
\* end of the list linked to what is by then the new head.
LinkToNewHead ==
    /\ pc = "link"
    /\ nextDeleted' = [nextDeleted EXCEPT ![last] = first]
    /\ pc' = "head"
    /\ UNCHANGED <<deletedList, capExtent, capFirstNewRecord, locals, kills>>

\* last.drec()->nextDeleted.writing() = cappedListOfAllDeletedRecords();
Link ==
    /\ pc = "link"
    /\ nextDeleted' = [nextDeleted EXCEPT ![last] = cappedListOfAllDeletedRecords]
    /\ pc' = "head"
    /\ UNCHANGED <<deletedList, capExtent, capFirstNewRecord, locals, kills>>

\* cappedListOfAllDeletedRecords().writing() = first;
Head ==
    /\ pc = "head"
    /\ deletedList' = [deletedList EXCEPT ![0] = first]
    /\ pc' = "clear"
    /\ UNCHANGED <<nextDeleted, capExtent, capFirstNewRecord, locals, kills>>

\* deletedList[i].writing() = DiskLoc();
Clear ==
    /\ pc = "clear"
    /\ deletedList' = [deletedList EXCEPT ![i] = Null]
    /\ i' = i + 1
    /\ pc' = "bucket"
    /\ UNCHANGED <<nextDeleted, capExtent, capFirstNewRecord, first, last, kills>>

\* capExtent.writing() = firstExtent, after the last bucket.
Finish ==
    /\ pc = "bucket"
    /\ ~moreBuckets(i)
    /\ capExtent' = "firstExtent"
    /\ pc' = "done"
    /\ UNCHANGED <<deletedList, nextDeleted, capFirstNewRecord, locals, kills>>

Step == Call \/ Bucket \/ Link \/ Head \/ Clear \/ Finish

(***************************************************************************)
(* The environment.                                                        *)
(***************************************************************************)
\* The process is killed in the middle of the method.
Kill ==
    /\ pc \notin {"closed", "done"}
    /\ kills < MaxKills
    /\ kills' = kills + 1
    /\ pc' = "closed"
    /\ i' = 1 /\ first' = Null /\ last' = Null
    /\ UNCHANGED persistent

\* The collection is closed after the method returned, to be opened again.
Close ==
    /\ pc = "done"
    /\ pc' = "closed"
    /\ UNCHANGED <<persistent, locals, kills>>

Next == Step \/ WalkForever \/ Kill \/ Close

Spec == Init /\ [][Next]_vars

\* A process that is not killed goes on to its next write.
FairSpec == Spec /\ WF_vars(Step)

(***************************************************************************)
(* What is checked.                                                        *)
(***************************************************************************)
\* The type of every variable; between the walk and the clearing of the
\* bucket, first and last (lines 115-119) are records of the collection.
TypeOK ==
    /\ deletedList \in [BucketIds -> DiskLocs]
    /\ nextDeleted \in [Deleted -> DiskLocs]
    /\ capExtent \in {"zero", "firstExtent"}
    /\ capFirstNewRecord \in {"zero", "invalid"}
    /\ pc \in {"closed", "bucket", "link", "head", "clear", "done"}
    /\ i \in 1 .. Buckets
    /\ first \in DiskLocs /\ last \in DiskLocs
    /\ pc \in {"link", "head", "clear"} => first \in Deleted /\ last \in Deleted
    /\ kills \in 0 .. MaxKills

\* When cappedCheckMigrate has returned, the collection is in the new format:
\* cappedListOfAllDeletedRecords() holds every deleted record on a list that
\* ends, every other bucket, cappedLastDelRecLastExtent() among them, is
\* null, and capExtent is the first extent.  The comment at cap.cpp:126 and
\* the order of the writes promise this also for a method that was killed
\* and run again.
MigratedListWellFormed ==
    pc = "done" =>
        /\ capExtent = "firstExtent"
        /\ capFirstNewRecord = "invalid"
        /\ \A b \in BucketIds \ {0} : deletedList[b] = Null
        /\ ChainFrom(cappedListOfAllDeletedRecords) = Deleted
        /\ Deleted # {} => Ends(cappedListOfAllDeletedRecords)

\* A migration that was never killed leaves the collection in the new
\* format, from whatever lists the old format had: the loop over the buckets
\* of cap.cpp:114-123 moves every list, in whatever bucket it starts, and a
\* second call on the migrated collection changes nothing.
UnkilledMigrationWellFormed == kills = 0 => MigratedListWellFormed

\* Whatever the writes of lines 120-122 have reached and however often the
\* process was killed between them, every deleted record is on the list of
\* some bucket: no free space of the collection is lost by the migration.
NoDeletedRecordLost ==
    UNION {ChainFrom(deletedList[b]) : b \in BucketIds} = Deleted

\* capExtent is written last (cap.cpp:126-127): while any bucket of the old
\* format still has a list, the collection is not marked as migrated, so
\* that a method killed half way is run again when the collection is opened.
MarkedMigratedLast ==
    capExtent = "firstExtent" => \A b \in BucketIds \ {0} : deletedList[b] = Null

\* A collection that is opened is migrated in the end: every call of
\* cappedCheckMigrate that is not killed returns (the walk of line 119 comes
\* to the end of its list).
MigrationCompletes == (pc = "closed") ~> (pc = "done")

\* What holds of the code in its place: a collection whose migration was
\* killed at most once is migrated when it is opened again, unless that call
\* is killed too.  After a second kill the walk of line 119 may stand on the
\* circular list the first two runs left (WalkForever), and never return.
CompletesKilledOnce == (pc = "closed" /\ kills < 2) ~> (pc = "done" \/ kills >= 2)

=============================================================================
