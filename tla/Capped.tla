------------------------------- MODULE Capped -------------------------------
(***************************************************************************)
(* The capped-collection storage manager of db/cap.cpp: a fixed chain of   *)
(* extents used cyclically, the records of each extent, the single list of *)
(* deleted records, and the NamespaceDetails fields that steer allocation  *)
(* (capExtent, capFirstNewRecord, deletedList[0], deletedList[1]).         *)
(*                                                                         *)
(* Every method of cap.cpp is an operator from a storage image to a        *)
(* storage image; its loops are RECURSIVE operators.  The namespace is     *)
(* used under the database write lock, so a whole call is one step.        *)
(*                                                                         *)
(* A DiskLoc is a record [a, ofs].  `a' stands for the extent the location *)
(* lies in and `ofs' for the byte offset in that extent's record area, so  *)
(* myExtent(dl) is dl.a and the extentOfs field of a record is left out.   *)
(***************************************************************************)
EXTENDS Integers, Sequences, FiniteSets, TLC, SequencesExt

CONSTANTS
    ExtentLength,   \* <<l_1, ..., l_n>>: bytes of record space of each extent, in xnext order
    Lens,           \* the lenToAlloc values an insert may ask for (headers included)
    MaxObjects,     \* NamespaceDetails::max, the cap on the number of records
    MinMaxPasses    \* the floor of maxPasses in cappedAlloc (5000 in the source)

ASSUME /\ ExtentLength \in Seq(Nat \ {0}) /\ ExtentLength # <<>>
       /\ Lens \subseteq Nat \ {0} /\ \A l \in Lens : l % 4 = 0
       /\ MaxObjects \in Nat \ {0}
       /\ MinMaxPasses \in Nat

VARIABLES
    deletedList,        \* [0]: cappedListOfAllDeletedRecords, [1]: cappedLastDelRecLastExtent
    capExtent,          \* the extent that receives writes
    capFirstNewRecord,  \* Invalid, Null, or the first record of this pass in capExtent
    nrecords,           \* stats.nrecords
    ext,                \* extent -> [firstRecord, lastRecord]
    rec,                \* location of a live record -> its header
    drec,               \* location of a deleted record -> its header
    ret                 \* how the last call ended

vars == <<deletedList, capExtent, capFirstNewRecord, nrecords, ext, rec, drec, ret>>

----------------------------------------------------------------------------
(* DiskLoc *)

Extents     == DOMAIN ExtentLength
firstExtent == 1
lastExtent  == Len(ExtentLength)
NoExtent    == 0

Null     == [a |-> -1, ofs |-> 0]
Invalid  == [a |-> -2, ofs |-> 0]
NullOfs  == -1
Locs     == UNION {[a : {e}, ofs : 0 .. ExtentLength[e] - 1] : e \in Extents}
DiskLocs == Locs \cup {Null, Invalid}

isNull(dl)  == dl.a = -1
isValid(dl) == dl.a # -2

\* Extent::xnext and Extent::xprev of the fixed chain, NoExtent at its ends
xnext(e) == IF e = lastExtent THEN NoExtent ELSE e + 1
xprev(e) == IF e = firstExtent THEN NoExtent ELSE e - 1

\* The bytes __capAlloc keeps free behind an allocation, so that a
\* DeletedRecord always fits there; NoReserve is the allocator without them.
NoReserve == 0
DeletedRecordReserve == 24

Outcomes == {"ok", "DocumentTooLarge", "uassert13415", "massert13425", "massert13426"}
Faults   == {"assert73", "assert286", "assert298", "assert329", "assert356", "assert382",
             "massert10345"}

\* The storage image the operators below transform.
Image == [deletedList |-> deletedList, capExtent |-> capExtent,
          capFirstNewRecord |-> capFirstNewRecord, nrecords |-> nrecords,
          ext |-> ext, rec |-> rec, drec |-> drec, ret |-> "ok"]

\* An assertion that throws: the call ends here and what it wrote stays.
Fail(s, code) == [s EXCEPT !.ret = code]

\* The rest of a call runs only while nothing has been thrown.
Then(s, Op(_)) == IF s.ret = "ok" THEN Op(s) ELSE s

----------------------------------------------------------------------------
(* The deleted list *)

cappedListOfAllDeletedRecords(s) == s.deletedList[0]
cappedLastDelRecLastExtent(s)    == s.deletedList[1]

capLooped(s) == isValid(s.capFirstNewRecord)

inCapExtent(s, dl) == dl.a = s.capExtent

nextIsInCapExtent(s, dl) ==
    LET next == s.drec[dl].nextDeleted
    IN  ~isNull(next) /\ inCapExtent(s, next)

\* cappedFirstDeletedInCurExtent() returns a reference: reading it ...
cappedFirstDeletedInCurExtent(s) ==
    IF isNull(cappedLastDelRecLastExtent(s))
    THEN cappedListOfAllDeletedRecords(s)
    ELSE s.drec[cappedLastDelRecLastExtent(s)].nextDeleted

\* ... and writing through it.  The faulty variant writes the head of the
\* list whatever extent is current.
SetFirstDeletedAtHead(s, dl) == [s EXCEPT !.deletedList[0] = dl]

SetFirstDeletedInCurExtent(s, dl) ==
    IF isNull(cappedLastDelRecLastExtent(s))
    THEN [s EXCEPT !.deletedList[0] = dl]
    ELSE [s EXCEPT !.drec[cappedLastDelRecLastExtent(s)].nextDeleted = dl]

\* The deleted records of capExtent, in list order from i on:
\* for (; !i.isNull() && inCapExtent(i); i = i.drec()->nextDeleted)
RECURSIVE DeletedInCapExtentFrom(_, _)
DeletedInCapExtentFrom(s, i) ==
    IF isNull(i) \/ ~inCapExtent(s, i)
    THEN <<>>
    ELSE <<i>> \o DeletedInCapExtentFrom(s, s.drec[i].nextDeleted)

\* for (; !i.isNull() && nextIsInCapExtent(i); i = i.drec()->nextDeleted);
RECURSIVE LastWhileNextInCapExtent(_, _)
LastWhileNextInCapExtent(s, i) ==
    IF ~isNull(i) /\ nextIsInCapExtent(s, i)
    THEN LastWhileNextInCapExtent(s, s.drec[i].nextDeleted)
    ELSE i

\* for (; !next(i).isNull() && !inCapExtent(next(i)); i = next(i));
RECURSIVE LastBeforeCapExtent(_, _)
LastBeforeCapExtent(s, i) ==
    LET next == s.drec[i].nextDeleted
    IN  IF ~isNull(next) /\ ~inCapExtent(s, next)
        THEN LastBeforeCapExtent(s, next)
        ELSE i

\* The end of the whole list, for the insert-at-end of addDeletedRec.
RECURSIVE LastDeleted(_, _)
LastDeleted(s, i) ==
    IF isNull(s.drec[i].nextDeleted) THEN i ELSE LastDeleted(s, s.drec[i].nextDeleted)

\* NamespaceDetails::addDeletedRec for a capped namespace: at the end of the
\* list while the extents are first laid out (deletedList[1] invalid), and
\* in front of the deleted records of capExtent afterwards.
addDeletedRec(s, dloc, len) ==
    LET d(next) == [lengthWithHeaders |-> len, nextDeleted |-> next]
        head    == cappedListOfAllDeletedRecords(s)
    IN  IF ~isValid(cappedLastDelRecLastExtent(s))
        THEN IF isNull(head)
             THEN [s EXCEPT !.drec = (dloc :> d(Null)) @@ @, !.deletedList[0] = dloc]
             ELSE [s EXCEPT !.drec = (dloc :> d(Null)) @@
                                     [@ EXCEPT ![LastDeleted(s, head)].nextDeleted = dloc]]
        ELSE SetFirstDeletedInCurExtent(
                 [s EXCEPT !.drec = (dloc :> d(cappedFirstDeletedInCurExtent(s))) @@ @],
                 dloc)

\* The records left when dl is taken out of the chain of its extent.  The
\* faulty variant mends the forward link only.
unlinkForwardOnly(s, dl) ==
    LET r == s.rec[dl]
    IN  [l \in DOMAIN s.rec \ {dl} |->
            [s.rec[l] EXCEPT !.nextOfs = IF l = [a |-> dl.a, ofs |-> r.prevOfs]
                                         THEN r.nextOfs ELSE @]]

unlink(s, dl) ==
    LET r == s.rec[dl]
        at(ofs) == [a |-> dl.a, ofs |-> ofs]
    IN  [l \in DOMAIN s.rec \ {dl} |->
            [s.rec[l] EXCEPT !.nextOfs = IF l = at(r.prevOfs) THEN r.nextOfs ELSE @,
                             !.prevOfs = IF l = at(r.nextOfs) THEN r.prevOfs ELSE @]]

\* DataFileMgr::_deleteRecord: unlink the record from its extent's chain,
\* count it out and hand its space to addDeletedRec.
deleteRecord(s, dl) ==
    LET r  == s.rec[dl]
        e  == s.ext[dl.a]
        at(ofs) == IF ofs = NullOfs THEN Null ELSE [a |-> dl.a, ofs |-> ofs]
        ends == [firstRecord |-> IF e.firstRecord = dl THEN at(r.nextOfs) ELSE e.firstRecord,
                 lastRecord  |-> IF e.lastRecord = dl THEN at(r.prevOfs) ELSE e.lastRecord]
    IN  addDeletedRec([s EXCEPT !.rec = unlink(s, dl), !.ext[dl.a] = ends,
                                !.nrecords = @ - 1],
                      dl, r.lengthWithHeaders)

----------------------------------------------------------------------------
(* compact *)

\* One step of the merge loop: b joins the last kept record when it starts
\* where that one ends, and is kept as a record of its own otherwise.  The
\* faulty variant merges without adding b's length.
CoalesceDroppingLength(kept, b) ==
    IF kept # <<>> /\ Last(kept).loc.ofs + Last(kept).len = b.loc.ofs
    THEN kept
    ELSE Append(kept, b)

Coalesce(kept, b) ==
    IF kept # <<>> /\ Last(kept).loc.ofs + Last(kept).len = b.loc.ofs
    THEN [kept EXCEPT ![Len(kept)].len = @ + b.len]
    ELSE Append(kept, b)

compact(s) ==
    LET drecs    == DeletedInCapExtentFrom(s, cappedFirstDeletedInCurExtent(s))
        i        == IF drecs = <<>> THEN cappedFirstDeletedInCurExtent(s)
                    ELSE s.drec[Last(drecs)].nextDeleted
        sorted   == SortSeq(drecs, LAMBDA x, y : x.ofs < y.ofs)
        merged   == FoldLeft(Coalesce, <<>>,
                        [k \in DOMAIN sorted |->
                            [loc |-> sorted[k], len |-> s.drec[sorted[k]].lengthWithHeaders]])
        pulled   == [SetFirstDeletedInCurExtent(s, i) EXCEPT
                        !.drec = Restrict(@, DOMAIN @ \ ToSet(drecs))]
    IN  IF drecs = <<>>
        THEN Fail(s, "assert73")
        ELSE FoldLeft(LAMBDA t, m : addDeletedRec(t, m.loc, m.len), pulled, merged)

----------------------------------------------------------------------------
(* Allocation *)

\* The faulty variant moves capExtent and leaves cappedLastDelRecLastExtent()
\* where it was.
advanceKeepingLastDel(s) ==
    [s EXCEPT !.capExtent         = IF xnext(@) = NoExtent THEN firstExtent ELSE xnext(@),
              !.capFirstNewRecord = Null]

advanceCapExtent(s) ==
    LET lastDel == IF s.capExtent = lastExtent THEN Null
                   ELSE LastWhileNextInCapExtent(s, cappedFirstDeletedInCurExtent(s))
    IN  [s EXCEPT !.deletedList[1]     = lastDel,
                  !.capExtent          = IF xnext(@) = NoExtent THEN firstExtent ELSE xnext(@),
                  !.capFirstNewRecord  = Null]

\* __capAlloc: the first deleted record of capExtent that leaves room for a
\* DeletedRecord behind len bytes, unlinked from the list; Null if none.
capAlloc(s, len) ==
    LET run  == DeletedInCapExtentFrom(s, cappedFirstDeletedInCurExtent(s))
        fits == {k \in DOMAIN run :
                    s.drec[run[k]].lengthWithHeaders >= len + DeletedRecordReserve}
        k    == Min(fits)
        prev == IF k = 1 THEN cappedLastDelRecLastExtent(s) ELSE run[k - 1]
        next == s.drec[run[k]].nextDeleted
        unlinked == IF isNull(prev)
                    THEN [s EXCEPT !.deletedList[0] = next]
                    ELSE [s EXCEPT !.drec[prev].nextDeleted = next]
    IN  IF fits = {}
        THEN [s |-> s, loc |-> Null]
        ELSE [s |-> [unlinked EXCEPT !.drec[run[k]].nextDeleted = Invalid], loc |-> run[k]]

\* The passes cappedAlloc allows itself; the faulty variant has neither the
\* floor nor the two spare passes.
maxPassesNoFloor(len) == len \div 30
maxPasses(len) == Max({len \div 30 + 2, MinMaxPasses})

\* stats.nrecords < max: room is looked for only below the limit on the
\* number of records.  The faulty variant never looks at the limit.
mayAllocAlways(s) == TRUE
mayAlloc(s) == s.nrecords < MaxObjects

\* The record that makes room is the oldest of capExtent; the faulty
\* variant takes the newest.
newestInCapExtent(s) == s.ext[s.capExtent].lastRecord
oldestInCapExtent(s) == s.ext[s.capExtent].firstRecord

\* The search has failed when it is back at the first extent it found
\* empty; the faulty variant gives up at any extent after an empty one.
anyExtentAfterEmpty(firstEmptyExtent, e) == TRUE
cameAround(firstEmptyExtent, e) == firstEmptyExtent = e

\* The while (1) of cappedAlloc.  Each pass tries capExtent, and failing
\* that moves on to the next extent or deletes the oldest record.
RECURSIVE AllocLoop(_, _, _, _)
AllocLoop(s, len, passes, firstEmptyExtent) ==
    LET try     == IF mayAlloc(s) THEN capAlloc(s, len) ELSE [s |-> s, loc |-> Null]
        fr      == s.ext[s.capExtent].firstRecord
        next    == advanceCapExtent(s)
        empty   == IF firstEmptyExtent = NoExtent THEN s.capExtent ELSE firstEmptyExtent
        deleted == Then(deleteRecord(s, oldestInCapExtent(s)), compact)
    IN  IF ~isNull(try.loc) THEN try
        ELSE IF ~isValid(s.capFirstNewRecord)
             THEN AllocLoop([next EXCEPT !.capFirstNewRecord =
                                IF next.capExtent # firstExtent THEN Invalid ELSE @],
                            len, passes, firstEmptyExtent)
        ELSE IF ~isNull(s.capFirstNewRecord) /\ fr = s.capFirstNewRecord
             THEN AllocLoop(next, len, passes, firstEmptyExtent)
        ELSE IF isNull(fr)
             THEN IF cameAround(empty, next.capExtent)
                  THEN [s |-> next, loc |-> Null]
                  ELSE AllocLoop(next, len, passes, empty)
        ELSE IF deleted.ret # "ok" THEN [s |-> deleted, loc |-> Null]
        ELSE IF passes + 1 > maxPasses(len)
             THEN [s |-> Fail(deleted, "massert10345"), loc |-> Null]
        ELSE AllocLoop(deleted, len, passes + 1, firstEmptyExtent)

\* "signal done allocating new extents": from the first allocation on,
\* cappedLastDelRecLastExtent() is valid.
doneAllocatingExtents(s) ==
    IF isValid(cappedLastDelRecLastExtent(s)) THEN s ELSE [s EXCEPT !.deletedList[1] = Null]

\* "Remember first record allocated on this iteration through capExtent."
rememberFirstNew(r) ==
    IF isNull(r.loc) THEN r
    ELSE [r EXCEPT !.s.capFirstNewRecord = IF isValid(@) /\ isNull(@) THEN r.loc ELSE @]

cappedAlloc(s, len) ==
    rememberFirstNew(AllocLoop(doneAllocatingExtents(s), len, 0, NoExtent))

\* NamespaceDetails::alloc behind cappedAlloc: the region found is split at
\* len and the rest goes back to the deleted list.
splitRegion(r, len) ==
    LET left   == r.s.drec[r.loc].lengthWithHeaders - len
        newDel == [a |-> r.loc.a, ofs |-> r.loc.ofs + len]
    IN  IF isNull(r.loc) THEN r
        ELSE [r EXCEPT !.s = addDeletedRec([@ EXCEPT !.drec = Restrict(@, DOMAIN @ \ {r.loc})],
                                           newDel, left)]

\* DataFileMgr::insert behind alloc: the new record becomes the last record
\* of its extent and is counted; without a region the insert is refused.
linkRecord(r, len) ==
    LET loc     == r.loc
        oldLast == r.s.ext[loc.a].lastRecord
        header  == [lengthWithHeaders |-> len, nextOfs |-> NullOfs,
                    prevOfs |-> IF isNull(oldLast) THEN NullOfs ELSE oldLast.ofs]
    IN  IF isNull(loc)
        THEN [r.s EXCEPT !.ret = IF @ = "ok" THEN "DocumentTooLarge" ELSE @]
        ELSE [r.s EXCEPT
                !.rec = (loc :> header) @@
                        (IF isNull(oldLast) THEN @ ELSE [@ EXCEPT ![oldLast].nextOfs = loc.ofs]),
                !.ext[loc.a] = [firstRecord |-> IF isNull(oldLast) THEN loc ELSE @.firstRecord,
                                lastRecord  |-> loc],
                !.nrecords = @ + 1]

insert(s, len) == linkRecord(splitRegion(cappedAlloc(s, len), len), len)

----------------------------------------------------------------------------
(* Truncation *)

\* Faulty variant: capExtent moves backwards and
\* cappedLastDelRecLastExtent() stays where it was.
keepLastDelRecLastExtent(s) == s

\* cappedLastDelRecLastExtent() set again after capExtent moved backwards:
\* Null in the first extent, else the last deleted record before capExtent.
resetLastDelRecLastExtent(s) ==
    LET i == LastBeforeCapExtent(s, cappedListOfAllDeletedRecords(s))
    IN  IF s.capExtent = firstExtent THEN [s EXCEPT !.deletedList[1] = Null]
        ELSE IF isNull(s.drec[i].nextDeleted) THEN Fail(s, "assert356")
        ELSE [s EXCEPT !.deletedList[1] = i]

\* Before the collection has looped: an emptied capExtent is left for its
\* predecessor.
backUpFreshExtent(s) ==
    IF ~isNull(s.ext[s.capExtent].lastRecord) THEN s
    ELSE IF xprev(s.capExtent) = NoExtent THEN Fail(s, "assert329")
    ELSE resetLastDelRecLastExtent([s EXCEPT !.capExtent = xprev(@)])

\* After it has looped, and capFirstNewRecord was the record deleted:
\* capExtent becomes the cyclically previous extent, all of it new.  The
\* faulty variant leaves capFirstNewRecord naming the deleted record.
backUpKeepingFirstNew(s) ==
    LET prev == IF s.capExtent = firstExtent THEN lastExtent ELSE xprev(s.capExtent)
    IN  IF isNull(s.ext[prev].firstRecord) THEN Fail([s EXCEPT !.capExtent = prev], "assert382")
        ELSE resetLastDelRecLastExtent([s EXCEPT !.capExtent = prev])

backUpLoopedExtent(s) ==
    LET prev == IF s.capExtent = firstExtent THEN lastExtent ELSE xprev(s.capExtent)
        fr   == s.ext[prev].firstRecord
    IN  IF isNull(fr) THEN Fail([s EXCEPT !.capExtent = prev], "assert382")
        ELSE resetLastDelRecLastExtent(
                 [s EXCEPT !.capExtent = prev, !.capFirstNewRecord = fr])

\* The loop is over with `end' in place when the newest record is `end' and
\* the call is not inclusive; the faulty variant stops at `end' either way.
stopsAtEndAlways(curr, end, inclusive) == curr = end
stopsAtEnd(curr, end, inclusive) == curr = end /\ ~inclusive

\* The while (1) of cappedTruncateAfter: the newest record is removed until
\* the newest is `end', which goes too when `inclusive'.
RECURSIVE TruncateLoop(_, _, _, _)
TruncateLoop(s, end, inclusive, foundLast) ==
    LET curr    == s.ext[s.capExtent].lastRecord
        deleted == Then(deleteRecord(s, curr), compact)
        backed  == IF ~capLooped(s) THEN Then(deleted, backUpFreshExtent)
                   ELSE IF curr = s.capFirstNewRecord THEN Then(deleted, backUpLoopedExtent)
                   ELSE deleted
    IN  IF foundLast \/ s.ret # "ok" THEN s
        ELSE IF isNull(curr) THEN Fail(s, "assert298")
        ELSE IF stopsAtEnd(curr, end, inclusive) THEN s
        ELSE IF ~(s.nrecords > 1) THEN Fail(s, "uassert13415")
        ELSE TruncateLoop(backed, end, inclusive, curr = end)

cappedTruncateAfter(s, end, inclusive) ==
    IF ~isValid(cappedLastDelRecLastExtent(s)) THEN Fail(s, "assert286")
    ELSE TruncateLoop(s, end, inclusive, FALSE)

----------------------------------------------------------------------------
(* Emptying *)

\* The fields of the namespace as emptyCappedCollection resets them; the
\* faulty variant leaves stats.nrecords as it was.
blankKeepingCount(s) ==
    [s EXCEPT !.deletedList = [b \in {0, 1} |-> IF b = 0 THEN Null ELSE Invalid],
              !.capExtent = firstExtent,
              !.capFirstNewRecord = Invalid]

blankNamespace(s) ==
    [s EXCEPT !.deletedList = [b \in {0, 1} |-> IF b = 0 THEN Null ELSE Invalid],
              !.capExtent = firstExtent,
              !.nrecords = 0,
              !.capFirstNewRecord = Invalid]

\* Extent::reuse and the addDeletedRec behind it: the extent keeps its
\* place in the chain, loses its records and becomes one deleted record.
reuse(s, e) ==
    LET elsewhere(f) == Restrict(f, {l \in DOMAIN f : l.a # e})
    IN  addDeletedRec([s EXCEPT !.ext[e] = [firstRecord |-> Null, lastRecord |-> Null],
                                !.rec = elsewhere(@), !.drec = elsewhere(@)],
                      [a |-> e, ofs |-> 0], ExtentLength[e])

\* The namespace back in its state of first allocation, the deleted list
\* rebuilt in extent order.
resetNamespace(s) == FoldLeft(reuse, blankNamespace(s), [e \in Extents |-> e])

\* nIndexes and backgroundIndexBuildInProgress belong to the namespace and
\* no method of cap.cpp writes them: the caller's collection has them or not.
emptyCappedCollection(s, nIndexes, backgroundIndexBuildInProgress) ==
    IF backgroundIndexBuildInProgress THEN Fail(s, "massert13425")
    ELSE IF nIndexes # 0 THEN Fail(s, "massert13426")
    ELSE resetNamespace(s)

----------------------------------------------------------------------------
(* The specification *)

Install(s) ==
    /\ deletedList' = s.deletedList
    /\ capExtent' = s.capExtent
    /\ capFirstNewRecord' = s.capFirstNewRecord
    /\ nrecords' = s.nrecords
    /\ ext' = s.ext
    /\ rec' = s.rec
    /\ drec' = s.drec
    /\ ret' = s.ret

\* A namespace as userCreateNS leaves it is an emptied one.
Init ==
    LET blank == [deletedList |-> [b \in {0, 1} |-> Null], capExtent |-> firstExtent,
                  capFirstNewRecord |-> Null, nrecords |-> 0,
                  ext |-> [e \in Extents |-> [firstRecord |-> Null, lastRecord |-> Null]],
                  rec |-> <<>>, drec |-> <<>>, ret |-> "ok"]
        s == resetNamespace(blank)
    IN  /\ deletedList = s.deletedList
        /\ capExtent = s.capExtent
        /\ capFirstNewRecord = s.capFirstNewRecord
        /\ nrecords = s.nrecords
        /\ ext = s.ext
        /\ rec = s.rec
        /\ drec = s.drec
        /\ ret = "ok"

\* A call is made only while no assertion of an earlier call has failed:
\* what the namespace holds after one is not followed further.
Running == ret \notin Faults

Insert(len) ==
    /\ Running
    /\ Install(insert(Image, len))

TruncateAfter(end, inclusive) ==
    /\ Running
    /\ end \in DOMAIN rec
    /\ Install(cappedTruncateAfter(Image, end, inclusive))

EmptyCapped(nIndexes, backgroundIndexBuildInProgress) ==
    /\ Running
    /\ Install(emptyCappedCollection(Image, nIndexes, backgroundIndexBuildInProgress))

Next ==
    \/ \E len \in Lens : Insert(len)
    \/ \E end \in DOMAIN rec, inclusive \in BOOLEAN : TruncateAfter(end, inclusive)
    \/ \E nIndexes \in {0, 1}, building \in BOOLEAN : EmptyCapped(nIndexes, building)

Spec == Init /\ [][Next]_vars

----------------------------------------------------------------------------
(* The order a forward capped cursor reads the collection in *)

\* The records of extent e from firstRecord along nextOfs.  `fuel' bounds
\* the walk, so that a chain that does not end is a chain too long.
RECURSIVE RecordsFrom(_, _)
RecordsFrom(l, fuel) ==
    IF fuel = 0 \/ l \notin DOMAIN rec THEN <<>>
    ELSE <<l>> \o RecordsFrom([a |-> l.a, ofs |-> rec[l].nextOfs], fuel - 1)

RecordsOf(e) == RecordsFrom(ext[e].firstRecord, Cardinality(DOMAIN rec) + 1)

\* The records of n extents from e on in xnext order, around the end of the
\* chain of extents.
RECURSIVE RecordsAround(_, _)
RecordsAround(e, n) ==
    IF n = 0 THEN <<>>
    ELSE RecordsOf(e) \o RecordsAround((e % lastExtent) + 1, n - 1)

\* The records of chain before capFirstNewRecord: all of them when it
\* names none.
RECURSIVE OlderThanFirstNew(_)
OlderThanFirstNew(chain) ==
    IF chain = <<>> \/ Head(chain) = capFirstNewRecord THEN <<>>
    ELSE <<Head(chain)>> \o OlderThanFirstNew(Tail(chain))

\* Oldest record first.  Before the collection has looped that is extent
\* order; afterwards the records capExtent still holds from the last pass,
\* the extents after it, and then what this pass has written to capExtent,
\* which starts at capFirstNewRecord.
NaturalLocs ==
    IF ~isValid(capFirstNewRecord) THEN RecordsAround(firstExtent, lastExtent)
    ELSE LET here == RecordsOf(capExtent)
             old  == OlderThanFirstNew(here)
         IN  old \o RecordsAround((capExtent % lastExtent) + 1, lastExtent - 1)
                 \o SubSeq(here, Len(old) + 1, Len(here))

NaturalOrder ==
    [k \in DOMAIN NaturalLocs |->
        [loc |-> NaturalLocs[k], len |-> rec[NaturalLocs[k]].lengthWithHeaders]]

\* The deleted list from deletedList[0] along nextDeleted, bounded likewise.
RECURSIVE DeletedFrom(_, _)
DeletedFrom(l, fuel) ==
    IF fuel = 0 \/ l \notin DOMAIN drec THEN <<>>
    ELSE <<l>> \o DeletedFrom(drec[l].nextDeleted, fuel - 1)

DeletedChain == DeletedFrom(deletedList[0], Cardinality(DOMAIN drec) + 1)

----------------------------------------------------------------------------
(* What is checked *)

Offsets == 0 .. Max(ToSet(ExtentLength)) - 1
Header == [lengthWithHeaders : Nat \ {0}, nextOfs : Offsets \cup {NullOfs},
           prevOfs : Offsets \cup {NullOfs}]
DeletedHeader == [lengthWithHeaders : Nat \ {0}, nextDeleted : Locs \cup {Null}]

TypeOK ==
    /\ deletedList \in [{0, 1} -> DiskLocs]
    /\ capExtent \in Extents
    /\ capFirstNewRecord \in DiskLocs
    /\ nrecords \in Nat
    /\ ext \in [Extents -> [firstRecord : Locs \cup {Null}, lastRecord : Locs \cup {Null}]]
    /\ DOMAIN rec \subseteq Locs /\ \A l \in DOMAIN rec : rec[l] \in Header
    /\ DOMAIN drec \subseteq Locs /\ \A l \in DOMAIN drec : drec[l] \in DeletedHeader
    /\ ret \in Outcomes \cup Faults

\* The deleted list is a list: followed from deletedList[0] it meets every
\* deleted record exactly once and ends in Null.  compact, __capAlloc and
\* addDeletedRec splice it in place; a lost or doubled link makes their
\* walks miss free space or never end.
DeletedListWellFormed ==
    LET chain == DeletedChain
    IN  Running =>
            /\ ToSet(chain) = DOMAIN drec
            /\ Len(chain) = Cardinality(DOMAIN drec)
            /\ IF chain = <<>> THEN isNull(deletedList[0])
               ELSE isNull(drec[Last(chain)].nextDeleted)

\* Every byte of every extent belongs to exactly one record, live or
\* deleted: the split in alloc and the merge in compact neither lose space
\* nor hand the same bytes out twice.
ExtentsTiled ==
    LET len(l) == IF l \in DOMAIN rec THEN rec[l].lengthWithHeaders
                  ELSE drec[l].lengthWithHeaders
    IN  Running => \A e \in Extents :
            LET here == {l \in DOMAIN rec \cup DOMAIN drec : l.a = e}
            IN  /\ DOMAIN rec \cap DOMAIN drec = {}
                /\ \A l \in here : l.ofs + len(l) <= ExtentLength[e]
                /\ \A l, m \in here : l.ofs < m.ofs => l.ofs + len(l) <= m.ofs
                /\ FoldSet(LAMBDA l, acc : acc + len(l), 0, here) = ExtentLength[e]

\* The records of an extent form one chain from firstRecord to lastRecord,
\* linked both ways, and stats.nrecords counts them: deleteRecord and
\* insert keep the chain while cappedAlloc and cappedTruncateAfter remove
\* records from either end.
RecordChainsWellFormed ==
    Running =>
        /\ nrecords = Cardinality(DOMAIN rec)
        /\ \A e \in Extents :
            LET chain == RecordsOf(e)
            IN  /\ ToSet(chain) = {l \in DOMAIN rec : l.a = e}
                /\ Len(chain) = Cardinality(ToSet(chain))
                /\ ext[e].lastRecord = IF chain = <<>> THEN Null ELSE Last(chain)
                /\ \A k \in DOMAIN chain :
                    /\ rec[chain[k]].prevOfs = IF k = 1 THEN NullOfs ELSE chain[k - 1].ofs
                    /\ rec[chain[k]].nextOfs =
                           IF k = Len(chain) THEN NullOfs ELSE chain[k + 1].ofs

\* cappedLastDelRecLastExtent() leads to the deleted records of capExtent:
\* it is Null exactly in the first extent, else a deleted record of an
\* earlier extent, and the walk that compact and __capAlloc start behind
\* it meets every deleted record of capExtent, of which there is at least
\* one in every extent.  advanceCapExtent and cappedTruncateAfter move
\* capExtent and must move this pointer with it.
CapExtentDeletedReachable ==
    LET last  == IF isValid(deletedList[1]) THEN deletedList[1] ELSE Null
        first == IF isNull(last) THEN deletedList[0] ELSE drec[last].nextDeleted
    IN  Running =>
            /\ isNull(last) \/ (last \in DOMAIN drec /\ last.a # capExtent)
            /\ isValid(deletedList[1]) => (isNull(last) <=> capExtent = firstExtent)
            /\ ToSet(DeletedInCapExtentFrom(Image, first))
                  = {l \in DOMAIN drec : l.a = capExtent}
            /\ \A e \in Extents : \E l \in DOMAIN drec : l.a = e

\* capExtent and capFirstNewRecord say where the newest record is.  Before
\* the collection has looped nothing lies behind capExtent; once it has,
\* capFirstNewRecord (when a record was written on this pass) is a live
\* record of capExtent and capExtent's lastRecord is the newest record of
\* the collection.  cappedTruncateAfter deletes the very record
\* capFirstNewRecord names and walks capExtent backwards: it has to leave
\* both pointing at what is then the newest record.
CapExtentHoldsNewest ==
    Running =>
        /\ ~capLooped(Image) => \A l \in DOMAIN rec : l.a <= capExtent
        /\ (capLooped(Image) /\ ~isNull(capFirstNewRecord))
              => (capFirstNewRecord \in DOMAIN rec /\ capFirstNewRecord.a = capExtent)
        /\ (rec # <<>> /\ isValid(deletedList[1]) /\ ret # "DocumentTooLarge")
              => Last(NaturalOrder).loc = ext[capExtent].lastRecord

\* No assert or massert of cap.cpp fails, whatever the sequence of inserts,
\* truncations and resets: among them the assert of cappedTruncateAfter
\* that the source marks "TODO Validate that this will always be true".
NoAssertionFails == ret \notin Faults

\* stats.nrecords never exceeds max: cappedAlloc deletes the oldest record
\* before it allocates at the limit.
MaxObjectsRespected == nrecords <= MaxObjects

\* The collection is a queue to its readers: read in natural order, an
\* insert has appended one record and dropped only the oldest ones, a
\* truncation has dropped only the newest ones, and the records that stay
\* keep their place.  cappedAlloc chooses what to overwrite from capExtent
\* and capFirstNewRecord, and cappedTruncateAfter rewrites both.
Queue == INSTANCE CappedQueue WITH
            Records <- [loc : Locs, len : Lens],
            queue   <- NaturalOrder,
            outcome <- ret

QueueSpec == Queue!Spec

\* A truncation that returns has removed exactly the records behind `end',
\* and `end' with them when inclusive: the loop of cappedTruncateAfter meets
\* `end' wherever it lies, across the extents it backs up through, and
\* stops there.
TruncateAfterExact ==
    [][\A end \in DOMAIN rec, inclusive \in BOOLEAN :
          (TruncateAfter(end, inclusive) /\ ret' = "ok")
              => LET at == CHOOSE k \in DOMAIN NaturalLocs : NaturalLocs[k] = end
                 IN  NaturalLocs' = SubSeq(NaturalLocs, 1, IF inclusive THEN at - 1 ELSE at)]_vars

\* An insert is refused only when no extent could ever hold the record:
\* the search of cappedAlloc for room, which skips extents and deletes
\* records as it goes, does not give up while an empty extent would do.
InsertRefusedOnlyIfTooLarge ==
    [][\A len \in Lens :
          (Insert(len) /\ ret' = "DocumentTooLarge")
              => \A e \in Extents : len + DeletedRecordReserve > ExtentLength[e]]_vars

=============================================================================
