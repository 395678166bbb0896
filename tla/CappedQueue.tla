---------------------------- MODULE CappedQueue ----------------------------
(***************************************************************************)
(* What a capped collection promises the readers of its natural order: a   *)
(* queue of records, oldest first.  An insert appends, and makes room by   *)
(* dropping records from the old end only; a truncation drops records from *)
(* the new end only, and never the last one.  Nothing here knows of        *)
(* extents, free space or the fields that steer allocation.                *)
(***************************************************************************)
EXTENDS Naturals, Sequences

CONSTANTS
    Records     \* what a slot of the queue may hold

VARIABLES
    queue,      \* the records of the collection, oldest first
    outcome     \* how the last call ended

vars == <<queue, outcome>>

Ok               == "ok"
DocumentTooLarge == "DocumentTooLarge"
RefuseEmpty      == "uassert13415"
IndexBuildInProgress == "massert13425"
IndexesPresent   == "massert13426"

Init ==
    /\ queue = <<>>
    /\ outcome = Ok

\* One record of Records is new at the new end; what lies before it is the
\* old queue less some of its oldest records.
Insert ==
    LET kept == Len(queue') - 1
    IN  /\ outcome' = Ok
        /\ kept \in 0 .. Len(queue)
        /\ SubSeq(queue', 1, kept) = SubSeq(queue, Len(queue) - kept + 1, Len(queue))
        /\ queue'[kept + 1] \in Records
        /\ \A k \in 1 .. kept : queue'[k] # queue'[kept + 1]

\* A record no extent has room for is refused, and by the time that is
\* known every record has been dropped to make room for it.
InsertRefused ==
    /\ queue' = <<>>
    /\ outcome' = DocumentTooLarge

\* Records go from the new end only, and never the last one: a call that
\* would take it stops there and is refused.
TruncateAfter ==
    /\ outcome' \in {Ok, RefuseEmpty}
    /\ Len(queue') \in 1 .. Len(queue)
    /\ queue' = SubSeq(queue, 1, Len(queue'))
    /\ outcome' = RefuseEmpty => Len(queue') = 1

Empty ==
    /\ queue' = <<>>
    /\ outcome' = Ok

\* A collection with indexes, or with one being built, is not emptied.
EmptyRefused ==
    /\ queue' = queue
    /\ outcome' \in {IndexBuildInProgress, IndexesPresent}

Next ==
    \/ Insert
    \/ InsertRefused
    \/ TruncateAfter
    \/ Empty
    \/ EmptyRefused

Spec == Init /\ [][Next]_vars

=============================================================================
