---------------------- MODULE CanonicalIndexInvariants ----------------------
(***************************************************************************)
(* The inductive strengthenings of CanonicalIndex's safety invariants:     *)
(* what the proofs preserve step by step and TLC checks on small instances.*)
(***************************************************************************)
EXTENDS CanonicalIndex

\* The jobs sweeper s has claimed and not yet finished.
Held(s) == sweeper[s].queue \cup ({sweeper[s].job} \cap Ids)

-----------------------------------------------------------------------------
(***************************************************************************)
(* Give up: a sweeper never holds a job at the cap, because the claim      *)
(* takes only pending jobs and those are below it.                         *)
(***************************************************************************)
HeldBelowCap ==
    \A s \in Sweepers : \A j \in Held(s) : sweeper[s].tries[j] < MaxAttempts

GiveUpInv == TypeOK /\ GiveUpBound /\ HeldBelowCap

-----------------------------------------------------------------------------
(***************************************************************************)
(* Who refers to whom.  Ids in use belong to a record that was added; a    *)
(* chunk set and the job that stored it are the same record's; a request   *)
(* and a sweeper use chunk sets and jobs in use.                           *)
(***************************************************************************)
References ==
    /\ \A r \in Records : record[r].state = "none" =>
        /\ \A j \in Ids : job[j].rec # r
        /\ \A c \in Clients : client[c].rec # r
    /\ \A j \in Ids : Present(j) => job[j].rec \in Records
    /\ \A g \in Ids : chunkSet[g].rec \in Records =>
        /\ chunkSet[g].job \in Ids
        /\ job[chunkSet[g].job].rec = chunkSet[g].rec
    /\ \A g \in points : chunkSet[g].rec \in Records
    /\ \A c \in Clients : client[c].op \in {"write", "update"} =>
        /\ client[c].pc = "create" => client[c].set = NoId
        /\ client[c].job \in Ids => job[client[c].job].rec = client[c].rec
        /\ client[c].set \in Ids => /\ chunkSet[client[c].set].rec = client[c].rec
                                    /\ chunkSet[client[c].set].job = client[c].job
    /\ \A s \in Sweepers :
        /\ \A j \in Held(s) : job[j].rec \in Records
        /\ sweeper[s].set \in Ids => chunkSet[sweeper[s].set].rec \in Records

StoreInv == TypeOK /\ References /\ OneChunkSetPerRecord

-----------------------------------------------------------------------------
(***************************************************************************)
(* The write-ahead.  Once armed a job stays armed.  A request that has     *)
(* passed its write-ahead works for an armed job, and a sweeper works only *)
(* for armed jobs: an existing record with an armed job has had its chunks *)
(* stored, or replaced, by an operation whose job is armed.                *)
(***************************************************************************)
Armed(j) == job[j].q = "pending" => job[j].retry # "null"
SetArmed(g) == Armed(chunkSet[g].job)
HasArmedSet(r) == \E g \in StoredOf(r) : SetArmed(g)

PastWriteAhead(k) ==
    \/ k.pc \in StoredPcs \cup {"deleteVectors", "undo", "mark", "rollback"}
    \/ k.op = "write" /\ k.pc = "embed"

PointsArmed == \A g \in points : SetArmed(g)

ArmedHasSet ==
    \A r \in Records : Exists(r) /\ (\E j \in Ids : job[j].rec = r /\ Armed(j)) =>
        HasArmedSet(r)

RequestArmed(c) ==
    /\ PastWriteAhead(client[c]) => Armed(client[c].job)
    /\ client[c].pc = "writeAhead" /\ Exists(client[c].rec) =>
          client[c].set \in stored \/ HasArmedSet(client[c].rec)

RequestsArmed == \A c \in Clients : RequestArmed(c)

SweepersArmed ==
    \A s \in Sweepers :
        /\ \A j \in Held(s) : Armed(j)
        /\ sweeper[s].set \in Ids => SetArmed(sweeper[s].set)

WriteAheadInv == StoreInv /\ PointsArmed /\ ArmedHasSet /\ RequestsArmed /\ SweepersArmed

-----------------------------------------------------------------------------
(***************************************************************************)
(* Operations that do not overlap on a record: between them it is Clean,   *)
(* and where one of them is tells what the stores hold of the record.  A   *)
(* write's job is the only one of its record and is not completed before   *)
(* the end; an update's is pending until its points are in place, and so   *)
(* is the job of a sweep.                                                  *)
(***************************************************************************)
Synced(r) == InSync(r) /\ StoredOf(r) \subseteq pointIds

\* An update that has read the row writes its state back.
MayBeLive(r) ==
    \/ record[r].state = "live"
    \/ \E c \in ClientsOn(r) : client[c].pc = "commit" /\ client[c].read = "live"

Clean(r) ==
    Acknowledged(r) /\ Settled(r) =>
        PointsOf(r) \subseteq StoredOf(r) /\ (MayBeLive(r) => Synced(r))

JobsExist == \A j \in Ids : Present(j) => Exists(job[j].rec)

\* How far the index of r is, on its way to the chunk set g.
OnTheWay(pc, r, g) ==
    /\ pc \in {"embed", "deleteVectors", "upsert", "pointIds"} => StoredOf(r) = {g}
    /\ pc = "upsert" => PointsOf(r) = {}
    /\ pc = "pointIds" => PointsOf(r) = {g}
    /\ pc = "markQdrant" => Synced(r)

WriteInPlace(k) ==
    /\ \A j \in Ids : job[j].rec = k.rec =>
          k.pc # "create" /\ j = k.job /\ job[j].status = "pending"
    /\ k.pc \in {"create", "insert", "writeAhead", "embed"} => PointsOf(k.rec) = {}
    /\ k.pc = "writeAhead" => StoredOf(k.rec) = {k.set}
    /\ OnTheWay(k.pc, k.rec, k.set)
    /\ k.pc = "markDone" => Synced(k.rec)

UpdateInPlace(k) ==
    /\ k.pc \in {"deleteVectors", "upsert", "pointIds", "markQdrant", "undo"} =>
          job[k.job].q = "pending"
    /\ k.pc # "embed" => OnTheWay(k.pc, k.rec, k.set)
    /\ k.pc = "markDone" => Synced(k.rec)
    /\ k.pc = "mark" => job[k.job].q = "pending" \/ Synced(k.rec)

DeleteInPlace(k) ==
    /\ record[k.rec].state = "archived"
    /\ chunkSet[k.set].rec = k.rec
    /\ Acknowledged(k.rec) /\ Settled(k.rec) => PointsOf(k.rec) \subseteq {k.set}

RequestInPlace(c) ==
    LET k == client[c] IN
    /\ k.op = "write" => WriteInPlace(k)
    /\ k.op = "update" => UpdateInPlace(k)
    /\ k.op = "delete" => DeleteInPlace(k)

SweeperInPlace(s) ==
    /\ \A j \in Held(s) : job[j].q = "pending"
    /\ sweeper[s].job \notin sweeper[s].queue
    /\ sweeper[s].job \in Ids =>
          OnTheWay(sweeper[s].pc, job[sweeper[s].job].rec, sweeper[s].set)

SerialInv ==
    /\ WriteAheadInv /\ NoOverlap /\ JobsExist
    /\ \A r \in Records : Clean(r)
    /\ \A c \in Clients : RequestInPlace(c)
    /\ \A s \in Sweepers : SweeperInPlace(s)

=============================================================================
