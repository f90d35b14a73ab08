--------------------------- MODULE ReindexProofs ---------------------------
(***************************************************************************)
(* Four properties of the record repository, for any calls, any number of  *)
(* them and every fault.                                                   *)
(*                                                                         *)
(* UpdatesOnlyWhatItNames: the row lock an update takes before it computes *)
(* the row it will commit keeps every other writer away from that row;     *)
(* what it has read before, without a lock, is told by its version.        *)
(*                                                                         *)
(* GraphMatchesRecord: each row carries the graph extracted from its text  *)
(* and from a title and a uri its source has had, or none where it was     *)
(* restored and no update has committed (GraphInv); and what is extracted  *)
(* is each entity once, in an order, cut at the cap.                       *)
(*                                                                         *)
(* GraphViewHangsTogether: what inspect_memory_graph keeps between its two *)
(* statements (ViewInv).                                                   *)
(*                                                                         *)
(* ReindexLosesNothing: a chunk that is not in the index is owed by a call *)
(* that has yet to put it there, unless one gave up (OwedInv), and the     *)
(* chunks of a record are those of its text, or will be (FitsInv).         *)
(***************************************************************************)
EXTENDS Reindex, SequenceTheorems, FiniteSetTheorems, FunctionTheorems, TLAPS

(***************************************************************************)
(* The steps of a kind, whether they succeed or fail.                      *)
(***************************************************************************)
GivesUp(c) == IndexFails(c) \/ InsertRefused(c)
DeletesPoints(c) == DeletePoints(c) \/ DeleteFails(c)

TransactionMove(c) == TransactionStep(c) \/ StatementFails(c)
TransactionOn(c) == TransactionMove(c) /\ UNCHANGED index
IndexMove(c) == IndexStep(c) \/ GivesUp(c) \/ DeletesPoints(c)
ReindexMove(c) == ReindexStep(c) \/ ReindexFails(c)
InspectMove(c) == InspectStep(c) \/ InspectFails(c)

Move(c) ==
    \/ (TransactionOn(c) \/ IndexMove(c) \/ ReindexMove(c)) /\ UNCHANGED view
    \/ InspectMove(c) /\ UNCHANGED <<records, sources, entities, call, tx, held, index>>

LEMMA NextMoves == Next => \E c \in Clients : Move(c)
BY DEF Next, Step, Fault, Fails, Transaction, Move, TransactionOn, TransactionMove, IndexMove,
       ReindexMove, InspectMove, GivesUp, DeletesPoints

-----------------------------------------------------------------------------
IsSeq(s) == \E n \in Nat : DOMAIN s = 1..n /\ s = [i \in 1..n |-> s[i]]
IsTx(t) == DOMAIN t = {"read", "source", "uri", "row", "next", "want"}

Shape ==
    /\ DOMAIN call = Clients /\ DOMAIN pc = Clients
    /\ DOMAIN tx = Clients /\ DOMAIN held = Clients
    /\ IsSeq(records)
    /\ \A i \in Ids : IsRow(records[i])
    /\ \A c \in Clients : IsTx(tx[c])

\* No two transactions hold a row.
HeldApart == \A c, d \in Clients : c # d => held[c] \cap held[d] = {}

\* What an update has read is the row as it is, or an older version of it.
ReadIsOlder(c) ==
    LET old == tx[c].read
        row == records[call[c].id]
    IN  /\ call[c].id \in DOMAIN records
        /\ call[c].id \in Ids =>
            /\ old.version <= row.version
            /\ old.version = row.version => old.text = row.text /\ old.durability = row.durability

\* What it will commit is made of what it has read and of the row it has locked.
NextIsUpdate(c) ==
    LET old == tx[c].read
        row == records[call[c].id]
        new == tx[c].next
    IN  /\ call[c].id \in Ids /\ RecordOf(c) \in held[c]
        /\ new.text = Given(call[c].text, old.text)
        /\ new.durability = Given(call[c].durability, old.durability)
        /\ new.tags = Given(call[c].tags, row.tags)
        /\ new.source = row.source /\ new.scope = row.scope
        /\ new.version = row.version + 1

ClientOK(c) ==
    /\ pc[c] = "source" => call[c].op = "add"
    /\ pc[c] = "update" => call[c].op = "update"
    /\ pc[c] = "entities" => call[c].op \in {"add", "update"} /\ IsRow(tx[c].next)
    /\ call[c].op = "update" /\ pc[c] \in {"update", "entities"} =>
            IsRow(tx[c].read) /\ ReadIsOlder(c)
    /\ call[c].op = "update" /\ pc[c] = "entities" => NextIsUpdate(c)

UpdateInv == Shape /\ HeldApart /\ \A c \in Clients : ClientOK(c)

-----------------------------------------------------------------------------
(* Rows and sequences *)

LEMMA AppendGrows ==
  ASSUME NEW s, IsSeq(s), NEW x
  PROVE  /\ IsSeq(Append(s, x))
         /\ \A i \in DOMAIN s : i \in DOMAIN Append(s, x) /\ Append(s, x)[i] = s[i]
         /\ \A i \in DOMAIN Append(s, x) \ DOMAIN s : Append(s, x)[i] = x
<1>1. PICK n \in Nat : DOMAIN s = 1..n /\ s = [i \in 1..n |-> s[i]]
  BY DEF IsSeq
<1> DEFINE S == {s[i] : i \in 1..n} \cup {x}
           t == Append(s, x)
<1>2. s \in [1..n -> S]
  BY <1>1
<1>3. s \in Seq(S)
  BY <1>2, SeqDef
<1>4. x \in S
  OBVIOUS
<1>5. Len(s) = n
  BY <1>1, <1>3, LenProperties
<1>6. t \in Seq(S) /\ Len(t) = n + 1 /\ t[n + 1] = x /\ \A i \in 1..n : t[i] = s[i]
  BY <1>3, <1>4, <1>5, AppendProperties
<1> HIDE DEF S, t
<1>7. t \in [1..(n + 1) -> S]
  BY <1>6, LenProperties
<1>8. DOMAIN t = 1..(n + 1) /\ t = [i \in 1..(n + 1) |-> t[i]]
  BY <1>7
<1>9. IsSeq(t)
  BY <1>8 DEF IsSeq
<1>10. \A i \in DOMAIN s : i \in DOMAIN t /\ t[i] = s[i]
  BY <1>1, <1>6, <1>8
<1>11. \A i \in DOMAIN t \ DOMAIN s : t[i] = x
  <2>1. TAKE i \in DOMAIN t \ DOMAIN s
  <2>2. i = n + 1
    BY <1>1, <1>8
  <2> QED
    BY <1>6, <2>2
<1> QED
  BY <1>9, <1>10, <1>11 DEF t

LEMMA ExceptKeepsSeq ==
  ASSUME NEW s, IsSeq(s), NEW k, NEW x
  PROVE  IsSeq([s EXCEPT ![k] = x])
<1>1. PICK n \in Nat : DOMAIN s = 1..n /\ s = [i \in 1..n |-> s[i]]
  BY DEF IsSeq
<1> DEFINE t == [s EXCEPT ![k] = x]
<1>2. DOMAIN t = 1..n /\ t = [i \in 1..n |-> t[i]]
  BY <1>1
<1> QED
  BY <1>1, <1>2 DEF IsSeq

LEMMA UpdatedRowFields ==
  ASSUME NEW c, NEW row, IsRow(row), NEW mentions
  PROVE  LET new == WithGraph(UpdatedRow(c, row), mentions)
         IN  /\ IsRow(new) /\ new.version = row.version + 1
             /\ new.text = Given(call[c].text, tx[c].read.text)
             /\ new.durability = Given(call[c].durability, tx[c].read.durability)
             /\ new.tags = Given(call[c].tags, row.tags)
             /\ new.source = row.source /\ new.scope = row.scope
<1> DEFINE mid == UpdatedRow(c, row)
<1>1. /\ IsRow(mid) /\ mid.version = row.version + 1
      /\ mid.text = Given(call[c].text, tx[c].read.text)
      /\ mid.durability = Given(call[c].durability, tx[c].read.durability)
      /\ mid.tags = Given(call[c].tags, row.tags)
      /\ mid.source = row.source /\ mid.scope = row.scope
  BY DEF UpdatedRow, IsRow, RowFields
<1> HIDE DEF mid
<1>2. LET new == WithGraph(mid, mentions)
      IN  /\ IsRow(new) /\ new.version = mid.version
          /\ new.text = mid.text /\ new.durability = mid.durability /\ new.tags = mid.tags
          /\ new.source = mid.source /\ new.scope = mid.scope
  BY <1>1 DEF WithGraph, IsRow, RowFields
<1> QED
  BY <1>1, <1>2 DEF mid

LEMMA NewRowFields ==
  ASSUME NEW c, NEW source, NEW mentions
  PROVE  IsRow(WithGraph(NewRow(c, source), mentions))
<1>1. IsRow(NewRow(c, source))
  BY DEF NewRow, IsRow, RowFields
<1> QED
  BY <1>1 DEF WithGraph, IsRow, RowFields

-----------------------------------------------------------------------------
(***************************************************************************)
(* What a step of client c does to the repository: it leaves the others'   *)
(* locals and locks alone, locks only rows that are free, and of the rows  *)
(* adds one, erases one or makes a newer version of one that nobody else   *)
(* has locked.                                                             *)
(***************************************************************************)
Frame(c) ==
    /\ DOMAIN call' = Clients /\ DOMAIN pc' = Clients
    /\ DOMAIN tx' = Clients /\ DOMAIN held' = Clients
    /\ \A d \in Clients \ {c} :
        call'[d] = call[d] /\ pc'[d] = pc[d] /\ tx'[d] = tx[d] /\ held'[d] = held[d]

RowsChange(c) ==
    \/ records' = records
    \/ \E row : IsRow(row) /\ records' = Append(records, row)
    \/ \E i, row :
        /\ Lockable(c, <<"memory", i>>)
        /\ records' = [records EXCEPT ![i] = row]
        /\ row = NoRow \/ (i \in Ids /\ IsRow(row) /\ row.version > records[i].version)

StepOK(c) ==
    /\ Frame(c)
    /\ IsTx(tx'[c])
    /\ \A x \in held'[c] : x \in held[c] \/ Lockable(c, x)
    /\ RowsChange(c)
    /\ ClientOK(c)'

LEMMA RowsKept ==
  ASSUME UpdateInv, NEW c \in Clients, RowsChange(c)
  PROVE  /\ IsSeq(records')
         /\ \A i \in Ids' : IsRow(records'[i])
         /\ \A i \in DOMAIN records : i \in DOMAIN records'
         /\ \A i \in DOMAIN records : ~ Lockable(c, <<"memory", i>>) => records'[i] = records[i]
         /\ \A i \in DOMAIN records : i \in Ids' =>
                i \in Ids /\ (records'[i] = records[i] \/ records'[i].version > records[i].version)
<1> USE DEF Ids
<1>1. IsSeq(records) /\ \A i \in Ids : IsRow(records[i])
  BY DEF UpdateInv, Shape
<1>2. CASE records' = records
  BY <1>1, <1>2
<1>3. ASSUME NEW row, IsRow(row), records' = Append(records, row)
      PROVE  /\ IsSeq(records')
             /\ \A i \in Ids' : IsRow(records'[i])
             /\ \A i \in DOMAIN records : i \in DOMAIN records' /\ records'[i] = records[i]
  BY <1>1, <1>3, AppendGrows
<1>4. ASSUME NEW i, NEW row, Lockable(c, <<"memory", i>>),
             records' = [records EXCEPT ![i] = row],
             row = NoRow \/ (i \in Ids /\ IsRow(row) /\ row.version > records[i].version)
      PROVE  /\ IsSeq(records')
             /\ \A j \in Ids' : IsRow(records'[j])
             /\ DOMAIN records' = DOMAIN records
             /\ \A j \in DOMAIN records : j # i => records'[j] = records[j]
             /\ i \in DOMAIN records => records'[i] = row
  <2>1. IsSeq(records')
    BY <1>1, <1>4, ExceptKeepsSeq
  <2>2. DOMAIN records' = DOMAIN records
          /\ \A j \in DOMAIN records : records'[j] = IF j = i THEN row ELSE records[j]
    BY <1>4
  <2> QED
    BY <1>1, <1>4, <2>1, <2>2
<1>5. CASE \E row : IsRow(row) /\ records' = Append(records, row)
  BY <1>1, <1>3, <1>5
<1>6. CASE \E i, row :
        /\ Lockable(c, <<"memory", i>>)
        /\ records' = [records EXCEPT ![i] = row]
        /\ row = NoRow \/ (i \in Ids /\ IsRow(row) /\ row.version > records[i].version)
  <2>1. PICK i, row :
        /\ Lockable(c, <<"memory", i>>)
        /\ records' = [records EXCEPT ![i] = row]
        /\ row = NoRow \/ (i \in Ids /\ IsRow(row) /\ row.version > records[i].version)
    BY <1>6
  <2>2. /\ IsSeq(records')
        /\ \A j \in Ids' : IsRow(records'[j])
        /\ DOMAIN records' = DOMAIN records
        /\ \A j \in DOMAIN records : j # i => records'[j] = records[j]
        /\ i \in DOMAIN records => records'[i] = row
    BY <1>4, <2>1
  <2>3. \A j \in DOMAIN records : ~ Lockable(c, <<"memory", j>>) => records'[j] = records[j]
    BY <2>1, <2>2
  <2>4. ASSUME NEW j \in DOMAIN records, j \in Ids'
        PROVE  j \in Ids /\ (records'[j] = records[j] \/ records'[j].version > records[j].version)
    BY <2>1, <2>2, <2>4
  <2> QED
    BY <2>2, <2>3, <2>4
<1> QED
  BY <1>2, <1>5, <1>6 DEF RowsChange

LEMMA StepPreserves ==
  ASSUME UpdateInv, NEW c \in Clients, StepOK(c)
  PROVE  UpdateInv'
<1>1. /\ IsSeq(records')
      /\ \A i \in Ids' : IsRow(records'[i])
      /\ \A i \in DOMAIN records : i \in DOMAIN records'
      /\ \A i \in DOMAIN records : ~ Lockable(c, <<"memory", i>>) => records'[i] = records[i]
      /\ \A i \in DOMAIN records : i \in Ids' =>
            i \in Ids /\ (records'[i] = records[i] \/ records'[i].version > records[i].version)
  BY RowsKept DEF StepOK
<1>2. Frame(c)
  BY DEF StepOK
<1>3. Shape'
  <2>1. \A d \in Clients : IsTx(tx'[d])
    BY <1>2 DEF StepOK, Frame, UpdateInv, Shape
  <2> QED
    BY <1>1, <1>2, <2>1 DEF Shape, Frame, IsSeq, IsRow, IsTx
<1>4. HeldApart'
  <2>1. SUFFICES ASSUME NEW d \in Clients, NEW e \in Clients, d # e
                 PROVE  held'[d] \cap held'[e] = {}
    BY DEF HeldApart
  <2>2. \A f \in Clients \ {c} : held'[f] = held[f]
    BY <1>2 DEF Frame
  <2>3. \A x \in held'[c] : \A f \in Clients \ {c} : x \notin held[f]
    BY DEF StepOK, Lockable, UpdateInv, HeldApart
  <2> QED
    BY <2>1, <2>2, <2>3 DEF UpdateInv, HeldApart
<1>5. ASSUME NEW d \in Clients \ {c}  PROVE ClientOK(d)'
  <2>1. call'[d] = call[d] /\ pc'[d] = pc[d] /\ tx'[d] = tx[d] /\ held'[d] = held[d]
    BY <1>2 DEF Frame
  <2>2. ClientOK(d)
    BY DEF UpdateInv
  <2>3. CASE call[d].op = "update" /\ pc[d] \in {"update", "entities"}
    <3> DEFINE i == call[d].id
    <3>1. i \in DOMAIN records /\ IsRow(tx[d].read) /\ ReadIsOlder(d)
      BY <2>2, <2>3 DEF ClientOK, ReadIsOlder
    <3>2. ReadIsOlder(d)'
      <4>1. i \in DOMAIN records'
        BY <1>1, <3>1
      <4>2. ASSUME i \in Ids'
            PROVE  /\ tx[d].read.version <= records'[i].version
                   /\ tx[d].read.version = records'[i].version =>
                        tx[d].read.text = records'[i].text
                          /\ tx[d].read.durability = records'[i].durability
        <5>1. i \in Ids /\ (records'[i] = records[i] \/ records'[i].version > records[i].version)
          BY <1>1, <3>1, <4>2
        <5>2. /\ tx[d].read.version <= records[i].version
              /\ tx[d].read.version = records[i].version =>
                    tx[d].read.text = records[i].text
                      /\ tx[d].read.durability = records[i].durability
          BY <3>1, <5>1 DEF ReadIsOlder
        <5>3. tx[d].read.version \in Nat /\ records[i].version \in Nat /\ records'[i].version \in Nat
          BY <1>1, <3>1, <4>2, <5>1 DEF UpdateInv, Shape, IsRow
        <5> QED
          BY <5>1, <5>2, <5>3
      <4> QED
        BY <2>1, <4>1, <4>2 DEF ReadIsOlder
    <3>3. ASSUME pc[d] = "entities"  PROVE NextIsUpdate(d)'
      <4>1. NextIsUpdate(d)
        BY <2>2, <2>3, <3>3 DEF ClientOK
      <4>2. ~ Lockable(c, <<"memory", i>>)
        BY <4>1 DEF NextIsUpdate, Lockable, RecordOf
      <4>3. records'[i] = records[i] /\ i \in DOMAIN records'
        BY <1>1, <3>1, <4>2
      <4>4. i \in Ids'
        BY <4>1, <4>3 DEF NextIsUpdate, Ids
      <4> QED
        BY <2>1, <4>1, <4>3, <4>4 DEF NextIsUpdate, RecordOf
    <3> QED
      BY <2>1, <2>2, <2>3, <3>1, <3>2, <3>3 DEF ClientOK, IsRow
  <2>4. CASE ~ (call[d].op = "update" /\ pc[d] \in {"update", "entities"})
    BY <2>1, <2>2, <2>4 DEF ClientOK, IsRow
  <2> QED
    BY <2>3, <2>4
<1> QED
  BY <1>3, <1>4, <1>5 DEF UpdateInv, StepOK

-----------------------------------------------------------------------------
(* The steps *)

LEMMA UpdateInit == Init => UpdateInv
<1>1. SUFFICES ASSUME Init  PROVE UpdateInv
  OBVIOUS
<1>2. IsSeq(records)
  <2>1. records = Stored /\ Stored \in Seq(ToSet(Stored))
    BY <1>1, RecordsAssumption DEF Init, RepositoryInit
  <2>2. Len(Stored) \in Nat /\ Stored \in [1..Len(Stored) -> ToSet(Stored)]
    BY <2>1, LenProperties
  <2> QED
    BY <2>1, <2>2 DEF IsSeq
<1>3. \A i \in Ids : IsRow(records[i])
  BY <1>1, RecordsAssumption DEF Init, RepositoryInit, Ids
<1>4. DOMAIN call = Clients
  BY <1>1, RecordsAssumption DEF Init, RepositoryInit
<1>5. /\ pc = [c \in Clients |-> "ready"]
      /\ tx = [c \in Clients |-> NoTx]
      /\ held = [c \in Clients |-> {}]
  BY <1>1 DEF Init, RepositoryInit
<1>6. IsTx(NoTx)
  BY DEF IsTx, NoTx
<1> QED
  BY <1>2, <1>3, <1>4, <1>5, <1>6 DEF UpdateInv, Shape, HeldApart, ClientOK

\* A client that moves on elsewhere, its transaction and its locks as they were.
LEMMA Elsewhere ==
  ASSUME UpdateInv, NEW c \in Clients,
         NEW step, step \notin {"source", "update", "entities"},
         pc' = [pc EXCEPT ![c] = step], UNCHANGED <<call, tx, held>>, RowsChange(c)
  PROVE  StepOK(c)
<1>1. Frame(c)
  BY DEF Frame, UpdateInv, Shape
<1>2. IsTx(tx'[c])
  BY DEF UpdateInv, Shape
<1>3. pc'[c] = step
  BY DEF UpdateInv, Shape
<1>4. ClientOK(c)'
  BY <1>3 DEF ClientOK
<1> QED
  BY <1>1, <1>2, <1>4 DEF StepOK

LEMMA AbortStep ==
  ASSUME UpdateInv, NEW c \in Clients, Abort(c)
  PROVE  StepOK(c)
<1>1. /\ tx' = [tx EXCEPT ![c] = NoTx] /\ held' = [held EXCEPT ![c] = {}]
      /\ pc' = [pc EXCEPT ![c] = "failed"] /\ UNCHANGED <<records, call>>
  BY DEF Abort
<1>2. Frame(c) /\ tx'[c] = NoTx /\ held'[c] = {} /\ pc'[c] = "failed"
  BY <1>1 DEF Frame, UpdateInv, Shape
<1>3. IsTx(NoTx)
  BY DEF IsTx, NoTx
<1> QED
  BY <1>1, <1>2, <1>3 DEF StepOK, ClientOK, RowsChange

LEMMA AddSteps ==
  ASSUME UpdateInv, NEW c \in Clients, AddMemory(c) \/ WriteSource(c)
  PROVE  StepOK(c)
<1>1. CASE AddMemory(c)
  <2> DEFINE found == SourcesWithKey(call[c].key)
             id == IF found = {} THEN 0 ELSE Lowest(found)
             uri == IF id = 0 THEN call[c].uri ELSE Given(call[c].uri, sources[id].uri)
             t == [NoTx EXCEPT !.source = id, !.uri = uri]
  <2>1. /\ call[c].op = "add" /\ tx' = [tx EXCEPT ![c] = t]
        /\ pc' = [pc EXCEPT ![c] = "source"] /\ UNCHANGED <<records, call, held>>
    BY <1>1 DEF AddMemory
  <2>2. IsTx(t)
    BY DEF IsTx, NoTx
  <2> HIDE DEF t
  <2>3. Frame(c) /\ tx'[c] = t /\ pc'[c] = "source"
    BY <2>1 DEF Frame, UpdateInv, Shape
  <2> QED
    BY <2>1, <2>2, <2>3 DEF StepOK, ClientOK, RowsChange
<1>2. CASE WriteSource(c)
  <2>1. PICK row, mentions :
          /\ tx' = [tx EXCEPT ![c] = [@ EXCEPT
                !.row = row, !.next = WithGraph(NewRow(c, tx[c].source), mentions),
                !.want = mentions]]
          /\ held' = [held EXCEPT ![c] = @ \cup Needs(c)]
    BY <1>2 DEF WriteSource
  <2>2. /\ pc[c] = "source" /\ pc' = [pc EXCEPT ![c] = "entities"]
        /\ UNCHANGED <<records, call>> /\ \A x \in Needs(c) : Lockable(c, x)
    BY <1>2 DEF WriteSource
  <2> DEFINE new == WithGraph(NewRow(c, tx[c].source), mentions)
             t == [tx[c] EXCEPT !.row = row, !.next = new, !.want = mentions]
  <2>3. IsRow(new)
    BY NewRowFields
  <2>4. tx' = [tx EXCEPT ![c] = t]
    BY <2>1
  <2> HIDE DEF new
  <2>5. IsTx(t) /\ t.next = new
    BY DEF IsTx, UpdateInv, Shape
  <2> HIDE DEF t
  <2>6. /\ Frame(c) /\ tx'[c] = t /\ pc'[c] = "entities"
        /\ held'[c] = held[c] \cup Needs(c) /\ call[c].op = "add"
    BY <2>1, <2>2, <2>4 DEF Frame, UpdateInv, Shape, ClientOK
  <2>7. ClientOK(c)'
    BY <2>2, <2>3, <2>5, <2>6 DEF ClientOK
  <2> QED
    BY <2>2, <2>5, <2>6, <2>7 DEF StepOK, RowsChange
<1> QED
  BY <1>1, <1>2

LEMMA UpdateSteps ==
  ASSUME UpdateInv, NEW c \in Clients, ReadForUpdate(c) \/ UpdateRow(c)
  PROVE  StepOK(c)
<1> DEFINE i == call[c].id
<1>1. CASE ReadForUpdate(c) /\ i \in Ids
  <2>1. PICK source : tx' = [tx EXCEPT ![c] = [NoTx EXCEPT !.read = records[i], !.row = source]]
    BY <1>1 DEF ReadForUpdate
  <2>2. /\ call[c].op = "update" /\ pc' = [pc EXCEPT ![c] = "update"]
        /\ UNCHANGED <<records, call, held>>
    BY <1>1 DEF ReadForUpdate
  <2> DEFINE t == [NoTx EXCEPT !.read = records[i], !.row = source]
  <2>3. IsTx(t) /\ t.read = records[i]
    BY DEF IsTx, NoTx
  <2> HIDE DEF t
  <2>4. Frame(c) /\ tx'[c] = t /\ pc'[c] = "update"
    BY <2>1, <2>2 DEF Frame, UpdateInv, Shape, t
  <2>5. IsRow(records[i]) /\ i \in DOMAIN records
    BY <1>1 DEF UpdateInv, Shape, Ids
  <2>6. ReadIsOlder(c)'
    BY <2>2, <2>3, <2>4, <2>5 DEF ReadIsOlder, IsRow
  <2>7. ClientOK(c)'
    BY <2>2, <2>3, <2>4, <2>5, <2>6 DEF ClientOK, IsRow
  <2> QED
    BY <2>2, <2>3, <2>4, <2>7 DEF StepOK, RowsChange
<1>2. CASE ReadForUpdate(c) /\ i \notin Ids
  BY <1>2, Elsewhere DEF ReadForUpdate, RowsChange
<1>3. CASE UpdateRow(c) /\ i \in Ids
  <2> DEFINE mentions == MentionsOf(UpdatedRow(c, records[i]).text, tx[c].row)
             new == WithGraph(UpdatedRow(c, records[i]), mentions)
             t == [tx[c] EXCEPT !.next = new, !.want = mentions]
  <2>1. /\ pc[c] = "update" /\ Lockable(c, RecordOf(c))
        /\ tx' = [tx EXCEPT ![c] = [@ EXCEPT !.next = new, !.want = mentions]]
        /\ held' = [held EXCEPT ![c] = @ \cup {RecordOf(c)}]
        /\ pc' = [pc EXCEPT ![c] = "entities"] /\ UNCHANGED <<records, call>>
    BY <1>3 DEF UpdateRow
  <2>2. IsRow(records[i])
    BY <1>3 DEF UpdateInv, Shape
  <2>3. /\ IsRow(new) /\ new.version = records[i].version + 1
        /\ new.text = Given(call[c].text, tx[c].read.text)
        /\ new.durability = Given(call[c].durability, tx[c].read.durability)
        /\ new.tags = Given(call[c].tags, records[i].tags)
        /\ new.source = records[i].source /\ new.scope = records[i].scope
    BY <2>2, UpdatedRowFields
  <2> HIDE DEF new, mentions
  <2>4. tx' = [tx EXCEPT ![c] = t]
    BY <2>1
  <2>5. IsTx(t) /\ t.next = new /\ t.read = tx[c].read
    BY DEF IsTx, UpdateInv, Shape
  <2> HIDE DEF t
  <2>6. /\ Frame(c) /\ tx'[c] = t /\ pc'[c] = "entities"
        /\ held'[c] = held[c] \cup {RecordOf(c)} /\ call'[c] = call[c]
    BY <2>1, <2>4 DEF Frame, UpdateInv, Shape
  <2>7. call[c].op = "update" /\ IsRow(tx[c].read) /\ ReadIsOlder(c)
    BY <2>1 DEF UpdateInv, ClientOK
  <2>8. NextIsUpdate(c)'
    BY <1>3, <2>1, <2>3, <2>5, <2>6 DEF NextIsUpdate, RecordOf, Ids
  <2>9. ReadIsOlder(c)'
    BY <2>1, <2>5, <2>6, <2>7 DEF ReadIsOlder, Ids
  <2>10. ClientOK(c)'
    BY <2>3, <2>5, <2>6, <2>7, <2>8, <2>9 DEF ClientOK, IsRow
  <2> QED
    BY <2>1, <2>5, <2>6, <2>10 DEF StepOK, RowsChange
<1>4. CASE UpdateRow(c) /\ i \notin Ids
  BY <1>4, AbortStep DEF UpdateRow
<1> QED
  BY <1>1, <1>2, <1>3, <1>4

LEMMA LockEntityStep ==
  ASSUME UpdateInv, NEW c \in Clients, LockEntity(c)
  PROVE  StepOK(c)
<1> DEFINE key == EntityOf(Head(tx[c].want))
           t == [tx[c] EXCEPT !.want = Tail(tx[c].want)]
<1>1. /\ pc[c] = "entities" /\ Lockable(c, key)
      /\ held' = [held EXCEPT ![c] = @ \cup {key}]
      /\ tx' = [tx EXCEPT ![c] = t]
      /\ UNCHANGED <<records, call, pc>>
  BY DEF LockEntity
<1>2. IsTx(t) /\ t.next = tx[c].next /\ t.read = tx[c].read
  BY DEF IsTx, UpdateInv, Shape
<1> HIDE DEF t, key
<1>3. Frame(c) /\ tx'[c] = t /\ held'[c] = held[c] \cup {key} /\ call'[c] = call[c] /\ pc'[c] = pc[c]
  BY <1>1 DEF Frame, UpdateInv, Shape
<1>4. ClientOK(c)
  BY DEF UpdateInv
<1>5. ClientOK(c)'
  BY <1>1, <1>2, <1>3, <1>4 DEF ClientOK, IsRow, ReadIsOlder, NextIsUpdate, RecordOf, Ids
<1> QED
  BY <1>1, <1>2, <1>3, <1>5 DEF StepOK, RowsChange

\* What the commit of an update makes of its row.
LEMMA CommitOfUpdate ==
  ASSUME UpdateInv, NEW c \in Clients, Commit(c), call[c].op = "update"
  PROVE  /\ call[c].id \in Ids
         /\ records' = [records EXCEPT ![call[c].id] = tx[c].next]
         /\ records'[call[c].id] = tx[c].next
         /\ NextIsUpdate(c) /\ ReadIsOlder(c) /\ UNCHANGED call
<1>1. pc[c] = "entities" /\ records' = [records EXCEPT ![call[c].id] = tx[c].next] /\ UNCHANGED call
  BY DEF Commit
<1>2. NextIsUpdate(c) /\ ReadIsOlder(c)
  BY <1>1 DEF UpdateInv, ClientOK
<1>3. call[c].id \in Ids /\ call[c].id \in DOMAIN records
  BY <1>2 DEF NextIsUpdate, Ids
<1> QED
  BY <1>1, <1>2, <1>3

LEMMA CommitStep ==
  ASSUME UpdateInv, NEW c \in Clients, Commit(c)
  PROVE  StepOK(c)
<1>1. /\ pc[c] = "entities" /\ held' = [held EXCEPT ![c] = {}]
      /\ pc' = [pc EXCEPT ![c] = "committed"]
      /\ tx' = [tx EXCEPT ![c] = [NoTx EXCEPT !.next = records'[call'[c].id]]]
  BY DEF Commit
<1>2. IsTx(tx'[c])
  BY <1>1 DEF IsTx, NoTx, UpdateInv, Shape
<1>3. call[c].op \in {"add", "update"} /\ IsRow(tx[c].next)
  BY <1>1 DEF UpdateInv, ClientOK
<1>4. DOMAIN call' = Clients /\ \A d \in Clients \ {c} : call'[d] = call[d]
  BY DEF Commit, UpdateInv, Shape
<1>5. Frame(c) /\ held'[c] = {} /\ pc'[c] = "committed"
  BY <1>1, <1>4 DEF Frame, UpdateInv, Shape
<1>6. RowsChange(c)
  <2>1. CASE call[c].op = "add"
    <3>1. PICK id : records' = Append(records, [tx[c].next EXCEPT !.source = id])
      BY <2>1 DEF Commit
    <3>2. IsRow([tx[c].next EXCEPT !.source = id])
      BY <1>3 DEF IsRow, RowFields
    <3> QED
      BY <3>1, <3>2 DEF RowsChange
  <2>2. CASE call[c].op = "update"
    <3>1. NextIsUpdate(c) /\ records' = [records EXCEPT ![call[c].id] = tx[c].next]
      BY <2>2, CommitOfUpdate
    <3>2. Lockable(c, <<"memory", call[c].id>>)
      BY <3>1 DEF NextIsUpdate, UpdateInv, HeldApart, Lockable, RecordOf
    <3>3. call[c].id \in Ids /\ tx[c].next.version > records[call[c].id].version
      BY <3>1 DEF NextIsUpdate, UpdateInv, Shape, IsRow
    <3> QED
      BY <1>3, <3>1, <3>2, <3>3 DEF RowsChange
  <2> QED
    BY <1>3, <2>1, <2>2
<1>7. ClientOK(c)'
  BY <1>5 DEF ClientOK
<1> QED
  BY <1>2, <1>5, <1>6, <1>7 DEF StepOK

LEMMA TransactionSteps ==
  ASSUME UpdateInv, NEW c \in Clients, TransactionMove(c)
  PROVE  StepOK(c)
<1>1. CASE StatementFails(c) \/ BreakDeadlock(c)
  BY <1>1, AbortStep DEF StatementFails, BreakDeadlock
<1> QED
  BY <1>1, AddSteps, UpdateSteps, LockEntityStep, CommitStep DEF TransactionMove, TransactionStep

LEMMA ArchiveStep ==
  ASSUME UpdateInv, NEW c \in Clients, ArchiveRecord(c)
  PROVE  StepOK(c)
<1> DEFINE i == call[c].id
           row == [records[i] EXCEPT !.durability = "archived", !.version = records[i].version + 1]
<1>1. Lockable(c, <<"memory", i>>) /\ UNCHANGED <<call, tx, held>>
  BY DEF ArchiveRecord, ArchiveRow, RecordOf
<1>2. CASE i \notin Ids
  BY <1>1, <1>2, Elsewhere DEF ArchiveRecord, ArchiveRow, RowsChange
<1>3. CASE i \in Ids
  <2>1. records' = records \/ records' = [records EXCEPT ![i] = row]
    BY <1>3 DEF ArchiveRecord, ArchiveRow
  <2>2. IsRow(records[i])
    BY <1>3 DEF UpdateInv, Shape
  <2>3. IsRow(row) /\ row.version > records[i].version
    BY <2>2 DEF IsRow, RowFields
  <2> HIDE DEF row
  <2>4. RowsChange(c)
    BY <1>1, <1>3, <2>1, <2>3 DEF RowsChange
  <2>5. pc' = [pc EXCEPT ![c] = "committed"]
    BY <1>3 DEF ArchiveRecord, ArchiveRow
  <2> QED
    BY <1>1, <2>4, <2>5, Elsewhere
<1> QED
  BY <1>2, <1>3

LEMMA IndexFailsStep ==
  ASSUME UpdateInv, NEW c \in Clients, GivesUp(c)
  PROVE  StepOK(c)
<1>1. UNCHANGED <<call, tx, held>> /\ pc' = [pc EXCEPT ![c] = "failed"]
  BY DEF GivesUp, IndexFails, InsertRefused, IndexGivesUp, EraseRow, Goto
<1>2. CASE call[c].op = "add"
  <2>1. Lockable(c, <<"memory", call[c].id>>) /\ records' = [records EXCEPT ![call[c].id] = NoRow]
    BY <1>2 DEF GivesUp, IndexFails, InsertRefused, IndexGivesUp, EraseRow, RecordOf
  <2> QED
    BY <1>1, <2>1, Elsewhere DEF RowsChange
<1>3. CASE call[c].op # "add"
  <2>1. UNCHANGED records
    BY <1>3 DEF GivesUp, IndexFails, InsertRefused, IndexGivesUp
  <2> QED
    BY <1>1, <2>1, Elsewhere DEF RowsChange
<1> QED
  BY <1>2, <1>3

\* The steps that touch no row of the repository.
LEMMA OtherSteps ==
  ASSUME UpdateInv, NEW c \in Clients, UNCHANGED <<records, call, tx, held>>,
         \E step : step \notin {"source", "update", "entities"} /\ Goto(c, step)
  PROVE  StepOK(c)
BY Elsewhere DEF Goto, RowsChange

LEMMA WriteIndexSteps ==
  ASSUME UpdateInv, NEW c \in Clients, IndexMove(c)
  PROVE  StepOK(c)
<1>1. CASE \/ InsertChunks(c) \/ ReplaceChunks(c) \/ ClearOwn(c) \/ SkipRefresh(c)
           \/ Upsert(c) \/ UpdatePointIds(c) \/ DeletesPoints(c)
  <2>1. /\ UNCHANGED <<records, call, tx, held>>
        /\ Goto(c, "upsert") \/ Goto(c, "clearOwn") \/ Goto(c, "failed")
             \/ Goto(c, "done") \/ Goto(c, "pointIds")
    BY <1>1 DEF InsertChunks, ReplaceChunks, ClearOwn, SkipRefresh, Upsert, UpdatePointIds,
                DeletesPoints, DeletePoints, DeleteFails
  <2> QED
    BY <2>1, OtherSteps
<1> QED
  BY <1>1, ArchiveStep, IndexFailsStep DEF IndexMove, IndexStep, GivesUp, DeletesPoints

LEMMA ReindexSteps ==
  ASSUME UpdateInv, NEW c \in Clients, ReindexMove(c)
  PROVE  StepOK(c)
<1>1. /\ UNCHANGED <<records, call, tx, held>>
      /\ Goto(c, "clear") \/ Goto(c, "done") \/ Goto(c, "list") \/ Goto(c, "ready")
           \/ Goto(c, "upsertPage") \/ Goto(c, "pageIds") \/ Goto(c, "failed")
  BY DEF ReindexMove, ReindexStep, ListToClear, ClearPage, ListPage, UpsertPage, UpdatePageIds,
     ReindexFails,
         AfterPage
<1> QED
  BY <1>1, OtherSteps

LEMMA InspectSteps ==
  ASSUME UpdateInv, NEW c \in Clients, InspectMove(c),
         UNCHANGED <<records, sources, entities, call, tx, held, index>>
  PROVE  StepOK(c)
<1>1. Goto(c, "done") \/ Goto(c, "inspect") \/ Goto(c, "failed")
  BY DEF InspectMove, InspectStep, InspectEntities, InspectRelationships, InspectFails
<1> QED
  BY <1>1, OtherSteps

LEMMA UpdateNext == UpdateInv /\ [Next]_vars => UpdateInv'
<1>1. SUFFICES ASSUME UpdateInv, [Next]_vars  PROVE UpdateInv'
  OBVIOUS
<1>2. ASSUME NEW c \in Clients, Move(c)  PROVE UpdateInv'
  BY <1>1, <1>2, StepPreserves, TransactionSteps, WriteIndexSteps, ReindexSteps, InspectSteps
     DEF Move, TransactionOn
<1>3. CASE UNCHANGED vars
  <2>1. UNCHANGED <<records, call, pc, tx, held>>
    BY <1>3 DEF vars
  <2>2. Shape' /\ HeldApart'
    BY <1>1, <2>1 DEF UpdateInv, Shape, HeldApart, Ids, IsSeq, IsRow, IsTx
  <2>3. ASSUME NEW c \in Clients  PROVE ClientOK(c)'
    <3>1. ClientOK(c)
      BY <1>1 DEF UpdateInv
    <3> QED
      BY <2>1, <3>1 DEF ClientOK, ReadIsOlder, NextIsUpdate, RecordOf, Ids, IsRow
  <2> QED
    BY <2>2, <2>3 DEF UpdateInv
<1> QED
  BY <1>1, <1>2, <1>3, NextMoves

\* The invariant, which holds whatever the calls, the faults and the locks are.
THEOREM UpdatesHoldTheirRow == Spec => []UpdateInv
BY UpdateInit, UpdateNext, PTL DEF Spec

-----------------------------------------------------------------------------
(* UpdatesOnlyWhatItNames *)

\* What the property says of client c in one step.
Keeps(c) ==
    (call[c].op = "update" /\ pc[c] = "entities" /\ pc'[c] = "committed") =>
        LET old == records[call[c].id]
            new == records'[call[c].id]
            fresh == tx[c].read.version = old.version
        IN  /\ call[c].tags = Keep => new.tags = old.tags
            /\ fresh /\ call[c].text = Keep => new.text = old.text
            /\ fresh /\ call[c].durability = Keep => new.durability = old.durability
            /\ new.source = old.source /\ new.scope = old.scope

\* A step of another client, or one that does not commit, says nothing of c.
LEMMA OnlyCommitCommits ==
  ASSUME UpdateInv, NEW c \in Clients, NEW d \in Clients, Move(d),
         pc[c] = "entities", pc'[c] = "committed"
  PROVE  Commit(c)
<1>1. StepOK(d)
  BY TransactionSteps, WriteIndexSteps, ReindexSteps, InspectSteps DEF Move, TransactionOn
<1>2. c = d
  BY <1>1 DEF StepOK, Frame
<1>3. \A step : Goto(c, step) => step = "committed"
  BY DEF Goto, UpdateInv, Shape
<1>4. ~ AddMemory(c) /\ ~ WriteSource(c) /\ ~ ReadForUpdate(c) /\ ~ UpdateRow(c)
  BY DEF AddMemory, WriteSource, ReadForUpdate, UpdateRow
<1>5. ~ LockEntity(c)
  BY DEF LockEntity
<1>6. ~ StatementFails(c) /\ ~ BreakDeadlock(c)
  BY <1>3 DEF StatementFails, BreakDeadlock, Abort, Goto
<1>7. ~ IndexMove(c)
  BY <1>3 DEF IndexMove, IndexStep, InsertChunks, ReplaceChunks, ClearOwn, SkipRefresh, Upsert,
              UpdatePointIds, GivesUp, IndexFails, InsertRefused, IndexGivesUp, ArchiveRecord,
              ArchiveRow, DeletesPoints, DeletePoints, DeleteFails
<1>8. ~ ReindexMove(c)
  BY <1>3 DEF ReindexMove, ReindexStep, ListToClear, ClearPage, ListPage, UpsertPage, UpdatePageIds,
              ReindexFails
<1>9. ~ InspectMove(c)
  BY <1>3 DEF InspectMove, InspectStep, InspectEntities, InspectRelationships, InspectFails
<1> QED
  BY <1>2, <1>4, <1>5, <1>6, <1>7, <1>8, <1>9 DEF Move, TransactionOn, TransactionMove,
     TransactionStep

LEMMA CommitKeeps ==
  ASSUME UpdateInv, NEW c \in Clients, Commit(c)
  PROVE  Keeps(c)
<1>1. SUFFICES ASSUME call[c].op = "update"  PROVE Keeps(c)
  BY DEF Keeps
<1>2. /\ call[c].id \in Ids /\ records'[call[c].id] = tx[c].next
      /\ NextIsUpdate(c) /\ ReadIsOlder(c)
  BY <1>1, CommitOfUpdate
<1> QED
  BY <1>2 DEF Keeps, NextIsUpdate, ReadIsOlder, Given

\* An update that commits on the row it has read changes only what its call
\* names, and a call that names no tags keeps them whatever it has read: for
\* any clients, calls, rows and faults (UPDATE memory_records .. RETURNING,
\* then the tags, the entity graph and COMMIT).
THEOREM UpdatesKeepTheRest == Spec => UpdatesOnlyWhatItNames
<1>1. UpdateInv /\ [Next]_vars => [\A c \in Clients : Keeps(c)]_repository
  <2>1. SUFFICES ASSUME UpdateInv, [Next]_vars, ~ UNCHANGED repository, NEW c \in Clients
                 PROVE  Keeps(c)
    OBVIOUS
  <2>2. CASE pc[c] = "entities" /\ pc'[c] = "committed"
    <3>1. PICK d \in Clients : Move(d)
      BY <2>1, NextMoves DEF vars, repository
    <3>2. Commit(c)
      BY <2>1, <2>2, <3>1, OnlyCommitCommits
    <3> QED
      BY <2>1, <3>2, CommitKeeps
  <2>3. CASE ~ (pc[c] = "entities" /\ pc'[c] = "committed")
    BY <2>3 DEF Keeps
  <2> QED
    BY <2>2, <2>3
<1>2. Spec => [][\A c \in Clients : Keeps(c)]_repository
  BY <1>1, UpdatesHoldTheirRow, PTL DEF Spec
<1> QED
  BY <1>2, PTL DEF UpdatesOnlyWhatItNames, Keeps

-----------------------------------------------------------------------------
(***************************************************************************)
(* The entity graph of a text. Before[x] is what comes before x in a       *)
(* strict total order of S: the number of elements that do is different    *)
(* for each, and so takes every value from 0 to Cardinality(S) - 1.        *)
(***************************************************************************)
StrictOrder(S, Before) ==
    /\ IsFiniteSet(S)
    /\ Before \in [S -> SUBSET S]
    /\ \A x \in S : x \notin Before[x]
    /\ \A x, y \in S : x # y => x \in Before[y] \/ y \in Before[x]
    /\ \A x, y \in S : y \in Before[x] => Before[y] \subseteq Before[x]

LEMMA PlacesApart ==
  ASSUME NEW S, NEW Before, StrictOrder(S, Before)
  PROVE  /\ Cardinality(S) \in Nat
         /\ \A x \in S : Cardinality(Before[x]) \in 0 .. Cardinality(S) - 1
         /\ \A x, y \in S : x # y => Cardinality(Before[y]) # Cardinality(Before[x])
<1>1. IsFiniteSet(S) /\ Cardinality(S) \in Nat
  BY FS_CardinalityType DEF StrictOrder
<1>2. \A x \in S : IsFiniteSet(Before[x]) /\ Cardinality(Before[x]) \in Nat
  BY <1>1, FS_Subset, FS_CardinalityType DEF StrictOrder
<1>3. \A x \in S : Cardinality(Before[x]) < Cardinality(S)
  <2>1. TAKE x \in S
  <2>2. Before[x] \in SUBSET S /\ Before[x] # S
    BY DEF StrictOrder
  <2> QED
    BY <1>1, <1>2, <2>2, FS_Subset
<1>4. ASSUME NEW x \in S, NEW y \in S, y \in Before[x]
      PROVE  Cardinality(Before[y]) < Cardinality(Before[x])
  <2>1. Before[y] \in SUBSET Before[x] /\ Before[y] # Before[x]
    BY <1>4 DEF StrictOrder
  <2> QED
    BY <1>2, <2>1, FS_Subset
<1>5. ASSUME NEW x \in S, NEW y \in S, x # y
      PROVE  Cardinality(Before[y]) # Cardinality(Before[x])
  BY <1>2, <1>4, <1>5 DEF StrictOrder
<1> QED
  BY <1>1, <1>2, <1>3, <1>5

LEMMA EveryPlaceTaken ==
  ASSUME NEW S, NEW Before, StrictOrder(S, Before), NEW k \in 1 .. Cardinality(S)
  PROVE  \E x \in S : Cardinality(Before[x]) = k - 1
<1> DEFINE n == Cardinality(S)
           place == [x \in S |-> Cardinality(Before[x])]
<1>1. n \in Nat /\ IsFiniteSet(S) /\ IsFiniteSet(0 .. n - 1) /\ Cardinality(0 .. n - 1) = n
  <2>1. n \in Nat /\ IsFiniteSet(S)
    BY PlacesApart DEF StrictOrder
  <2> HIDE DEF n
  <2>2. 0 \in Int /\ n - 1 \in Int
    BY <2>1
  <2>3. /\ IsFiniteSet(0 .. n - 1)
        /\ Cardinality(0 .. n - 1) = IF 0 > n - 1 THEN 0 ELSE (n - 1) - 0 + 1
    BY <2>2, FS_Interval
  <2> QED
    BY <2>1, <2>3
<1>2. place \in [S -> 0 .. n - 1]
  BY PlacesApart
<1>3. \A x, y \in S : place[x] = place[y] => x = y
  BY <1>2, PlacesApart
<1>4. place \in Injection(S, 0 .. n - 1)
  BY <1>2, <1>3, Fun_IsInj
<1>5. place \in Surjection(S, 0 .. n - 1)
  BY <1>1, <1>4, FS_Injection
<1>6. k - 1 \in 0 .. n - 1
  BY <1>1
<1> HIDE DEF n
<1>7. PICK x \in S : place[x] = k - 1
  <2> HIDE DEF place
  <2>1. \A i \in 0 .. n - 1 : \E x \in S : place[x] = i
    BY <1>5, Fun_SurjectionProperties, Zenon
  <2> QED
    BY <1>6, <2>1
<1> QED
  BY <1>7

\* The first of some places of a sequence.
LEMMA LowestIsFirst ==
  ASSUME NEW n \in Nat, NEW K, K \subseteq 1 .. n, K # {}
  PROVE  Lowest(K) \in K /\ \A j \in K : Lowest(K) <= j
<1> DEFINE B == [i \in K |-> {j \in K : j < i}]
<1>1. IsFiniteSet(K) /\ \A i \in K : i \in Int
  <2>1. IsFiniteSet(1 .. n) /\ K \in SUBSET (1 .. n)
    BY FS_Interval
  <2>2. IsFiniteSet(K)
    BY <2>1, FS_Subset
  <2>3. \A i \in 1 .. n : i \in Int
    OBVIOUS
  <2> QED
    BY <2>1, <2>2, <2>3
<1>2. B \in [K -> SUBSET K] /\ \A i \in K : B[i] = {j \in K : j < i}
  BY Zenon
<1>3. StrictOrder(K, B)
  <2> HIDE DEF B
  <2>1. \A x, y \in K : y \in B[x] => B[y] \subseteq B[x]
    <3>1. ASSUME NEW x \in K, NEW y \in K, y \in B[x], NEW z \in B[y]  PROVE z \in B[x]
      <4>1. z \in K /\ z < y /\ y < x
        BY <1>2, <3>1
      <4>2. x \in Int /\ y \in Int /\ z \in Int
        BY <1>1, <4>1
      <4>3. z < x
        BY <4>1, <4>2
      <4> QED
        BY <1>2, <4>1, <4>3
    <3> QED
      BY <3>1
  <2>2. (\A x \in K : x \notin B[x]) /\ \A x, y \in K : x # y => x \in B[y] \/ y \in B[x]
    BY <1>1, <1>2
  <2> QED
    BY <1>1, <1>2, <2>1, <2>2 DEF StrictOrder
<1>4. 1 \in 1 .. Cardinality(K)
  BY <1>1, FS_CardinalityType, FS_EmptySet
<1>5. PICK i \in K : Cardinality(B[i]) = 1 - 1
  BY <1>3, <1>4, EveryPlaceTaken, Zenon
<1>6. B[i] = {}
  <2>1. IsFiniteSet(B[i])
    BY <1>1, <1>2, FS_Subset
  <2> QED
    BY <1>5, <2>1, FS_EmptySet
<1>7. \A j \in K : i <= j
  BY <1>1, <1>2, <1>6
<1> QED
  BY <1>7 DEF Lowest

\* The mentions of a text are the entities in it, each once.
LEMMA ExtractsEach ==
  ASSUME NEW text \in Seq(DOMAIN FoundBy)
  PROVE  LET m == ExtractEntityMentions(text)
         IN  /\ Cardinality(ToSet(text)) \in Nat /\ DOMAIN m = 1 .. Cardinality(ToSet(text))
             /\ m = [k \in 1 .. Cardinality(ToSet(text)) |-> m[k]]
             /\ \A k \in DOMAIN m : m[k] \in ToSet(text)
             /\ \A e \in ToSet(text) : \E k \in DOMAIN m : m[k] = e
             /\ \A i, j \in DOMAIN m : i # j => m[i] # m[j]
<1> DEFINE S == ToSet(text)
           B == [e \in S |-> {f \in S : FoundSooner(text, f, e)}]
           m == ExtractEntityMentions(text)
           n == Cardinality(S)
<1>1. Len(text) \in Nat /\ DOMAIN text = 1 .. Len(text) /\ \A i \in 1 .. Len(text) : text[i] \in DOMAIN FoundBy
  BY LenProperties
<1>2. \A e \in S : PatternOrder[FoundBy[e]] \in 1 .. 6
  <2>1. \A e \in S : e \in DOMAIN FoundBy
    BY <1>1 DEF ToSet
  <2> QED
    BY <2>1, GraphAssumption DEF PatternOrder
<1>3. \A e \in S : Place(text, e) \in 1 .. Len(text) /\ text[Place(text, e)] = e
  <2> SUFFICES ASSUME NEW e \in S
               PROVE  Place(text, e) \in 1 .. Len(text) /\ text[Place(text, e)] = e
    OBVIOUS
  <2> DEFINE K == {i \in DOMAIN text : text[i] = e}
  <2>1. K \subseteq 1 .. Len(text) /\ K # {}
    BY <1>1 DEF ToSet
  <2>2. Lowest(K) \in K
    BY <1>1, <2>1, LowestIsFirst
  <2> QED
    BY <1>1, <2>2 DEF Place
<1>4. IsFiniteSet(S)
  <2> DEFINE f == [i \in 1 .. Len(text) |-> text[i]]
  <2>1. f \in Surjection(1 .. Len(text), S)
    BY <1>1, Fun_IsSurj DEF ToSet
  <2>2. IsFiniteSet(1 .. Len(text))
    BY <1>1, FS_Interval
  <2> QED
    BY <2>1, <2>2, FS_Surjection
<1>5. \A e, f \in S : FoundBy[e] \in DOMAIN PatternOrder
                        /\ (PatternOrder[FoundBy[e]] = PatternOrder[FoundBy[f]] => FoundBy[e] = FoundBy[f])
  <2>1. \A e \in S : e \in DOMAIN FoundBy
    BY <1>1 DEF ToSet
  <2> QED
    BY <2>1, GraphAssumption DEF PatternOrder
<1>6. StrictOrder(S, B)
  <2>1. B \in [S -> SUBSET S] /\ \A e \in S : B[e] = {f \in S : FoundSooner(text, f, e)}
    BY Zenon
  <2> HIDE DEF B
  <2>2. \A e \in S : e \notin B[e]
    BY <1>2, <1>3, <2>1 DEF FoundSooner
  <2>3. \A e, f \in S : e # f => e \in B[f] \/ f \in B[e]
    <3>1. TAKE e, f \in S
    <3>2. e # f => Place(text, e) # Place(text, f)
      BY <1>3
    <3>3. e # f => FoundSooner(text, e, f) \/ FoundSooner(text, f, e)
      BY <1>2, <1>3, <1>5, <3>2 DEF FoundSooner
    <3> QED
      BY <2>1, <3>3
  <2>4. ASSUME NEW e \in S, NEW f \in S, f \in B[e], NEW g \in B[f]  PROVE g \in B[e]
    <3>1. g \in S /\ FoundSooner(text, g, f) /\ FoundSooner(text, f, e)
      BY <2>1, <2>4
    <3>2. FoundSooner(text, g, e)
      BY <1>2, <1>3, <3>1 DEF FoundSooner
    <3> QED
      BY <2>1, <3>1, <3>2
  <2> QED
    BY <1>4, <2>1, <2>2, <2>3, <2>4 DEF StrictOrder
<1>7. n \in Nat
  BY <1>4, FS_CardinalityType
<1>8. \A k \in 1 .. n : \E e \in S : Cardinality({f \in S : FoundSooner(text, f, e)}) = k - 1
  <2>1. TAKE k \in 1 .. n
  <2>2. PICK e \in S : Cardinality(B[e]) = k - 1
    BY <1>6, EveryPlaceTaken
  <2> QED
    BY <2>2
<1>9. m = [k \in 1 .. n |-> CHOOSE e \in S : Cardinality({f \in S : FoundSooner(text, f, e)}) = k - 1]
  BY DEF ExtractEntityMentions, SortedBy
<1>10. \A k \in 1 .. n : m[k] \in S /\ Cardinality({f \in S : FoundSooner(text, f, m[k])}) = k - 1
  BY <1>8, <1>9
<1>11. DOMAIN m = 1 .. n /\ m = [k \in 1 .. n |-> m[k]]
  BY <1>9
<1> HIDE DEF m
<1>12. \A k \in 1 .. n : m[k] \in S /\ Cardinality(B[m[k]]) = k - 1
  BY <1>10
<1> HIDE DEF B, S, n
<1>13. \A i, j \in 1 .. n : i # j => m[i] # m[j]
  BY <1>12
<1>14. ASSUME NEW e \in S  PROVE \E k \in 1 .. n : m[k] = e
  <2>1. Cardinality(B[e]) \in 0 .. n - 1
    BY <1>6, PlacesApart DEF n
  <2> DEFINE k == Cardinality(B[e]) + 1
  <2>2. k \in 1 .. n /\ Cardinality(B[m[k]]) = Cardinality(B[e])
    BY <1>7, <1>12, <2>1
  <2>3. m[k] = e
    BY <1>6, <1>12, <2>2, PlacesApart
  <2> QED
    BY <2>2, <2>3
<1> QED
  BY <1>7, <1>11, <1>12, <1>13, <1>14 DEF n, S, m

LEMMA ConcatHolds ==
  ASSUME NEW S, NEW s \in Seq(S), NEW t \in Seq(S)
  PROVE  s \o t \in Seq(S) /\ ToSet(s \o t) = ToSet(s) \cup ToSet(t)
<1> DEFINE u == s \o t
<1>1. /\ Len(s) \in Nat /\ DOMAIN s = 1 .. Len(s) /\ Len(t) \in Nat /\ DOMAIN t = 1 .. Len(t)
      /\ u \in Seq(S) /\ Len(u) = Len(s) + Len(t)
      /\ \A i \in 1 .. Len(s) + Len(t) : u[i] = IF i <= Len(s) THEN s[i] ELSE t[i - Len(s)]
  BY LenProperties, ConcatProperties
<1> HIDE DEF u
<1>2. DOMAIN u = 1 .. Len(u)
  BY <1>1, LenProperties
<1>3. ToSet(u) \subseteq ToSet(s) \cup ToSet(t)
  <2>1. ASSUME NEW i \in DOMAIN u  PROVE u[i] \in ToSet(s) \cup ToSet(t)
    <3>1. CASE i <= Len(s)
      BY <1>1, <1>2, <3>1 DEF ToSet
    <3>2. CASE ~ (i <= Len(s))
      <4>1. i - Len(s) \in DOMAIN t /\ u[i] = t[i - Len(s)]
        BY <1>1, <1>2, <3>2
      <4> QED
        BY <4>1 DEF ToSet
    <3> QED
      BY <3>1, <3>2
  <2> QED
    BY <2>1 DEF ToSet
<1>4. ToSet(s) \subseteq ToSet(u)
  <2>1. \A i \in DOMAIN s : i \in DOMAIN u /\ u[i] = s[i]
    BY <1>1, <1>2
  <2> QED
    BY <2>1 DEF ToSet
<1>5. ASSUME NEW j \in DOMAIN t  PROVE t[j] \in ToSet(u)
  <2>1. Len(s) + j \in DOMAIN u /\ u[Len(s) + j] = t[j]
    BY <1>1, <1>2
  <2> QED
    BY <2>1 DEF ToSet
<1> QED
  BY <1>1, <1>3, <1>4, <1>5 DEF u, ToSet

LEMMA CappedHolds ==
  ASSUME NEW s, NEW n \in Nat, DOMAIN s = 1 .. n, s = [i \in 1 .. n |-> s[i]], NEW max \in Nat,
         \A i, j \in 1 .. n : i # j => s[i] # s[j]
  PROVE  LET t == Capped(s, max)
         IN  /\ IsSeq(t) /\ IsFiniteSet(ToSet(t)) /\ ToSet(t) \subseteq ToSet(s)
             /\ ToSet(t) = ToSet(s) \/ Cardinality(ToSet(t)) = max
<1> DEFINE m == IF n < max THEN n ELSE max
           t == SubSeq(s, 1, m)
<1>1. s \in Seq(ToSet(s)) /\ Len(s) = n
  <2>1. s \in [1 .. n -> ToSet(s)]
    BY DEF ToSet
  <2>2. s \in Seq(ToSet(s))
    BY <2>1, SeqDef
  <2> QED
    BY <2>2, LenProperties
<1>2. m \in Nat /\ m <= n /\ m <= max /\ (m = n \/ m = max)
  OBVIOUS
<1>3. \A i \in 1 .. m : s[i] \in ToSet(s)
  BY <1>2 DEF ToSet
<1>4. t = Capped(s, max)
  BY <1>1 DEF Capped
<1>5. t \in Seq(ToSet(s)) /\ Len(t) = m /\ \A i \in 1 .. m : t[i] = s[i]
  <2> HIDE DEF m
  <2> QED
    BY <1>2, <1>3, SubSeqProperties
<1> HIDE DEF m, t
<1>6. t \in [1 .. m -> ToSet(s)] /\ DOMAIN t = 1 .. m
  BY <1>5, LenProperties
<1>7. IsSeq(t) /\ ToSet(t) \subseteq ToSet(s)
  BY <1>2, <1>6 DEF IsSeq, ToSet
<1>8. t \in Bijection(1 .. m, ToSet(t))
  <2>1. t \in [1 .. m -> ToSet(t)]
    BY <1>6 DEF ToSet
  <2>2. \A i, j \in 1 .. m : t[i] = t[j] => i = j
    <3>1. \A i \in 1 .. m : i \in 1 .. n /\ t[i] = s[i]
      BY <1>2, <1>5
    <3> QED
      BY <3>1
  <2>3. \A e \in ToSet(t) : \E i \in 1 .. m : t[i] = e
    BY <1>6 DEF ToSet
  <2> QED
    BY <2>1, <2>2, <2>3, Fun_IsBij
<1>9. IsFiniteSet(1 .. m) /\ Cardinality(1 .. m) = m
  <2>1. 1 \in Int /\ m \in Int
    BY <1>2
  <2>2. /\ IsFiniteSet(1 .. m)
        /\ Cardinality(1 .. m) = IF 1 > m THEN 0 ELSE m - 1 + 1
    BY <2>1, FS_Interval
  <2> QED
    BY <1>2, <2>2
<1>10. IsFiniteSet(ToSet(t)) /\ Cardinality(ToSet(t)) = m
  BY <1>8, <1>9, FS_Bijection DEF ExistsBijection
<1>11. m = n => ToSet(t) = ToSet(s)
  BY <1>5, <1>6 DEF ToSet
<1> QED
  BY <1>2, <1>4, <1>7, <1>10, <1>11

\* What is mentioned is in the text, its title or its uri; and what is in the
\* text is mentioned, unless the cap is reached.
LEMMA RelationshipsAre ==
  ASSUME NEW m \in DOMAIN Relationships
  PROVE  Relationships[m] = RelationshipsOf(m)
BY DEF Relationships

LEMMA MentionsHold ==
  ASSUME NEW text \in Texts, NEW title \in Texts, NEW uri \in Texts
  PROVE  LET m == Mentions[text][title][uri]
             own == ToSet(EntitiesOf[text])
         IN  /\ m \in DOMAIN Relationships /\ IsSeq(m) /\ IsFiniteSet(ToSet(m))
             /\ ToSet(m) \subseteq own \cup ToSet(EntitiesOf[title]) \cup ToSet(EntitiesOf[uri])
             /\ own \subseteq ToSet(m) \/ Cardinality(ToSet(m)) = MaxMentions
<1> DEFINE words == ExtractionText(text, title, uri)
           all == ExtractEntityMentions(words)
           m == Mentions[text][title][uri]
           n == Cardinality(ToSet(words))
<1>1. m = Capped(all, MaxMentions)
  BY DEF Mentions, Texts
<1>2. m \in DOMAIN Relationships
  BY DEF Relationships
<1>3. /\ words \in Seq(DOMAIN FoundBy)
      /\ ToSet(words) = ToSet(EntitiesOf[text]) \cup ToSet(EntitiesOf[title]) \cup ToSet(EntitiesOf[uri])
  <2>1. /\ EntitiesOf[text] \in Seq(DOMAIN FoundBy) /\ EntitiesOf[title] \in Seq(DOMAIN FoundBy)
        /\ EntitiesOf[uri] \in Seq(DOMAIN FoundBy)
    BY GraphAssumption
  <2> DEFINE named == EntitiesOf[text] \o EntitiesOf[title]
  <2>2. /\ named \in Seq(DOMAIN FoundBy)
        /\ ToSet(named) = ToSet(EntitiesOf[text]) \cup ToSet(EntitiesOf[title])
    BY <2>1, ConcatHolds
  <2>3. words = named \o EntitiesOf[uri]
    BY DEF ExtractionText
  <2> HIDE DEF named, words
  <2> QED
    BY <2>1, <2>2, <2>3, ConcatHolds
<1> HIDE DEF words, m
<1>4. /\ n \in Nat /\ DOMAIN all = 1 .. n /\ all = [k \in 1 .. n |-> all[k]]
      /\ \A k \in DOMAIN all : all[k] \in ToSet(words)
      /\ \A e \in ToSet(words) : \E k \in DOMAIN all : all[k] = e
      /\ \A i, j \in DOMAIN all : i # j => all[i] # all[j]
  BY <1>3, ExtractsEach
<1> HIDE DEF all, n
<1>5. ToSet(all) = ToSet(words)
  BY <1>4 DEF ToSet
<1>6. /\ IsSeq(m) /\ IsFiniteSet(ToSet(m)) /\ ToSet(m) \subseteq ToSet(all)
      /\ ToSet(m) = ToSet(all) \/ Cardinality(ToSet(m)) = MaxMentions
  <2>1. \A i, j \in 1 .. n : i # j => all[i] # all[j]
    BY <1>4
  <2>2. MaxMentions \in Nat
    BY GraphAssumption
  <2>3. /\ IsSeq(Capped(all, MaxMentions)) /\ IsFiniteSet(ToSet(Capped(all, MaxMentions)))
        /\ ToSet(Capped(all, MaxMentions)) \subseteq ToSet(all)
        /\ \/ ToSet(Capped(all, MaxMentions)) = ToSet(all)
           \/ Cardinality(ToSet(Capped(all, MaxMentions))) = MaxMentions
    BY <1>4, <2>1, <2>2, CappedHolds
  <2> QED
    BY <1>1, <2>3
<1> QED
  BY <1>2, <1>3, <1>5, <1>6 DEF m

LEMMA ImageFinite ==
  ASSUME NEW f, NEW S, IsFiniteSet(S), f = [x \in S |-> f[x]]
  PROVE  IsFiniteSet({f[x] : x \in S})
<1> DEFINE T == {f[x] : x \in S}
<1>1. f \in Surjection(S, T)
  BY DEF Surjection
<1> HIDE DEF T
<1>2. IsFiniteSet(T)
  BY <1>1, FS_Surjection
<1> QED
  BY <1>2 DEF T

\* The ends of a relationship are mentions.
LEMMA RelationshipsHold ==
  ASSUME NEW m, IsSeq(m)
  PROVE  /\ IsFiniteSet(RelationshipsOf(m))
         /\ \A r \in RelationshipsOf(m) : r.ends # {} /\ r.ends \subseteq ToSet(m)
<1> DEFINE named == {i \in DOMAIN m : ~IsDate(m[i])}
           dates == {i \in DOMAIN m : IsDate(m[i]) /\ m[i] \in ValidDates}
           pairs == {p \in named \X named : p[1] < p[2]} \cup (dates \X named)
           type(p) == IF p[1] \in dates THEN "temporal_context" ELSE "co_mentions"
           before(p) == {q \in pairs :
                            \/ q[1] \in named /\ p[1] \in dates
                            \/ type(q) = type(p) /\ (q[1] < p[1] \/ (q[1] = p[1] /\ q[2] < p[2]))}
           kept == {q \in pairs : Cardinality(before(q)) < MaxRelationships}
           related == [p \in kept |-> [ends |-> {m[p[1]], m[p[2]]}, type |-> type(p)]]
<1>1. RelationshipsOf(m) = {related[p] : p \in kept}
  BY DEF RelationshipsOf
<1>2. kept \subseteq (DOMAIN m) \X (DOMAIN m)
  OBVIOUS
<1>3. related = [p \in kept |-> related[p]]
  OBVIOUS
<1>4. \A p \in kept : related[p].ends = {m[p[1]], m[p[2]]}
  OBVIOUS
<1> HIDE DEF related, kept
<1>5. IsFiniteSet(kept)
  <2>1. IsFiniteSet(DOMAIN m)
    <3>1. PICK n \in Nat : DOMAIN m = 1 .. n
      BY DEF IsSeq
    <3> QED
      BY <3>1, FS_Interval
  <2>2. IsFiniteSet((DOMAIN m) \X (DOMAIN m))
    BY <2>1, FS_Product
  <2> QED
    BY <1>2, <2>2, FS_Subset
<1>6. IsFiniteSet(RelationshipsOf(m))
  BY <1>1, <1>3, <1>5, ImageFinite
<1>7. \A p \in kept : related[p].ends # {} /\ related[p].ends \subseteq ToSet(m)
  BY <1>2, <1>4 DEF ToSet
<1> QED
  BY <1>1, <1>6, <1>7

-----------------------------------------------------------------------------
(***************************************************************************)
(* The graph of every row is the one extracted from its text and from a    *)
(* title and a uri that a source has had, which some call or the start     *)
(* brought.                                                                *)
(***************************************************************************)
Adds == {call[c] : c \in {d \in Clients : call[d].op = "add"}}
Titles == {s.title : s \in Adds \cup ToSet(StoredSources)}
Uris == {s.uri : s \in Adds \cup ToSet(StoredSources)}

GraphOf(row) ==
    \E title \in Titles, uri \in Uris :
        /\ row.text \in Texts /\ title \in Texts /\ uri \in Texts
        /\ row.mentions = ToSet(Mentions[row.text][title][uri])
        /\ row.relationships = Relationships[Mentions[row.text][title][uri]]

SourceOK(s) == IsSource(s) /\ s.title \in Titles /\ s.uri \in Uris

RowKept(row) ==
    /\ GraphOf(row)
    /\ row.source \in DOMAIN sources
    /\ row.mentions \subseteq entities

BareKept(i) ==
    RestoredBare(i) /\ records[i].text \in Texts /\ records[i].source \in DOMAIN sources

IsAdd(q) ==
    /\ {"op", "text", "title", "uri"} \subseteq DOMAIN q
    /\ {q.text, q.title, q.uri} \subseteq Texts

GraphClient(c) ==
    /\ call[c].op = "add" => IsAdd(call[c])
    /\ call[c].op = "update" => call[c].text \in Texts \cup {Keep}
    /\ pc[c] = "source" => /\ tx[c].source = 0 \/ tx[c].source \in DOMAIN sources
                           /\ tx[c].uri \in Uris \cap Texts
    /\ pc[c] \in {"update", "entities"} => 
        /\ call[c].op = "update" => tx[c].read.text \in Texts
        /\ SourceOK(tx[c].row)
    /\ pc[c] = "entities" =>
        /\ GraphOf(tx[c].next)
        /\ call[c].op = "add" => tx[c].source = 0 \/ tx[c].source \in DOMAIN sources

GraphInv ==
    /\ UpdateInv
    /\ IsSeq(sources)
    /\ \A i \in DOMAIN sources : SourceOK(sources[i])
    /\ \A i \in Ids : RowKept(records[i]) \/ BareKept(i)
    /\ \A c \in Clients : GraphClient(c)

\* A client's call is the one it has made, but for the id an add is given.
CallKept(c) ==
    \/ call' = call
    \/ /\ call[c].op = "add"
       /\ \E id : call' = [call EXCEPT ![c] = [call[c] EXCEPT !.id = id]]

GraphStep(c) ==
    /\ StepOK(c) /\ CallKept(c)
    /\ IsSeq(sources') /\ DOMAIN sources \subseteq DOMAIN sources'
    /\ \A i \in DOMAIN sources' : SourceOK(sources'[i])
    /\ entities \subseteq entities'
    /\ \A i \in Ids' :
        \/ /\ i \in Ids
           /\ \A f \in {"text", "mentions", "relationships", "source"} : records'[i][f] = records[i][f]
           /\ HasUpdated(c)' /\ call[c].id = i => HasUpdated(c)
        \/ /\ GraphOf(records'[i]) /\ records'[i].source \in DOMAIN sources'
           /\ records'[i].mentions \subseteq entities'
    /\ GraphClient(c)'

LEMMA CallFields ==
  ASSUME GraphInv, NEW c \in Clients, CallKept(c), NEW d \in Clients
  PROVE  /\ call'[d].op = call[d].op /\ DOMAIN call'[d] = DOMAIN call[d]
         /\ call[d].op = "add" =>
                call'[d].text = call[d].text /\ call'[d].title = call[d].title
                    /\ call'[d].uri = call[d].uri
         /\ call[d].op # "add" => call'[d] = call[d]
<1>1. CASE call' = call \/ c # d
  BY <1>1 DEF CallKept, GraphInv, UpdateInv, Shape
<1>2. CASE c = d /\ call[c].op = "add"
  <2>1. PICK id : call' = call \/ call'[c] = [call[c] EXCEPT !.id = id]
    BY DEF CallKept, GraphInv, UpdateInv, Shape
  <2>2. {"op", "text", "title", "uri"} \subseteq DOMAIN call[c]
    BY <1>2 DEF GraphInv, GraphClient, IsAdd
  <2> QED
    BY <1>2, <2>1, <2>2
<1> QED
  BY <1>1, <1>2 DEF CallKept

LEMMA LentKept ==
  ASSUME GraphInv, NEW c \in Clients, CallKept(c)
  PROVE  /\ Titles' = Titles /\ Uris' = Uris
         /\ \A row : GraphOf(row)' <=> GraphOf(row)
         /\ \A s : SourceOK(s)' <=> SourceOK(s)
<1>1. \A d \in Clients : call'[d].op = call[d].op
        /\ (call[d].op = "add" => call'[d].title = call[d].title /\ call'[d].uri = call[d].uri)
  BY CallFields
<1>2. Titles' = Titles
  BY <1>1 DEF Titles, Adds
<1>3. Uris' = Uris
  BY <1>1 DEF Uris, Adds
<1> QED
  BY <1>2, <1>3 DEF GraphOf, SourceOK

LEMMA GraphStepKeeps ==
  ASSUME GraphInv, NEW c \in Clients, GraphStep(c)
  PROVE  GraphInv'
<1>1. /\ Titles' = Titles /\ Uris' = Uris
      /\ \A row : GraphOf(row)' <=> GraphOf(row)
      /\ \A s : SourceOK(s)' <=> SourceOK(s)
  BY LentKept DEF GraphStep
<1>2. UpdateInv'
  BY StepPreserves DEF GraphInv, GraphStep
<1>3. \A i \in DOMAIN sources' : SourceOK(sources[i])'
  BY <1>1 DEF GraphStep, SourceOK
<1>4. ASSUME NEW i \in Ids'  PROVE RowKept(records[i])' \/ BareKept(i)'
  <2>1. CASE /\ i \in Ids
             /\ \A f \in {"text", "mentions", "relationships", "source"} :
                    records'[i][f] = records[i][f]
             /\ HasUpdated(c)' /\ call[c].id = i => HasUpdated(c)
    <3>1. CASE RowKept(records[i])
      BY <1>1, <2>1, <3>1 DEF RowKept, GraphOf, GraphStep
    <3>2. CASE BareKept(i)
      <4>1. ASSUME NEW d \in Clients, HasUpdated(d)'  PROVE call'[d].id # i
        <5>1. CASE d = c
          <6>1. call[c].op # "add"
            BY <4>1, <5>1, CallFields DEF HasUpdated, GraphStep
          <6>2. call' = call
            BY <6>1 DEF GraphStep, CallKept
          <6> QED
            BY <2>1, <3>2, <4>1, <5>1, <6>2 DEF BareKept, RestoredBare
        <5>2. CASE d # c
          <6>1. call'[d] = call[d] /\ pc'[d] = pc[d] /\ tx'[d] = tx[d]
            BY <5>2 DEF GraphStep, StepOK, Frame
          <6> QED
            BY <3>2, <4>1, <6>1 DEF BareKept, RestoredBare, HasUpdated
        <5> QED
          BY <5>1, <5>2
      <4>2. BareKept(i)'
        BY <2>1, <3>2, <4>1 DEF BareKept, RestoredBare, HasNoGraph, GraphStep
      <4> QED
        BY <4>2
    <3> QED
      BY <2>1, <3>1, <3>2 DEF GraphInv
  <2>2. CASE /\ GraphOf(records'[i]) /\ records'[i].source \in DOMAIN sources'
             /\ records'[i].mentions \subseteq entities'
    BY <1>1, <2>2 DEF RowKept, GraphOf
  <2> QED
    BY <2>1, <2>2 DEF GraphStep
<1>5. ASSUME NEW d \in Clients \ {c}  PROVE GraphClient(d)'
  <2>1. call'[d] = call[d] /\ pc'[d] = pc[d] /\ tx'[d] = tx[d] /\ DOMAIN sources \subseteq DOMAIN sources'
    BY DEF GraphStep, StepOK, Frame
  <2>2. GraphClient(d)
    BY DEF GraphInv
  <2> QED
    BY <1>1, <2>1, <2>2 DEF GraphClient, IsAdd, GraphOf, SourceOK
<1> QED
  BY <1>2, <1>3, <1>4, <1>5 DEF GraphInv, GraphStep

LEMMA GraphInit == Init => GraphInv
<1>1. SUFFICES ASSUME Init PROVE GraphInv
  OBVIOUS
<1>2. UpdateInv
  BY <1>1, UpdateInit
<1>3. /\ records = Stored /\ sources = StoredSources /\ call \in Workloads
      /\ entities = UNION {Stored[i].mentions : i \in DOMAIN Stored}
      /\ pc = [c \in Clients |-> "ready"]
  BY <1>1 DEF Init, RepositoryInit
<1>4. IsSeq(sources)
  <2>1. sources \in Seq(ToSet(StoredSources))
    BY <1>3, StoredAssumption
  <2>2. Len(sources) \in Nat /\ sources \in [1 .. Len(sources) -> ToSet(StoredSources)]
    BY <2>1, LenProperties
  <2> QED
    BY <2>2 DEF IsSeq
<1>5. \A s \in ToSet(StoredSources) : SourceOK(s)
  BY StoredAssumption DEF SourceOK, Titles, Uris
<1>6. \A i \in DOMAIN sources : SourceOK(sources[i])
  BY <1>3, <1>5 DEF ToSet
<1>7. ASSUME NEW i \in Ids  PROVE RowKept(records[i]) \/ BareKept(i)
  <2> DEFINE row == Stored[i]
  <2>1. i \in DOMAIN Stored /\ records[i] = row
    BY <1>3 DEF Ids
  <2>2. IsRow(row) /\ row.text \in Texts /\ row.source \in DOMAIN StoredSources
    BY <2>1, StoredAssumption, RecordsAssumption
  <2>3. CASE HasNoGraph(row)
    <3>1. \A c \in Clients : tx[c].next = NoRow
      BY <1>1 DEF Init, RepositoryInit, NoTx
    <3> QED
      BY <1>3, <2>1, <2>2, <2>3, <3>1 DEF BareKept, RestoredBare, HasUpdated
  <2>4. CASE ~ HasNoGraph(row)
    <3>1. PICK s \in ToSet(StoredSources) : row = WithGraph(row, MentionsOf(row.text, s))
      BY <2>1, <2>4, StoredAssumption
    <3>2. /\ row.mentions = ToSet(MentionsOf(row.text, s))
          /\ row.relationships = Relationships[MentionsOf(row.text, s)]
      <4>1. row.mentions = WithGraph(row, MentionsOf(row.text, s)).mentions
              /\ row.relationships = WithGraph(row, MentionsOf(row.text, s)).relationships
        BY <3>1
      <4> HIDE DEF row
      <4> QED
        BY <2>2, <4>1 DEF WithGraph, IsRow, RowFields
    <3>3. s.title \in Titles /\ s.uri \in Uris /\ s.title \in Texts /\ s.uri \in Texts
      BY <1>5 DEF SourceOK, IsSource
    <3>4. GraphOf(row)
      BY <2>2, <3>2, <3>3 DEF GraphOf, MentionsOf
    <3>5. row.mentions \subseteq entities
      BY <1>3, <2>1
    <3> QED
      BY <1>3, <2>1, <2>2, <3>4, <3>5 DEF RowKept
  <2> QED
    BY <2>3, <2>4
<1>8. ASSUME NEW c \in Clients  PROVE GraphClient(c)
  BY <1>3, CallsAssumption DEF GraphClient, IsAdd
<1> QED
  BY <1>2, <1>4, <1>6, <1>7, <1>8 DEF GraphInv

\* A step that touches neither row nor source, and leaves the transaction where it is.
LEMMA GraphIdle ==
  ASSUME GraphInv, NEW c \in Clients, StepOK(c), UNCHANGED <<records, sources, entities, call>>,
         pc'[c] \notin {"source", "update", "entities"}, HasUpdated(c)' => HasUpdated(c)
  PROVE  GraphInv'
<1>1. CallKept(c)
  BY DEF CallKept
<1>2. \A s : SourceOK(s)' <=> SourceOK(s)
  BY <1>1, LentKept
<1>3. GraphClient(c)'
  BY DEF GraphInv, GraphClient, IsAdd
<1>4. GraphStep(c)
  BY <1>1, <1>2, <1>3 DEF GraphStep, GraphInv, Ids
<1> QED
  BY <1>4, GraphStepKeeps

-----------------------------------------------------------------------------
(* The steps of a transaction, and the graph *)

LEMMA WithGraphHolds ==
  ASSUME NEW row, IsRow(row), row.text \in Texts, NEW s, SourceOK(s)
  PROVE  GraphOf(WithGraph(row, MentionsOf(row.text, s)))
<1> DEFINE m == Mentions[row.text][s.title][s.uri]
           new == WithGraph(row, m)
<1>1. new.text = row.text /\ new.mentions = ToSet(m) /\ new.relationships = Relationships[m]
  BY DEF WithGraph, IsRow, RowFields
<1>2. s.title \in Titles /\ s.uri \in Uris /\ s.title \in Texts /\ s.uri \in Texts
  BY DEF SourceOK, IsSource
<1>3. MentionsOf(row.text, s) = m
  BY DEF MentionsOf
<1>4. GraphOf(new)
  <2> HIDE DEF new
  <2> QED
    BY <1>1, <1>2 DEF GraphOf
<1> QED
  BY <1>3, <1>4

\* What client c's call brings, if it adds.
LEMMA Brought ==
  ASSUME GraphInv, NEW c \in Clients, call[c].op = "add"
  PROVE  /\ call[c].title \in Titles \cap Texts /\ call[c].uri \in Uris \cap Texts
         /\ call[c].text \in Texts
<1>1. call[c] \in Adds
  BY DEF Adds
<1>2. IsAdd(call[c])
  BY DEF GraphInv, GraphClient
<1> QED
  BY <1>1, <1>2 DEF Titles, Uris, IsAdd

LEMMA AddMemoryGraph ==
  ASSUME GraphInv, NEW c \in Clients, AddMemory(c)
  PROVE  GraphStep(c)
<1> DEFINE found == SourcesWithKey(call[c].key)
           id == IF found = {} THEN 0 ELSE Lowest(found)
           uri == IF id = 0 THEN call[c].uri ELSE Given(call[c].uri, sources[id].uri)
           t == [NoTx EXCEPT !.source = id, !.uri = uri]
<1>1. /\ call[c].op = "add" /\ tx' = [tx EXCEPT ![c] = t]
      /\ pc' = [pc EXCEPT ![c] = "source"]
      /\ UNCHANGED <<records, sources, entities, call, held>>
  BY DEF AddMemory
<1>2. id = 0 \/ id \in DOMAIN sources
  <2>1. PICK n \in Nat : DOMAIN sources = 1 .. n
    BY DEF GraphInv, IsSeq
  <2>2. found \subseteq 1 .. n
    BY <2>1 DEF SourcesWithKey
  <2> HIDE DEF found
  <2> QED
    BY <2>1, <2>2, LowestIsFirst
<1>3. uri \in Uris \cap Texts
  <2> HIDE DEF id
  <2>1. call[c].uri \in Uris \cap Texts
    BY <1>1, Brought
  <2>2. id \in DOMAIN sources => sources[id].uri \in Uris \cap Texts
    BY DEF GraphInv, SourceOK, IsSource
  <2> QED
    BY <1>2, <2>1, <2>2 DEF Given
<1>4. t.source = id /\ t.uri = uri
  BY DEF NoTx
<1> HIDE DEF t, id, uri
<1>5. tx'[c] = t /\ pc'[c] = "source"
  BY <1>1 DEF GraphInv, UpdateInv, Shape
<1>6. StepOK(c) /\ CallKept(c)
  BY <1>1, AddSteps DEF GraphInv, CallKept
<1>7. Uris' = Uris /\ \A s : SourceOK(s)' <=> SourceOK(s)
  BY <1>6, LentKept
<1>8. GraphClient(c)'
  BY <1>1, <1>2, <1>3, <1>4, <1>5, <1>7 DEF GraphInv, GraphClient, IsAdd
<1>9. ~ HasUpdated(c)'
  BY <1>1 DEF HasUpdated
<1> QED
  BY <1>1, <1>6, <1>7, <1>8, <1>9 DEF GraphStep, GraphInv, Ids

LEMMA WriteSourceGraph ==
  ASSUME GraphInv, NEW c \in Clients, WriteSource(c)
  PROVE  GraphStep(c)
<1> DEFINE id == tx[c].source
           row == IF id = 0
                  THEN [key |-> call[c].key, title |-> call[c].title, uri |-> tx[c].uri]
                  ELSE [sources[id] EXCEPT !.title = Given(call[c].title, @), !.uri = tx[c].uri]
           mentions == MentionsOf(call[c].text, row)
           new == WithGraph(NewRow(c, id), mentions)
           t == [tx[c] EXCEPT !.row = row, !.next = new, !.want = mentions]
<1>1. /\ pc[c] = "source" /\ tx' = [tx EXCEPT ![c] = t]
      /\ pc' = [pc EXCEPT ![c] = "entities"]
      /\ UNCHANGED <<records, sources, entities, call>>
  BY DEF WriteSource
<1>2. /\ call[c].op = "add" /\ tx[c].uri \in Uris \cap Texts
      /\ id = 0 \/ id \in DOMAIN sources
  BY <1>1 DEF GraphInv, GraphClient, UpdateInv, ClientOK
<1>3. SourceOK(row)
  <2>1. call[c].title \in Titles \cap Texts
    BY <1>2, Brought
  <2>2. CASE id = 0
    BY <1>2, <2>1, <2>2 DEF SourceOK, IsSource
  <2>3. CASE id # 0
    <3> DEFINE title == Given(call[c].title, sources[id].title)
               s == [sources[id] EXCEPT !.title = title, !.uri = tx[c].uri]
    <3>1. SourceOK(sources[id])
      BY <1>2, <2>3 DEF GraphInv
    <3>2. title \in Titles \cap Texts
      BY <2>1, <3>1 DEF Given, SourceOK, IsSource
    <3> HIDE DEF title
    <3>3. SourceOK(s)
      BY <1>2, <3>1, <3>2 DEF SourceOK, IsSource
    <3> QED
      BY <2>3, <3>3 DEF title
  <2> QED
    BY <2>2, <2>3
<1>4. GraphOf(new)
  <2>1. IsRow(NewRow(c, id)) /\ NewRow(c, id).text = call[c].text
    BY DEF NewRow, IsRow, RowFields
  <2>2. call[c].text \in Texts
    BY <1>2, Brought
  <2> HIDE DEF row
  <2> QED
    BY <1>3, <2>1, <2>2, WithGraphHolds
<1> HIDE DEF row, mentions, new
<1>5. t.source = id /\ t.row = row /\ t.next = new
  BY DEF GraphInv, UpdateInv, Shape, IsTx
<1> HIDE DEF t, id
<1>6. tx'[c] = t /\ pc'[c] = "entities"
  BY <1>1 DEF GraphInv, UpdateInv, Shape
<1>7. StepOK(c) /\ CallKept(c)
  BY <1>1, AddSteps DEF GraphInv, CallKept
<1>8. /\ \A s : SourceOK(s)' <=> SourceOK(s)
      /\ \A r : GraphOf(r)' <=> GraphOf(r)
  BY <1>7, LentKept
<1>9. GraphClient(c)'
  <2>1. call'[c] = call[c] /\ IsAdd(call[c])
    BY <1>1, <1>2 DEF GraphInv, GraphClient
  <2>2. SourceOK(tx[c].row)'
    BY <1>3, <1>5, <1>6, <1>8 DEF SourceOK
  <2>3. GraphOf(tx[c].next)'
    BY <1>4, <1>5, <1>6, <1>8 DEF GraphOf
  <2> QED
    BY <1>1, <1>2, <1>5, <1>6, <2>1, <2>2, <2>3 DEF GraphClient, IsAdd
<1>10. ~ HasUpdated(c)'
  BY <1>6 DEF HasUpdated
<1> QED
  BY <1>1, <1>7, <1>8, <1>9, <1>10 DEF GraphStep, GraphInv, Ids

LEMMA ReadForUpdateGraph ==
  ASSUME GraphInv, NEW c \in Clients, ReadForUpdate(c)
  PROVE  GraphStep(c)
<1>1. call[c].op = "update" /\ UNCHANGED <<records, sources, entities, call, held>>
  BY DEF ReadForUpdate
<1>2. StepOK(c) /\ CallKept(c)
  BY <1>1, UpdateSteps DEF GraphInv, CallKept
<1>3. \A s : SourceOK(s)' <=> SourceOK(s)
  BY <1>2, LentKept
<1>4. GraphClient(c)'
  <2>1. call[c].text \in Texts \cup {Keep}
    BY <1>1 DEF GraphInv, GraphClient
  <2>2. CASE call[c].id \in Ids
    <3> DEFINE old == records[call[c].id]
               t == [NoTx EXCEPT !.read = old, !.row = sources[old.source]]
    <3>1. tx' = [tx EXCEPT ![c] = t] /\ pc' = [pc EXCEPT ![c] = "update"]
      BY <2>2 DEF ReadForUpdate
    <3>2. t.read = old /\ t.row = sources[old.source]
      BY DEF NoTx
    <3>3. old.text \in Texts /\ old.source \in DOMAIN sources
      BY <2>2 DEF GraphInv, RowKept, GraphOf, BareKept
    <3>4. SourceOK(sources[old.source])
      BY <3>3 DEF GraphInv
    <3> HIDE DEF t
    <3>5. tx'[c] = t /\ pc'[c] = "update"
      BY <3>1 DEF GraphInv, UpdateInv, Shape
    <3>6. SourceOK(tx[c].row)'
      BY <1>3, <3>2, <3>4, <3>5 DEF SourceOK
    <3> QED
      BY <1>1, <2>1, <3>2, <3>3, <3>5, <3>6 DEF GraphClient
  <2>3. CASE call[c].id \notin Ids
    <3>1. pc'[c] = "missing"
      BY <2>3 DEF ReadForUpdate, GraphInv, UpdateInv, Shape
    <3> QED
      BY <1>1, <2>1, <3>1 DEF GraphClient
  <2> QED
    BY <2>2, <2>3
<1>5. HasUpdated(c)' => HasUpdated(c)
  <2>1. pc[c] = "ready" /\ DOMAIN tx = Clients
    BY DEF ReadForUpdate, GraphInv, UpdateInv, Shape
  <2>2. CASE call[c].id \in Ids
    <3>1. PICK old, row : tx' = [tx EXCEPT ![c] = [NoTx EXCEPT !.read = old, !.row = row]]
      BY <2>2 DEF ReadForUpdate
    <3>2. tx'[c] = [NoTx EXCEPT !.read = old, !.row = row]
      BY <2>1, <3>1
    <3>3. tx'[c].next = NoRow
      BY <3>2 DEF NoTx
    <3> QED
      BY <3>3 DEF HasUpdated
  <2>3. CASE call[c].id \notin Ids
    BY <1>1, <2>1, <2>3 DEF HasUpdated, ReadForUpdate
  <2> QED
    BY <2>2, <2>3
<1> QED
  BY <1>1, <1>2, <1>3, <1>4, <1>5 DEF GraphStep, GraphInv, Ids

LEMMA AbortGraph ==
  ASSUME GraphInv, NEW c \in Clients, Abort(c)
  PROVE  GraphInv'
<1>1. UNCHANGED <<records, sources, entities, call>> /\ pc' = [pc EXCEPT ![c] = "failed"]
  BY DEF Abort
<1>2. StepOK(c) /\ pc'[c] = "failed" /\ tx'[c] = NoTx
  BY <1>1, AbortStep DEF Abort, GraphInv, UpdateInv, Shape
<1>3. ~ HasUpdated(c)'
  BY <1>2 DEF HasUpdated, NoTx
<1> QED
  BY <1>1, <1>2, <1>3, GraphIdle

LEMMA UpdateRowGraph ==
  ASSUME GraphInv, NEW c \in Clients, UpdateRow(c)
  PROVE  GraphInv'
<1>1. CASE call[c].id \notin Ids
  BY <1>1, AbortGraph DEF UpdateRow
<1>2. CASE call[c].id \in Ids
  <2> DEFINE row == UpdatedRow(c, records[call[c].id])
             mentions == MentionsOf(row.text, tx[c].row)
             new == WithGraph(row, mentions)
             t == [tx[c] EXCEPT !.next = new, !.want = mentions]
  <2>1. /\ pc[c] = "update" /\ tx' = [tx EXCEPT ![c] = t]
        /\ pc' = [pc EXCEPT ![c] = "entities"]
        /\ UNCHANGED <<records, sources, entities, call>>
    BY <1>2 DEF UpdateRow
  <2>2. call[c].op = "update"
    BY <2>1 DEF GraphInv, UpdateInv, ClientOK
  <2>3. /\ call[c].text \in Texts \cup {Keep} /\ tx[c].read.text \in Texts
        /\ SourceOK(tx[c].row)
    BY <2>1, <2>2 DEF GraphInv, GraphClient
  <2>4. GraphOf(new)
    <3>1. IsRow(records[call[c].id])
      BY <1>2 DEF GraphInv, UpdateInv, Shape
    <3>2. IsRow(row) /\ row.text = Given(call[c].text, tx[c].read.text)
      BY <3>1 DEF UpdatedRow, IsRow, RowFields
    <3>3. row.text \in Texts
      BY <2>3, <3>2 DEF Given
    <3> HIDE DEF row
    <3> QED
      BY <2>3, <3>2, <3>3, WithGraphHolds
  <2> HIDE DEF row, mentions, new
  <2>5. t.read = tx[c].read /\ t.row = tx[c].row /\ t.next = new
    BY DEF GraphInv, UpdateInv, Shape, IsTx
  <2> HIDE DEF t
  <2>6. tx'[c] = t /\ pc'[c] = "entities"
    BY <2>1 DEF GraphInv, UpdateInv, Shape
  <2>7. StepOK(c) /\ CallKept(c)
    BY <2>1, UpdateSteps DEF GraphInv, CallKept
  <2>8. /\ \A s : SourceOK(s)' <=> SourceOK(s)
        /\ \A r : GraphOf(r)' <=> GraphOf(r)
    BY <2>7, LentKept
  <2>9. GraphClient(c)'
    <3>1. SourceOK(tx[c].row)'
      BY <2>3, <2>5, <2>6, <2>8 DEF SourceOK
    <3>2. GraphOf(tx[c].next)'
      BY <2>4, <2>5, <2>6, <2>8 DEF GraphOf
    <3> QED
      BY <2>1, <2>2, <2>3, <2>5, <2>6, <3>1, <3>2 DEF GraphClient
  <2>10. GraphStep(c)
    <3>1. ~ HasUpdated(c)'
      BY <2>6 DEF HasUpdated
    <3> QED
      BY <2>1, <2>7, <2>8, <2>9, <3>1 DEF GraphStep, GraphInv, Ids
  <2> QED
    BY <2>10, GraphStepKeeps
<1> QED
  BY <1>1, <1>2

LEMMA LockEntityGraph ==
  ASSUME GraphInv, NEW c \in Clients, LockEntity(c)
  PROVE  GraphStep(c)
<1> DEFINE t == [tx[c] EXCEPT !.want = Tail(@)]
<1>1. /\ pc[c] = "entities" /\ tx' = [tx EXCEPT ![c] = t]
      /\ UNCHANGED <<records, sources, entities, call, pc>>
  BY DEF LockEntity
<1>2. /\ t.read = tx[c].read /\ t.row = tx[c].row /\ t.next = tx[c].next
      /\ t.source = tx[c].source
  BY DEF GraphInv, UpdateInv, Shape, IsTx
<1> HIDE DEF t
<1>3. tx'[c] = t
  BY <1>1 DEF GraphInv, UpdateInv, Shape
<1>4. StepOK(c) /\ CallKept(c)
  BY <1>1, LockEntityStep DEF GraphInv, CallKept
<1>5. /\ \A s : SourceOK(s)' <=> SourceOK(s)
      /\ \A r : GraphOf(r)' <=> GraphOf(r)
  BY <1>4, LentKept
<1>6. GraphClient(c)
  BY DEF GraphInv
<1>7. GraphClient(c)'
  <2>1. SourceOK(tx[c].row)' /\ GraphOf(tx[c].next)'
    <3>1. SourceOK(tx[c].row) /\ GraphOf(tx[c].next)
      BY <1>1, <1>6 DEF GraphClient
    <3>2. tx'[c].row = tx[c].row /\ tx'[c].next = tx[c].next
      BY <1>2, <1>3
    <3>3. SourceOK(tx[c].row)'
      BY <1>5, <3>1, <3>2 DEF SourceOK
    <3>4. GraphOf(tx[c].next)'
      BY <1>5, <3>1, <3>2 DEF GraphOf
    <3> QED
      BY <3>3, <3>4
  <2> QED
    BY <1>1, <1>2, <1>3, <1>6, <2>1 DEF GraphClient, IsAdd
<1>8. ~ HasUpdated(c)'
  BY <1>1 DEF HasUpdated
<1> QED
  BY <1>1, <1>4, <1>5, <1>7, <1>8 DEF GraphStep, GraphInv, Ids

LEMMA AppendReaches ==
  ASSUME NEW s, IsSeq(s), NEW x
  PROVE  Len(s) + 1 \in DOMAIN Append(s, x)
<1>1. PICK n \in Nat : DOMAIN s = 1..n /\ s = [i \in 1..n |-> s[i]]
  BY DEF IsSeq
<1> DEFINE S == {s[i] : i \in 1..n} \cup {x}
           t == Append(s, x)
<1>2. s \in [1..n -> S]
  BY <1>1
<1>3. s \in Seq(S) /\ x \in S
  BY <1>2, SeqDef
<1>4. Len(s) = n
  BY <1>1, <1>3, LenProperties
<1>5. t \in Seq(S) /\ Len(t) = n + 1
  BY <1>3, <1>4, AppendProperties
<1> HIDE DEF S, t
<1>6. DOMAIN t = 1 .. (n + 1)
  BY <1>5, LenProperties
<1>7. n + 1 \in 1 .. (n + 1)
  OBVIOUS
<1> QED
  BY <1>4, <1>6, <1>7 DEF t

\* The source an add writes, and the row that names it.
LEMMA CommitAddGraph ==
  ASSUME GraphInv, NEW c \in Clients, Commit(c), call[c].op = "add"
  PROVE  GraphStep(c)
<1> DEFINE fresh == tx[c].source = 0
           id == IF fresh THEN Len(sources) + 1 ELSE tx[c].source
           row == [tx[c].next EXCEPT !.source = id]
<1>1. /\ pc[c] = "entities" /\ pc' = [pc EXCEPT ![c] = "committed"]
      /\ entities' = entities \cup tx[c].next.mentions
      /\ sources' = IF fresh THEN Append(sources, tx[c].row)
                             ELSE [sources EXCEPT ![id] = tx[c].row]
      /\ records' = Append(records, row)
      /\ call' = [call EXCEPT ![c] = [call[c] EXCEPT !.id = Len(records) + 1]]
  BY DEF Commit
<1>2. /\ SourceOK(tx[c].row) /\ GraphOf(tx[c].next)
      /\ fresh \/ tx[c].source \in DOMAIN sources
  BY <1>1 DEF GraphInv, GraphClient
<1>3. IsRow(tx[c].next)
  BY <1>1 DEF GraphInv, UpdateInv, ClientOK
<1>4. /\ IsSeq(sources') /\ DOMAIN sources \subseteq DOMAIN sources' /\ id \in DOMAIN sources'
      /\ \A i \in DOMAIN sources' : SourceOK(sources'[i])
  <2>1. IsSeq(sources) /\ \A i \in DOMAIN sources : SourceOK(sources[i])
    BY DEF GraphInv
  <2>2. CASE fresh
    <3>1. sources' = Append(sources, tx[c].row) /\ id = Len(sources) + 1
      BY <1>1, <2>2
    <3> HIDE DEF fresh, id
    <3> QED
      BY <1>2, <2>1, <3>1, AppendGrows, AppendReaches
  <2>3. CASE ~ fresh
    <3>1. sources' = [sources EXCEPT ![id] = tx[c].row] /\ id \in DOMAIN sources
      BY <1>1, <1>2, <2>3
    <3> HIDE DEF fresh, id
    <3>2. IsSeq(sources')
      BY <2>1, <3>1, ExceptKeepsSeq
    <3> QED
      BY <1>2, <2>1, <3>1, <3>2
  <2> QED
    BY <2>2, <2>3
<1>5. GraphOf(row) /\ row.source = id /\ row.mentions = tx[c].next.mentions
  <2>1. /\ row.text = tx[c].next.text /\ row.mentions = tx[c].next.mentions
        /\ row.relationships = tx[c].next.relationships /\ row.source = id
    BY <1>3 DEF IsRow, RowFields
  <2> HIDE DEF row
  <2> QED
    BY <1>2, <2>1 DEF GraphOf
<1> HIDE DEF row, id, fresh
<1>6. /\ \A i \in DOMAIN records : i \in DOMAIN records' /\ records'[i] = records[i]
      /\ \A i \in DOMAIN records' \ DOMAIN records : records'[i] = row
  <2>1. IsSeq(records)
    BY DEF GraphInv, UpdateInv, Shape
  <2>2. records' = Append(records, row)
    BY <1>1
  <2> QED
    BY <2>1, <2>2, AppendGrows
<1>7. StepOK(c) /\ CallKept(c)
  BY <1>1, CommitStep DEF GraphInv, CallKept
<1>8. pc'[c] = "committed"
  BY <1>1 DEF GraphInv, UpdateInv, Shape
<1>9. GraphClient(c)'
  <2>1. /\ call'[c].op = "add" /\ DOMAIN call'[c] = DOMAIN call[c]
        /\ call'[c].text = call[c].text /\ call'[c].title = call[c].title
        /\ call'[c].uri = call[c].uri
    BY <1>7, CallFields
  <2>2. IsAdd(call[c])
    BY DEF GraphInv, GraphClient
  <2> QED
    BY <1>8, <2>1, <2>2 DEF GraphClient, IsAdd
<1>10. \A i \in Ids' :
         \/ i \in Ids /\ records'[i] = records[i]
         \/ records'[i] = row
  BY <1>6 DEF Ids
<1>11. ~ HasUpdated(c)'
  BY <1>7, CallFields DEF HasUpdated
<1> QED
  BY <1>1, <1>4, <1>5, <1>7, <1>9, <1>10, <1>11 DEF GraphStep

LEMMA CommitUpdateGraph ==
  ASSUME GraphInv, NEW c \in Clients, Commit(c), call[c].op = "update"
  PROVE  GraphStep(c)
<1> DEFINE id == call[c].id
<1>1. /\ pc[c] = "entities" /\ pc' = [pc EXCEPT ![c] = "committed"]
      /\ entities' = entities \cup tx[c].next.mentions
      /\ UNCHANGED <<sources, call>>
  BY DEF Commit
<1>2. /\ id \in Ids /\ records' = [records EXCEPT ![id] = tx[c].next] /\ NextIsUpdate(c)
  BY CommitOfUpdate DEF GraphInv
<1>3. GraphOf(tx[c].next)
  BY <1>1 DEF GraphInv, GraphClient
<1>4. tx[c].next.source \in DOMAIN sources
  BY <1>2 DEF NextIsUpdate, GraphInv, RowKept, BareKept
<1>5. StepOK(c) /\ CallKept(c)
  BY <1>1, CommitStep DEF GraphInv, CallKept
<1>6. \A s : SourceOK(s)' <=> SourceOK(s)
  BY <1>5, LentKept
<1>7. pc'[c] = "committed"
  BY <1>1 DEF GraphInv, UpdateInv, Shape
<1>8. GraphClient(c)'
  BY <1>1, <1>7 DEF GraphInv, GraphClient
<1>9. \A i \in Ids' : (i \in Ids /\ i # id /\ records'[i] = records[i]) \/ records'[i] = tx[c].next
  BY <1>2 DEF Ids
<1> QED
  BY <1>1, <1>3, <1>4, <1>5, <1>8, <1>9 DEF GraphStep, GraphInv

LEMMA TransactionGraph ==
  ASSUME GraphInv, NEW c \in Clients, TransactionMove(c)
  PROVE  GraphInv'
<1>1. CASE Commit(c)
  <2>1. call[c].op \in {"add", "update"}
    BY <1>1 DEF Commit, GraphInv, UpdateInv, ClientOK
  <2> QED
    BY <1>1, <2>1, CommitAddGraph, CommitUpdateGraph, GraphStepKeeps
<1>2. CASE StatementFails(c) \/ BreakDeadlock(c)
  BY <1>2, AbortGraph DEF StatementFails, BreakDeadlock
<1> QED
  BY <1>1, <1>2, AddMemoryGraph, WriteSourceGraph, ReadForUpdateGraph, UpdateRowGraph,
     LockEntityGraph, GraphStepKeeps DEF TransactionMove, TransactionStep

-----------------------------------------------------------------------------
(* The steps of the index, a reindex and an inspection, and the graph *)

LEMMA ArchiveGraph ==
  ASSUME GraphInv, NEW c \in Clients, ArchiveRecord(c)
  PROVE  GraphInv'
<1> DEFINE i == call[c].id
           row == [records[i] EXCEPT !.durability = "archived", !.version = records[i].version + 1]
<1>1. /\ UNCHANGED <<sources, entities, call, tx, held>> /\ call[c].op = "delete"
      /\ records' = records \/ (i \in Ids /\ records' = [records EXCEPT ![i] = row])
      /\ pc' = [pc EXCEPT ![c] = "committed"] \/ pc' = [pc EXCEPT ![c] = "missing"]
  BY DEF ArchiveRecord, ArchiveRow
<1>2. StepOK(c) /\ pc'[c] \notin {"source", "update", "entities"}
  BY <1>1, ArchiveStep DEF GraphInv, UpdateInv, Shape
<1>3. CASE records' = records
  <2>1. ~ HasUpdated(c)'
    BY <1>1 DEF HasUpdated
  <2> QED
    BY <1>1, <1>2, <1>3, <2>1, GraphIdle
<1>4. CASE i \in Ids /\ records' = [records EXCEPT ![i] = row]
  <2>1. IsRow(records[i])
    BY <1>4 DEF GraphInv, UpdateInv, Shape
  <2>2. /\ row.text = records[i].text /\ row.mentions = records[i].mentions
        /\ row.relationships = records[i].relationships /\ row.source = records[i].source
    BY <2>1 DEF IsRow, RowFields
  <2> HIDE DEF row
  <2>3. \A j \in Ids' : j \in Ids /\ (records'[j] = records[j] \/ (j = i /\ records'[j] = row))
    BY <1>4 DEF Ids
  <2>4. CallKept(c)
    BY <1>1 DEF CallKept
  <2>5. \A s : SourceOK(s)' <=> SourceOK(s)
    BY <2>4, LentKept
  <2>6. GraphClient(c)'
    BY <1>1, <1>2 DEF GraphClient
  <2>7. GraphStep(c)
    <3>1. ~ HasUpdated(c)'
      BY <1>1 DEF HasUpdated
    <3> QED
      BY <1>1, <1>2, <2>2, <2>3, <2>4, <2>6, <3>1 DEF GraphStep, GraphInv
  <2> QED
    BY <2>7, GraphStepKeeps
<1> QED
  BY <1>1, <1>3, <1>4

LEMMA IndexFailsGraph ==
  ASSUME GraphInv, NEW c \in Clients, GivesUp(c)
  PROVE  GraphInv'
<1>1. StepOK(c) /\ pc'[c] = "failed"
  BY IndexFailsStep DEF GivesUp, IndexFails, InsertRefused, IndexGivesUp, Goto, GraphInv,
     UpdateInv, Shape
<1>2. CASE call[c].op = "add"
  <2>1. records' = [records EXCEPT ![call[c].id] = NoRow] /\ UNCHANGED <<sources, entities, call, tx, held>>
    BY <1>2 DEF GivesUp, IndexFails, InsertRefused, IndexGivesUp, EraseRow
  <2>2. \A j \in Ids' : j \in Ids /\ records'[j] = records[j]
    BY <2>1 DEF Ids
  <2>3. CallKept(c)
    BY <2>1 DEF CallKept
  <2>4. GraphClient(c)'
    BY <1>1, <2>1 DEF GraphInv, GraphClient, IsAdd
  <2>5. GraphStep(c)
    <3>1. ~ HasUpdated(c)'
      BY <1>2, <2>1 DEF HasUpdated
    <3> QED
      BY <1>1, <2>1, <2>2, <2>3, <2>4, <3>1 DEF GraphStep, GraphInv
  <2> QED
    BY <2>5, GraphStepKeeps
<1>3. CASE call[c].op # "add"
  <2>1. UNCHANGED <<records, sources, entities, call, tx, held>>
    BY <1>3 DEF GivesUp, IndexFails, InsertRefused, IndexGivesUp
  <2>2. pc[c] # "entities"
    BY DEF GivesUp, IndexFails, InsertRefused
  <2>3. HasUpdated(c)' => HasUpdated(c)
    BY <2>1, <2>2 DEF HasUpdated
  <2> QED
    BY <1>1, <2>1, <2>3, GraphIdle
<1> QED
  BY <1>2, <1>3

\* The other steps touch no row, source, entity or call.
LEMMA OtherGraph ==
  ASSUME GraphInv, NEW c \in Clients, UNCHANGED <<records, sources, entities, call, tx>>, StepOK(c),
         pc[c] # "entities",
         \E step : step \notin {"source", "update", "entities"} /\ Goto(c, step)
  PROVE  GraphInv'
<1>1. pc'[c] \notin {"source", "update", "entities"}
  BY DEF Goto, GraphInv, UpdateInv, Shape
<1>2. HasUpdated(c)' => HasUpdated(c)
  BY DEF HasUpdated
<1> QED
  BY <1>1, <1>2, GraphIdle

LEMMA WriteIndexGraph ==
  ASSUME GraphInv, NEW c \in Clients, IndexMove(c)
  PROVE  GraphInv'
<1>1. CASE \/ InsertChunks(c) \/ ReplaceChunks(c) \/ ClearOwn(c) \/ SkipRefresh(c)
           \/ Upsert(c) \/ UpdatePointIds(c) \/ DeletesPoints(c)
  <2>1. /\ UNCHANGED <<records, sources, entities, call, tx>> /\ pc[c] # "entities"
        /\ Goto(c, "upsert") \/ Goto(c, "clearOwn") \/ Goto(c, "failed")
             \/ Goto(c, "done") \/ Goto(c, "pointIds")
    BY <1>1 DEF InsertChunks, ReplaceChunks, ClearOwn, SkipRefresh, Upsert, UpdatePointIds,
                DeletesPoints, DeletePoints, DeleteFails
  <2>2. StepOK(c)
    BY WriteIndexSteps DEF GraphInv
  <2> QED
    BY <2>1, <2>2, OtherGraph
<1> QED
  BY <1>1, ArchiveGraph, IndexFailsGraph DEF IndexMove, IndexStep, GivesUp, DeletesPoints

LEMMA ReindexGraph ==
  ASSUME GraphInv, NEW c \in Clients, ReindexMove(c)
  PROVE  GraphInv'
<1>1. /\ UNCHANGED <<records, sources, entities, call, tx>> /\ pc[c] # "entities"
      /\ Goto(c, "clear") \/ Goto(c, "done") \/ Goto(c, "list") \/ Goto(c, "ready")
           \/ Goto(c, "upsertPage") \/ Goto(c, "pageIds") \/ Goto(c, "failed")
  BY DEF ReindexMove, ReindexStep, ListToClear, ClearPage, ListPage, UpsertPage, UpdatePageIds,
     ReindexFails,
         AfterPage
<1>2. StepOK(c)
  BY ReindexSteps DEF GraphInv
<1> QED
  BY <1>1, <1>2, OtherGraph

LEMMA InspectGraph ==
  ASSUME GraphInv, NEW c \in Clients, InspectMove(c),
         UNCHANGED <<records, sources, entities, call, tx, held, index>>
  PROVE  GraphInv'
<1>1. pc[c] # "entities"
  BY DEF InspectMove, InspectStep, InspectEntities, InspectRelationships, InspectFails
<1>3. Goto(c, "done") \/ Goto(c, "inspect") \/ Goto(c, "failed")
  BY DEF InspectMove, InspectStep, InspectEntities, InspectRelationships, InspectFails
<1>2. StepOK(c)
  BY InspectSteps DEF GraphInv
<1> QED
  BY <1>1, <1>2, <1>3, OtherGraph

LEMMA GraphNext == GraphInv /\ [Next]_vars => GraphInv'
<1>1. SUFFICES ASSUME GraphInv, [Next]_vars  PROVE GraphInv'
  OBVIOUS
<1>2. ASSUME NEW c \in Clients, Move(c)  PROVE GraphInv'
  BY <1>1, <1>2, TransactionGraph, WriteIndexGraph, ReindexGraph, InspectGraph
     DEF Move, TransactionOn
<1>3. CASE UNCHANGED vars
  <2>1. UNCHANGED <<records, sources, entities, call, pc, tx, held>>
    BY <1>3 DEF vars
  <2>2. UpdateInv'
    BY <1>1, UpdateNext DEF GraphInv
  <2>3. GraphInv
    BY <1>1
  <2>4. /\ IsSeq(sources') /\ \A i \in DOMAIN sources' : SourceOK(sources[i])'
    BY <2>1, <2>3 DEF GraphInv, IsSeq, SourceOK, IsSource, Titles, Uris, Adds
  <2>5. Titles' = Titles /\ Uris' = Uris
    BY <2>1 DEF Titles, Uris, Adds
  <2>6. ASSUME NEW i \in Ids'  PROVE RowKept(records[i])' \/ BareKept(i)'
    <3>1. RowKept(records[i]) \/ BareKept(i)
      BY <2>1, <2>3, <2>6 DEF GraphInv, Ids
    <3> QED
      BY <2>1, <2>5, <3>1 DEF RowKept, GraphOf, BareKept, RestoredBare, HasNoGraph, HasUpdated
  <2>7. ASSUME NEW c \in Clients  PROVE GraphClient(c)'
    <3>1. GraphClient(c)
      BY <2>3 DEF GraphInv
    <3>2. SourceOK(tx[c].row) => SourceOK(tx[c].row)'
      BY <2>1, <2>5 DEF SourceOK, IsSource
    <3>3. GraphOf(tx[c].next) => GraphOf(tx[c].next)'
      BY <2>1, <2>5 DEF GraphOf
    <3> QED
      BY <2>1, <2>5, <3>1, <3>2, <3>3 DEF GraphClient, IsAdd
  <2> QED
    BY <2>2, <2>4, <2>6, <2>7 DEF GraphInv
<1> QED
  BY <1>1, <1>2, <1>3, NextMoves

LEMMA GraphAlways == Spec => []GraphInv
BY GraphInit, GraphNext, PTL DEF Spec

LEMMA GraphGives == GraphInv => GraphMatchesRecord
<1>1. SUFFICES ASSUME GraphInv, NEW i \in Ids, ~ RestoredBare(i)
               PROVE  LET row == records[i]
                          own == EntitiesOf[row.text]
                          adds == {call[c] : c \in {d \in Clients : call[d].op = "add"}}
                          lent == UNION {ToSet(EntitiesOf[s.title]) \cup ToSet(EntitiesOf[s.uri]) :
                                            s \in adds \cup ToSet(StoredSources)}
                      IN  /\ row.mentions \ lent \subseteq ToSet(own)
                          /\ ToSet(own) \subseteq row.mentions \/ Cardinality(row.mentions) = MaxMentions
                          /\ \A r \in row.relationships : r.ends \subseteq row.mentions
                          /\ row.mentions \subseteq entities
  BY DEF GraphMatchesRecord
<1> DEFINE row == records[i]
<1>2. RowKept(row)
  BY <1>1 DEF GraphInv, BareKept
<1>3. PICK title \in Titles, uri \in Uris :
        /\ row.text \in Texts /\ title \in Texts /\ uri \in Texts
        /\ row.mentions = ToSet(Mentions[row.text][title][uri])
        /\ row.relationships = Relationships[Mentions[row.text][title][uri]]
  BY <1>2 DEF RowKept, GraphOf
<1> DEFINE m == Mentions[row.text][title][uri]
           own == ToSet(EntitiesOf[row.text])
           givers == Adds \cup ToSet(StoredSources)
           lent == UNION {ToSet(EntitiesOf[s.title]) \cup ToSet(EntitiesOf[s.uri]) : s \in givers}
<1>4. /\ m \in DOMAIN Relationships /\ IsSeq(m)
      /\ ToSet(m) \subseteq own \cup ToSet(EntitiesOf[title]) \cup ToSet(EntitiesOf[uri])
      /\ own \subseteq ToSet(m) \/ Cardinality(ToSet(m)) = MaxMentions
  BY <1>3, MentionsHold
<1>5. \A r \in row.relationships : r.ends \subseteq row.mentions
  <2>1. row.relationships = RelationshipsOf(m)
    BY <1>3, <1>4, RelationshipsAre
  <2> HIDE DEF m
  <2> QED
    BY <1>3, <1>4, <2>1, RelationshipsHold DEF m
<1>6. PICK s \in givers : s.title = title
  BY DEF Titles
<1>7. PICK u \in givers : u.uri = uri
  BY DEF Uris
<1>8. ToSet(EntitiesOf[title]) \subseteq lent /\ ToSet(EntitiesOf[uri]) \subseteq lent
  BY <1>6, <1>7
<1> HIDE DEF m, lent
<1>9. row.mentions \ lent \subseteq own
  BY <1>3, <1>4, <1>8 DEF m
<1>10. own \subseteq row.mentions \/ Cardinality(row.mentions) = MaxMentions
  BY <1>3, <1>4 DEF m
<1>11. row.mentions \subseteq entities
  BY <1>2 DEF RowKept
<1> QED
  BY <1>5, <1>9, <1>10, <1>11 DEF lent, Adds

\* The mentions of a record are those of its present text and of a title and a
\* uri its source has had, and none of the text's is missing up to the cap, and
\* its relationships join them, unless it came from the archive without a graph
\* and no update of it has committed: for any calls, texts, faults, stored rows
\* and interleavings of the transactions (persistPostgresEntityGraph, addMemory,
\* updateMemoryRecord, restoreToCanonical).
THEOREM GraphFollows == Spec => []GraphMatchesRecord
BY GraphAlways, GraphGives, PTL

-----------------------------------------------------------------------------
(***************************************************************************)
(* What inspect_memory_graph holds between its two statements: the rows it *)
(* saw first, the entities listed with the rows that mention them, and,    *)
(* unless a limit or a kind cut the list, all of those rows' mentions.     *)
(***************************************************************************)
Listed(c, e) == \E f \in view[c].entities : f.name = e

FirstSeen(c) ==
    LET rows == view[c].rows
    IN  /\ DOMAIN view[c] = {"entities", "relationships", "rows"}
        /\ \A i \in DOMAIN rows :
            /\ i \in DOMAIN records /\ rows[i] # NoRow /\ rows[i].scope = call[c].scope
            /\ \A r \in rows[i].relationships : r.ends # {} /\ r.ends \subseteq rows[i].mentions
        /\ \A f \in view[c].entities : f.memories =
                {i \in DOMAIN rows : Wanted(c, rows[i]) /\ f.name \in rows[i].mentions}
        /\ call[c].kind = Keep /\ Cardinality(view[c].entities) < call[c].limit =>
            \A i \in DOMAIN rows : Wanted(c, rows[i]) => \A e \in rows[i].mentions : Listed(c, e)

HangsTogether(c) ==
    LET seen == view[c]
        listed(e, i) == \E f \in seen.entities : f.name = e /\ i \in f.memories
        uncut == /\ call[c].kind = Keep
                 /\ Cardinality(seen.entities) < call[c].limit
                 /\ Cardinality(seen.relationships) < call[c].relationshipLimit
    IN  /\ \A r \in seen.relationships :
            r.memory \in DOMAIN seen.rows => \E e \in r.ends : listed(e, r.memory)
        /\ uncut => \A i \in {j \in DOMAIN seen.rows : Wanted(c, seen.rows[j])} :
            \A r \in seen.rows[i].relationships :
                /\ [memory |-> i, ends |-> r.ends, type |-> r.type] \in seen.relationships
                /\ \A e \in r.ends : listed(e, i)

Inspecting(c) ==
    call[c].op = "inspect" =>
        /\ call[c].limit \in Nat /\ call[c].relationshipLimit \in Nat
        /\ pc[c] \in {"ready", "inspect", "done", "failed"}
        /\ pc[c] = "inspect" => FirstSeen(c)
        /\ pc[c] = "done" => HangsTogether(c)

ViewInv == GraphInv /\ DOMAIN view = Clients /\ \A c \in Clients : Inspecting(c)

-----------------------------------------------------------------------------
(* Answers that are not cut, and the graph of a row *)

LEMMA WholeUnlessCut ==
  ASSUME NEW found, IsFiniteSet(found), NEW top \in SUBSET found, NEW limit \in Nat,
         Cardinality(top) = IF Cardinality(found) < limit THEN Cardinality(found) ELSE limit,
         Cardinality(top) < limit
  PROVE  top = found
<1>1. Cardinality(found) \in Nat /\ Cardinality(top) \in Nat
  BY FS_CardinalityType, FS_Subset
<1>2. Cardinality(top) = Cardinality(found)
  BY <1>1
<1> QED
  BY <1>2, FS_Subset

LEMMA RowGraph ==
  ASSUME GraphInv, NEW i \in Ids
  PROVE  /\ IsFiniteSet(records[i].mentions) /\ IsFiniteSet(records[i].relationships)
         /\ \A r \in records[i].relationships :
                r.ends # {} /\ r.ends \subseteq records[i].mentions
<1> DEFINE row == records[i]
<1>1. CASE RowKept(row)
  <2>1. PICK title \in Titles, uri \in Uris :
          /\ row.text \in Texts /\ title \in Texts /\ uri \in Texts
          /\ row.mentions = ToSet(Mentions[row.text][title][uri])
          /\ row.relationships = Relationships[Mentions[row.text][title][uri]]
    BY <1>1 DEF RowKept, GraphOf
  <2> DEFINE m == Mentions[row.text][title][uri]
  <2>2. m \in DOMAIN Relationships /\ IsSeq(m) /\ IsFiniteSet(ToSet(m))
    BY <2>1, MentionsHold
  <2>3. row.relationships = RelationshipsOf(m)
    BY <2>1, <2>2, RelationshipsAre
  <2> HIDE DEF m
  <2> QED
    BY <2>1, <2>2, <2>3, RelationshipsHold DEF m
<1>2. CASE BareKept(i)
  BY <1>2, FS_EmptySet DEF BareKept, RestoredBare, HasNoGraph
<1> QED
  BY <1>1, <1>2 DEF GraphInv

LEMMA ShownFinite ==
  ASSUME GraphInv, NEW c \in Clients
  PROVE  IsFiniteSet(Shown(c)) /\ Shown(c) \subseteq Ids
<1>1. PICK n \in Nat : DOMAIN records = 1 .. n
  BY DEF GraphInv, UpdateInv, Shape, IsSeq
<1>2. Shown(c) \subseteq Ids /\ Shown(c) \in SUBSET (1 .. n)
  BY <1>1 DEF Shown, InScope, Ids
<1>3. IsFiniteSet(1 .. n)
  BY FS_Interval
<1> QED
  BY <1>2, <1>3, FS_Subset

-----------------------------------------------------------------------------
(* The two statements *)

LEMMA FirstStatement ==
  ASSUME ViewInv, NEW c \in Clients, InspectEntities(c), UNCHANGED <<records, call>>
  PROVE  /\ DOMAIN view' = Clients /\ \A d \in Clients \ {c} : view'[d] = view[d]
         /\ pc'[c] = "inspect" \/ (pc'[c] = "done" /\ view'[c].entities = {}
                                      /\ view'[c].relationships = {})
         /\ FirstSeen(c)'
<1> DEFINE shown == Shown(c)
           names == {e \in UNION {records[i].mentions : i \in shown} :
                        call[c].kind \in {Keep, KindOf(e)}}
           found == {[name |-> e, memories |-> {i \in shown : e \in records[i].mentions}] :
                        e \in names}
           rows == [i \in InScope(c) |-> records[i]]
<1>1. PICK top \in MostMentioned(found, call[c].limit) :
        /\ view' = [view EXCEPT ![c] = [entities |-> top, relationships |-> {}, rows |-> rows]]
        /\ Goto(c, IF top = {} THEN "done" ELSE "inspect")
  BY DEF InspectEntities
<1>2. call[c].op = "inspect" /\ call[c].limit \in Nat
  BY DEF InspectEntities, ViewInv, Inspecting
<1>3. /\ top \in SUBSET found
      /\ Cardinality(top) = IF Cardinality(found) < call[c].limit
                            THEN Cardinality(found) ELSE call[c].limit
  BY <1>1 DEF MostMentioned
<1> HIDE DEF rows
<1>4. /\ DOMAIN view' = Clients /\ \A d \in Clients \ {c} : view'[d] = view[d]
      /\ view'[c] = [entities |-> top, relationships |-> {}, rows |-> rows]
  BY <1>1 DEF ViewInv
<1>5. pc'[c] = IF top = {} THEN "done" ELSE "inspect"
  BY <1>1 DEF Goto, ViewInv, GraphInv, UpdateInv, Shape
<1>6. /\ shown \subseteq Ids /\ IsFiniteSet(shown)
      /\ shown = {i \in InScope(c) : Wanted(c, records[i])}
      /\ DOMAIN rows = InScope(c) /\ \A i \in InScope(c) : rows[i] = records[i]
  BY ShownFinite DEF ViewInv, rows, Shown
<1> HIDE DEF shown
<1>7. IsFiniteSet(found)
  <2> DEFINE f == [i \in shown |-> records[i].mentions]
             g == [e \in names |-> [name |-> e, memories |-> {i \in shown : e \in records[i].mentions}]]
             T == {f[i] : i \in shown}
  <2>1. IsFiniteSet(T)
    <3>1. f = [i \in shown |-> f[i]]
      OBVIOUS
    <3> HIDE DEF f
    <3> QED
      BY <1>6, <3>1, ImageFinite
  <2>2. \A t \in T : IsFiniteSet(t)
    BY <1>6, RowGraph DEF ViewInv
  <2>3. T = {records[i].mentions : i \in shown}
    OBVIOUS
  <2>4. IsFiniteSet(UNION T)
    <3> HIDE DEF T
    <3> QED
      BY <2>1, <2>2, FS_UNION
  <2>5. IsFiniteSet(names)
    <3>1. names \in SUBSET UNION T
      BY <2>3
    <3> HIDE DEF names, T
    <3> QED
      BY <2>4, <3>1, FS_Subset
  <2>6. IsFiniteSet({g[e] : e \in names})
    <3>1. g = [e \in names |-> g[e]]
      OBVIOUS
    <3> HIDE DEF g, names
    <3> QED
      BY <2>5, <3>1, ImageFinite
  <2>7. found = {g[e] : e \in names}
    OBVIOUS
  <2> QED
    BY <2>6, <2>7
<1>8. \A i \in InScope(c) :
        /\ i \in DOMAIN records /\ rows[i] # NoRow /\ rows[i].scope = call[c].scope
        /\ \A r \in rows[i].relationships : r.ends # {} /\ r.ends \subseteq rows[i].mentions
  BY <1>6, RowGraph DEF ViewInv, InScope, Ids
<1>9. \A f \in top : f.memories =
        {i \in InScope(c) : Wanted(c, rows[i]) /\ f.name \in rows[i].mentions}
  <2>1. SUFFICES ASSUME NEW f \in top
                 PROVE  f.memories = {i \in InScope(c) : Wanted(c, rows[i]) /\ f.name \in rows[i].mentions}
    OBVIOUS
  <2>2. PICK e \in names : f = [name |-> e, memories |-> {i \in shown : e \in records[i].mentions}]
    BY <1>3
  <2>3. f.name = e /\ f.memories = {i \in shown : e \in records[i].mentions}
    BY <2>2
  <2> QED
    BY <1>6, <2>3
<1>10. ASSUME call[c].kind = Keep, Cardinality(top) < call[c].limit,
              NEW i \in InScope(c), Wanted(c, rows[i]), NEW e \in rows[i].mentions
       PROVE  \E f \in top : f.name = e
  <2>1. top = found
    <3> HIDE DEF found
    <3> QED
      BY <1>2, <1>3, <1>7, <1>10, WholeUnlessCut
  <2>2. i \in shown /\ e \in records[i].mentions
    BY <1>6, <1>10
  <2>3. e \in names
    BY <1>10, <2>2
  <2> DEFINE f == [name |-> e, memories |-> {j \in shown : e \in records[j].mentions}]
  <2>4. f \in found /\ f.name = e
    BY <2>3
  <2> QED
    BY <2>1, <2>4
<1>11. FirstSeen(c)'
  <2>1. /\ DOMAIN view'[c] = {"entities", "relationships", "rows"}
        /\ view'[c].entities = top /\ view'[c].rows = rows
    BY <1>4
  <2> HIDE DEF found
  <2> QED
    BY <1>6, <1>8, <1>9, <1>10, <2>1 DEF FirstSeen, Listed, Wanted
<1> QED
  BY <1>4, <1>5, <1>11

LEMMA SecondStatement ==
  ASSUME ViewInv, NEW c \in Clients, call[c].op = "inspect", InspectRelationships(c),
         UNCHANGED <<records, call>>
  PROVE  /\ DOMAIN view' = Clients /\ \A d \in Clients \ {c} : view'[d] = view[d]
         /\ pc'[c] = "done" /\ HangsTogether(c)'
<1> DEFINE entries == view[c].entities
           rows == view[c].rows
           names == {e.name : e \in entries}
           touching(i) == {q \in records[i].relationships : q.ends \cap names # {}}
           found == UNION {{[memory |-> i, ends |-> r.ends, type |-> r.type] : r \in touching(i)} :
                              i \in Evidence(c)}
           limit == call[c].relationshipLimit
           same == {i \in DOMAIN rows : rows[i] = records[i]}
<1>1. PICK newest \in SUBSET found :
        /\ Cardinality(newest) = IF Cardinality(found) < limit THEN Cardinality(found) ELSE limit
        /\ view' = [view EXCEPT ![c] = [view[c] EXCEPT !.relationships = newest,
                                                       !.rows = [i \in same |-> rows[i]]]]
  BY DEF InspectRelationships
<1>2. pc[c] = "inspect" /\ pc' = [pc EXCEPT ![c] = "done"]
  BY DEF InspectRelationships, Goto
<1>3. FirstSeen(c) /\ limit \in Nat
  BY <1>2 DEF ViewInv, Inspecting
<1> HIDE DEF found, limit, same
<1>4. /\ DOMAIN view' = Clients /\ \A d \in Clients \ {c} : view'[d] = view[d]
      /\ view'[c].entities = entries /\ view'[c].relationships = newest
      /\ DOMAIN view'[c].rows = same /\ \A i \in same : view'[c].rows[i] = rows[i]
  BY <1>1, <1>3 DEF ViewInv, FirstSeen
<1>5. pc'[c] = "done"
  BY <1>2 DEF ViewInv, GraphInv, UpdateInv, Shape
<1>6. IsFiniteSet(found)
  <2> DEFINE f == [i \in Shown(c) |-> {[memory |-> i, ends |-> r.ends, type |-> r.type] : r \in touching(i)}]
             T == {f[i] : i \in Shown(c)}
  <2>1. IsFiniteSet(T)
    <3>1. f = [i \in Shown(c) |-> f[i]] /\ IsFiniteSet(Shown(c))
      BY ShownFinite DEF ViewInv
    <3> HIDE DEF f
    <3> QED
      BY <3>1, ImageFinite
  <2>2. ASSUME NEW i \in Shown(c)  PROVE IsFiniteSet(f[i])
    <3> DEFINE R == touching(i)
               g == [r \in R |-> [memory |-> i, ends |-> r.ends, type |-> r.type]]
    <3>1. IsFiniteSet(R)
      <4>1. IsFiniteSet(records[i].relationships) /\ R \in SUBSET records[i].relationships
        BY ShownFinite, RowGraph DEF ViewInv
      <4> HIDE DEF R
      <4> QED
        BY <4>1, FS_Subset
    <3>2. IsFiniteSet({g[r] : r \in R})
      <4>1. g = [r \in R |-> g[r]]
        OBVIOUS
      <4> HIDE DEF g, R
      <4> QED
        BY <3>1, <4>1, ImageFinite
    <3>3. f[i] = {g[r] : r \in R}
      OBVIOUS
    <3> QED
      BY <3>2, <3>3
  <2>3. \A t \in T : IsFiniteSet(t)
    BY <2>2
  <2>4. found = UNION T
    BY DEF found, Evidence
  <2> HIDE DEF T
  <2> QED
    BY <2>1, <2>3, <2>4, FS_UNION
<1>7. \A i \in DOMAIN rows : i \in Shown(c) => Wanted(c, records[i])
  BY DEF Shown
<1>8. ASSUME NEW i \in same, NEW e \in rows[i].mentions, Wanted(c, rows[i]), NEW f \in entries,
             f.name = e
      PROVE  i \in f.memories
  BY <1>3, <1>8 DEF FirstSeen, same
<1>9. ASSUME NEW r \in newest, r.memory \in same
      PROVE  \E e \in r.ends : \E f \in entries : f.name = e /\ r.memory \in f.memories
  <2>1. PICK i \in Shown(c) : \E q \in touching(i) :
          r = [memory |-> i, ends |-> q.ends, type |-> q.type]
    BY DEF found, Evidence
  <2> PICK q \in touching(i) : r = [memory |-> i, ends |-> q.ends, type |-> q.type]
    BY <2>1
  <2>2. r.memory = i /\ r.ends = q.ends /\ q \in records[i].relationships
    OBVIOUS
  <2>3. PICK e \in q.ends : e \in names
    BY <2>1
  <2>4. PICK f \in entries : f.name = e
    BY <2>3
  <2>5. rows[i] = records[i] /\ i \in same /\ i \in DOMAIN rows
    BY <1>9, <2>2 DEF same
  <2>6. e \in rows[i].mentions /\ Wanted(c, rows[i])
    BY <1>3, <2>1, <2>2, <2>3, <2>5 DEF FirstSeen, Shown
  <2>7. i \in f.memories
    BY <1>8, <2>4, <2>5, <2>6
  <2> QED
    BY <2>2, <2>3, <2>4, <2>7
<1>10. ASSUME call[c].kind = Keep, Cardinality(entries) < call[c].limit,
              Cardinality(newest) < limit,
              NEW i \in same, Wanted(c, rows[i]), NEW r \in rows[i].relationships
       PROVE  /\ [memory |-> i, ends |-> r.ends, type |-> r.type] \in newest
              /\ \A e \in r.ends : \E f \in entries : f.name = e /\ i \in f.memories
  <2>1. /\ i \in DOMAIN rows /\ rows[i] = records[i] /\ i \in DOMAIN records /\ rows[i] # NoRow
        /\ rows[i].scope = call[c].scope
        /\ r.ends # {} /\ r.ends \subseteq rows[i].mentions
        /\ \A e \in rows[i].mentions : Listed(c, e)
    BY <1>3, <1>10 DEF FirstSeen, same
  <2>2. i \in Shown(c)
    BY <1>10, <2>1 DEF Shown, InScope, Ids
  <2>3. \A e \in r.ends : \E f \in entries : f.name = e /\ i \in f.memories
    BY <1>8, <1>10, <2>1 DEF Listed
  <2>4. r \in touching(i)
    BY <1>10, <2>1, <2>3
  <2>5. [memory |-> i, ends |-> r.ends, type |-> r.type] \in found
    BY <2>2, <2>4 DEF found, Evidence
  <2>6. newest = found
    BY <1>1, <1>3, <1>6, <1>10, WholeUnlessCut
  <2> QED
    BY <2>3, <2>5, <2>6
<1>11. HangsTogether(c)'
  BY <1>4, <1>9, <1>10 DEF HangsTogether, Wanted, limit
<1> QED
  BY <1>4, <1>5, <1>11

-----------------------------------------------------------------------------
(* The steps *)

\* A call to inspect takes no other step, but may be taken for a failed one.
LEMMA NothingElse ==
  ASSUME ViewInv, NEW c \in Clients, call[c].op = "inspect",
         TransactionOn(c) \/ IndexMove(c) \/ ReindexMove(c)
  PROVE  pc'[c] = "failed"
<1>1. pc[c] \in {"ready", "inspect", "done", "failed"} /\ DOMAIN pc = Clients
  BY DEF ViewInv, Inspecting, GraphInv, UpdateInv, Shape
<1>2. CASE TransactionOn(c)
  BY <1>1, <1>2 DEF TransactionOn, TransactionMove, TransactionStep, AddMemory, WriteSource,
     ReadForUpdate, UpdateRow,
     LockEntity, Commit, StatementFails, BreakDeadlock, Abort
<1>3. CASE IndexMove(c)
  BY <1>1, <1>3 DEF IndexMove, IndexStep, InsertChunks, ReplaceChunks, Refreshes, ClearOwn,
     SkipRefresh, Upsert,
     UpdatePointIds, GivesUp, IndexFails, InsertRefused, IndexGivesUp, ArchiveRecord, ArchiveRow,
     DeletesPoints, DeletePoints, DeleteFails, Goto
<1>4. CASE ReindexMove(c)
  BY <1>1, <1>4 DEF ReindexMove, ReindexStep, ListToClear, ClearPage, ListPage, UpsertPage,
     UpdatePageIds,
     ReindexFails, Goto
<1> QED
  BY <1>2, <1>3, <1>4

\* A client whose own call, place and answer stay as they are.
LEMMA ViewKept ==
  ASSUME ViewInv, NEW c \in Clients,
         call'[c] = call[c], pc'[c] = pc[c], view'[c] = view[c],
         DOMAIN records \subseteq DOMAIN records'
  PROVE  Inspecting(c)'
<1>1. Inspecting(c)
  BY DEF ViewInv
<1>2. FirstSeen(c) => FirstSeen(c)'
  BY DEF FirstSeen, Listed, Wanted
<1>3. HangsTogether(c) => HangsTogether(c)'
  BY DEF HangsTogether, Wanted
<1> QED
  BY <1>1, <1>2, <1>3 DEF Inspecting

LEMMA ViewStep ==
  ASSUME ViewInv, GraphInv', NEW c \in Clients, Move(c)
  PROVE  ViewInv'
<1>1. StepOK(c)
  BY TransactionSteps, WriteIndexSteps, ReindexSteps, InspectSteps
     DEF ViewInv, GraphInv, Move, TransactionOn
<1>2. DOMAIN records \subseteq DOMAIN records'
  BY <1>1, RowsKept DEF ViewInv, GraphInv, StepOK
<1>3. \A d \in Clients \ {c} : call'[d] = call[d] /\ pc'[d] = pc[d]
  BY <1>1 DEF StepOK, Frame
<1>4. Inspecting(c)
  BY DEF ViewInv
<1>5. CASE (TransactionOn(c) \/ IndexMove(c) \/ ReindexMove(c)) /\ UNCHANGED view
  <2>1. Inspecting(c)'
    <3>1. call'[c].op = "inspect" => call'[c] = call[c]
      <4>1. CASE Commit(c)
        <5>1. call[c].op \in {"add", "update"}
          BY <4>1 DEF Commit, ViewInv, GraphInv, UpdateInv, ClientOK
        <5>2. CallKept(c)
          BY <4>1, <5>1, CommitAddGraph, CommitUpdateGraph DEF ViewInv, GraphStep
        <5> QED
          BY <5>1, <5>2, CallFields DEF ViewInv
      <4>2. CASE ~ Commit(c)
        <5>1. UNCHANGED call
          BY <1>5, <4>2 DEF TransactionOn, TransactionMove, TransactionStep, AddMemory,
             WriteSource, ReadForUpdate,
             UpdateRow, LockEntity, StatementFails, BreakDeadlock, Abort,
             IndexMove, IndexStep, InsertChunks, ReplaceChunks, ClearOwn, SkipRefresh, Upsert,
             UpdatePointIds,
             GivesUp, IndexFails, InsertRefused, IndexGivesUp, EraseRow, ArchiveRecord,
             ArchiveRow, DeletesPoints, DeletePoints, DeleteFails,
             ReindexMove, ReindexStep, ListToClear, ClearPage, ListPage, UpsertPage,
             UpdatePageIds, ReindexFails
        <5> QED
          BY <5>1
      <4> QED
        BY <4>1, <4>2
    <3>2. call'[c].op = "inspect" => pc'[c] = "failed"
      BY <1>5, <3>1, NothingElse
    <3> QED
      BY <1>4, <3>1, <3>2 DEF Inspecting
  <2>2. \A d \in Clients \ {c} : Inspecting(d)'
    BY <1>2, <1>3, <1>5, ViewKept
  <2> QED
    BY <1>5, <2>1, <2>2 DEF ViewInv
<1>6. CASE InspectMove(c) /\ UNCHANGED <<records, sources, entities, call, tx, held, index>>
  <2>1. UNCHANGED <<records, call>>
    BY <1>6
  <2>2. CASE InspectEntities(c)
    <3>1. /\ DOMAIN view' = Clients /\ \A d \in Clients \ {c} : view'[d] = view[d]
          /\ pc'[c] = "inspect" \/ (pc'[c] = "done" /\ view'[c].entities = {}
                                       /\ view'[c].relationships = {})
          /\ FirstSeen(c)'
      BY <2>1, <2>2, FirstStatement
    <3>2. pc'[c] = "done" => HangsTogether(c)'
      BY <3>1 DEF HangsTogether, FirstSeen, Listed
    <3>3. Inspecting(c)'
      BY <1>4, <2>1, <3>1, <3>2 DEF Inspecting
    <3>4. \A d \in Clients \ {c} : Inspecting(d)'
      BY <1>2, <1>3, <3>1, ViewKept
    <3> QED
      BY <3>1, <3>3, <3>4 DEF ViewInv
  <2>3. CASE InspectRelationships(c)
    <3>1. /\ DOMAIN view' = Clients /\ \A d \in Clients \ {c} : view'[d] = view[d]
          /\ call[c].op = "inspect" => pc'[c] = "done" /\ HangsTogether(c)'
      BY <2>1, <2>3, SecondStatement DEF InspectRelationships, ViewInv
    <3>2. Inspecting(c)'
      BY <1>4, <2>1, <3>1 DEF Inspecting
    <3>3. \A d \in Clients \ {c} : Inspecting(d)'
      BY <1>2, <1>3, <3>1, ViewKept
    <3> QED
      BY <3>1, <3>2, <3>3 DEF ViewInv
  <2>4. CASE InspectFails(c)
    <3>1. UNCHANGED view /\ pc'[c] = "failed"
      BY <2>4 DEF InspectFails, Goto, ViewInv, GraphInv, UpdateInv, Shape
    <3>2. Inspecting(c)'
      BY <1>4, <2>1, <3>1 DEF Inspecting
    <3>3. \A d \in Clients \ {c} : Inspecting(d)'
      BY <1>2, <1>3, <3>1, ViewKept
    <3> QED
      BY <3>1, <3>2, <3>3 DEF ViewInv
  <2> QED
    BY <1>6, <2>2, <2>3, <2>4 DEF InspectMove, InspectStep
<1> QED
  BY <1>5, <1>6 DEF Move

LEMMA ViewInit == Init => ViewInv
<1>1. SUFFICES ASSUME Init  PROVE ViewInv
  OBVIOUS
<1>2. /\ call \in Workloads /\ pc = [c \in Clients |-> "ready"]
      /\ view = [c \in Clients |-> NoView]
  BY <1>1 DEF Init, RepositoryInit
<1>3. ASSUME NEW c \in Clients  PROVE Inspecting(c)
  BY <1>2, InspectAssumption DEF Inspecting
<1> QED
  BY <1>1, <1>2, <1>3, GraphInit DEF ViewInv

LEMMA ViewNext == ViewInv /\ [Next]_vars => ViewInv'
<1>1. SUFFICES ASSUME ViewInv, [Next]_vars  PROVE ViewInv'
  OBVIOUS
<1>2. GraphInv'
  BY <1>1, GraphNext DEF ViewInv
<1>3. ASSUME NEW c \in Clients, Move(c)  PROVE ViewInv'
  BY <1>1, <1>2, <1>3, ViewStep
<1>4. CASE UNCHANGED vars
  <2>1. UNCHANGED <<records, call, pc, view>>
    BY <1>4 DEF vars
  <2>2. \A c \in Clients : Inspecting(c)'
    BY <1>1, <2>1, ViewKept
  <2> QED
    BY <1>1, <1>2, <2>1, <2>2 DEF ViewInv
<1> QED
  BY <1>1, <1>3, <1>4, NextMoves

LEMMA ViewGives == ViewInv => GraphViewHangsTogether
BY DEF ViewInv, Inspecting, HangsTogether, GraphViewHangsTogether

\* An answer of inspect_memory_graph joins its two statements: what it shows of a
\* record that did not change between them fits together, and nothing of it is
\* missing unless a limit or a kind cut it, for any calls that run meanwhile and
\* every fault (inspectMemoryGraph's entities, then its relationships).
THEOREM InspectedGraphFits == Spec => []GraphViewHangsTogether
<1>1. Spec => []ViewInv
  BY ViewInit, ViewNext, PTL DEF Spec
<1> QED
  BY <1>1, ViewGives, PTL

-----------------------------------------------------------------------------
(* The least and the greatest of some numbers, and what a scan leaves. *)
LEMMA LeastOf ==
  ASSUME NEW K, IsFiniteSet(K), K # {}, \A i \in K : i \in Int
  PROVE  \E i \in K : \A j \in K : i <= j
<1> DEFINE B == [i \in K |-> {j \in K : j < i}]
<1>1. B \in [K -> SUBSET K] /\ \A i \in K : B[i] = {j \in K : j < i}
  BY Zenon
<1>2. StrictOrder(K, B)
  <2> HIDE DEF B
  <2>1. \A x, y \in K : y \in B[x] => B[y] \subseteq B[x]
    <3>1. ASSUME NEW x \in K, NEW y \in K, y \in B[x], NEW z \in B[y]  PROVE z \in B[x]
      <4>1. z \in K /\ z < y /\ y < x
        BY <1>1, <3>1
      <4>2. x \in Int /\ y \in Int /\ z \in Int
        BY <4>1
      <4>3. z < x
        BY <4>1, <4>2
      <4> QED
        BY <1>1, <4>1, <4>3
    <3> QED
      BY <3>1
  <2>2. (\A x \in K : x \notin B[x]) /\ \A x, y \in K : x # y => x \in B[y] \/ y \in B[x]
    BY <1>1
  <2> QED
    BY <1>1, <2>1, <2>2 DEF StrictOrder
<1>3. 1 \in 1 .. Cardinality(K)
  BY FS_CardinalityType, FS_EmptySet
<1>4. PICK i \in K : Cardinality(B[i]) = 1 - 1
  BY <1>2, <1>3, EveryPlaceTaken, Zenon
<1>5. B[i] = {}
  <2>1. IsFiniteSet(B[i])
    BY <1>1, FS_Subset
  <2> QED
    BY <1>4, <2>1, FS_EmptySet
<1>6. \A j \in K : i <= j
  BY <1>1, <1>5
<1> QED
  BY <1>6

LEMMA GreatestOf ==
  ASSUME NEW K, IsFiniteSet(K), K # {}, \A i \in K : i \in Int
  PROVE  Greatest(K) \in K /\ \A j \in K : j <= Greatest(K)
<1> DEFINE f == [i \in K |-> 0 - i]
           M == {f[i] : i \in K}
<1>1. \A i \in K : f[i] = 0 - i /\ f[i] \in Int /\ f[i] \in M
  OBVIOUS
<1>2. f = [i \in K |-> f[i]]
  OBVIOUS
<1>3. \A x \in M : \E i \in K : x = f[i]
  OBVIOUS
<1>4. IsFiniteSet(M) /\ M # {} /\ \A x \in M : x \in Int
  <2> HIDE DEF f
  <2>1. IsFiniteSet(M)
    BY <1>2, ImageFinite
  <2> QED
    BY <1>1, <2>1
<1> HIDE DEF M, f
<1>5. PICK x \in M : \A y \in M : x <= y
  BY <1>4, LeastOf
<1>6. PICK i \in K : x = f[i]
  BY <1>3
<1>7. \A j \in K : j <= i
  BY <1>1, <1>5, <1>6
<1> QED
  BY <1>7 DEF Greatest

LEMMA NoFirstFailure ==
  ASSUME NEW n \in Nat, NEW K, K \subseteq 0 .. n, \A k \in K : \E m \in K : m < k
  PROVE  K = {}
<1>1. IsFiniteSet(0 .. n) /\ \A i \in 0 .. n : i \in Int
  BY FS_Interval
<1>2. IsFiniteSet(K) /\ \A i \in K : i \in Int
  BY <1>1, FS_Subset
<1>3. K # {} => \E m \in K : \A x \in K : m <= x
  BY <1>2, LeastOf
<1> QED
  BY <1>2, <1>3

\* What the n-th token does to the loop's locals.
Token(before, n) ==
    IF n - before.first + 1 = targetTokens
    THEN [first |-> before.first + targetTokens - overlapTokens,
          chunks |-> Append(before.chunks, [first |-> before.first, last |-> n]),
          tokenAfterLastEmit |-> FALSE]
    ELSE [before EXCEPT !.tokenAfterLastEmit = before.chunks # <<>>]

Start == [first |-> 1, chunks |-> <<>>, tokenAfterLastEmit |-> FALSE]

IsScan(f, n) == f = [k \in 0 .. n |-> IF k = 0 THEN Start ELSE Token(f[k - 1], k)]

LEMMA ScanExists ==
  ASSUME NEW n \in Nat
  PROVE  \E f : IsScan(f, n)
<1> DEFINE K == {k \in 0 .. n : ~ \E f : IsScan(f, k)}
<1>1. ASSUME NEW k \in K  PROVE \E m \in K : m < k
  <2>1. k # 0
    <3> DEFINE f == [i \in 0 .. 0 |-> Start]
    <3>1. IsScan(f, 0)
      BY DEF IsScan
    <3> QED
      BY <3>1
  <2>2. k \in 0 .. n /\ k - 1 \in 0 .. n /\ k - 1 < k
    BY <2>1
  <2>3. ASSUME NEW f, IsScan(f, k - 1)  PROVE FALSE
    <3> DEFINE more == [i \in 0 .. k |-> IF i = k THEN Token(f[k - 1], k) ELSE f[i]]
    <3>1. more = [i \in 0 .. k |-> IF i = 0 THEN Start ELSE Token(more[i - 1], i)]
      <4>1. ASSUME NEW i \in 0 .. k
            PROVE  more[i] = IF i = 0 THEN Start ELSE Token(more[i - 1], i)
        <5>1. CASE i = k
          <6>1. more[i - 1] = f[k - 1] /\ more[i] = Token(f[k - 1], k)
            BY <2>1, <2>2, <5>1
          <6> HIDE DEF more
          <6> QED
            BY <2>1, <5>1, <6>1
        <5>2. CASE i # k
          <6>1. i \in 0 .. (k - 1)
            BY <2>2, <5>2
          <6>2. more[i] = f[i] /\ (i # 0 => more[i - 1] = f[i - 1])
            BY <2>2, <6>1
          <6>3. f[i] = IF i = 0 THEN Start ELSE Token(f[i - 1], i)
            BY <2>3, <6>1 DEF IsScan
          <6> HIDE DEF more
          <6> QED
            BY <6>2, <6>3
        <5> QED
          BY <5>1, <5>2
      <4>2. more = [i \in 0 .. k |-> more[i]]
        OBVIOUS
      <4> HIDE DEF more
      <4> QED
        BY <4>1, <4>2
    <3> HIDE DEF more
    <3>2. IsScan(more, k)
      BY <3>1 DEF IsScan
    <3> QED
      BY <3>2
  <2>4. k - 1 \in K
    BY <2>2, <2>3
  <2> QED
    BY <2>2, <2>4
<1>2. K = {}
  <2>1. K \subseteq 0 .. n
    OBVIOUS
  <2> HIDE DEF K
  <2> QED
    BY <1>1, <2>1, NoFirstFailure
<1> QED
  BY <1>2

LEMMA ScansAgree ==
  ASSUME NEW n \in Nat, NEW f, IsScan(f, n), NEW g, IsScan(g, n + 1)
  PROVE  f[n] = g[n]
<1> DEFINE K == {k \in 0 .. n : f[k] # g[k]}
<1>1. \A k \in 0 .. n : f[k] = IF k = 0 THEN Start ELSE Token(f[k - 1], k)
  BY DEF IsScan
<1>2. \A k \in 0 .. n : g[k] = IF k = 0 THEN Start ELSE Token(g[k - 1], k)
  BY DEF IsScan
<1>3. ASSUME NEW k \in K  PROVE \E m \in K : m < k
  <2>1. k \in 0 .. n /\ k # 0
    BY <1>1, <1>2
  <2>2. k - 1 \in 0 .. n /\ k - 1 < k
    BY <2>1
  <2>3. f[k - 1] # g[k - 1]
    BY <1>1, <1>2, <1>3, <2>1
  <2> QED
    BY <2>2, <2>3
<1>4. K = {}
  <2>1. K \subseteq 0 .. n
    OBVIOUS
  <2> HIDE DEF K
  <2> QED
    BY <1>3, <2>1, NoFirstFailure
<1> QED
  BY <1>4

LEMMA ScanIs ==
  \A n \in Nat : Scan[n] = IF n = 0 THEN Start ELSE Token(Scan[n - 1], n)
<1> DEFINE upTo == [n \in Nat |-> CHOOSE f : IsScan(f, n)]
           scan == [n \in Nat |-> upTo[n][n]]
<1>1. \A n \in Nat : IsScan(upTo[n], n) /\ scan[n] = upTo[n][n]
  BY ScanExists
<1>2. scan = [n \in Nat |-> scan[n]]
  OBVIOUS
<1> HIDE DEF scan, upTo
<1>3. ASSUME NEW n \in Nat  PROVE scan[n] = IF n = 0 THEN Start ELSE Token(scan[n - 1], n)
  <2>1. PICK f : f = upTo[n] /\ IsScan(f, n) /\ scan[n] = f[n]
    BY <1>1
  <2>2. scan[n] = IF n = 0 THEN Start ELSE Token(f[n - 1], n)
    <3>1. n \in 0 .. n
      OBVIOUS
    <3>2. f[n] = IF n = 0 THEN Start ELSE Token(f[n - 1], n)
      BY <2>1, <3>1 DEF IsScan
    <3> QED
      BY <2>1, <3>2
  <2>3. ASSUME n # 0  PROVE f[n - 1] = scan[n - 1]
    <3>1. PICK m \in Nat : m = n - 1 /\ m + 1 = n
      BY <2>3
    <3>2. IsScan(upTo[m], m) /\ IsScan(f, m + 1) /\ scan[m] = upTo[m][m]
      BY <1>1, <2>1, <3>1
    <3>3. upTo[m][m] = f[m]
      BY <3>2, ScansAgree
    <3> QED
      BY <3>1, <3>2, <3>3
  <2> QED
    BY <2>2, <2>3
<1>4. scan = [n \in Nat |-> IF n = 0 THEN Start ELSE Token(scan[n - 1], n)]
  BY <1>2, <1>3
<1>5. \E f : f = [n \in Nat |-> IF n = 0 THEN Start ELSE Token(f[n - 1], n)]
  BY <1>4
<1>6. Scan = [n \in Nat |-> IF n = 0 THEN Start ELSE Token(Scan[n - 1], n)]
  BY <1>5 DEF Scan, Start, Token
<1> QED
  BY <1>6

\* What holds of the locals once n tokens are read: each token is in a chunk
\* or in the spans still held, which the end will emit.
InChunk(chunk, token) == token \in chunk.first .. chunk.last
InChunks(list, token) == \E i \in DOMAIN list : InChunk(list[i], token)

ScanHolds(scan, n) ==
    /\ scan = [first |-> scan.first, chunks |-> scan.chunks,
               tokenAfterLastEmit |-> scan.tokenAfterLastEmit]
    /\ scan.first \in Nat \ {0} /\ scan.first <= n + 1 /\ n - scan.first + 1 < targetTokens
    /\ IsSeq(scan.chunks)
    /\ \A token \in 1 .. n :
        \/ InChunks(scan.chunks, token)
        \/ token >= scan.first /\ (scan.chunks = <<>> \/ scan.tokenAfterLastEmit)

LEMMA EmptyIsSeq == IsSeq(<<>>)
<1>1. <<>> = [i \in 1 .. 0 |-> <<>>[i]] /\ DOMAIN <<>> = 1 .. 0
  OBVIOUS
<1> QED
  BY <1>1 DEF IsSeq

LEMMA StartHolds == ScanHolds(Start, 0)
<1>1. 0 - 1 + 1 < targetTokens
  BY WindowAssumption
<1>2. 1 .. 0 = {}
  OBVIOUS
<1> QED
  BY <1>1, <1>2, EmptyIsSeq DEF ScanHolds, Start

LEMMA TokenHolds ==
  ASSUME NEW n \in Nat, NEW before, ScanHolds(before, n)
  PROVE  ScanHolds(Token(before, n + 1), n + 1)
<1> DEFINE m == n + 1
           first == before.first
           list == before.chunks
           after == Token(before, m)
<1>1. /\ first \in Nat \ {0} /\ first <= m /\ m - first + 1 <= targetTokens
      /\ targetTokens \in Nat \ {0} /\ overlapTokens \in 0 .. (targetTokens - 1)
      /\ IsSeq(list) /\ m \in Nat \ {0}
  BY WindowAssumption DEF ScanHolds
<1>2. \A token \in 1 .. m : token \in 1 .. n \/ token = m
  OBVIOUS
<1>3. CASE m - first + 1 = targetTokens
  <2> DEFINE new == [first |-> first, last |-> m]
             longer == Append(list, new)
  <2>1. after = [first |-> first + targetTokens - overlapTokens, chunks |-> longer,
                 tokenAfterLastEmit |-> FALSE]
    BY <1>3 DEF Token
  <2>2. /\ IsSeq(longer)
        /\ \A i \in DOMAIN list : i \in DOMAIN longer /\ longer[i] = list[i]
        /\ \E i \in DOMAIN longer : longer[i] = new
    <3>1. /\ IsSeq(longer)
          /\ \A i \in DOMAIN list : i \in DOMAIN longer /\ longer[i] = list[i]
          /\ \A i \in DOMAIN longer \ DOMAIN list : longer[i] = new
      <4> HIDE DEF new, list
      <4> QED
        BY <1>1, AppendGrows
    <3>2. Len(list) + 1 \in DOMAIN longer
      <4> HIDE DEF new, list
      <4> QED
        BY <1>1, AppendReaches
    <3>3. Len(list) + 1 \notin DOMAIN list
      <4>1. PICK k \in Nat : DOMAIN list = 1 .. k /\ list = [i \in 1 .. k |-> list[i]]
        BY <1>1 DEF IsSeq
      <4>2. Len(list) = k
        <5> DEFINE S == {list[i] : i \in 1 .. k}
        <5>1. list \in [1 .. k -> S]
          BY <4>1
        <5>2. list \in Seq(S)
          BY <5>1, SeqDef
        <5> HIDE DEF S, list
        <5> QED
          BY <4>1, <5>2, LenProperties
      <4> QED
        BY <4>1, <4>2
    <3> QED
      BY <3>1, <3>2, <3>3
  <2>3. new.first = first /\ new.last = m
    OBVIOUS
  <2> HIDE DEF after, new, longer
  <2>4. after.first = first + targetTokens - overlapTokens /\ after.chunks = longer
    BY <2>1
  <2>5. /\ after.first \in Nat \ {0} /\ after.first <= m + 1
        /\ m - after.first + 1 < targetTokens
    BY <1>1, <1>3, <2>4
  <2>6. ASSUME NEW token \in 1 .. m  PROVE InChunks(longer, token)
    <3>1. CASE token \in first .. m
      BY <2>2, <2>3, <3>1 DEF InChunks, InChunk
    <3>2. CASE token \notin first .. m
      <4>1. token \in 1 .. n /\ ~ (token >= first)
        BY <1>1, <1>2, <3>2
      <4>2. InChunks(list, token)
        BY <4>1 DEF ScanHolds
      <4> QED
        BY <2>2, <4>2 DEF InChunks
    <3> QED
      BY <3>1, <3>2
  <2>7. ScanHolds(after, m)
    BY <2>1, <2>2, <2>4, <2>5, <2>6 DEF ScanHolds
  <2> QED
    BY <2>7 DEF after
<1>4. CASE m - first + 1 # targetTokens
  <2>1. after = [before EXCEPT !.tokenAfterLastEmit = list # <<>>]
    BY <1>4 DEF Token
  <2>2. before = [first |-> first, chunks |-> list, tokenAfterLastEmit |-> before.tokenAfterLastEmit]
    BY DEF ScanHolds
  <2> HIDE DEF after
  <2>3. after = [first |-> first, chunks |-> list, tokenAfterLastEmit |-> (list # <<>>)]
    BY <2>1, <2>2
  <2>4. after.first = first /\ after.chunks = list /\ (list = <<>> \/ after.tokenAfterLastEmit)
    BY <2>3
  <2>5. m - first + 1 < targetTokens
    BY <1>1, <1>4
  <2>6. ASSUME NEW token \in 1 .. m  PROVE InChunks(list, token) \/ token >= first
    <3>1. CASE token \in 1 .. n
      BY <3>1 DEF ScanHolds
    <3> QED
      BY <1>1, <1>2, <3>1
  <2>7. ScanHolds(after, m)
    BY <1>1, <2>3, <2>4, <2>5, <2>6 DEF ScanHolds
  <2> QED
    BY <2>7 DEF after
<1> QED
  BY <1>3, <1>4

LEMMA ScansHold == \A n \in Nat : ScanHolds(Scan[n], n)
<1>1. SUFFICES ASSUME NEW n \in Nat  PROVE ScanHolds(Scan[n], n)
  OBVIOUS
<1> DEFINE K == {k \in 0 .. n : ~ ScanHolds(Scan[k], k)}
<1>2. ASSUME NEW k \in K  PROVE \E m \in K : m < k
  <2>1. k \in Nat /\ k # 0
    BY ScanIs, StartHolds
  <2>2. PICK m \in Nat : m = k - 1 /\ m + 1 = k /\ m \in 0 .. n /\ m < k
    BY <2>1
  <2>3. Scan[k] = Token(Scan[m], m + 1)
    BY <2>1, <2>2, ScanIs
  <2>4. ~ ScanHolds(Scan[m], m)
    BY <2>2, <2>3, TokenHolds
  <2> QED
    BY <2>2, <2>4
<1>3. K = {}
  <2>1. K \subseteq 0 .. n
    OBVIOUS
  <2> HIDE DEF K
  <2> QED
    BY <1>2, <2>1, NoFirstFailure
<1> QED
  BY <1>3

\* chunkText leaves no token out: the chunks of a text cover it.
LEMMA ChunksCover ==
  ASSUME NEW n \in Nat
  PROVE  /\ IsSeq(chunkText(n))
         /\ \A token \in 1 .. n : InChunks(chunkText(n), token)
<1> DEFINE scan == Scan[n]
           list == scan.chunks
           tail == LastChunk(scan, n)
<1>1. ScanHolds(scan, n)
  BY ScansHold
<1> HIDE DEF scan
<1> DEFINE new == [first |-> scan.first, last |-> n]
           S == {list[i] : i \in DOMAIN list} \cup {new}
<1>2. list \in Seq(S)
  <2>1. PICK k \in Nat : DOMAIN list = 1 .. k /\ list = [i \in 1 .. k |-> list[i]]
    BY <1>1 DEF ScanHolds, IsSeq
  <2>2. list \in [1 .. k -> S]
    BY <2>1
  <2> QED
    BY <2>2, SeqDef
<1>3. new \in S
  OBVIOUS
<1>4. tail \in Seq(S) /\ (tail = <<>> \/ tail = <<new>>)
  <2> HIDE DEF S, new
  <2>1. <<>> \in Seq(S) /\ <<new>> \in Seq(S)
    BY <1>3
  <2> QED
    BY <2>1 DEF LastChunk, new
<1>5. chunkText(n) = list \o tail
  BY DEF chunkText, scan
<1> HIDE DEF S, list, tail
<1>6. list \o tail \in Seq(S) /\ ToSet(list \o tail) = ToSet(list) \cup ToSet(tail)
  BY <1>2, <1>4, ConcatHolds
<1>7. IsSeq(list \o tail)
  <2> DEFINE u == list \o tail
  <2>1. Len(u) \in Nat /\ u \in [1 .. Len(u) -> S] /\ DOMAIN u = 1 .. Len(u)
    BY <1>6, LenProperties
  <2> HIDE DEF u
  <2>2. IsSeq(u)
    BY <2>1 DEF IsSeq
  <2> QED
    BY <2>2 DEF u
<1>8. ASSUME NEW token \in 1 .. n
      PROVE  \E chunk \in ToSet(list) \cup ToSet(tail) : InChunk(chunk, token)
  <2>1. CASE InChunks(list, token)
    BY <2>1 DEF InChunks, ToSet
  <2>2. CASE ~ InChunks(list, token)
    <3>1. token >= scan.first /\ (list = <<>> \/ scan.tokenAfterLastEmit) /\ scan.first \in Nat
      BY <1>1, <2>2 DEF ScanHolds, list
    <3>2. scan.first <= n
      BY <3>1
    <3>3. tail = <<new>>
      BY <3>1, <3>2 DEF LastChunk, tail, list
    <3>4. new \in ToSet(tail)
      BY <3>3 DEF ToSet
    <3>5. InChunk(new, token)
      BY <3>1 DEF InChunk
    <3> QED
      BY <3>4, <3>5
  <2> QED
    BY <2>1, <2>2
<1>9. ASSUME NEW token \in 1 .. n  PROVE InChunks(list \o tail, token)
  <2>1. PICK chunk \in ToSet(list \o tail) : InChunk(chunk, token)
    BY <1>6, <1>8
  <2> QED
    BY <2>1 DEF ToSet, InChunks
<1> QED
  BY <1>5, <1>7, <1>9

-----------------------------------------------------------------------------
(***************************************************************************)
(* What is known of the index while calls overlap.  A chunk of a record    *)
(* that is not in the index is owed by a call that has yet to put it there *)
(***************************************************************************)
IsChunk(k) == DOMAIN k = {"id", "record", "span", "pointed"} /\ k.id \in Nat \ {0}

InHand(c, k) == \E q \in work[c].page : q.id = k.id /\ q.record = k.record
Reaches(c, r) == call[c].op = "reindex" /\ records[r].scope \in call[c].scopes
Behind(c, k) == Cardinality(work[c].page) >= BatchSize /\ k.id > NextCursor(work[c].page)

\* A write or a refresh that has the chunk in hand; a reindex that has yet to
\* list it again, because it is still clearing or has not come so far.
Owes(c, k) ==
    \/ /\ call[c].op # "reindex" /\ call[c].id = k.record
       /\ pc[c] \in {"clearOwn", "upsert"} /\ InHand(c, k)
    \/ /\ Reaches(c, k.record)
       /\ \/ pc[c] = "clear"
          \/ pc[c] = "ready" /\ work[c].cursor # 0
          \/ pc[c] = "list" /\ k.id > work[c].cursor
          \/ pc[c] = "upsertPage" /\ (InHand(c, k) \/ Behind(c, k))
          \/ pc[c] = "pageIds" /\ Behind(c, k)

Updates(c, r) == call[c].op = "update" /\ call[c].id = r
Refreshing(c, r) == Refreshes(c) /\ call[c].id = r
GaveUp(c, r) == pc[c] = "failed" /\ (Refreshing(c, r) \/ Reaches(c, r))

NoDelete(r) == \A c \in Clients : call[c].op = "delete" => call[c].id # r
OneRefresh(r) == \A c, d \in Clients : Refreshing(c, r) /\ Refreshing(d, r) => c = d
OneUpdate(r) == \A c, d \in Clients : Updates(c, r) /\ Updates(d, r) => c = d

HandShape(w) ==
    /\ IsFiniteSet(w.page) /\ w.cursor \in Nat
    /\ \A q \in w.page : IsChunk(q) /\ q.record \in DOMAIN records

IndexShape ==
    /\ IsFiniteSet(chunks) /\ IsFiniteSet(points)
    /\ \A k \in chunks : IsChunk(k) /\ k.record \in DOMAIN records
    /\ \A p \in points : p.chunk \in Nat
    /\ DOMAIN work = Clients /\ \A c \in Clients : HandShape(work[c])

\* Which call is at which step, and what it names.
StageOK(c) ==
    /\ call[c].op = "reindex" =>
        pc[c] \in {"ready", "clear", "list", "upsertPage", "pageIds", "done", "failed"}
    /\ pc[c] \in {"clear", "list", "upsertPage", "pageIds"} => call[c].op = "reindex"
    /\ pc[c] = "clearOwn" => Refreshes(c)
    /\ pc[c] \in {"upsert", "pointIds"} => call[c].op = "add" \/ Refreshes(c)
    /\ pc[c] = "inspect" => call[c].op = "inspect"
    /\ pc[c] = "committed" => call[c].op \in {"add", "update", "delete"}
    /\ pc[c] \in {"committed", "clearOwn"} => call[c].id \in DOMAIN records
    /\ call[c].op = "add" => call[c].text \in DOMAIN TokensOf /\ "id" \in DOMAIN call[c]
    /\ call[c].op = "update" => call[c].text \in DOMAIN TokensOf \cup {Keep}

\* What a call has in hand.
OwnPage(c) ==
    (pc[c] \in {"clearOwn", "upsert", "pointIds"} \/ (pc[c] = "committed" /\ call[c].op = "delete")) =>
        \A q \in work[c].page : q.record = call[c].id
ScopePage(c) ==
    pc[c] \in {"clear", "upsertPage", "pageIds"} =>
        work[c].page # {} /\ \A q \in work[c].page : q.record \in Ids => Reaches(c, q.record)
ClearPageOK(c) ==
    pc[c] = "clearOwn" /\ call[c].id \in Ids /\ OneRefresh(call[c].id) =>
        /\ ChunksOfRecord(call[c].id) # {}
        /\ \A k \in ChunksOfRecord(call[c].id) : InHand(c, k)

OwedInv ==
    \A r \in Ids : NoDelete(r) /\ OneRefresh(r) =>
        \A k \in ChunksOfRecord(r) :
            Indexed(k) \/ \E c \in Clients : Owes(c, k) \/ GaveUp(c, r)

\* The chunks of a record are those of its text, or will be.
Spans(text) == {ChunksOf[text][n] : n \in DOMAIN ChunksOf[text]}
SpansOf(r) == {k.span : k \in ChunksOfRecord(r)}

Adding(c, r) == call[c].op = "add" /\ call[c].id = r /\ pc[c] = "committed"
Fits(r) ==
    \/ SpansOf(r) = Spans(records[r].text)
    \/ ChunksOfRecord(r) = {} /\ \E c \in Clients : Adding(c, r) /\ tx[c].next.text = records[r].text
    \/ \E c \in Clients : Refreshing(c, r) /\ pc[c] \in {"committed", "failed"}

TextOK(c) ==
    /\ pc[c] = "committed" /\ call[c].op = "add" =>
        \A d \in Clients : Adding(d, call[c].id) => d = c
    /\ pc[c] \in {"update", "entities"} /\ call[c].op = "update" =>
        /\ tx[c].read.text \in DOMAIN TokensOf
        /\ call[c].id \in Ids /\ OneUpdate(call[c].id) => tx[c].read.text = records[call[c].id].text
    /\ pc[c] = "entities" => tx[c].next.text \in DOMAIN TokensOf
    /\ pc[c] = "committed" /\ call[c].op \in {"add", "update"} => tx[c].next.text \in DOMAIN TokensOf
    /\ (/\ pc[c] = "committed" /\ call[c].op = "update"
        /\ call[c].id \in Ids /\ OneUpdate(call[c].id)) =>
            tx[c].next.text = records[call[c].id].text

FitsInv ==
    \A r \in Ids : records[r].text \in DOMAIN TokensOf /\ (OneUpdate(r) => Fits(r))

ClientKeeps(c) == StageOK(c) /\ OwnPage(c) /\ ScopePage(c) /\ ClearPageOK(c) /\ TextOK(c)

LosesInv ==
    /\ GraphInv /\ IndexShape
    /\ \A c \in Clients : ClientKeeps(c)
    /\ OwedInv /\ FitsInv

-----------------------------------------------------------------------------
(* What a step of client c does to the index *)

Alike(A, B) ==
    /\ \A k \in A : \E j \in B : j.id = k.id /\ j.record = k.record /\ j.span = k.span
    /\ \A j \in B : \E k \in A : j.id = k.id /\ j.record = k.record /\ j.span = k.span

RowsStay(c) ==
    \A r \in Ids' : r \in DOMAIN records =>
        /\ r \in Ids /\ records'[r].scope = records[r].scope
        /\ \/ records'[r].text = records[r].text
           \/ Updates(c, r) /\ records'[r].text \in DOMAIN TokensOf

ChunksStay(c) ==
    \A r \in Ids' \cap DOMAIN records :
        \/ Alike(ChunksOfRecord(r), ChunksOfRecord(r)')
        \/ Refreshing(c, r)
        \/ ChunksOfRecord(r) = {}

NewRows(c) ==
    /\ \A r \in Ids' \ DOMAIN records :
        /\ records'[r].text \in DOMAIN TokensOf /\ ChunksOfRecord(r)' = {}
        /\ Adding(c, r)' /\ tx'[c].next.text = records'[r].text
    /\ \A r \in DOMAIN records : Adding(c, r)' => Adding(c, r)

\* The chunk is in the index now, or c will put it there.
Settled(c, k) == Indexed(k) \/ Owes(c, k) \/ GaveUp(c, k.record)

ChunkKept(c, k, j) ==
    j.id = k.id /\ j.record = k.record /\ ~ Owes(c, j) /\ (Indexed(j) => Indexed(k)')

Pays(c) ==
    \A r \in Ids' \cap Ids : NoDelete(r) /\ OneRefresh(r) =>
        \A k \in ChunksOfRecord(r)' :
            Settled(c, k)' \/ \E j \in ChunksOfRecord(r) : ChunkKept(c, k, j)

FitsStay(c) ==
    \A r \in Ids' \cap Ids : OneUpdate(r) =>
        \/ Fits(r)'
        \/ /\ records'[r].text = records[r].text
           /\ Alike(ChunksOfRecord(r), ChunksOfRecord(r)')
           /\ ~ Adding(c, r) /\ ~ (Refreshing(c, r) /\ pc[c] = "committed")

KeepsStep(c) ==
    /\ GraphInv' /\ StepOK(c) /\ CallKept(c) /\ pc[c] # "failed"
    /\ IndexShape' /\ \A d \in Clients \ {c} : work'[d] = work[d]
    /\ ClientKeeps(c)'
    /\ RowsStay(c) /\ ChunksStay(c) /\ NewRows(c) /\ Pays(c) /\ FitsStay(c)

\* Who deletes, updates and refreshes what is the same after a step.
LEMMA SameCalls ==
  ASSUME GraphInv, NEW c \in Clients, CallKept(c)
  PROVE  /\ \A d \in Clients : \A r : Updates(d, r)' <=> Updates(d, r)
         /\ \A d \in Clients : \A r : Refreshing(d, r)' <=> Refreshing(d, r)
         /\ \A d \in Clients : Refreshes(d)' <=> Refreshes(d)
         /\ \A r : OneUpdate(r)' <=> OneUpdate(r)
         /\ \A r : OneRefresh(r)' <=> OneRefresh(r)
         /\ \A r : NoDelete(r)' <=> NoDelete(r)
<1>1. \A d \in Clients : call'[d].op = call[d].op /\ (call[d].op # "add" => call'[d] = call[d])
  BY CallFields
<1>2. /\ \A d \in Clients : \A r : Updates(d, r)' <=> Updates(d, r)
      /\ \A d \in Clients : \A r : Refreshing(d, r)' <=> Refreshing(d, r)
      /\ \A d \in Clients : Refreshes(d)' <=> Refreshes(d)
  BY <1>1 DEF Updates, Refreshing, Refreshes
<1>3. \A r : NoDelete(r)' <=> NoDelete(r)
  BY <1>1 DEF NoDelete
<1> QED
  BY <1>2, <1>3 DEF OneUpdate, OneRefresh

LEMMA InHandKept ==
  ASSUME NEW d \in Clients, work'[d] = work[d], NEW k, NEW j, j.id = k.id, j.record = k.record
  PROVE  (InHand(d, k)' <=> InHand(d, j)) /\ (Behind(d, k)' <=> Behind(d, j))
BY DEF InHand, Behind, NextCursor

\* What the others know holds on, whatever c does.
LEMMA OthersKeep ==
  ASSUME LosesInv, NEW c \in Clients, KeepsStep(c), NEW d \in Clients \ {c}
  PROVE  ClientKeeps(d)'
<1>1. /\ call'[d] = call[d] /\ pc'[d] = pc[d] /\ tx'[d] = tx[d] /\ work'[d] = work[d]
      /\ DOMAIN records \subseteq DOMAIN records'
  BY RowsKept DEF KeepsStep, StepOK, Frame, LosesInv, GraphInv
<1>2. GraphInv /\ CallKept(c) /\ RowsStay(c) /\ ChunksStay(c) /\ NewRows(c) /\ ClientKeeps(d)
  BY DEF LosesInv, KeepsStep
<1>3. /\ \A r : OneUpdate(r)' <=> OneUpdate(r)
      /\ \A r : OneRefresh(r)' <=> OneRefresh(r)
  BY <1>2, SameCalls
<1>4. StageOK(d)'
  BY <1>1, <1>2 DEF ClientKeeps, StageOK, Refreshes
<1>5. OwnPage(d)'
  BY <1>1, <1>2 DEF ClientKeeps, OwnPage
<1>6. ScopePage(d)'
  <2>1. \A q \in work[d].page : q.record \in DOMAIN records
    BY DEF LosesInv, IndexShape, HandShape
  <2>2. \A r \in DOMAIN records : r \in Ids' => (r \in Ids /\ records'[r].scope = records[r].scope)
    BY <1>2 DEF RowsStay
  <2> QED
    BY <1>1, <1>2, <2>1, <2>2 DEF ClientKeeps, ScopePage, Reaches
<1>7. ClearPageOK(d)'
  <2> PICK r : r = call[d].id
    OBVIOUS
  <2>1. SUFFICES ASSUME pc[d] = "clearOwn", r \in Ids', OneRefresh(r)
                 PROVE  /\ ChunksOfRecord(r)' # {}
                        /\ \A k \in ChunksOfRecord(r)' : InHand(d, k)'
    BY <1>1, <1>3 DEF ClearPageOK, ChunksOfRecord, InHand
  <2>2. r \in DOMAIN records /\ Refreshing(d, r)
    BY <1>2, <2>1 DEF ClientKeeps, StageOK, Refreshing
  <2>3. r \in Ids
    BY <1>2, <2>1, <2>2 DEF RowsStay
  <2>4. /\ ChunksOfRecord(r) # {} /\ \A k \in ChunksOfRecord(r) : InHand(d, k)
    BY <1>2, <2>1, <2>3 DEF ClientKeeps, ClearPageOK
  <2>5. ~ Refreshing(c, r)
    BY <2>1, <2>2 DEF OneRefresh
  <2>6. Alike(ChunksOfRecord(r), ChunksOfRecord(r)')
    BY <1>2, <2>1, <2>2, <2>4, <2>5 DEF ChunksStay
  <2>7. ASSUME NEW k \in ChunksOfRecord(r)'  PROVE InHand(d, k)'
    <3>1. PICK j \in ChunksOfRecord(r) : j.id = k.id /\ j.record = k.record
      BY <2>6 DEF Alike
    <3> QED
      BY <1>1, <2>4, <3>1, InHandKept
  <2>8. ChunksOfRecord(r)' # {}
    BY <2>4, <2>6 DEF Alike
  <2> QED
    BY <2>7, <2>8
<1>8. TextOK(d)'
  <2> PICK r : r = call[d].id
    OBVIOUS
  <2>1. ASSUME pc[d] = "committed", call[d].op = "add", NEW e \in Clients, Adding(e, r)'
        PROVE  e = d
    <3>1. r \in DOMAIN records /\ \A f \in Clients : Adding(f, r) => f = d
      BY <1>2, <2>1 DEF ClientKeeps, StageOK, TextOK
    <3>2. CASE e = c
      <4>1. Adding(e, r)
        BY <1>2, <2>1, <3>1, <3>2 DEF NewRows
      <4> QED
        BY <3>1, <4>1
    <3>3. CASE e # c
      <4>1. Adding(e, r)
        BY <2>1, <3>3 DEF KeepsStep, StepOK, Frame, Adding
      <4> QED
        BY <3>1, <4>1
    <3> QED
      BY <3>2, <3>3
  <2>2. ASSUME r \in Ids', OneUpdate(r), call[d].op = "update",
               pc[d] \in {"update", "entities", "committed"}
        PROVE  r \in Ids /\ records'[r].text = records[r].text
    <3>1. r \in DOMAIN records
      <4>1. CASE pc[d] = "committed"
        BY <1>2, <2>2, <4>1 DEF ClientKeeps, StageOK
      <4>2. CASE pc[d] \in {"update", "entities"}
        BY <2>2, <4>2 DEF LosesInv, GraphInv, UpdateInv, ClientOK, ReadIsOlder
      <4> QED
        BY <2>2, <4>1, <4>2
    <3>2. ~ Updates(c, r)
      BY <2>2 DEF OneUpdate, Updates
    <3> QED
      BY <1>2, <2>2, <3>1, <3>2 DEF RowsStay
  <2>3. TextOK(d)
    BY <1>2 DEF ClientKeeps
  <2>4. ASSUME pc[d] \in {"update", "entities"}, call[d].op = "update"
        PROVE  /\ tx[d].read.text \in DOMAIN TokensOf
               /\ r \in Ids' /\ OneUpdate(r) => tx[d].read.text = records'[r].text
    BY <2>2, <2>3, <2>4 DEF TextOK
  <2>5. ASSUME pc[d] = "committed", call[d].op = "update", r \in Ids', OneUpdate(r)
        PROVE  tx[d].next.text = records'[r].text
    BY <2>2, <2>3, <2>5 DEF TextOK
  <2>6. /\ pc[d] = "entities" => tx[d].next.text \in DOMAIN TokensOf
        /\ pc[d] = "committed" /\ call[d].op \in {"add", "update"} => tx[d].next.text \in DOMAIN TokensOf
    BY <2>3 DEF TextOK
  <2> QED
    BY <1>1, <1>3, <2>1, <2>4, <2>5, <2>6 DEF TextOK, Adding
<1> QED
  BY <1>4, <1>5, <1>6, <1>7, <1>8 DEF ClientKeeps

LEMMA OwedKept ==
  ASSUME LosesInv, NEW c \in Clients, KeepsStep(c)
  PROVE  OwedInv'
<1>1. GraphInv /\ CallKept(c)
  BY DEF LosesInv, KeepsStep
<1>2. /\ \A r : OneRefresh(r)' <=> OneRefresh(r)
      /\ \A r : NoDelete(r)' <=> NoDelete(r)
  BY <1>1, SameCalls
<1>3. SUFFICES ASSUME NEW r \in Ids', NoDelete(r), OneRefresh(r), NEW k \in ChunksOfRecord(r)'
               PROVE  Indexed(k)' \/ \E d \in Clients : Owes(d, k)' \/ GaveUp(d, r)'
  BY <1>2 DEF OwedInv
<1>4. k \in chunks' /\ k.record = r
  BY DEF ChunksOfRecord
<1>5. CASE r \notin DOMAIN records
  BY <1>5 DEF KeepsStep, NewRows
<1>6. CASE r \in DOMAIN records
  <2>1. r \in Ids /\ records'[r].scope = records[r].scope
    BY <1>6 DEF KeepsStep, RowsStay
  <2>2. CASE Settled(c, k)'
    BY <1>4, <2>2 DEF Settled
  <2>3. CASE \E j \in ChunksOfRecord(r) : ChunkKept(c, k, j)
    <3>1. PICK j \in ChunksOfRecord(r) : ChunkKept(c, k, j)
      BY <2>3
    <3>2. j.id = k.id /\ j.record = k.record /\ ~ Owes(c, j) /\ (Indexed(j) => Indexed(k)')
      BY <3>1 DEF ChunkKept
    <3>3. ASSUME NEW d \in Clients \ {c}, Owes(d, j)  PROVE Owes(d, k)'
      <4>1. /\ call'[d] = call[d] /\ pc'[d] = pc[d] /\ work'[d] = work[d]
        BY DEF KeepsStep, StepOK, Frame
      <4>2. (InHand(d, k)' <=> InHand(d, j)) /\ (Behind(d, k)' <=> Behind(d, j))
        BY <3>2, <4>1, InHandKept
      <4>3. Reaches(d, k.record)' <=> Reaches(d, j.record)
        BY <1>4, <2>1, <3>2, <4>1 DEF Reaches
      <4> QED
        BY <3>2, <3>3, <4>1, <4>2, <4>3 DEF Owes
    <3>4. ASSUME NEW d \in Clients, GaveUp(d, r)  PROVE GaveUp(d, r)'
      <4>1. d # c
        BY <3>4 DEF GaveUp, KeepsStep
      <4>2. call'[d] = call[d] /\ pc'[d] = pc[d]
        BY <4>1 DEF KeepsStep, StepOK, Frame
      <4> QED
        BY <2>1, <3>4, <4>2 DEF GaveUp, Refreshing, Refreshes, Reaches
    <3>5. Indexed(j) \/ \E d \in Clients : Owes(d, j) \/ GaveUp(d, r)
      BY <1>3, <2>1, <3>1 DEF LosesInv, OwedInv
    <3> QED
      BY <3>2, <3>3, <3>4, <3>5
  <2> QED
    BY <1>3, <2>1, <2>2, <2>3 DEF KeepsStep, Pays
<1> QED
  BY <1>5, <1>6

LEMMA FitsKept ==
  ASSUME LosesInv, NEW c \in Clients, KeepsStep(c)
  PROVE  FitsInv'
<1>1. GraphInv /\ CallKept(c) /\ NewRows(c) /\ RowsStay(c) /\ FitsStay(c) /\ pc[c] # "failed"
  BY DEF LosesInv, KeepsStep
<1>2. /\ \A r : OneUpdate(r)' <=> OneUpdate(r)
      /\ \A d \in Clients : \A r : Refreshing(d, r)' <=> Refreshing(d, r)
  BY <1>1, SameCalls
<1>3. SUFFICES ASSUME NEW r \in Ids'
               PROVE  records'[r].text \in DOMAIN TokensOf /\ (OneUpdate(r) => Fits(r)')
  BY <1>2 DEF FitsInv
<1>4. CASE r \notin DOMAIN records
  BY <1>1, <1>4 DEF NewRows, Fits
<1>5. CASE r \in DOMAIN records
  <2>1. r \in Ids
    BY <1>1, <1>5 DEF RowsStay
  <2>2. records[r].text \in DOMAIN TokensOf /\ (OneUpdate(r) => Fits(r))
    BY <2>1 DEF LosesInv, FitsInv
  <2>3. records'[r].text \in DOMAIN TokensOf
    BY <1>1, <1>5, <2>2 DEF RowsStay
  <2>4. ASSUME OneUpdate(r), records'[r].text = records[r].text,
               Alike(ChunksOfRecord(r), ChunksOfRecord(r)'),
               ~ Adding(c, r), ~ (Refreshing(c, r) /\ pc[c] = "committed")
        PROVE  Fits(r)'
    <3>1. \A d \in Clients \ {c} : call'[d] = call[d] /\ pc'[d] = pc[d] /\ tx'[d] = tx[d]
      BY DEF KeepsStep, StepOK, Frame
    <3>2. SpansOf(r)' = SpansOf(r)
      BY <2>4 DEF SpansOf, Alike
    <3>3. CASE SpansOf(r) = Spans(records[r].text)
      BY <2>4, <3>2, <3>3 DEF Fits, Spans
    <3>4. CASE /\ ChunksOfRecord(r) = {}
               /\ \E d \in Clients : Adding(d, r) /\ tx[d].next.text = records[r].text
      <4>1. ChunksOfRecord(r)' = {}
        BY <2>4, <3>4 DEF Alike
      <4>2. PICK d \in Clients : Adding(d, r) /\ tx[d].next.text = records[r].text
        BY <3>4
      <4>3. d # c /\ Adding(d, r)' /\ tx'[d].next.text = records'[r].text
        BY <2>4, <3>1, <4>2 DEF Adding
      <4> QED
        BY <4>1, <4>3 DEF Fits
    <3>5. CASE \E d \in Clients : Refreshing(d, r) /\ pc[d] \in {"committed", "failed"}
      <4>1. PICK d \in Clients : Refreshing(d, r) /\ pc[d] \in {"committed", "failed"}
        BY <3>5
      <4>2. d # c
        BY <1>1, <2>4, <4>1
      <4> QED
        BY <1>2, <3>1, <4>1, <4>2 DEF Fits
    <3> QED
      BY <2>2, <2>4, <3>3, <3>4, <3>5 DEF Fits
  <2>5. OneUpdate(r) => Fits(r)'
    BY <1>1, <2>1, <2>4 DEF FitsStay
  <2> QED
    BY <2>3, <2>5
<1> QED
  BY <1>4, <1>5

LEMMA KeepsStepKeeps ==
  ASSUME LosesInv, NEW c \in Clients, KeepsStep(c)
  PROVE  LosesInv'
<1>1. \A d \in Clients : ClientKeeps(d)'
  BY OthersKeep DEF KeepsStep
<1> QED
  BY <1>1, OwedKept, FitsKept DEF LosesInv, KeepsStep

-----------------------------------------------------------------------------
(* Chunks, pages and cursors *)

LEMMA RowsAre ==
  ASSUME NEW r, NEW text \in DOMAIN TokensOf, NEW lastId \in Nat, NEW pointed,
         NEW new, new = Rows(r, text, lastId, pointed)
  PROVE  /\ IsFiniteSet(new) /\ new # {}
         /\ \A k \in new : IsChunk(k) /\ k.record = r
         /\ {k.span : k \in new} = Spans(text)
<1> DEFINE list == ChunksOf[text]
           row(n) == [id |-> lastId + n, record |-> r, span |-> list[n], pointed |-> pointed]
           f == [n \in DOMAIN list |-> row(n)]
<1>1. TokensOf[text] \in Nat \ {0} /\ list = chunkText(TokensOf[text])
  BY IndexAssumption DEF ChunksOf
<1>2. IsSeq(list) /\ InChunks(list, 1)
  BY <1>1, ChunksCover
<1>3. PICK m \in Nat : DOMAIN list = 1 .. m /\ m # 0
  BY <1>2 DEF IsSeq, InChunks
<1> HIDE DEF list
<1>4. new = {row(n) : n \in DOMAIN list}
  BY DEF Rows, list
<1>5. IsFiniteSet(new)
  <2>1. IsFiniteSet(DOMAIN list)
    BY <1>3, FS_Interval
  <2>2. f = [n \in DOMAIN list |-> f[n]] /\ new = {f[n] : n \in DOMAIN list}
    BY <1>4
  <2> HIDE DEF f
  <2> QED
    BY <2>1, <2>2, ImageFinite
<1>6. ASSUME NEW n \in DOMAIN list  PROVE IsChunk(row(n)) /\ row(n).record = r /\ row(n).span = list[n]
  <2>1. n \in Nat \ {0}
    BY <1>3
  <2>2. lastId + n \in Nat \ {0}
    BY <2>1
  <2> QED
    BY <2>2 DEF IsChunk
<1> HIDE DEF row
<1>7. \A k \in new : IsChunk(k) /\ k.record = r
  BY <1>4, <1>6
<1>8. new # {}
  BY <1>3, <1>4
<1>9. {k.span : k \in new} = Spans(text)
  <2>1. Spans(text) = {list[n] : n \in DOMAIN list}
    BY DEF Spans, list
  <2> QED
    BY <1>4, <1>6, <2>1
<1> QED
  BY <1>5, <1>7, <1>8, <1>9

LEMMA LastIdIsNat == IndexShape => LastChunkId \in Nat
<1>1. SUFFICES ASSUME IndexShape  PROVE LastChunkId \in Nat
  OBVIOUS
<1> DEFINE ofChunks == {k.id : k \in chunks}
           ofPoints == {p.chunk : p \in points}
           ofPage(c) == {k.id : k \in work[c].page}
           pages == {ofPage(c) : c \in Clients}
           all == {0} \cup ofChunks \cup ofPoints \cup UNION pages
<1>2. IsFiniteSet(ofChunks) /\ ofChunks \subseteq Nat
  <2> DEFINE f == [k \in chunks |-> k.id]
  <2>1. f = [k \in chunks |-> f[k]] /\ ofChunks = {f[k] : k \in chunks} /\ IsFiniteSet(chunks)
    BY <1>1 DEF IndexShape
  <2>2. ofChunks \subseteq Nat
    BY <1>1 DEF IndexShape, IsChunk
  <2> HIDE DEF f, ofChunks
  <2> QED
    BY <2>1, <2>2, ImageFinite
<1>3. IsFiniteSet(ofPoints) /\ ofPoints \subseteq Nat
  <2> DEFINE f == [p \in points |-> p.chunk]
  <2>1. f = [p \in points |-> f[p]] /\ ofPoints = {f[p] : p \in points} /\ IsFiniteSet(points)
    BY <1>1 DEF IndexShape
  <2>2. ofPoints \subseteq Nat
    BY <1>1 DEF IndexShape
  <2> HIDE DEF f, ofPoints
  <2> QED
    BY <2>1, <2>2, ImageFinite
<1>4. ASSUME NEW c \in Clients  PROVE IsFiniteSet(ofPage(c)) /\ ofPage(c) \subseteq Nat
  <2> DEFINE page == work[c].page
             f == [k \in page |-> k.id]
  <2>1. f = [k \in page |-> f[k]] /\ ofPage(c) = {f[k] : k \in page} /\ IsFiniteSet(page)
    BY <1>1 DEF IndexShape, HandShape
  <2>2. ofPage(c) \subseteq Nat
    BY <1>1 DEF IndexShape, HandShape, IsChunk
  <2> HIDE DEF f, page, ofPage
  <2> QED
    BY <2>1, <2>2, ImageFinite
<1>5. IsFiniteSet(UNION pages) /\ UNION pages \subseteq Nat
  <2> DEFINE f == [c \in Clients |-> ofPage(c)]
  <2>1. f = [c \in Clients |-> f[c]] /\ pages = {f[c] : c \in Clients}
    OBVIOUS
  <2>2. (\A S \in pages : IsFiniteSet(S)) /\ UNION pages \subseteq Nat
    BY <1>4
  <2> HIDE DEF f, pages
  <2>3. IsFiniteSet(pages)
    BY <2>1, ImageFinite, IndexAssumption
  <2> QED
    BY <2>2, <2>3, FS_UNION
<1> HIDE DEF ofChunks, ofPoints, pages
<1>6. IsFiniteSet(all) /\ all # {} /\ all \subseteq Nat
  <2>1. IsFiniteSet({0})
    BY FS_Singleton
  <2>2. IsFiniteSet({0} \cup ofChunks)
    BY <1>2, <2>1, FS_Union
  <2>3. IsFiniteSet(({0} \cup ofChunks) \cup ofPoints)
    BY <1>3, <2>2, FS_Union
  <2>4. IsFiniteSet((({0} \cup ofChunks) \cup ofPoints) \cup UNION pages)
    BY <1>5, <2>3, FS_Union
  <2>5. all = (({0} \cup ofChunks) \cup ofPoints) \cup UNION pages
    OBVIOUS
  <2>6. 0 \in all /\ all \subseteq Nat
    <3>1. 0 \in all
      OBVIOUS
    <3>2. ASSUME NEW x \in all  PROVE x \in Nat
      <4>1. x = 0 \/ x \in ofChunks \/ x \in ofPoints \/ x \in UNION pages
        BY <3>2
      <4> HIDE DEF all
      <4> QED
        BY <1>2, <1>3, <1>5, <4>1, 0 \in Nat, Zenon
    <3> QED
      BY <3>1, <3>2
  <2> HIDE DEF all
  <2> QED
    BY <2>4, <2>5, <2>6
<1>7. Greatest(all) \in all
  <2>1. \A i \in all : i \in Int
    BY <1>6
  <2> HIDE DEF all
  <2> QED
    BY <1>6, <2>1, GreatestOf
<1>8. LastChunkId = Greatest(all)
  BY DEF LastChunkId, ofChunks, ofPoints, pages
<1> QED
  BY <1>6, <1>7, <1>8

\* Giving chunks their point ids changes nothing else of them.
LEMMA PointedAre ==
  ASSUME IndexShape, NEW page
  PROVE  /\ IsFiniteSet(Pointed(page))
         /\ \A k \in Pointed(page) : IsChunk(k) /\ k.record \in DOMAIN records
         /\ \A r : Alike(ChunksOfRecord(r), {k \in Pointed(page) : k.record = r})
<1> DEFINE change(k) == [k EXCEPT !.pointed = k.pointed \/ k.id \in {q.id : q \in page}]
           f == [k \in chunks |-> change(k)]
           new == Pointed(page)
<1>1. new = {change(k) : k \in chunks}
  BY DEF Pointed
<1>2. IsFiniteSet(new)
  <2>1. f = [k \in chunks |-> f[k]] /\ new = {f[k] : k \in chunks} /\ IsFiniteSet(chunks)
    BY <1>1 DEF IndexShape
  <2> HIDE DEF f, new
  <2> QED
    BY <2>1, ImageFinite
<1>3. ASSUME NEW k \in chunks
      PROVE  /\ IsChunk(change(k)) /\ change(k).id = k.id /\ change(k).record = k.record
             /\ change(k).span = k.span
  <2>1. IsChunk(k)
    BY DEF IndexShape
  <2> QED
    BY <2>1 DEF IsChunk
<1>4. \A k \in new : IsChunk(k) /\ k.record \in DOMAIN records
  BY <1>1, <1>3 DEF IndexShape
<1> HIDE DEF change, new
<1>5. ASSUME NEW r  PROVE Alike(ChunksOfRecord(r), {k \in new : k.record = r})
  BY <1>1, <1>3 DEF Alike, ChunksOfRecord
<1> QED
  BY <1>2, <1>4, <1>5 DEF new

\* A page is the next of the scopes' chunks: what is due and not on it comes
\* after a full page.
Due(scopes, cursor) == {k \in chunks : records[k.record].scope \in scopes /\ k.id > cursor}

LEMMA PageOf ==
  ASSUME IndexShape, NEW scopes, NEW cursor \in Nat
  PROVE  LET page == ListChunks(scopes, cursor)
         IN  /\ IsFiniteSet(page) /\ page \subseteq Due(scopes, cursor)
             /\ Due(scopes, cursor) # {} => page # {}
             /\ \A k \in Due(scopes, cursor) \ page :
                    Cardinality(page) >= BatchSize /\ k.id > NextCursor(page)
<1> DEFINE due == Due(scopes, cursor)
           before(k) == {j \in due : j.id < k.id}
           page == ListChunks(scopes, cursor)
           rest == due \ page
<1>1. page = {k \in due : Cardinality(before(k)) < BatchSize}
  BY DEF ListChunks, Due
<1>2. /\ IsFiniteSet(due) /\ IsFiniteSet(page) /\ IsFiniteSet(rest)
      /\ \A k : IsFiniteSet(before(k)) /\ Cardinality(before(k)) \in Nat
  <2>1. due \in SUBSET chunks /\ IsFiniteSet(chunks)
    BY DEF Due, IndexShape
  <2>2. IsFiniteSet(due)
    BY <2>1, FS_Subset
  <2> HIDE DEF due
  <2>3. page \in SUBSET due /\ rest \in SUBSET due /\ \A k : before(k) \in SUBSET due
    BY <1>1
  <2> HIDE DEF page, rest, before
  <2> QED
    BY <2>2, <2>3, FS_Subset, FS_CardinalityType
<1>3. \A k \in due : k.id \in Nat
  BY DEF Due, IndexShape, IsChunk
<1> HIDE DEF due, page
<1>4. ASSUME NEW S \in SUBSET due, S # {}, IsFiniteSet(S)
      PROVE  \E j \in S : \A k \in S : j.id <= k.id
  <2> DEFINE f == [k \in S |-> k.id]
             K == {f[k] : k \in S}
  <2>1. f = [k \in S |-> f[k]] /\ (\A k \in S : f[k] = k.id /\ f[k] \in K)
           /\ \A i \in K : \E k \in S : i = f[k]
    OBVIOUS
  <2>2. K # {} /\ \A i \in K : i \in Int
    BY <1>3, <1>4
  <2>3. IsFiniteSet(K)
    <3> HIDE DEF f
    <3> QED
      BY <1>4, <2>1, ImageFinite
  <2> HIDE DEF f, K
  <2>4. PICK i \in K : \A m \in K : i <= m
    BY <2>2, <2>3, LeastOf
  <2> QED
    BY <2>1, <2>4
<1>5. BatchSize \in Nat \ {0}
  BY IndexAssumption
<1>6. ASSUME due # {}  PROVE page # {}
  <2>1. PICK j \in due : \A k \in due : j.id <= k.id
    BY <1>2, <1>4, <1>6
  <2>2. before(j) = {}
    BY <1>3, <2>1
  <2>3. Cardinality(before(j)) = 0
    BY <2>2, FS_EmptySet
  <2> QED
    BY <1>1, <1>5, <2>3
<1>7. ASSUME NEW k \in rest  PROVE Cardinality(page) >= BatchSize
  <2>1. PICK j \in rest : \A i \in rest : j.id <= i.id
    <3>1. rest \in SUBSET due /\ rest # {}
      BY <1>7
    <3> HIDE DEF rest
    <3> QED
      BY <1>2, <1>4, <3>1
  <2>2. before(j) \subseteq page
    BY <1>3, <2>1
  <2>3. Cardinality(before(j)) <= Cardinality(page) /\ Cardinality(page) \in Nat
    BY <1>2, <2>2, FS_Subset, FS_CardinalityType
  <2>4. Cardinality(before(j)) >= BatchSize
    <3>1. ~ (Cardinality(before(j)) < BatchSize) /\ Cardinality(before(j)) \in Nat
      BY <1>1, <1>2, <2>1
    <3> HIDE DEF before
    <3> QED
      BY <1>5, <3>1
  <2>5. Cardinality(before(j)) \in Nat
    BY <1>2
  <2> HIDE DEF before
  <2> QED
    BY <1>5, <2>3, <2>4, <2>5
<1>8. ASSUME NEW k \in rest, NEW q \in page  PROVE q.id < k.id
  <2>1. q \in due /\ k \in due /\ q.id \in Nat /\ k.id \in Nat
    BY <1>1, <1>3
  <2>2. ASSUME k.id <= q.id  PROVE FALSE
    <3>1. before(k) \subseteq before(q)
      BY <1>3, <2>1, <2>2
    <3>2. Cardinality(before(k)) <= Cardinality(before(q))
      BY <1>2, <3>1, FS_Subset
    <3>3. Cardinality(before(q)) < BatchSize /\ ~ (Cardinality(before(k)) < BatchSize)
      BY <1>1, <2>1
    <3>4. Cardinality(before(k)) \in Nat /\ Cardinality(before(q)) \in Nat
      BY <1>2
    <3> HIDE DEF before
    <3> QED
      BY <1>5, <3>2, <3>3, <3>4
  <2> QED
    BY <2>1, <2>2
<1>9. ASSUME NEW k \in rest  PROVE k.id > NextCursor(page)
  <2>1. page # {}
    BY <1>6, <1>9
  <2> DEFINE f == [q \in page |-> q.id]
             K == {f[q] : q \in page}
  <2>2. f = [q \in page |-> f[q]] /\ K = {q.id : q \in page}
    OBVIOUS
  <2>3. K # {} /\ \A i \in K : i \in Int /\ i < k.id
    <3>1. \A q \in page : q.id \in Int /\ q.id < k.id
      BY <1>1, <1>3, <1>8, <1>9
    <3> HIDE DEF f, K
    <3> QED
      BY <2>1, <2>2, <3>1
  <2>4. IsFiniteSet(K)
    <3> HIDE DEF f
    <3> QED
      BY <1>2, <2>2, ImageFinite
  <2> HIDE DEF f, K
  <2>5. Greatest(K) \in K
    BY <2>3, <2>4, GreatestOf
  <2>6. NextCursor(page) = Greatest(K)
    BY <2>2 DEF NextCursor
  <2>7. k.id \in Nat
    BY <1>3
  <2> QED
    BY <2>3, <2>5, <2>6, <2>7
<1>10. page \subseteq due
  BY <1>1
<1> QED
  BY <1>2, <1>6, <1>7, <1>9, <1>10 DEF due, page

\* The cursor moves to a chunk of the page.
LEMMA NextCursorIs ==
  ASSUME NEW page, IsFiniteSet(page), page # {}, \A q \in page : IsChunk(q)
  PROVE  NextCursor(page) \in Nat \ {0}
<1> DEFINE f == [q \in page |-> q.id]
           K == {f[q] : q \in page}
<1>1. f = [q \in page |-> f[q]] /\ K = {q.id : q \in page}
  OBVIOUS
<1>2. K # {} /\ K \subseteq Nat \ {0}
  BY DEF IsChunk
<1>3. IsFiniteSet(K)
  <2> HIDE DEF f
  <2> QED
    BY <1>1, ImageFinite
<1> HIDE DEF f, K
<1>4. Greatest(K) \in K
  <2>1. \A i \in K : i \in Int
    BY <1>2
  <2> QED
    BY <1>2, <1>3, <2>1, GreatestOf
<1> QED
  BY <1>1, <1>2, <1>4 DEF NextCursor

LEMMA PointsFinite ==
  ASSUME NEW page, IsFiniteSet(page), \A q \in page : IsChunk(q)
  PROVE  IsFiniteSet(PointsOf(page)) /\ \A p \in PointsOf(page) : p.chunk \in Nat
<1> DEFINE f == [k \in page |-> [chunk |-> k.id, record |-> k.record]]
<1>1. f = [k \in page |-> f[k]] /\ PointsOf(page) = {f[k] : k \in page}
  BY DEF PointsOf
<1>2. \A p \in PointsOf(page) : p.chunk \in Nat
  BY DEF PointsOf, IsChunk
<1> HIDE DEF f
<1> QED
  BY <1>1, <1>2, ImageFinite

-----------------------------------------------------------------------------
(* What the steps have in common *)

\* A client that has come to a rest, or is at a step that nothing is known of.
LEMMA RestKeeps ==
  ASSUME NEW c \in Clients, StageOK(c), call'[c] = call[c],
         pc'[c] \in {"source", "missing", "done", "failed"},
         call[c].op = "reindex" => pc'[c] \in {"done", "failed"}
  PROVE  ClientKeeps(c)'
<1>1. StageOK(c)'
  BY DEF StageOK
<1>2. OwnPage(c)' /\ ScopePage(c)' /\ ClearPageOK(c)' /\ TextOK(c)'
  BY DEF OwnPage, ScopePage, ClearPageOK, TextOK
<1> QED
  BY <1>1, <1>2 DEF ClientKeeps

\* The index keeps its shape, whether or not c takes a page in hand.
LEMMA ShapeKept ==
  ASSUME IndexShape, NEW c \in Clients, DOMAIN records \subseteq DOMAIN records',
         work' = work \/ (HandShape(work'[c]) /\ \E w : work' = [work EXCEPT ![c] = w]),
         IsFiniteSet(chunks'), \A k \in chunks' : IsChunk(k) /\ k.record \in DOMAIN records,
         IsFiniteSet(points'), \A p \in points' : p.chunk \in Nat
  PROVE  IndexShape' /\ \A d \in Clients \ {c} : work'[d] = work[d]
<1>1. DOMAIN work' = Clients /\ \A d \in Clients \ {c} : work'[d] = work[d]
  BY DEF IndexShape
<1>2. \A d \in Clients : HandShape(work'[d])
  BY <1>1 DEF IndexShape
<1> QED
  BY <1>1, <1>2 DEF IndexShape, IsChunk, HandShape

\* A page that c takes in hand.
LEMMA HandHolds ==
  ASSUME IndexShape, NEW c \in Clients, NEW page, NEW cursor \in Nat, Holds(c, page, cursor),
         IsFiniteSet(page), \A q \in page : IsChunk(q) /\ q.record \in DOMAIN records
  PROVE  /\ HandShape(work'[c]) /\ \E w : work' = [work EXCEPT ![c] = w]
         /\ work'[c].page = page /\ work'[c].cursor = cursor
<1>1. work'[c] = [page |-> page, cursor |-> cursor]
  BY DEF IndexShape, Holds
<1>2. work'[c].page = page /\ work'[c].cursor = cursor
  BY <1>1
<1>3. HandShape(work'[c])
  BY <1>2 DEF HandShape
<1> QED
  BY <1>2, <1>3 DEF Holds

LEMMA AlikeSame == \A S : Alike(S, S)
BY DEF Alike

\* A step that leaves the repository's rows and calls alone.
LEMMA RowsSame ==
  ASSUME UNCHANGED <<records, call>>, NEW c, pc'[c] # "committed"
  PROVE  RowsStay(c) /\ NewRows(c) /\ CallKept(c)
BY DEF RowsStay, NewRows, CallKept, Ids, Adding

LEMMA ChunksSame ==
  ASSUME UNCHANGED <<records, chunks>>, NEW c
  PROVE  /\ ChunksStay(c)
         /\ ~ (pc[c] = "committed" /\ (call[c].op = "add" \/ Refreshes(c))) => FitsStay(c)
<1>1. \A r : ChunksOfRecord(r)' = ChunksOfRecord(r)
  BY DEF ChunksOfRecord
<1>2. \A r : Alike(ChunksOfRecord(r), ChunksOfRecord(r)')
  BY <1>1, AlikeSame
<1> QED
  BY <1>1, <1>2 DEF ChunksStay, FitsStay, Adding, Refreshing

\* A step aside from the index, of a client that owes it nothing.
LEMMA AsideKeeps ==
  ASSUME LosesInv, NEW c \in Clients, GraphInv', StepOK(c), ClientKeeps(c)',
         UNCHANGED <<records, call, chunks, points, work>>,
         pc[c] \notin {"failed", "clearOwn", "upsert", "clear", "list", "upsertPage", "pageIds"},
         pc[c] = "ready" => call[c].op # "reindex",
         pc[c] = "committed" => ~ (call[c].op = "add" \/ Refreshes(c)),
         pc'[c] # "committed"
  PROVE  KeepsStep(c)
<1>1. RowsStay(c) /\ NewRows(c) /\ CallKept(c)
  BY RowsSame
<1>2. ChunksStay(c) /\ FitsStay(c)
  BY ChunksSame
<1>3. IndexShape' /\ \A d \in Clients \ {c} : work'[d] = work[d]
  BY DEF LosesInv, IndexShape, HandShape, IsChunk
<1>4. Pays(c)
  <2>1. \A r : ChunksOfRecord(r)' = ChunksOfRecord(r)
    BY DEF ChunksOfRecord
  <2>2. \A k : ~ Owes(c, k) /\ (Indexed(k)' <=> Indexed(k))
    BY DEF Owes, Indexed, Reaches, PointsOf
  <2>3. \A r : \A k \in ChunksOfRecord(r)' : k \in ChunksOfRecord(r) /\ ChunkKept(c, k, k)
    BY <2>1, <2>2 DEF ChunkKept
  <2> QED
    BY <2>3 DEF Pays
<1> QED
  BY <1>1, <1>2, <1>3, <1>4 DEF KeepsStep

-----------------------------------------------------------------------------
(* The steps of a transaction, and the index *)

LEMMA AbortKeeps ==
  ASSUME LosesInv, NEW c \in Clients, GraphInv', StepOK(c), Abort(c),
         pc[c] \in {"source", "update", "entities"} \/ (pc[c] = "ready" /\ call[c].op = "delete"),
         UNCHANGED index
  PROVE  KeepsStep(c)
<1>1. pc'[c] = "failed" /\ UNCHANGED <<records, call, chunks, points, work>>
  BY DEF Abort, index, LosesInv, GraphInv, UpdateInv, Shape
<1>2. ClientKeeps(c)'
  BY <1>1, RestKeeps DEF LosesInv, ClientKeeps
<1> QED
  BY <1>1, <1>2, AsideKeeps

LEMMA BeforeCommitKeeps ==
  ASSUME LosesInv, NEW c \in Clients, GraphInv', StepOK(c), UNCHANGED index,
         TransactionMove(c), ~ Commit(c)
  PROVE  KeepsStep(c)
<1>1. GraphInv /\ StageOK(c) /\ TextOK(c) /\ DOMAIN pc = Clients /\ DOMAIN tx = Clients
        /\ UNCHANGED <<chunks, points, work>>
  BY DEF LosesInv, ClientKeeps, GraphInv, UpdateInv, Shape, index
<1>2. CASE StatementFails(c) \/ BreakDeadlock(c)
  <2>1. Abort(c)
    BY <1>2 DEF StatementFails, BreakDeadlock
  <2>2. pc[c] \in {"source", "update", "entities"} \/ (pc[c] = "ready" /\ call[c].op = "delete")
    BY <1>2 DEF StatementFails, BreakDeadlock, Deadlocked, WaitsFor, Needs
  <2> QED
    BY <2>1, <2>2, AbortKeeps
<1>3. CASE AddMemory(c)
  <2>1. pc[c] = "ready" /\ call[c].op = "add" /\ pc'[c] = "source" /\ UNCHANGED <<records, call>>
    BY <1>1, <1>3 DEF AddMemory
  <2>2. ClientKeeps(c)'
    BY <1>1, <2>1, RestKeeps
  <2> QED
    BY <1>1, <2>1, <2>2, AsideKeeps
<1>4. CASE WriteSource(c)
  <2>1. /\ pc[c] = "source" /\ pc'[c] = "entities" /\ UNCHANGED <<records, call>>
    BY <1>1, <1>4 DEF WriteSource
  <2>2. PICK source, mentions : tx'[c].next = WithGraph(NewRow(c, source), mentions)
    <3>1. PICK row, mentions : tx' = [tx EXCEPT ![c] = [@ EXCEPT
            !.row = row, !.next = WithGraph(NewRow(c, tx[c].source), mentions), !.want = mentions]]
      BY <1>4 DEF WriteSource
    <3>2. tx'[c].next = WithGraph(NewRow(c, tx[c].source), mentions)
      <4> HIDE DEF WithGraph
      <4> QED
        BY <1>1, <3>1 DEF GraphInv, UpdateInv, Shape, IsTx
    <3> QED
      BY <3>2
  <2>3. tx'[c].next.text = call[c].text
    BY <2>2 DEF WithGraph, NewRow
  <2>4. call[c].op = "add"
    BY <1>1, <2>1 DEF GraphInv, UpdateInv, ClientOK
  <2>5. StageOK(c)' /\ tx'[c].next.text \in DOMAIN TokensOf
    BY <1>1, <2>1, <2>3, <2>4 DEF StageOK
  <2>6. OwnPage(c)' /\ ScopePage(c)' /\ ClearPageOK(c)' /\ TextOK(c)'
    BY <2>1, <2>4, <2>5 DEF OwnPage, ScopePage, ClearPageOK, TextOK
  <2> QED
    BY <1>1, <2>1, <2>5, <2>6, AsideKeeps DEF ClientKeeps
<1>5. CASE ReadForUpdate(c) /\ call[c].id \in Ids
  <2>1. /\ pc[c] = "ready" /\ call[c].op = "update" /\ pc'[c] = "update"
        /\ UNCHANGED <<records, call>> /\ tx'[c].read = records[call[c].id]
    BY <1>1, <1>5 DEF ReadForUpdate, NoTx
  <2>2. records[call[c].id].text \in DOMAIN TokensOf
    BY <1>5 DEF LosesInv, FitsInv
  <2>3. StageOK(c)'
    BY <1>1, <2>1 DEF StageOK
  <2>4. OwnPage(c)' /\ ScopePage(c)' /\ ClearPageOK(c)' /\ TextOK(c)'
    BY <2>1, <2>2 DEF OwnPage, ScopePage, ClearPageOK, TextOK
  <2> QED
    BY <1>1, <2>1, <2>3, <2>4, AsideKeeps DEF ClientKeeps
<1>6. CASE ReadForUpdate(c) /\ call[c].id \notin Ids
  <2>1. /\ pc[c] = "ready" /\ call[c].op = "update" /\ pc'[c] = "missing"
        /\ UNCHANGED <<records, call>>
    BY <1>1, <1>6 DEF ReadForUpdate
  <2>2. ClientKeeps(c)'
    BY <1>1, <2>1, RestKeeps
  <2> QED
    BY <1>1, <2>1, <2>2, AsideKeeps
<1>7. CASE UpdateRow(c) /\ call[c].id \in Ids
  <2>1. PICK mentions : /\ pc[c] = "update" /\ pc'[c] = "entities" /\ UNCHANGED <<records, call>>
                        /\ tx' = [tx EXCEPT ![c] = [@ EXCEPT
                              !.next = WithGraph(UpdatedRow(c, records[call[c].id]), mentions),
                              !.want = mentions]]
    BY <1>1, <1>7 DEF UpdateRow
  <2>2. IsRow(records[call[c].id]) /\ call[c].op = "update"
    BY <1>1, <1>7, <2>1 DEF GraphInv, UpdateInv, Shape, ClientOK
  <2>3. /\ tx'[c].next = WithGraph(UpdatedRow(c, records[call[c].id]), mentions)
        /\ tx'[c].read = tx[c].read
    <3> HIDE DEF WithGraph
    <3> QED
      BY <1>1, <2>1 DEF GraphInv, UpdateInv, Shape, IsTx
  <2>4. tx'[c].next.text = Given(call[c].text, tx[c].read.text)
    BY <2>2, <2>3, UpdatedRowFields
  <2>5. tx[c].read.text \in DOMAIN TokensOf /\ call[c].text \in DOMAIN TokensOf \cup {Keep}
    BY <1>1, <2>1, <2>2 DEF TextOK, StageOK
  <2>6. tx'[c].next.text \in DOMAIN TokensOf
    BY <2>4, <2>5 DEF Given
  <2>7. StageOK(c)'
    BY <1>1, <2>1, <2>2 DEF StageOK
  <2>8. OneUpdate(call[c].id)' <=> OneUpdate(call[c].id)
    BY <2>1 DEF OneUpdate, Updates
  <2>9. Ids' = Ids
    BY <2>1 DEF Ids
  <2>10. OwnPage(c)' /\ ScopePage(c)' /\ ClearPageOK(c)' /\ TextOK(c)'
    BY <1>1, <2>1, <2>2, <2>3, <2>6, <2>8, <2>9 DEF OwnPage, ScopePage, ClearPageOK, TextOK
  <2> QED
    BY <1>1, <2>1, <2>7, <2>10, AsideKeeps DEF ClientKeeps
<1>8. CASE UpdateRow(c) /\ call[c].id \notin Ids
  BY <1>8, AbortKeeps DEF UpdateRow
<1>9. CASE LockEntity(c)
  <2>1. /\ pc[c] = "entities" /\ pc'[c] = "entities" /\ UNCHANGED <<records, call>>
        /\ tx'[c].next = tx[c].next /\ tx'[c].read = tx[c].read
    BY <1>1, <1>9 DEF LockEntity, GraphInv, UpdateInv, Shape, IsTx
  <2>2. StageOK(c)'
    BY <1>1, <2>1 DEF StageOK
  <2>3. OneUpdate(call[c].id)' <=> OneUpdate(call[c].id)
    BY <2>1 DEF OneUpdate, Updates
  <2>4. Ids' = Ids
    BY <2>1 DEF Ids
  <2>5. OwnPage(c)' /\ ScopePage(c)' /\ ClearPageOK(c)' /\ TextOK(c)'
    BY <1>1, <2>1, <2>3, <2>4 DEF OwnPage, ScopePage, ClearPageOK, TextOK
  <2> QED
    BY <1>1, <2>1, <2>2, <2>5, AsideKeeps DEF ClientKeeps
<1> QED
  BY <1>2, <1>3, <1>4, <1>5, <1>6, <1>7, <1>8, <1>9 DEF TransactionMove, TransactionStep

LEMMA AppendDomain ==
  ASSUME NEW s, IsSeq(s), NEW x
  PROVE  DOMAIN Append(s, x) = DOMAIN s \cup {Len(s) + 1} /\ Len(s) + 1 \notin DOMAIN s
<1>1. PICK n \in Nat : DOMAIN s = 1..n /\ s = [i \in 1..n |-> s[i]]
  BY DEF IsSeq
<1> DEFINE S == {s[i] : i \in 1..n} \cup {x}
           t == Append(s, x)
<1>2. s \in [1..n -> S]
  BY <1>1
<1>3. s \in Seq(S) /\ x \in S
  BY <1>2, SeqDef
<1>4. Len(s) = n
  BY <1>1, <1>3, LenProperties
<1>5. t \in Seq(S) /\ Len(t) = n + 1
  BY <1>3, <1>4, AppendProperties
<1> HIDE DEF S, t
<1>6. DOMAIN t = 1 .. (n + 1)
  BY <1>5, LenProperties
<1>7. 1 .. (n + 1) = (1 .. n) \cup {n + 1} /\ n + 1 \notin 1 .. n
  OBVIOUS
<1> QED
  BY <1>1, <1>4, <1>6, <1>7 DEF t

LEMMA CommitAddKeeps ==
  ASSUME LosesInv, NEW c \in Clients, GraphInv', Commit(c), call[c].op = "add", UNCHANGED index
  PROVE  KeepsStep(c)
<1>1. GraphInv /\ StageOK(c) /\ TextOK(c) /\ IsSeq(records)
        /\ UNCHANGED <<chunks, points, work>>
  BY DEF LosesInv, ClientKeeps, GraphInv, UpdateInv, Shape, index
<1> PICK new : new = Len(records) + 1
  OBVIOUS
<1>2. StepOK(c) /\ CallKept(c) /\ IsRow(tx[c].next)
  BY <1>1, CommitAddGraph DEF GraphStep, Commit, GraphInv, UpdateInv, ClientOK
<1>3. PICK id : records' = Append(records, [tx[c].next EXCEPT !.source = id])
  BY DEF Commit
<1>4. /\ pc[c] = "entities" /\ pc'[c] = "committed"
      /\ call'[c] = [call[c] EXCEPT !.id = new]
      /\ tx'[c] = [NoTx EXCEPT !.next = records'[call'[c].id]]
  BY <1>1 DEF Commit, GraphInv, UpdateInv, Shape
<1>5. call'[c].id = new /\ call'[c].op = "add" /\ DOMAIN call'[c] = DOMAIN call[c]
        /\ call'[c].text = call[c].text
  BY <1>1, <1>4 DEF StageOK, GraphInv, GraphClient, IsAdd
<1>6. tx'[c].next = records'[new]
  BY <1>4, <1>5 DEF NoTx
<1> DEFINE row == [tx[c].next EXCEPT !.source = id]
<1>7. row.text = tx[c].next.text /\ tx[c].next.text \in DOMAIN TokensOf
  BY <1>1, <1>2, <1>4 DEF IsRow, RowFields, TextOK
<1> HIDE DEF row
<1>8. /\ DOMAIN records' = DOMAIN records \cup {new} /\ new \notin DOMAIN records
      /\ (\A i \in DOMAIN records : records'[i] = records[i]) /\ records'[new] = row
  <2>1. records' = Append(records, row)
    BY <1>3 DEF row
  <2>2. DOMAIN records' = DOMAIN records \cup {new} /\ new \notin DOMAIN records
    BY <1>1, <2>1, AppendDomain
  <2>3. /\ \A i \in DOMAIN records : records'[i] = records[i]
        /\ \A i \in DOMAIN records' \ DOMAIN records : records'[i] = row
    BY <1>1, <2>1, AppendGrows
  <2> QED
    BY <2>2, <2>3
<1>9. \A d \in Clients \ {c} : call'[d] = call[d] /\ pc'[d] = pc[d] /\ tx'[d] = tx[d]
  BY <1>2 DEF StepOK, Frame
<1>10. IndexShape' /\ \A d \in Clients \ {c} : work'[d] = work[d]
  BY <1>1, <1>8 DEF LosesInv, IndexShape, HandShape, IsChunk
<1>11. RowsStay(c)
  BY <1>8 DEF RowsStay, Ids
<1>12. \A r : ChunksOfRecord(r)' = ChunksOfRecord(r)
  BY <1>1 DEF ChunksOfRecord
<1>13. ChunksStay(c)
  BY <1>12, AlikeSame DEF ChunksStay
<1>14. NewRows(c)
  <2>1. ChunksOfRecord(new) = {}
    BY <1>8 DEF LosesInv, IndexShape, ChunksOfRecord
  <2>2. \A r \in Ids' \ DOMAIN records : r = new
    BY <1>8 DEF Ids
  <2> QED
    BY <1>4, <1>5, <1>6, <1>7, <1>8, <1>12, <2>1, <2>2 DEF NewRows, Adding
<1>15. Pays(c)
  <2>1. \A k : ~ Owes(c, k) /\ (Indexed(k)' <=> Indexed(k))
    BY <1>1, <1>4 DEF Owes, Indexed, Reaches, PointsOf
  <2> QED
    BY <1>12, <2>1 DEF Pays, ChunkKept, ChunksOfRecord
<1>16. FitsStay(c)
  <2>1. \A r \in Ids' \cap Ids : records'[r].text = records[r].text
    BY <1>8 DEF Ids
  <2> QED
    BY <1>4, <1>12, <2>1, AlikeSame DEF FitsStay, Adding
<1>17. ClientKeeps(c)'
  <2>1. StageOK(c)'
    BY <1>1, <1>4, <1>5, <1>8 DEF StageOK
  <2>2. OwnPage(c)' /\ ScopePage(c)' /\ ClearPageOK(c)'
    BY <1>4, <1>5 DEF OwnPage, ScopePage, ClearPageOK
  <2>3. ASSUME NEW d \in Clients, Adding(d, new)'  PROVE d = c
    <3>1. SUFFICES ASSUME d # c  PROVE FALSE
      OBVIOUS
    <3>2. pc[d] = "committed" /\ call[d].id = new
      BY <1>9, <2>3, <3>1 DEF Adding
    <3>3. call[d].id \in DOMAIN records
      BY <3>2 DEF LosesInv, ClientKeeps, StageOK
    <3> QED
      BY <1>8, <3>2, <3>3
  <2>4. TextOK(c)'
    <3>1. \A d \in Clients : Adding(d, call[c].id)' => d = c
      BY <1>5, <2>3 DEF Adding
    <3> QED
      BY <1>4, <1>5, <1>6, <1>7, <1>8, <3>1 DEF TextOK
  <2> QED
    BY <2>1, <2>2, <2>4 DEF ClientKeeps
<1> QED
  BY <1>2, <1>4, <1>10, <1>11, <1>13, <1>14, <1>15, <1>16, <1>17 DEF KeepsStep

LEMMA CommitUpdateKeeps ==
  ASSUME LosesInv, NEW c \in Clients, GraphInv', Commit(c), call[c].op = "update", UNCHANGED index
  PROVE  KeepsStep(c)
<1>1. GraphInv /\ StageOK(c) /\ TextOK(c) /\ UNCHANGED <<chunks, points, work>>
  BY DEF LosesInv, ClientKeeps, GraphInv, UpdateInv, Shape, index
<1> DEFINE i == call[c].id
<1>2. StepOK(c) /\ CallKept(c)
  BY <1>1, CommitUpdateGraph DEF GraphStep
<1>3. /\ i \in Ids /\ records' = [records EXCEPT ![i] = tx[c].next] /\ records'[i] = tx[c].next
      /\ UNCHANGED call /\ NextIsUpdate(c)
  BY <1>1, CommitOfUpdate DEF GraphInv
<1>4. pc[c] = "entities" /\ pc'[c] = "committed" /\ tx'[c].next = records'[i]
  BY <1>1, <1>3 DEF Commit, GraphInv, UpdateInv, Shape, NoTx
<1>5. /\ tx[c].next.text = Given(call[c].text, tx[c].read.text)
      /\ tx[c].next.scope = records[i].scope
      /\ tx[c].next.text \in DOMAIN TokensOf
      /\ OneUpdate(i) => tx[c].read.text = records[i].text
  BY <1>1, <1>3, <1>4 DEF NextIsUpdate, TextOK
<1>6. /\ DOMAIN records' = DOMAIN records /\ Ids' \subseteq Ids /\ i \in DOMAIN records
      /\ \A r \in DOMAIN records : r # i => records'[r] = records[r]
  BY <1>3 DEF Ids
<1>7. IndexShape' /\ \A d \in Clients \ {c} : work'[d] = work[d]
  BY <1>1, <1>6 DEF LosesInv, IndexShape, HandShape, IsChunk
<1>8. RowsStay(c)
  BY <1>3, <1>5, <1>6 DEF RowsStay, Updates
<1>9. \A r : ChunksOfRecord(r)' = ChunksOfRecord(r)
  BY <1>1 DEF ChunksOfRecord
<1>10. ChunksStay(c)
  BY <1>9, AlikeSame DEF ChunksStay
<1>11. NewRows(c)
  BY <1>3, <1>6 DEF NewRows, Adding, Ids
<1>12. Pays(c)
  <2>1. \A k : ~ Owes(c, k) /\ (Indexed(k)' <=> Indexed(k))
    BY <1>1, <1>4 DEF Owes, Indexed, Reaches, PointsOf
  <2> QED
    BY <1>9, <2>1 DEF Pays, ChunkKept, ChunksOfRecord
<1>13. FitsStay(c)
  <2>1. SUFFICES ASSUME NEW r \in Ids' \cap Ids, OneUpdate(r)
                 PROVE  \/ Fits(r)'
                        \/ records'[r].text = records[r].text
    BY <1>4, <1>9, AlikeSame DEF FitsStay, Adding
  <2>2. CASE r # i
    BY <1>6, <2>2 DEF Ids
  <2>3. CASE r = i /\ call[c].text = Keep
    BY <1>3, <1>5, <2>1, <2>3 DEF Given
  <2>4. CASE r = i /\ call[c].text # Keep
    <3>1. Refreshing(c, r)' /\ pc'[c] = "committed"
      BY <1>3, <1>4, <2>4 DEF Refreshing, Refreshes
    <3> QED
      BY <3>1 DEF Fits
  <2> QED
    BY <2>2, <2>3, <2>4
<1>14. ClientKeeps(c)'
  <2>1. StageOK(c)'
    BY <1>1, <1>3, <1>4, <1>6 DEF StageOK
  <2>2. OwnPage(c)' /\ ScopePage(c)' /\ ClearPageOK(c)'
    BY <1>3, <1>4 DEF OwnPage, ScopePage, ClearPageOK
  <2>3. TextOK(c)'
    BY <1>3, <1>4, <1>5 DEF TextOK
  <2> QED
    BY <2>1, <2>2, <2>3 DEF ClientKeeps
<1> QED
  BY <1>2, <1>4, <1>7, <1>8, <1>10, <1>11, <1>12, <1>13, <1>14 DEF KeepsStep

LEMMA TransactionKeeps ==
  ASSUME LosesInv, NEW c \in Clients, GraphInv', TransactionOn(c)
  PROVE  KeepsStep(c)
<1>1. StepOK(c)
  BY TransactionSteps DEF TransactionOn, LosesInv, GraphInv
<1>2. CASE Commit(c)
  <2>1. call[c].op \in {"add", "update"}
    BY <1>2 DEF Commit, LosesInv, GraphInv, UpdateInv, ClientOK
  <2> QED
    BY <1>2, <2>1, CommitAddKeeps, CommitUpdateKeeps DEF TransactionOn
<1>3. CASE ~ Commit(c)
  BY <1>1, <1>3, BeforeCommitKeeps DEF TransactionOn
<1> QED
  BY <1>2, <1>3

LEMMA InspectKeeps ==
  ASSUME LosesInv, NEW c \in Clients, GraphInv', InspectMove(c),
         UNCHANGED <<records, sources, entities, call, tx, held, index>>
  PROVE  KeepsStep(c)
<1>1. StageOK(c) /\ UNCHANGED <<chunks, points, work>> /\ DOMAIN pc = Clients
  BY DEF LosesInv, ClientKeeps, index, GraphInv, UpdateInv, Shape
<1>2. StepOK(c)
  BY InspectSteps DEF LosesInv, GraphInv
<1>3. pc[c] \in {"ready", "inspect"} /\ call[c].op = "inspect"
  BY <1>1 DEF InspectMove, InspectStep, InspectEntities, InspectRelationships, InspectFails, StageOK
<1>4. pc'[c] \in {"done", "inspect", "failed"}
  BY <1>1 DEF InspectMove, InspectStep, InspectEntities, InspectRelationships, InspectFails, Goto
<1>5. StageOK(c)'
  BY <1>1, <1>3, <1>4 DEF StageOK
<1>6. OwnPage(c)' /\ ScopePage(c)' /\ ClearPageOK(c)' /\ TextOK(c)'
  BY <1>3, <1>4 DEF OwnPage, ScopePage, ClearPageOK, TextOK
<1> QED
  BY <1>1, <1>2, <1>3, <1>4, <1>5, <1>6, AsideKeeps DEF ClientKeeps

-----------------------------------------------------------------------------
(* The steps of a write, an update and a delete, and the index *)

LEMMA InsertKeeps ==
  ASSUME LosesInv, NEW c \in Clients, GraphInv', StepOK(c), InsertChunks(c)
  PROVE  KeepsStep(c)
<1> PICK r : r = call[c].id
  OBVIOUS
<1> PICK text : text = tx[c].next.text
  OBVIOUS
<1> PICK new : new = NewChunks(r, text)
  OBVIOUS
<1>1. /\ pc[c] = "committed" /\ call[c].op = "add" /\ r \in Ids /\ ChunksOfRecord(r) = {}
      /\ chunks' = chunks \cup new /\ Holds(c, new, 0) /\ pc'[c] = "upsert"
      /\ UNCHANGED <<records, call, tx, points>>
  BY DEF InsertChunks, Insertable, Goto, LosesInv, GraphInv, UpdateInv, Shape
<1>2. /\ IndexShape /\ StageOK(c) /\ TextOK(c) /\ r \in DOMAIN records
      /\ text \in DOMAIN TokensOf
  BY <1>1 DEF LosesInv, ClientKeeps, TextOK, Ids
<1>3. /\ IsFiniteSet(new) /\ new # {} /\ \A k \in new : IsChunk(k) /\ k.record = r
      /\ {k.span : k \in new} = Spans(text)
  <2>1. PICK lastId \in Nat : lastId = LastChunkId
    BY <1>2, LastIdIsNat
  <2>2. PICK pointed : pointed = FALSE
    OBVIOUS
  <2>3. new = Rows(r, text, lastId, pointed)
    BY <2>1, <2>2 DEF NewChunks
  <2> QED
    BY <1>2, <2>1, <2>3, RowsAre
<1>4. HandShape(work'[c]) /\ (\E w : work' = [work EXCEPT ![c] = w]) /\ work'[c].page = new
  BY <1>1, <1>2, <1>3, HandHolds
<1>5. IndexShape' /\ \A d \in Clients \ {c} : work'[d] = work[d]
  <2>1. IsFiniteSet(chunks') /\ \A k \in chunks' : IsChunk(k) /\ k.record \in DOMAIN records
    BY <1>1, <1>2, <1>3, FS_Union DEF IndexShape
  <2>2. IsFiniteSet(points') /\ \A p \in points' : p.chunk \in Nat
    BY <1>1, <1>2 DEF IndexShape
  <2> QED
    BY <1>1, <1>2, <1>4, <2>1, <2>2, ShapeKept
<1>6. RowsStay(c) /\ NewRows(c) /\ CallKept(c)
  BY <1>1, RowsSame
<1>7. /\ ChunksOfRecord(r)' = new
      /\ \A s : s # r => ChunksOfRecord(s)' = ChunksOfRecord(s)
  BY <1>1, <1>3 DEF ChunksOfRecord
<1>8. ChunksStay(c)
  BY <1>1, <1>7, AlikeSame DEF ChunksStay
<1>9. Pays(c)
  <2>1. ASSUME NEW k \in new  PROVE Owes(c, k)'
    BY <1>1, <1>3, <1>4, <2>1 DEF Owes, InHand
  <2>2. \A k : ~ Owes(c, k) /\ (Indexed(k)' <=> Indexed(k))
    BY <1>1 DEF Owes, Indexed, Reaches, PointsOf
  <2>3. ASSUME NEW s \in Ids' \cap Ids, NEW k \in ChunksOfRecord(s)'
        PROVE  Settled(c, k)' \/ \E j \in ChunksOfRecord(s) : ChunkKept(c, k, j)
    <3>1. CASE s = r
      BY <1>7, <2>1, <2>3, <3>1 DEF Settled
    <3>2. CASE s # r
      <4>1. k \in ChunksOfRecord(s) /\ ChunkKept(c, k, k)
        BY <1>7, <2>2, <2>3, <3>2 DEF ChunkKept
      <4> QED
        BY <4>1
    <3> QED
      BY <3>1, <3>2
  <2> QED
    BY <2>3 DEF Pays
<1>10. FitsStay(c)
  <2>1. SUFFICES ASSUME NEW s \in Ids' \cap Ids, OneUpdate(s), s = r  PROVE Fits(s)'
    BY <1>1, <1>7, AlikeSame DEF FitsStay, Adding, Refreshing, Refreshes
  <2>2. SpansOf(r)' = Spans(text)
    BY <1>3, <1>7 DEF SpansOf
  <2>3. Fits(r)
    BY <2>1 DEF LosesInv, FitsInv
  <2>4. CASE SpansOf(r) = Spans(records[r].text)
    <3>1. Spans(records[r].text) = {}
      BY <1>1, <2>4 DEF SpansOf
    <3>2. records[r].text \in DOMAIN TokensOf
      BY <1>1 DEF LosesInv, FitsInv
    <3>3. Spans(records[r].text) # {}
      <4>1. PICK any : any = Rows(r, records[r].text, 0, 0)
        OBVIOUS
      <4>2. any # {} /\ {k.span : k \in any} = Spans(records[r].text)
        BY <3>2, <4>1, RowsAre
      <4> QED
        BY <4>2
    <3> QED
      BY <3>1, <3>3
  <2>5. CASE \E d \in Clients : Adding(d, r) /\ tx[d].next.text = records[r].text
    <3>1. PICK d \in Clients : Adding(d, r) /\ tx[d].next.text = records[r].text
      BY <2>5
    <3>2. d = c
      BY <1>1, <1>2, <3>1 DEF TextOK
    <3> QED
      BY <1>1, <2>1, <2>2, <3>1, <3>2 DEF Fits, Spans
  <2>6. CASE \E d \in Clients : Refreshing(d, r) /\ pc[d] \in {"committed", "failed"}
    <3>1. PICK d \in Clients : Refreshing(d, r) /\ pc[d] \in {"committed", "failed"}
      BY <2>6
    <3>2. d # c
      BY <1>1, <3>1 DEF Refreshing, Refreshes
    <3>3. Refreshing(d, r)' /\ pc'[d] \in {"committed", "failed"}
      BY <1>1, <3>1, <3>2 DEF Refreshing, Refreshes, StepOK, Frame
    <3> QED
      BY <2>1, <3>3 DEF Fits
  <2> QED
    BY <2>3, <2>4, <2>5, <2>6 DEF Fits
<1>11. ClientKeeps(c)'
  <2>1. StageOK(c)'
    BY <1>1, <1>2 DEF StageOK
  <2>2. OwnPage(c)' /\ ScopePage(c)' /\ ClearPageOK(c)' /\ TextOK(c)'
    BY <1>1, <1>3, <1>4 DEF OwnPage, ScopePage, ClearPageOK, TextOK
  <2> QED
    BY <2>1, <2>2 DEF ClientKeeps
<1> QED
  BY <1>1, <1>5, <1>6, <1>8, <1>9, <1>10, <1>11 DEF KeepsStep

LEMMA ReplaceKeeps ==
  ASSUME LosesInv, NEW c \in Clients, GraphInv', StepOK(c), ReplaceChunks(c), call[c].id \in Ids
  PROVE  KeepsStep(c)
<1> PICK r : r = call[c].id
  OBVIOUS
<1> PICK text : text = tx[c].next.text
  OBVIOUS
<1> PICK new : new = NewChunks(r, text)
  OBVIOUS
<1>1. /\ pc[c] = "committed" /\ call[c].op = "update" /\ Refreshes(c) /\ r \in Ids
      /\ chunks' = (chunks \ ChunksOfRecord(r)) \cup new /\ Holds(c, new, 0) /\ pc'[c] = "clearOwn"
      /\ UNCHANGED <<records, call, tx, points>>
  BY DEF ReplaceChunks, Refreshes, Goto, LosesInv, GraphInv, UpdateInv, Shape
<1>2. /\ IndexShape /\ StageOK(c) /\ TextOK(c) /\ r \in DOMAIN records
      /\ text \in DOMAIN TokensOf /\ (OneUpdate(r) => text = records[r].text)
  BY <1>1 DEF LosesInv, ClientKeeps, TextOK, Ids
<1>3. /\ IsFiniteSet(new) /\ new # {} /\ \A k \in new : IsChunk(k) /\ k.record = r
      /\ {k.span : k \in new} = Spans(text)
  <2>1. PICK lastId \in Nat : lastId = LastChunkId
    BY <1>2, LastIdIsNat
  <2>2. PICK pointed : pointed = FALSE
    OBVIOUS
  <2>3. new = Rows(r, text, lastId, pointed)
    BY <2>1, <2>2 DEF NewChunks
  <2> QED
    BY <1>2, <2>1, <2>3, RowsAre
<1>4. HandShape(work'[c]) /\ (\E w : work' = [work EXCEPT ![c] = w]) /\ work'[c].page = new
  BY <1>1, <1>2, <1>3, HandHolds
<1>5. IndexShape' /\ \A d \in Clients \ {c} : work'[d] = work[d]
  <2>1. IsFiniteSet(chunks') /\ \A k \in chunks' : IsChunk(k) /\ k.record \in DOMAIN records
    <3>1. IsFiniteSet(chunks \ ChunksOfRecord(r))
      BY <1>2, FS_Subset DEF IndexShape
    <3> QED
      BY <1>1, <1>2, <1>3, <3>1, FS_Union DEF IndexShape
  <2>2. IsFiniteSet(points') /\ \A p \in points' : p.chunk \in Nat
    BY <1>1, <1>2 DEF IndexShape
  <2> QED
    BY <1>1, <1>2, <1>4, <2>1, <2>2, ShapeKept
<1>6. RowsStay(c) /\ NewRows(c) /\ CallKept(c)
  BY <1>1, RowsSame
<1>7. /\ ChunksOfRecord(r)' = new
      /\ \A s : s # r => ChunksOfRecord(s)' = ChunksOfRecord(s)
  BY <1>1, <1>3 DEF ChunksOfRecord
<1>8. ChunksStay(c)
  <2>1. Refreshing(c, r)
    BY <1>1 DEF Refreshing
  <2> QED
    BY <1>7, <2>1, AlikeSame DEF ChunksStay
<1>9. \A k \in new : InHand(c, k)'
  BY <1>4 DEF InHand
<1>10. Pays(c)
  <2>1. ASSUME NEW k \in new  PROVE Owes(c, k)'
    BY <1>1, <1>3, <1>9, <2>1 DEF Owes
  <2>2. \A k : ~ Owes(c, k) /\ (Indexed(k)' <=> Indexed(k))
    BY <1>1 DEF Owes, Indexed, Reaches, PointsOf
  <2>3. ASSUME NEW s \in Ids' \cap Ids, NEW k \in ChunksOfRecord(s)'
        PROVE  Settled(c, k)' \/ \E j \in ChunksOfRecord(s) : ChunkKept(c, k, j)
    <3>1. CASE s = r
      BY <1>7, <2>1, <2>3, <3>1 DEF Settled
    <3>2. CASE s # r
      <4>1. k \in ChunksOfRecord(s) /\ ChunkKept(c, k, k)
        BY <1>7, <2>2, <2>3, <3>2 DEF ChunkKept
      <4> QED
        BY <4>1
    <3> QED
      BY <3>1, <3>2
  <2> QED
    BY <2>3 DEF Pays
<1>11. FitsStay(c)
  <2>1. SUFFICES ASSUME NEW s \in Ids' \cap Ids, OneUpdate(s), s = r  PROVE Fits(s)'
    BY <1>1, <1>7, AlikeSame DEF FitsStay, Adding, Refreshing
  <2>2. SpansOf(r)' = Spans(records[r].text)
    BY <1>2, <1>3, <1>7, <2>1 DEF SpansOf
  <2> QED
    BY <1>1, <2>1, <2>2 DEF Fits, Spans
<1>12. ClientKeeps(c)'
  <2>1. StageOK(c)'
    BY <1>1, <1>2 DEF StageOK, Refreshes
  <2>2. ClearPageOK(c)'
    BY <1>1, <1>3, <1>7, <1>9 DEF ClearPageOK
  <2>3. OwnPage(c)' /\ ScopePage(c)' /\ TextOK(c)'
    BY <1>1, <1>3, <1>4 DEF OwnPage, ScopePage, TextOK
  <2> QED
    BY <2>1, <2>2, <2>3 DEF ClientKeeps
<1> QED
  BY <1>1, <1>5, <1>6, <1>8, <1>10, <1>11, <1>12 DEF KeepsStep

\* The record of a refresh has gone.
LEMMA NoRecordKeeps ==
  ASSUME LosesInv, NEW c \in Clients, GraphInv', StepOK(c), ReplaceChunks(c), call[c].id \notin Ids
  PROVE  KeepsStep(c)
<1>1. /\ pc[c] = "committed" /\ call[c].op = "update" /\ pc'[c] = "failed"
      /\ UNCHANGED <<records, call, chunks, points, work>>
  BY DEF ReplaceChunks, Refreshes, Goto, LosesInv, GraphInv, UpdateInv, Shape
<1>2. ClientKeeps(c)'
  BY <1>1, RestKeeps DEF LosesInv, ClientKeeps
<1>3. RowsStay(c) /\ NewRows(c) /\ CallKept(c) /\ ChunksStay(c)
  BY <1>1, RowsSame, ChunksSame
<1>4. IndexShape' /\ \A d \in Clients \ {c} : work'[d] = work[d]
  BY <1>1 DEF LosesInv, IndexShape, HandShape, IsChunk
<1>5. \A r : ChunksOfRecord(r)' = ChunksOfRecord(r)
  BY <1>1 DEF ChunksOfRecord
<1>6. Pays(c)
  <2>1. \A k : ~ Owes(c, k) /\ (Indexed(k)' <=> Indexed(k))
    BY <1>1 DEF Owes, Indexed, Reaches, PointsOf
  <2> QED
    BY <1>5, <2>1 DEF Pays, ChunkKept
<1>7. FitsStay(c)
  BY <1>1, <1>5, AlikeSame DEF FitsStay, Adding, Refreshing
<1> QED
  BY <1>1, <1>2, <1>3, <1>4, <1>6, <1>7 DEF KeepsStep

LEMMA ClearOwnKeeps ==
  ASSUME LosesInv, NEW c \in Clients, GraphInv', StepOK(c), ClearOwn(c)
  PROVE  KeepsStep(c)
<1> PICK r : r = call[c].id
  OBVIOUS
<1>1. /\ pc[c] = "clearOwn" /\ pc'[c] = "upsert" /\ points' = {p \in points : p.record # r}
      /\ UNCHANGED <<records, call, chunks, work>>
  BY DEF ClearOwn, Goto, LosesInv, GraphInv, UpdateInv, Shape
<1>2. /\ IndexShape /\ StageOK(c) /\ OwnPage(c) /\ ClearPageOK(c)
      /\ Refreshes(c) /\ call[c].op = "update"
  BY <1>1 DEF LosesInv, ClientKeeps, StageOK, Refreshes
<1>3. IndexShape' /\ \A d \in Clients \ {c} : work'[d] = work[d]
  <2>1. IsFiniteSet(points') /\ \A p \in points' : p.chunk \in Nat
    BY <1>1, <1>2, FS_Subset DEF IndexShape
  <2> QED
    BY <1>1, <1>2, <2>1, ShapeKept DEF IndexShape
<1>4. RowsStay(c) /\ NewRows(c) /\ CallKept(c) /\ ChunksStay(c) /\ FitsStay(c)
  BY <1>1, RowsSame, ChunksSame
<1>5. Pays(c)
  <2>1. SUFFICES ASSUME NEW s \in Ids, OneRefresh(s), NEW k, k \in ChunksOfRecord(s)
                 PROVE  Owes(c, k)' \/ ChunkKept(c, k, k)
    BY <1>1 DEF Pays, Settled, Ids, ChunksOfRecord
  <2>2. k.record = s
    BY <2>1 DEF ChunksOfRecord
  <2>3. CASE s = r
    <3>1. InHand(c, k)
      BY <1>1, <1>2, <2>1, <2>3 DEF ClearPageOK
    <3> QED
      BY <1>1, <1>2, <2>2, <2>3, <3>1 DEF Owes, InHand
  <2>4. CASE s # r
    <3>1. ~ Owes(c, k)
      BY <1>2, <2>2, <2>4 DEF Owes, Reaches
    <3>2. Indexed(k) => Indexed(k)'
      BY <1>1, <2>2, <2>4 DEF Indexed, PointsOf
    <3> QED
      BY <3>1, <3>2 DEF ChunkKept
  <2> QED
    BY <2>3, <2>4
<1>6. ClientKeeps(c)'
  <2>1. StageOK(c)'
    BY <1>1, <1>2 DEF StageOK, Refreshes
  <2>2. OwnPage(c)' /\ ScopePage(c)' /\ ClearPageOK(c)' /\ TextOK(c)'
    BY <1>1, <1>2 DEF OwnPage, ScopePage, ClearPageOK, TextOK
  <2> QED
    BY <2>1, <2>2 DEF ClientKeeps
<1> QED
  BY <1>1, <1>3, <1>4, <1>5, <1>6 DEF KeepsStep

LEMMA SkipKeeps ==
  ASSUME LosesInv, NEW c \in Clients, GraphInv', StepOK(c), SkipRefresh(c)
  PROVE  KeepsStep(c)
<1>1. /\ pc[c] = "committed" /\ call[c].op = "update" /\ ~ Refreshes(c) /\ pc'[c] = "done"
      /\ UNCHANGED <<records, call, chunks, points, work>>
  BY DEF SkipRefresh, Goto, LosesInv, GraphInv, UpdateInv, Shape
<1>2. ClientKeeps(c)'
  BY <1>1, RestKeeps DEF LosesInv, ClientKeeps
<1> QED
  BY <1>1, <1>2, AsideKeeps

LEMMA UpsertKeeps ==
  ASSUME LosesInv, NEW c \in Clients, GraphInv', StepOK(c), Upsert(c)
  PROVE  KeepsStep(c)
<1>1. /\ pc[c] = "upsert" /\ pc'[c] = "pointIds" /\ points' = points \cup PointsOf(work[c].page)
      /\ UNCHANGED <<records, call, chunks, work>>
  BY DEF Upsert, Goto, LosesInv, GraphInv, UpdateInv, Shape
<1>2. /\ IndexShape /\ StageOK(c) /\ OwnPage(c) /\ call[c].op # "reindex"
  BY <1>1 DEF LosesInv, ClientKeeps, StageOK, Refreshes
<1>3. IndexShape' /\ \A d \in Clients \ {c} : work'[d] = work[d]
  <2>1. IsFiniteSet(PointsOf(work[c].page)) /\ \A p \in PointsOf(work[c].page) : p.chunk \in Nat
    BY <1>2, PointsFinite DEF IndexShape, HandShape
  <2>2. IsFiniteSet(points') /\ \A p \in points' : p.chunk \in Nat
    BY <1>1, <1>2, <2>1, FS_Union DEF IndexShape
  <2> QED
    BY <1>1, <1>2, <2>2, ShapeKept DEF IndexShape
<1>4. RowsStay(c) /\ NewRows(c) /\ CallKept(c) /\ ChunksStay(c) /\ FitsStay(c)
  BY <1>1, RowsSame, ChunksSame
<1>5. Pays(c)
  <2>1. SUFFICES ASSUME NEW k  PROVE Indexed(k)' \/ ChunkKept(c, k, k)
    BY <1>1 DEF Pays, Settled, Ids, ChunksOfRecord
  <2>2. CASE InHand(c, k)
    BY <1>1, <2>2 DEF InHand, Indexed, PointsOf
  <2>3. CASE ~ InHand(c, k)
    <3>1. ~ Owes(c, k)
      BY <1>2, <2>3 DEF Owes, Reaches
    <3>2. Indexed(k) => Indexed(k)'
      BY <1>1 DEF Indexed
    <3> QED
      BY <3>1, <3>2 DEF ChunkKept
  <2> QED
    BY <2>2, <2>3
<1>6. ClientKeeps(c)'
  <2>1. StageOK(c)'
    BY <1>1, <1>2 DEF StageOK, Refreshes
  <2>2. OwnPage(c)' /\ ScopePage(c)' /\ ClearPageOK(c)' /\ TextOK(c)'
    BY <1>1, <1>2 DEF OwnPage, ScopePage, ClearPageOK, TextOK
  <2> QED
    BY <2>1, <2>2 DEF ClientKeeps
<1> QED
  BY <1>1, <1>3, <1>4, <1>5, <1>6 DEF KeepsStep

\* Point ids change no chunk's place: of a step that only sets them.
LEMMA OnlyPointed ==
  ASSUME LosesInv, NEW c \in Clients, UNCHANGED <<records, call, points>>,
         NEW page, chunks' = Pointed(page), pc[c] # "committed"
  PROVE  /\ IsFiniteSet(chunks') /\ \A k \in chunks' : IsChunk(k) /\ k.record \in DOMAIN records
         /\ ChunksStay(c) /\ FitsStay(c)
         /\ \A r : \A k \in ChunksOfRecord(r)' : \E j \in ChunksOfRecord(r) :
                j.id = k.id /\ j.record = k.record /\ (Indexed(k)' <=> Indexed(j))
<1>1. /\ IsFiniteSet(chunks') /\ \A k \in chunks' : IsChunk(k) /\ k.record \in DOMAIN records
      /\ \A r : Alike(ChunksOfRecord(r), {k \in Pointed(page) : k.record = r})
  BY PointedAre DEF LosesInv
<1>2. \A r : Alike(ChunksOfRecord(r), ChunksOfRecord(r)')
  BY <1>1 DEF ChunksOfRecord
<1>3. ChunksStay(c) /\ FitsStay(c)
  BY <1>2 DEF ChunksStay, FitsStay, Adding
<1>4. ASSUME NEW r, NEW k \in ChunksOfRecord(r)'
      PROVE  \E j \in ChunksOfRecord(r) :
                j.id = k.id /\ j.record = k.record /\ (Indexed(k)' <=> Indexed(j))
  <2>1. PICK j \in ChunksOfRecord(r) : j.id = k.id /\ j.record = k.record
    BY <1>2 DEF Alike
  <2>2. Indexed(k)' <=> Indexed(j)
    BY <2>1 DEF Indexed, PointsOf
  <2> QED
    BY <2>1, <2>2
<1> QED
  BY <1>1, <1>3, <1>4

LEMMA PointIdsKeep ==
  ASSUME LosesInv, NEW c \in Clients, GraphInv', StepOK(c), UpdatePointIds(c)
  PROVE  KeepsStep(c)
<1>1. /\ pc[c] = "pointIds" /\ pc'[c] = "done" /\ chunks' = Pointed(work[c].page)
      /\ UNCHANGED <<records, call, points, work>>
  BY DEF UpdatePointIds, Goto, LosesInv, GraphInv, UpdateInv, Shape
<1>2. IndexShape /\ StageOK(c) /\ call[c].op # "reindex"
  BY <1>1 DEF LosesInv, ClientKeeps, StageOK, Refreshes
<1>3. /\ IsFiniteSet(chunks') /\ \A k \in chunks' : IsChunk(k) /\ k.record \in DOMAIN records
      /\ ChunksStay(c) /\ FitsStay(c)
      /\ \A r : \A k \in ChunksOfRecord(r)' : \E j \in ChunksOfRecord(r) :
                j.id = k.id /\ j.record = k.record /\ (Indexed(k)' <=> Indexed(j))
  BY <1>1, OnlyPointed
<1>4. IndexShape' /\ \A d \in Clients \ {c} : work'[d] = work[d]
  BY <1>1, <1>2, <1>3, ShapeKept DEF IndexShape
<1>5. RowsStay(c) /\ NewRows(c) /\ CallKept(c)
  BY <1>1, RowsSame
<1>6. Pays(c)
  <2>1. \A k : ~ Owes(c, k)
    BY <1>1, <1>2 DEF Owes, Reaches
  <2> QED
    BY <1>3, <2>1 DEF Pays, ChunkKept
<1>7. ClientKeeps(c)'
  BY <1>1, <1>2, RestKeeps
<1> QED
  BY <1>1, <1>3, <1>4, <1>5, <1>6, <1>7 DEF KeepsStep

\* What is left of the index when a client gives up.
LEMMA FailedPoints ==
  ASSUME LosesInv, NEW c \in Clients, GivesUp(c)
  PROVE  /\ IsFiniteSet(points') /\ \A p \in points' : p.chunk \in Nat
         /\ \A k : k.record # call[c].id /\ Indexed(k) => Indexed(k)'
<1>1. IndexShape /\ OwnPage(c)
  BY DEF LosesInv, ClientKeeps
<1>2. points' = points \/ (pc[c] = "pointIds" /\ points' = points \ PointsOf(work[c].page))
  BY DEF GivesUp, IndexFails, InsertRefused, IndexGivesUp
<1>3. IsFiniteSet(points') /\ \A p \in points' : p.chunk \in Nat
  BY <1>1, <1>2, FS_Subset DEF IndexShape
<1>4. ASSUME NEW k, k.record # call[c].id, Indexed(k)  PROVE Indexed(k)'
  BY <1>1, <1>2, <1>4 DEF Indexed, PointsOf, OwnPage
<1> QED
  BY <1>3, <1>4

LEMMA WriteFailsKeeps ==
  ASSUME LosesInv, NEW c \in Clients, GraphInv', StepOK(c), GivesUp(c), call[c].op = "add"
  PROVE  KeepsStep(c)
<1> PICK r : r = call[c].id
  OBVIOUS
<1>1. /\ pc[c] # "failed" /\ pc'[c] = "failed" /\ UNCHANGED <<call, work>>
      /\ records' = [records EXCEPT ![r] = NoRow] /\ chunks' = chunks \ ChunksOfRecord(r)
  BY DEF GivesUp, IndexFails, InsertRefused, IndexGivesUp, EraseRow, Goto, LosesInv, GraphInv,
     UpdateInv, Shape
<1>2. IndexShape /\ StageOK(c)
  BY DEF LosesInv, ClientKeeps
<1>3. /\ DOMAIN records' = DOMAIN records
      /\ \A s \in Ids' : s \in Ids /\ s # r /\ records'[s] = records[s]
  BY <1>1 DEF Ids
<1>4. /\ IsFiniteSet(points') /\ \A p \in points' : p.chunk \in Nat
      /\ \A k : k.record # r /\ Indexed(k) => Indexed(k)'
  BY FailedPoints
<1>5. IndexShape' /\ \A d \in Clients \ {c} : work'[d] = work[d]
  <2>1. IsFiniteSet(chunks') /\ \A k \in chunks' : IsChunk(k) /\ k.record \in DOMAIN records
    BY <1>1, <1>2, FS_Subset DEF IndexShape
  <2> QED
    BY <1>1, <1>2, <1>3, <1>4, <2>1, ShapeKept
<1>6. RowsStay(c) /\ NewRows(c) /\ CallKept(c)
  BY <1>1, <1>3 DEF RowsStay, NewRows, CallKept, Adding, Ids
<1>7. \A s : s # r => ChunksOfRecord(s)' = ChunksOfRecord(s)
  BY <1>1 DEF ChunksOfRecord
<1>8. ChunksStay(c)
  BY <1>3, <1>7, AlikeSame DEF ChunksStay
<1>9. Pays(c)
  <2>1. SUFFICES ASSUME NEW s \in Ids', NEW k \in ChunksOfRecord(s)'
                 PROVE  k \in ChunksOfRecord(s) /\ ChunkKept(c, k, k)
    BY DEF Pays
  <2>2. k \in ChunksOfRecord(s) /\ k.record = s /\ s # r
    BY <1>3, <1>7 DEF ChunksOfRecord
  <2>3. ~ Owes(c, k)
    BY <2>2 DEF Owes, Reaches
  <2> QED
    BY <1>4, <2>2, <2>3 DEF ChunkKept
<1>10. FitsStay(c)
  BY <1>3, <1>7, AlikeSame DEF FitsStay, Adding, Refreshing, Refreshes
<1>11. ClientKeeps(c)'
  BY <1>1, <1>2, <1>3, RestKeeps
<1> QED
  BY <1>1, <1>5, <1>6, <1>8, <1>9, <1>10, <1>11 DEF KeepsStep

LEMMA RefreshFailsKeeps ==
  ASSUME LosesInv, NEW c \in Clients, GraphInv', StepOK(c), GivesUp(c), call[c].op # "add"
  PROVE  KeepsStep(c)
<1> PICK r : r = call[c].id
  OBVIOUS
<1>1. /\ pc[c] \in {"clearOwn", "upsert", "pointIds"} \/ (pc[c] = "committed" /\ Refreshes(c))
      /\ pc'[c] = "failed" /\ UNCHANGED <<records, call, chunks, work>>
  BY DEF GivesUp, IndexFails, InsertRefused, IndexGivesUp, Goto, LosesInv, GraphInv, UpdateInv,
     Shape
<1>2. IndexShape /\ StageOK(c)
  BY DEF LosesInv, ClientKeeps
<1>3. Refreshes(c) /\ call[c].op = "update"
  BY <1>1, <1>2 DEF StageOK, Refreshes
<1>4. /\ IsFiniteSet(points') /\ \A p \in points' : p.chunk \in Nat
      /\ \A k : k.record # r /\ Indexed(k) => Indexed(k)'
  BY FailedPoints
<1>5. IndexShape' /\ \A d \in Clients \ {c} : work'[d] = work[d]
  BY <1>1, <1>2, <1>4, ShapeKept DEF IndexShape
<1>6. RowsStay(c) /\ NewRows(c) /\ CallKept(c) /\ ChunksStay(c)
  BY <1>1, RowsSame, ChunksSame
<1>7. \A s : ChunksOfRecord(s)' = ChunksOfRecord(s)
  BY <1>1 DEF ChunksOfRecord
<1>8. Refreshing(c, r)' /\ GaveUp(c, r)'
  BY <1>1, <1>3 DEF GaveUp, Refreshing, Refreshes
<1>9. Pays(c)
  <2>1. SUFFICES ASSUME NEW s, NEW k \in ChunksOfRecord(s)
                 PROVE  GaveUp(c, k.record)' \/ ChunkKept(c, k, k)
    BY <1>7 DEF Pays, Settled
  <2>2. k.record = s
    BY DEF ChunksOfRecord
  <2>3. s # r => ~ Owes(c, k) /\ (Indexed(k) => Indexed(k)')
    BY <1>3, <1>4, <2>2 DEF Owes, Reaches
  <2> QED
    BY <1>8, <2>2, <2>3 DEF ChunkKept
<1>10. FitsStay(c)
  <2>1. Fits(r)'
    BY <1>1, <1>8 DEF Fits
  <2>2. \A s : s # r => ~ Refreshing(c, s)
    BY DEF Refreshing
  <2>3. \A s : ~ Adding(c, s)
    BY DEF Adding
  <2>4. \A s : Alike(ChunksOfRecord(s), ChunksOfRecord(s)')
    BY <1>7, AlikeSame
  <2> QED
    BY <1>1, <2>1, <2>2, <2>3, <2>4 DEF FitsStay
<1>11. ClientKeeps(c)'
  BY <1>1, <1>2, <1>3, RestKeeps
<1> QED
  BY <1>1, <1>5, <1>6, <1>9, <1>10, <1>11 DEF KeepsStep

LEMMA ArchiveKeeps ==
  ASSUME LosesInv, NEW c \in Clients, GraphInv', StepOK(c), ArchiveRecord(c)
  PROVE  KeepsStep(c)
<1> PICK r : r = call[c].id
  OBVIOUS
<1> PICK page : page = {k \in ChunksOfRecord(r) : k.pointed}
  OBVIOUS
<1>1. /\ pc[c] = "ready" /\ call[c].op = "delete" /\ UNCHANGED <<call, chunks, points>>
      /\ Holds(c, page, 0)
      /\ (pc'[c] = "committed" /\ r \in Ids) \/ pc'[c] = "missing"
  BY DEF ArchiveRecord, ArchiveRow, Goto, LosesInv, GraphInv, UpdateInv, Shape
<1>2. IndexShape /\ StageOK(c) /\ \A i \in Ids : IsRow(records[i])
  BY DEF LosesInv, ClientKeeps, GraphInv, UpdateInv, Shape
<1>3. page \subseteq chunks /\ \A k \in page : k.record = r
  BY DEF ChunksOfRecord
<1>4. HandShape(work'[c]) /\ (\E w : work' = [work EXCEPT ![c] = w]) /\ work'[c].page = page
  <2>1. IsFiniteSet(page) /\ \A q \in page : IsChunk(q) /\ q.record \in DOMAIN records
    BY <1>2, <1>3, FS_Subset DEF IndexShape
  <2> QED
    BY <1>1, <1>2, <2>1, HandHolds
<1>5. /\ DOMAIN records' = DOMAIN records
      /\ \A s \in Ids' : s \in Ids /\ records'[s].text = records[s].text
                                   /\ records'[s].scope = records[s].scope
  <2> DEFINE row == [records[r] EXCEPT !.durability = "archived", !.version = records[r].version + 1]
  <2>1. records' = records \/ (r \in Ids /\ records' = [records EXCEPT ![r] = row])
    BY DEF ArchiveRecord, ArchiveRow
  <2>2. r \in Ids => row.text = records[r].text /\ row.scope = records[r].scope
    BY <1>2 DEF IsRow, RowFields
  <2> HIDE DEF row
  <2> QED
    BY <2>1, <2>2 DEF Ids
<1>6. IndexShape' /\ \A d \in Clients \ {c} : work'[d] = work[d]
  BY <1>1, <1>2, <1>4, <1>5, ShapeKept DEF IndexShape
<1>7. RowsStay(c) /\ NewRows(c) /\ CallKept(c)
  BY <1>1, <1>5 DEF RowsStay, NewRows, CallKept, Adding, Ids
<1>8. \A s : ChunksOfRecord(s)' = ChunksOfRecord(s)
  BY <1>1 DEF ChunksOfRecord
<1>9. ChunksStay(c)
  BY <1>8, AlikeSame DEF ChunksStay
<1>10. Pays(c)
  <2>1. \A k : ~ Owes(c, k) /\ (Indexed(k)' <=> Indexed(k))
    BY <1>1 DEF Owes, Indexed, Reaches, PointsOf
  <2> QED
    BY <1>8, <2>1 DEF Pays, ChunkKept
<1>11. FitsStay(c)
  BY <1>1, <1>5, <1>8, AlikeSame DEF FitsStay, Adding, Refreshing
<1>12. ClientKeeps(c)'
  <2>1. StageOK(c)'
    BY <1>1, <1>2, <1>5 DEF StageOK, Ids
  <2>2. OwnPage(c)' /\ ScopePage(c)' /\ ClearPageOK(c)' /\ TextOK(c)'
    BY <1>1, <1>3, <1>4 DEF OwnPage, ScopePage, ClearPageOK, TextOK
  <2> QED
    BY <2>1, <2>2 DEF ClientKeeps
<1> QED
  BY <1>1, <1>6, <1>7, <1>9, <1>10, <1>11, <1>12 DEF KeepsStep

LEMMA DeletePointsKeeps ==
  ASSUME LosesInv, NEW c \in Clients, GraphInv', StepOK(c), DeletesPoints(c)
  PROVE  KeepsStep(c)
<1> PICK r : r = call[c].id
  OBVIOUS
<1>1. /\ pc[c] = "committed" /\ call[c].op = "delete" /\ pc'[c] = "done"
      /\ points' = points \ PointsOf(work[c].page) \/ points' = points
      /\ UNCHANGED <<records, call, chunks, work>>
  BY DEF DeletesPoints, DeletePoints, DeleteFails, Goto, LosesInv, GraphInv, UpdateInv, Shape
<1>2. IndexShape /\ StageOK(c) /\ OwnPage(c)
  BY DEF LosesInv, ClientKeeps
<1>3. IndexShape' /\ \A d \in Clients \ {c} : work'[d] = work[d]
  <2>1. IsFiniteSet(points') /\ \A p \in points' : p.chunk \in Nat
    BY <1>1, <1>2, FS_Subset DEF IndexShape
  <2> QED
    BY <1>1, <1>2, <2>1, ShapeKept DEF IndexShape
<1>4. RowsStay(c) /\ NewRows(c) /\ CallKept(c) /\ ChunksStay(c) /\ FitsStay(c)
  BY <1>1, RowsSame, ChunksSame DEF Refreshes
<1>5. Pays(c)
  <2>1. SUFFICES ASSUME NEW s, NoDelete(s), NEW k \in ChunksOfRecord(s)
                 PROVE  ChunkKept(c, k, k)
    BY <1>1 DEF Pays, ChunksOfRecord
  <2>2. k.record = s /\ s # r
    BY <1>1, <2>1 DEF ChunksOfRecord, NoDelete
  <2>3. ~ Owes(c, k)
    BY <1>1 DEF Owes, Reaches
  <2>4. Indexed(k) => Indexed(k)'
    BY <1>1, <1>2, <2>2 DEF Indexed, PointsOf, OwnPage
  <2> QED
    BY <2>3, <2>4 DEF ChunkKept
<1>6. ClientKeeps(c)'
  BY <1>1, <1>2, RestKeeps
<1> QED
  BY <1>1, <1>3, <1>4, <1>5, <1>6 DEF KeepsStep

LEMMA WriteIndexKeeps ==
  ASSUME LosesInv, NEW c \in Clients, GraphInv', IndexMove(c)
  PROVE  KeepsStep(c)
<1>1. StepOK(c)
  BY WriteIndexSteps DEF LosesInv, GraphInv
<1>2. CASE InsertChunks(c) \/ ReplaceChunks(c)
  BY <1>1, <1>2, InsertKeeps, ReplaceKeeps, NoRecordKeeps
<1>3. CASE ClearOwn(c) \/ SkipRefresh(c) \/ Upsert(c) \/ UpdatePointIds(c)
  BY <1>1, <1>3, ClearOwnKeeps, SkipKeeps, UpsertKeeps, PointIdsKeep
<1>4. CASE GivesUp(c) \/ ArchiveRecord(c) \/ DeletesPoints(c)
  BY <1>1, <1>4, WriteFailsKeeps, RefreshFailsKeeps, ArchiveKeeps, DeletePointsKeeps
<1> QED
  BY <1>2, <1>3, <1>4 DEF IndexMove, IndexStep, GivesUp, DeletesPoints

-----------------------------------------------------------------------------
(* The steps of a reindex *)

\* Those that change no row, call, chunk or point but c's own place.
LEMMA ListKeeps ==
  ASSUME LosesInv, NEW c \in Clients, GraphInv', StepOK(c),
         UNCHANGED <<records, call, chunks, points>>, call[c].op = "reindex",
         pc[c] # "failed", pc'[c] # "committed",
         NEW page, NEW cursor \in Nat, Holds(c, page, cursor),
         IsFiniteSet(page), page \subseteq chunks,
         ClientKeeps(c)',
         \A k \in chunks : k.record \in Ids /\ Owes(c, k) => Owes(c, k)'
  PROVE  KeepsStep(c)
<1>1. IndexShape
  BY DEF LosesInv
<1>2. HandShape(work'[c]) /\ (\E w : work' = [work EXCEPT ![c] = w])
  BY <1>1, HandHolds DEF IndexShape
<1>3. IndexShape' /\ \A d \in Clients \ {c} : work'[d] = work[d]
  BY <1>1, <1>2, ShapeKept DEF IndexShape
<1>4. RowsStay(c) /\ NewRows(c) /\ CallKept(c) /\ ChunksStay(c) /\ FitsStay(c)
  BY RowsSame, ChunksSame DEF Refreshes
<1>5. Pays(c)
  <2>1. SUFFICES ASSUME NEW s \in Ids, NEW k \in ChunksOfRecord(s)
                 PROVE  Owes(c, k)' \/ ChunkKept(c, k, k)
    BY DEF Pays, Settled, ChunksOfRecord
  <2>2. k.record = s /\ k \in chunks
    BY DEF ChunksOfRecord
  <2>3. Indexed(k)' <=> Indexed(k)
    BY DEF Indexed
  <2> QED
    BY <2>2, <2>3 DEF ChunkKept
<1> QED
  BY <1>3, <1>4, <1>5 DEF KeepsStep

\* A reindex's next step, as long as its page is one of its scopes.
LEMMA ReindexClient ==
  ASSUME NEW c \in Clients, StageOK(c), UNCHANGED <<records, call>>, call[c].op = "reindex",
         pc'[c] \in {"ready", "clear", "list", "upsertPage", "pageIds", "done", "failed"},
         pc'[c] \in {"clear", "upsertPage", "pageIds"} =>
            work'[c].page # {} /\ \A q \in work'[c].page : q.record \in Ids => Reaches(c, q.record)
  PROVE  ClientKeeps(c)'
<1>1. StageOK(c)'
  BY DEF StageOK
<1>2. ScopePage(c)'
  BY DEF ScopePage, Reaches, Ids
<1>3. OwnPage(c)' /\ ClearPageOK(c)' /\ TextOK(c)'
  BY DEF OwnPage, ClearPageOK, TextOK
<1> QED
  BY <1>1, <1>2, <1>3 DEF ClientKeeps

LEMMA ListToClearKeeps ==
  ASSUME LosesInv, NEW c \in Clients, GraphInv', StepOK(c), ListToClear(c)
  PROVE  KeepsStep(c)
<1> DEFINE cursor == work[c].cursor
           page == ListChunks(call[c].scopes, cursor)
           due == Due(call[c].scopes, cursor)
<1>1. /\ pc[c] = "ready" /\ call[c].op = "reindex" /\ UNCHANGED <<records, call, chunks, points>>
      /\ \/ page # {} /\ Holds(c, page, cursor) /\ pc'[c] = "clear"
         \/ page = {} /\ Holds(c, {}, 0) /\ pc'[c] = IF cursor = 0 THEN "done" ELSE "list"
  BY DEF ListToClear, Goto, LosesInv, GraphInv, UpdateInv, Shape
<1>2. IndexShape /\ StageOK(c) /\ cursor \in Nat
  BY DEF LosesInv, ClientKeeps, IndexShape, HandShape
<1>3. IsFiniteSet(page) /\ page \subseteq due
  <2> HIDE DEF cursor
  <2> QED
    BY <1>2, PageOf
<1>4. page \subseteq chunks /\ \A q \in page : Reaches(c, q.record)
  BY <1>1, <1>3 DEF Due, Reaches
<1> HIDE DEF page, cursor, due
<1>5. CASE page # {}
  <2>1. work'[c].page = page /\ pc'[c] = "clear"
    BY <1>1, <1>2, <1>3, <1>4, <1>5, HandHolds DEF IndexShape
  <2>2. ClientKeeps(c)'
    BY <1>1, <1>2, <1>4, <1>5, <2>1, ReindexClient
  <2>3. \A k \in chunks : Owes(c, k) => Owes(c, k)'
    BY <1>1, <2>1 DEF Owes, Reaches
  <2> QED
    BY <1>1, <1>2, <1>3, <1>4, <1>5, <2>1, <2>2, <2>3, ListKeeps
<1>6. CASE page = {}
  <2>1. Holds(c, {}, 0) /\ pc'[c] = IF cursor = 0 THEN "done" ELSE "list"
    BY <1>1, <1>6
  <2>2. IsFiniteSet({}) /\ {} \subseteq chunks
    BY FS_EmptySet
  <2>3. work'[c].cursor = 0
    BY <1>2, <2>1, <2>2, HandHolds DEF IndexShape
  <2>4. ClientKeeps(c)'
    BY <1>1, <1>2, <2>1, ReindexClient
  <2>5. ASSUME NEW k \in chunks, Owes(c, k)  PROVE Owes(c, k)'
    <3>1. cursor # 0 /\ Reaches(c, k.record)
      BY <1>1, <2>5 DEF Owes, cursor
    <3>2. k.id > 0
      BY <1>2 DEF IndexShape, IsChunk
    <3> QED
      BY <1>1, <2>1, <2>3, <3>1, <3>2 DEF Owes, Reaches
  <2> QED
    BY <1>1, <2>1, <2>2, <2>4, <2>5, ListKeeps
<1> QED
  BY <1>5, <1>6

LEMMA ListPageKeeps ==
  ASSUME LosesInv, NEW c \in Clients, GraphInv', StepOK(c), ListPage(c)
  PROVE  KeepsStep(c)
<1> PICK cursor : cursor = work[c].cursor
  OBVIOUS
<1> PICK page : page = ListChunks(call[c].scopes, cursor)
  OBVIOUS
<1>1. /\ pc[c] = "list" /\ UNCHANGED <<records, call, chunks, points>>
      /\ pc'[c] = IF page = {} THEN "done" ELSE "upsertPage"
      /\ Holds(c, page, cursor)
  BY DEF ListPage, Goto, LosesInv, GraphInv, UpdateInv, Shape
<1>2. IndexShape /\ StageOK(c) /\ cursor \in Nat /\ call[c].op = "reindex"
  BY <1>1 DEF LosesInv, ClientKeeps, IndexShape, HandShape, StageOK
<1>3. /\ IsFiniteSet(page) /\ page \subseteq Due(call[c].scopes, cursor)
      /\ Due(call[c].scopes, cursor) # {} => page # {}
      /\ \A k \in Due(call[c].scopes, cursor) \ page :
            Cardinality(page) >= BatchSize /\ k.id > NextCursor(page)
  BY <1>2, PageOf
<1>4. page \subseteq chunks /\ \A q \in page : Reaches(c, q.record)
  BY <1>2, <1>3 DEF Due, Reaches
<1>5. work'[c].page = page
  BY <1>1, <1>2, <1>3, <1>4, HandHolds DEF IndexShape
<1>6. ClientKeeps(c)'
  BY <1>1, <1>2, <1>4, <1>5, ReindexClient
<1>7. ASSUME NEW k \in chunks, Owes(c, k)  PROVE Owes(c, k)'
  <2>1. Reaches(c, k.record) /\ k.id > cursor
    BY <1>1, <1>2, <1>7 DEF Owes
  <2>2. k \in Due(call[c].scopes, cursor)
    BY <1>7, <2>1 DEF Due, Reaches
  <2>3. pc'[c] = "upsertPage"
    BY <1>1, <1>3, <2>2
  <2>4. Reaches(c, k.record)'
    BY <1>1, <2>1 DEF Reaches
  <2>5. InHand(c, k)' \/ Behind(c, k)'
    BY <1>3, <1>5, <2>2 DEF InHand, Behind, NextCursor
  <2> QED
    BY <2>3, <2>4, <2>5 DEF Owes
<1> QED
  BY <1>1, <1>2, <1>3, <1>4, <1>6, <1>7, ListKeeps

LEMMA ReindexFailsKeeps ==
  ASSUME LosesInv, NEW c \in Clients, GraphInv', StepOK(c), ReindexFails(c)
  PROVE  KeepsStep(c)
<1>1. /\ pc[c] \in {"clear", "upsertPage", "pageIds"} /\ pc'[c] = "failed"
      /\ UNCHANGED <<records, call, chunks, points, work>>
  BY DEF ReindexFails, Goto, LosesInv, GraphInv, UpdateInv, Shape
<1>2. IndexShape /\ StageOK(c) /\ call[c].op = "reindex"
  BY <1>1 DEF LosesInv, ClientKeeps, StageOK
<1>3. IndexShape' /\ \A d \in Clients \ {c} : work'[d] = work[d]
  BY <1>1, <1>2, ShapeKept DEF IndexShape
<1>4. RowsStay(c) /\ NewRows(c) /\ CallKept(c) /\ ChunksStay(c) /\ FitsStay(c)
  BY <1>1, RowsSame, ChunksSame
<1>5. Pays(c)
  <2>1. \A k : Owes(c, k) => GaveUp(c, k.record)'
    BY <1>1, <1>2 DEF Owes, GaveUp, Reaches
  <2>2. \A k : Indexed(k)' <=> Indexed(k)
    BY <1>1 DEF Indexed
  <2> QED
    BY <1>1, <2>1, <2>2 DEF Pays, Settled, ChunkKept, ChunksOfRecord
<1>6. ClientKeeps(c)'
  BY <1>1, <1>2, RestKeeps
<1> QED
  BY <1>1, <1>3, <1>4, <1>5, <1>6 DEF KeepsStep

LEMMA ClearPageKeeps ==
  ASSUME LosesInv, NEW c \in Clients, GraphInv', StepOK(c), ClearPage(c)
  PROVE  KeepsStep(c)
<1> PICK page : page = work[c].page
  OBVIOUS
<1> PICK step : step = AfterPage(page, "ready", "list")
  OBVIOUS
<1> PICK cursor : cursor = IF step = "list" THEN 0 ELSE NextCursor(page)
  OBVIOUS
<1>1. /\ pc[c] = "clear" /\ UNCHANGED <<records, call, chunks>>
      /\ points' = DeletedByRecordIds(page) /\ pc'[c] = step /\ Holds(c, {}, cursor)
      /\ step \in {"ready", "list"}
  BY DEF ClearPage, AfterPage, Goto, LosesInv, GraphInv, UpdateInv, Shape
<1>2. /\ IndexShape /\ StageOK(c) /\ call[c].op = "reindex" /\ page # {}
      /\ \A q \in page : q.record \in Ids => Reaches(c, q.record)
  BY <1>1 DEF LosesInv, ClientKeeps, StageOK, ScopePage
<1>3. cursor \in Nat /\ (step = "ready" => cursor # 0) /\ (step = "list" => cursor = 0)
  <2>1. NextCursor(page) \in Nat \ {0}
    BY <1>2, NextCursorIs DEF IndexShape, HandShape
  <2> QED
    BY <1>1, <2>1
<1>4. /\ HandShape(work'[c]) /\ (\E w : work' = [work EXCEPT ![c] = w])
      /\ work'[c].page = {} /\ work'[c].cursor = cursor
  BY <1>1, <1>2, <1>3, FS_EmptySet, HandHolds
<1>5. IndexShape' /\ \A d \in Clients \ {c} : work'[d] = work[d]
  <2>1. IsFiniteSet(points') /\ \A p \in points' : p.chunk \in Nat
    BY <1>1, <1>2, FS_Subset DEF IndexShape, DeletedByRecordIds
  <2> QED
    BY <1>1, <1>2, <1>4, <2>1, ShapeKept DEF IndexShape
<1>6. RowsStay(c) /\ NewRows(c) /\ CallKept(c) /\ ChunksStay(c) /\ FitsStay(c)
  BY <1>1, RowsSame, ChunksSame
<1>7. Pays(c)
  <2>1. SUFFICES ASSUME NEW s \in Ids, NEW k \in ChunksOfRecord(s)
                 PROVE  Owes(c, k)' \/ ChunkKept(c, k, k)
    BY <1>1 DEF Pays, Settled, ChunksOfRecord
  <2>2. k.record = s /\ k \in chunks /\ k.id > 0
    BY <1>2 DEF ChunksOfRecord, IndexShape, IsChunk
  <2>3. CASE Reaches(c, s)
    BY <1>1, <1>3, <1>4, <2>2, <2>3 DEF Owes, Reaches
  <2>4. CASE ~ Reaches(c, s)
    <3>1. \A q \in page : q.record # s
      BY <1>2, <2>4
    <3>2. Indexed(k) => Indexed(k)'
      BY <1>1, <2>2, <3>1 DEF Indexed, PointsOf, DeletedByRecordIds
    <3>3. ~ Owes(c, k)
      BY <1>2, <2>2, <2>4 DEF Owes
    <3> QED
      BY <3>2, <3>3 DEF ChunkKept
  <2> QED
    BY <2>3, <2>4
<1>8. ClientKeeps(c)'
  BY <1>1, <1>2, ReindexClient
<1> QED
  BY <1>1, <1>5, <1>6, <1>7, <1>8 DEF KeepsStep

LEMMA UpsertPageKeeps ==
  ASSUME LosesInv, NEW c \in Clients, GraphInv', StepOK(c), UpsertPage(c)
  PROVE  KeepsStep(c)
<1>1. /\ pc[c] = "upsertPage" /\ pc'[c] = "pageIds" /\ points' = points \cup PointsOf(work[c].page)
      /\ UNCHANGED <<records, call, chunks, work>>
  BY DEF UpsertPage, Reinserted, Goto, LosesInv, GraphInv, UpdateInv, Shape
<1>2. /\ IndexShape /\ StageOK(c) /\ call[c].op = "reindex" /\ work[c].page # {}
      /\ \A q \in work[c].page : q.record \in Ids => Reaches(c, q.record)
  BY <1>1 DEF LosesInv, ClientKeeps, StageOK, ScopePage
<1>3. IndexShape' /\ \A d \in Clients \ {c} : work'[d] = work[d]
  <2>1. IsFiniteSet(PointsOf(work[c].page)) /\ \A p \in PointsOf(work[c].page) : p.chunk \in Nat
    BY <1>2, PointsFinite DEF IndexShape, HandShape
  <2>2. IsFiniteSet(points') /\ \A p \in points' : p.chunk \in Nat
    BY <1>1, <1>2, <2>1, FS_Union DEF IndexShape
  <2> QED
    BY <1>1, <1>2, <2>2, ShapeKept DEF IndexShape
<1>4. RowsStay(c) /\ NewRows(c) /\ CallKept(c) /\ ChunksStay(c) /\ FitsStay(c)
  BY <1>1, RowsSame, ChunksSame
<1>5. Pays(c)
  <2>1. SUFFICES ASSUME NEW k  PROVE Settled(c, k)' \/ ChunkKept(c, k, k)
    BY <1>1 DEF Pays, Ids, ChunksOfRecord
  <2>2. Indexed(k) => Indexed(k)'
    BY <1>1 DEF Indexed
  <2>3. CASE InHand(c, k)
    <3>1. Indexed(k)'
      BY <1>1, <2>3 DEF InHand, Indexed, PointsOf
    <3> QED
      BY <3>1 DEF Settled
  <2>4. CASE ~ InHand(c, k) /\ Owes(c, k)
    <3>1. Reaches(c, k.record) /\ Behind(c, k)
      BY <1>1, <1>2, <2>4 DEF Owes
    <3>2. Owes(c, k)'
      BY <1>1, <3>1 DEF Owes, Reaches, Behind, NextCursor
    <3> QED
      BY <3>2 DEF Settled
  <2> QED
    BY <2>2, <2>3, <2>4 DEF ChunkKept
<1>6. ClientKeeps(c)'
  BY <1>1, <1>2, ReindexClient
<1> QED
  BY <1>1, <1>3, <1>4, <1>5, <1>6 DEF KeepsStep

LEMMA PageIdsKeep ==
  ASSUME LosesInv, NEW c \in Clients, GraphInv', StepOK(c), UpdatePageIds(c)
  PROVE  KeepsStep(c)
<1> PICK page : page = work[c].page
  OBVIOUS
<1> PICK cursor : cursor = NextCursor(page)
  OBVIOUS
<1>1. /\ pc[c] = "pageIds" /\ chunks' = Pointed(page) /\ UNCHANGED <<records, call, points>>
      /\ pc'[c] = IF Cardinality(page) < BatchSize THEN "done" ELSE "list"
      /\ Holds(c, {}, cursor)
  BY DEF UpdatePageIds, AfterPage, Goto, LosesInv, GraphInv, UpdateInv, Shape
<1>2. IndexShape /\ StageOK(c) /\ call[c].op = "reindex" /\ page # {} /\ IsFiniteSet(page)
  BY <1>1 DEF LosesInv, ClientKeeps, StageOK, ScopePage, IndexShape, HandShape
<1>3. cursor \in Nat
  BY <1>2, NextCursorIs DEF IndexShape, HandShape
<1>4. /\ HandShape(work'[c]) /\ (\E w : work' = [work EXCEPT ![c] = w])
      /\ work'[c].cursor = cursor
  BY <1>1, <1>2, <1>3, FS_EmptySet, HandHolds
<1>5. /\ IsFiniteSet(chunks') /\ \A k \in chunks' : IsChunk(k) /\ k.record \in DOMAIN records
      /\ ChunksStay(c) /\ FitsStay(c)
      /\ \A r : \A k \in ChunksOfRecord(r)' : \E j \in ChunksOfRecord(r) :
                j.id = k.id /\ j.record = k.record /\ (Indexed(k)' <=> Indexed(j))
  BY <1>1, OnlyPointed
<1>6. IndexShape' /\ \A d \in Clients \ {c} : work'[d] = work[d]
  BY <1>1, <1>2, <1>4, <1>5, ShapeKept DEF IndexShape
<1>7. RowsStay(c) /\ NewRows(c) /\ CallKept(c)
  BY <1>1, RowsSame
<1>8. Pays(c)
  <2>1. SUFFICES ASSUME NEW s, NEW k \in ChunksOfRecord(s)'
                 PROVE  Settled(c, k)' \/ \E j \in ChunksOfRecord(s) : ChunkKept(c, k, j)
    BY DEF Pays
  <2>2. PICK j \in ChunksOfRecord(s) :
            j.id = k.id /\ j.record = k.record /\ (Indexed(k)' <=> Indexed(j))
    BY <1>5
  <2>3. CASE Owes(c, j)
    <3>1. Reaches(c, j.record) /\ Cardinality(page) >= BatchSize /\ j.id > cursor
      BY <1>1, <1>2, <2>3 DEF Owes, Behind
    <3>2. pc'[c] = "list"
      <4>1. Cardinality(page) \in Nat /\ BatchSize \in Nat
        BY <1>2, FS_CardinalityType, IndexAssumption
      <4> QED
        BY <1>1, <3>1, <4>1
    <3>3. Owes(c, k)'
      BY <1>1, <1>4, <2>2, <3>1, <3>2 DEF Owes, Reaches
    <3> QED
      BY <3>3 DEF Settled
  <2>4. CASE ~ Owes(c, j)
    BY <2>2, <2>4 DEF ChunkKept
  <2> QED
    BY <2>3, <2>4
<1>9. ClientKeeps(c)'
  BY <1>1, <1>2, ReindexClient
<1> QED
  BY <1>1, <1>5, <1>6, <1>7, <1>8, <1>9 DEF KeepsStep

LEMMA ReindexKeeps ==
  ASSUME LosesInv, NEW c \in Clients, GraphInv', ReindexMove(c)
  PROVE  KeepsStep(c)
<1>1. StepOK(c)
  BY ReindexSteps DEF LosesInv, GraphInv
<1>2. CASE ListToClear(c) \/ ClearPage(c) \/ ListPage(c)
  BY <1>1, <1>2, ListToClearKeeps, ClearPageKeeps, ListPageKeeps
<1>3. CASE UpsertPage(c) \/ UpdatePageIds(c) \/ ReindexFails(c)
  BY <1>1, <1>3, UpsertPageKeeps, PageIdsKeep, ReindexFailsKeeps
<1> QED
  BY <1>2, <1>3 DEF ReindexMove, ReindexStep

-----------------------------------------------------------------------------
(* The start, every step, and what follows *)

LEMMA LosesInit == Init => LosesInv
<1>1. SUFFICES ASSUME Init  PROVE LosesInv
  OBVIOUS
<1>2. /\ GraphInv /\ records = Stored /\ call \in Workloads
      /\ pc = [c \in Clients |-> "ready"] /\ work = [c \in Clients |-> NoWork]
  BY <1>1, GraphInit DEF Init, RepositoryInit
<1>3. PICK n \in Nat : DOMAIN Stored = 1 .. n
  BY <1>2 DEF GraphInv, UpdateInv, Shape, IsSeq
<1>4. PICK pointed : pointed = TRUE
  OBVIOUS
<1> DEFINE rowsOf(i) == Rows(i, Stored[i].text, 10 * i, pointed)
           f == [i \in DOMAIN Stored |-> rowsOf(i)]
           all == {f[i] : i \in DOMAIN Stored}
<1>5. chunks = UNION all /\ points = PointsOf(chunks)
  <2>1. all = {Rows(i, Stored[i].text, 10 * i, TRUE) : i \in DOMAIN Stored}
    BY <1>4
  <2> HIDE DEF all
  <2> QED
    BY <1>1, <2>1 DEF Init
<1>6. ASSUME NEW i \in DOMAIN Stored
      PROVE  /\ IsFiniteSet(rowsOf(i))
             /\ \A k \in rowsOf(i) : IsChunk(k) /\ k.record = i
             /\ {k.span : k \in rowsOf(i)} = Spans(Stored[i].text)
  <2>1. 10 * i \in Nat /\ Stored[i].text \in DOMAIN TokensOf
    BY <1>3, IndexAssumption
  <2>2. PICK new : new = rowsOf(i)
    OBVIOUS
  <2>3. PICK text \in DOMAIN TokensOf, first \in Nat :
            text = Stored[i].text /\ first = 10 * i /\ new = Rows(i, text, first, pointed)
    BY <2>1, <2>2
  <2> HIDE DEF rowsOf
  <2>4. /\ IsFiniteSet(new) /\ (\A k \in new : IsChunk(k) /\ k.record = i)
        /\ {k.span : k \in new} = Spans(text)
    <3>1. new = Rows(i, text, first, pointed)
      BY <2>3
    <3> QED
      BY <3>1, RowsAre
  <2> QED
    BY <2>2, <2>3, <2>4
<1> HIDE DEF rowsOf
<1>7. IsFiniteSet(chunks)
  <2>1. \A S \in all : IsFiniteSet(S)
    BY <1>6
  <2>2. f = [i \in DOMAIN Stored |-> f[i]] /\ IsFiniteSet(DOMAIN Stored)
    BY <1>3, FS_Interval
  <2> HIDE DEF f
  <2>3. IsFiniteSet(all)
    BY <2>2, ImageFinite
  <2> HIDE DEF all
  <2> QED
    BY <1>5, <2>1, <2>3, FS_UNION
<1>8. \A k \in chunks : IsChunk(k) /\ k.record \in DOMAIN records
  BY <1>2, <1>5, <1>6
<1>9. \A i \in DOMAIN records : ChunksOfRecord(i) = rowsOf(i)
  BY <1>2, <1>5, <1>6 DEF ChunksOfRecord
<1>10. IndexShape
  <2>1. \A c \in Clients : HandShape(work[c])
    BY <1>2, FS_EmptySet DEF HandShape, NoWork
  <2>2. IsFiniteSet(points) /\ \A p \in points : p.chunk \in Nat
    BY <1>5, <1>7, <1>8, PointsFinite
  <2> QED
    BY <1>2, <1>7, <1>8, <2>1, <2>2 DEF IndexShape
<1>11. ASSUME NEW c \in Clients  PROVE ClientKeeps(c)
  <2>1. pc[c] = "ready"
    BY <1>2
  <2>2. StageOK(c)
    BY <1>2, <2>1, IndexAssumption DEF StageOK
  <2> QED
    BY <2>1, <2>2 DEF ClientKeeps, OwnPage, ScopePage, ClearPageOK, TextOK
<1>12. OwedInv
  <2>1. \A k \in chunks : Indexed(k)
    BY <1>5 DEF Indexed, PointsOf
  <2> QED
    BY <2>1 DEF OwedInv, ChunksOfRecord
<1>13. FitsInv
  BY <1>2, <1>6, <1>9, IndexAssumption DEF FitsInv, Fits, SpansOf, Ids
<1> QED
  BY <1>2, <1>10, <1>11, <1>12, <1>13 DEF LosesInv

\* Nothing that is known of the index speaks of the view, the jobs or a lock.
LEMMA LosesNext == LosesInv /\ [Next]_vars => LosesInv'
<1>1. SUFFICES ASSUME LosesInv, [Next]_vars  PROVE LosesInv'
  OBVIOUS
<1>2. GraphInv'
  BY <1>1, GraphNext DEF LosesInv
<1>3. ASSUME NEW c \in Clients, Move(c)  PROVE LosesInv'
  <2>1. KeepsStep(c)
    BY <1>1, <1>2, <1>3, TransactionKeeps, WriteIndexKeeps, ReindexKeeps, InspectKeeps DEF Move
  <2> QED
    BY <1>1, <2>1, KeepsStepKeeps
<1>4. CASE UNCHANGED vars
  <2>1. /\ records' = records /\ call' = call /\ pc' = pc /\ tx' = tx
        /\ chunks' = chunks /\ points' = points /\ work' = work
    BY <1>4 DEF vars
  <2>2. IndexShape'
    BY <1>1, <2>1 DEF LosesInv, IndexShape, HandShape, IsChunk
  <2>3. /\ \A r : OneUpdate(r)' <=> OneUpdate(r)
        /\ \A r : OneRefresh(r)' <=> OneRefresh(r)
        /\ \A r : NoDelete(r)' <=> NoDelete(r)
        /\ \A r : ChunksOfRecord(r)' = ChunksOfRecord(r)
        /\ Ids' = Ids
    BY <2>1 DEF OneUpdate, OneRefresh, NoDelete, Updates, Refreshing, Refreshes, ChunksOfRecord, Ids
  <2>4. ASSUME NEW c \in Clients  PROVE ClientKeeps(c)'
    <3>1. ClientKeeps(c)
      BY <1>1 DEF LosesInv
    <3>2. StageOK(c)' /\ OwnPage(c)' /\ ScopePage(c)'
      BY <2>1, <2>3, <3>1 DEF ClientKeeps, StageOK, OwnPage, ScopePage, Reaches, Refreshes
    <3>3. ClearPageOK(c)'
      BY <2>1, <2>3, <3>1 DEF ClientKeeps, ClearPageOK, InHand
    <3>4. TextOK(c)'
      BY <2>1, <2>3, <3>1 DEF ClientKeeps, TextOK, Adding
    <3> QED
      BY <3>2, <3>3, <3>4 DEF ClientKeeps
  <2>5. OwedInv'
    <3>1. \A c \in Clients : \A k, r :
            /\ Owes(c, k) => Owes(c, k)'
            /\ GaveUp(c, r) => GaveUp(c, r)'
      BY <2>1 DEF Owes, GaveUp, InHand, Behind, NextCursor, Reaches, Refreshing, Refreshes
    <3>2. ASSUME NEW r \in Ids, NoDelete(r), OneRefresh(r), NEW k \in ChunksOfRecord(r)
          PROVE  Indexed(k)' \/ \E c \in Clients : Owes(c, k)' \/ GaveUp(c, r)'
      <4>1. Indexed(k) \/ \E c \in Clients : Owes(c, k) \/ GaveUp(c, r)
        BY <1>1, <3>2 DEF LosesInv, OwedInv
      <4>2. CASE Indexed(k)
        BY <2>1, <4>2 DEF Indexed, PointsOf
      <4> QED
        BY <3>1, <4>1, <4>2
    <3> QED
      BY <2>3, <3>2 DEF OwedInv
  <2>6. FitsInv'
    <3>1. \A r : Fits(r) => Fits(r)'
      BY <2>1, <2>3 DEF Fits, SpansOf, Spans, ChunksOf, Adding, Refreshing, Refreshes
    <3> QED
      BY <1>1, <2>1, <2>3, <3>1 DEF LosesInv, FitsInv
  <2> QED
    BY <1>2, <2>2, <2>4, <2>5, <2>6 DEF LosesInv
<1> QED
  BY <1>1, <1>3, <1>4, NextMoves

LEMMA AtMostOne ==
  ASSUME NEW S, IsFiniteSet(S), Cardinality(S) <= 1, NEW x \in S, NEW y \in S
  PROVE  x = y
<1>1. SUFFICES ASSUME x # y  PROVE FALSE
  OBVIOUS
<1>2. IsFiniteSet({x}) /\ Cardinality({x}) = 1
  BY FS_Singleton
<1>3. Cardinality({x} \cup {y}) = 2 /\ IsFiniteSet({x} \cup {y})
  BY <1>1, <1>2, FS_AddElement
<1>4. {x} \cup {y} \subseteq S
  OBVIOUS
<1>5. Cardinality({x} \cup {y}) <= Cardinality(S) /\ Cardinality(S) \in Nat
  BY <1>4, FS_Subset, FS_CardinalityType
<1> QED
  BY <1>3, <1>5

LEMMA LosesGives == LosesInv => ReindexLosesNothing
<1>1. SUFFICES ASSUME LosesInv, NEW r \in Ids
      PROVE  LET concerned == {c \in Clients : Concerns(c, r)}
                 updates == {c \in concerned : call[c].op = "update"}
             IN  (/\ \A c \in concerned : pc[c] \in Ended
                  /\ \A c \in concerned : call[c].op = "reindex" => pc[c] # "failed"
                  /\ \A c \in concerned : call[c].op # "delete" /\ <<c, r>> \notin jobs
                  /\ \A c \in updates : Refreshes(c) => pc[c] # "failed")
                 => /\ Cardinality({c \in updates : Refreshes(c)}) <= 1 =>
                         \A k \in ChunksOfRecord(r) : Indexed(k)
                    /\ Cardinality(updates) <= 1 =>
                         \A token \in 1..TokensOf[records[r].text] :
                             \E k \in ChunksOfRecord(r) : Covers(k, token) /\ Indexed(k)
  BY DEF ReindexLosesNothing
<1> DEFINE concerned == {c \in Clients : Concerns(c, r)}
           updates == {c \in concerned : call[c].op = "update"}
           refreshes == {c \in updates : Refreshes(c)}
<1>2. SUFFICES ASSUME \A c \in concerned : pc[c] \in Ended,
                      \A c \in concerned : call[c].op = "reindex" => pc[c] # "failed",
                      \A c \in concerned : call[c].op # "delete",
                      \A c \in updates : Refreshes(c) => pc[c] # "failed"
               PROVE  /\ Cardinality(refreshes) <= 1 => \A k \in ChunksOfRecord(r) : Indexed(k)
                      /\ Cardinality(updates) <= 1 =>
                           \A token \in 1..TokensOf[records[r].text] :
                               \E k \in ChunksOfRecord(r) : Covers(k, token) /\ Indexed(k)
  OBVIOUS
<1>3. /\ \A c \in Clients : Updates(c, r) <=> c \in updates
      /\ \A c \in Clients : Refreshing(c, r) <=> c \in refreshes
  BY DEF Updates, Refreshing, Refreshes, Concerns
<1>4. IsFiniteSet(updates) /\ IsFiniteSet(refreshes) /\ refreshes \subseteq updates
  <2>1. updates \in SUBSET Clients /\ refreshes \in SUBSET updates
    OBVIOUS
  <2> HIDE DEF updates, refreshes
  <2> QED
    BY <2>1, FS_Subset, IndexAssumption
<1>5. ASSUME NEW c \in Clients
      PROVE  /\ ~ GaveUp(c, r) /\ ~ Adding(c, r)
             /\ ~ (Refreshing(c, r) /\ pc[c] \in {"committed", "failed"})
             /\ \A k \in ChunksOfRecord(r) : ~ Owes(c, k)
  <2>1. CASE c \in concerned
    <3>1. pc[c] \in Ended /\ (Refreshing(c, r) => pc[c] # "failed") /\ (Reaches(c, r) => pc[c] # "failed")
      BY <1>2, <1>3, <2>1 DEF Reaches
    <3> HIDE DEF concerned, updates, refreshes
    <3>2. ~ GaveUp(c, r) /\ ~ Adding(c, r) /\ ~ (Refreshing(c, r) /\ pc[c] \in {"committed", "failed"})
      BY <3>1 DEF Ended, GaveUp, Adding
    <3>3. \A k : ~ Owes(c, k)
      BY <3>1 DEF Ended, Owes
    <3> QED
      BY <3>2, <3>3
  <2>2. CASE c \notin concerned
    <3>1. ~ Concerns(c, r)
      BY <2>2
    <3>2. ~ Refreshing(c, r) /\ ~ Reaches(c, r) /\ ~ Adding(c, r)
      BY <3>1 DEF Concerns, Refreshing, Refreshes, Reaches, Adding
    <3>3. \A k \in ChunksOfRecord(r) : ~ Owes(c, k)
      BY <3>1 DEF Concerns, Owes, Reaches, ChunksOfRecord
    <3> QED
      BY <3>2, <3>3 DEF GaveUp
  <2> QED
    BY <2>1, <2>2
<1>6. NoDelete(r)
  BY <1>2 DEF NoDelete, Concerns
<1> HIDE DEF concerned, updates, refreshes
<1>7. ASSUME Cardinality(refreshes) <= 1  PROVE \A k \in ChunksOfRecord(r) : Indexed(k)
  <2>1. OneRefresh(r)
    <3>1. \A c, d \in refreshes : c = d
      BY <1>4, <1>7, AtMostOne
    <3> QED
      BY <1>3, <3>1 DEF OneRefresh
  <2> QED
    BY <1>1, <1>5, <1>6, <2>1 DEF LosesInv, OwedInv
<1>8. ASSUME Cardinality(updates) <= 1, NEW token \in 1 .. TokensOf[records[r].text]
      PROVE  \E k \in ChunksOfRecord(r) : Covers(k, token) /\ Indexed(k)
  <2>1. OneUpdate(r)
    <3>1. \A c, d \in updates : c = d
      BY <1>4, <1>8, AtMostOne
    <3> QED
      BY <1>3, <3>1 DEF OneUpdate
  <2>2. Cardinality(refreshes) <= 1
    <3>1. Cardinality(refreshes) <= Cardinality(updates)
            /\ Cardinality(refreshes) \in Nat /\ Cardinality(updates) \in Nat
      BY <1>4, FS_Subset, FS_CardinalityType
    <3> QED
      BY <1>8, <3>1
  <2>3. SpansOf(r) = Spans(records[r].text) /\ records[r].text \in DOMAIN TokensOf
    BY <1>1, <1>5, <2>1 DEF LosesInv, FitsInv, Fits
  <2> DEFINE list == ChunksOf[records[r].text]
  <2>4. TokensOf[records[r].text] \in Nat /\ list = chunkText(TokensOf[records[r].text])
    BY <2>3, IndexAssumption DEF ChunksOf
  <2>5. InChunks(list, token)
    BY <2>4, ChunksCover
  <2>6. PICK span \in SpansOf(r) : InChunk(span, token)
    BY <2>3, <2>5 DEF InChunks, Spans
  <2>7. PICK k \in ChunksOfRecord(r) : k.span = span
    BY <2>6 DEF SpansOf
  <2> QED
    BY <1>7, <2>2, <2>6, <2>7 DEF Covers, InChunk
<1> QED
  BY <1>7, <1>8

\* Once the calls on a live record have ended, a reindex that ran over however
\* many pages and beside whatever writes and updates has lost none of its
\* vectors, and the chunks in the index cover its text: for any calls, any
\* number of them, any page size and text length, and every fault
\* (reindexMemory's two passes over listChunks, writeCanonicalMemory and
\* refreshCanonicalMemoryIndex).
THEOREM ReindexKeepsAll == Spec => []ReindexLosesNothing
<1>1. Spec => []LosesInv
  BY LosesInit, LosesNext, PTL DEF Spec
<1> QED
  BY <1>1, LosesGives, PTL
=============================================================================
