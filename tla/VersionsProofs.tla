--------------------------- MODULE VersionsProofs ---------------------------
(***************************************************************************)
(* Proofs about the versions of a project, for every set of tasks, paths,  *)
(* API processes and Celery slots, and every bound.                        *)
(***************************************************************************)
EXTENDS Versions, SequenceTheorems, WellFoundedInduction, TLAPS

Pcs == {"idle", "running", "collected", "announce", "over"} \cup Transacting

Numbers == 1..Len(versions)

\* The rows of the other transactions are left alone.
Others(x) == tx' \in [Cutters -> Txs] /\ \A y \in Cutters \ {x} : tx'[y] = tx[y]

\* What a transaction carries from step to step.
Carried(x) ==
  /\ tx'[x].id = tx[x].id /\ tx'[x].put = tx[x].put /\ tx'[x].erased = tx[x].erased
  /\ tx'[x].since = tx[x].since /\ tx'[x].missed = tx[x].missed

VersionRows == [id: Cuts, manifest: Manifests, pushed: BOOLEAN]

LEMMA RowsTyped ==
  ASSUME TypeOK
  PROVE  /\ versions \in Seq(VersionRows) /\ Len(versions) \in Nat
         /\ \A n \in Numbers :
              /\ versions[n] \in VersionRows /\ versions[n].id \in Cuts
              /\ versions[n].manifest \in Manifests /\ versions[n].pushed \in BOOLEAN
<1>1. versions \in Seq(VersionRows)
  BY DEF TypeOK, VersionRows
<1>2. Len(versions) \in Nat /\ \A n \in Numbers : versions[n] \in VersionRows
  BY <1>1 DEF Numbers
<1>. QED  BY <1>1, <1>2 DEF VersionRows

-----------------------------------------------------------------------------
(* What each step of a transaction does to its row.                        *)

LEMMA NewTxTyped == ASSUME NEW pc \in Pcs PROVE [NewTx EXCEPT !.pc = pc] \in Txs
<1>1. Empty \in Manifests
  BY DEF Empty, Manifests, Content
<1>. QED  BY <1>1 DEF NewTx, Txs, Pcs

LEMMA RollbackDoes ==
  ASSUME TypeOK, NEW x \in Cutters, Rollback(x)
  PROVE  Others(x) /\ tx'[x].pc = IF x \in Tasks THEN "over" ELSE "idle"
<1>. DEFINE row == [NewTx EXCEPT !.pc = IF x \in Tasks THEN "over" ELSE "idle"]
<1>1. row \in Txs
  BY NewTxTyped DEF Pcs
<1>2. row.pc = IF x \in Tasks THEN "over" ELSE "idle"
  BY DEF NewTx
<1>3. tx' = [tx EXCEPT ![x] = row] /\ tx \in [Cutters -> Txs]
  BY DEF Rollback, TypeOK
<1>. HIDE DEF row
<1>. QED  BY <1>1, <1>2, <1>3 DEF Others

LEMMA GotoDoes ==
  ASSUME TypeOK, NEW x \in Cutters, NEW pc \in Pcs, tx' = [tx EXCEPT ![x].pc = pc]
  PROVE  /\ Others(x) /\ Carried(x) /\ tx'[x].pc = pc
         /\ tx'[x].manifest = tx[x].manifest /\ tx'[x].no = tx[x].no
<1>. DEFINE row == [tx[x] EXCEPT !.pc = pc]
<1>1. tx[x] \in Txs /\ tx \in [Cutters -> Txs]
  BY DEF TypeOK
<1>2. /\ row \in Txs /\ row.pc = pc /\ row.id = tx[x].id /\ row.put = tx[x].put
      /\ row.erased = tx[x].erased /\ row.since = tx[x].since /\ row.missed = tx[x].missed
      /\ row.manifest = tx[x].manifest /\ row.no = tx[x].no
  BY <1>1 DEF Txs, Pcs
<1>3. tx' = [tx EXCEPT ![x] = row]
  OBVIOUS
<1>. HIDE DEF row
<1>. QED  BY <1>1, <1>2, <1>3 DEF Others, Carried

\* The rows keep everything but the paths that are written meanwhile.
LEMMA WriteDoes ==
  ASSUME TypeOK, NEW t \in Tasks, NEW p \in Paths, Write(t, p)
  PROVE  /\ tx' \in [Cutters -> Txs]
         /\ \A x \in Cutters :
              /\ tx'[x].pc = tx[x].pc /\ tx'[x].id = tx[x].id /\ tx'[x].put = tx[x].put
              /\ tx'[x].erased = tx[x].erased /\ tx'[x].manifest = tx[x].manifest
              /\ tx'[x].no = tx[x].no
              /\ tx[x].pc \in Transacting => tx'[x].since = tx[x].since \cup {p}
              /\ tx[x].pc \notin Transacting => tx'[x].since = tx[x].since
              /\ tx[x].pc = "collected" => tx'[x].missed = tx[x].missed \cup {p}
              /\ tx[x].pc # "collected" => tx'[x].missed = tx[x].missed
<1>. DEFINE row(x) ==
       IF At(x, "running") THEN [tx[x] EXCEPT !.mine = @ \cup {p}]
       ELSE IF At(x, "collected") THEN [tx[x] EXCEPT !.missed = @ \cup {p}]
       ELSE IF tx[x].pc \in Transacting THEN [tx[x] EXCEPT !.since = @ \cup {p}]
       ELSE tx[x]
<1>1. tx' = [x \in Cutters |-> row(x)]
  BY DEF Write
<1>2. ASSUME NEW x \in Cutters
      PROVE  /\ row(x) \in Txs
             /\ row(x).pc = tx[x].pc /\ row(x).id = tx[x].id /\ row(x).put = tx[x].put
             /\ row(x).erased = tx[x].erased /\ row(x).manifest = tx[x].manifest
             /\ row(x).no = tx[x].no
             /\ tx[x].pc \in Transacting => row(x).since = tx[x].since \cup {p}
             /\ tx[x].pc \notin Transacting => row(x).since = tx[x].since
             /\ tx[x].pc = "collected" => row(x).missed = tx[x].missed \cup {p}
             /\ tx[x].pc # "collected" => row(x).missed = tx[x].missed
  <2>1. tx[x] \in Txs
    BY DEF TypeOK
  <2>2. CASE tx[x].pc = "running"
    BY <2>1, <2>2 DEF Txs, At, Transacting, Writing
  <2>3. CASE tx[x].pc = "collected"
    BY <2>1, <2>3 DEF Txs, At, Transacting, Writing
  <2>4. CASE tx[x].pc \in Transacting
    BY <2>1, <2>4 DEF Txs, At, Transacting, Writing
  <2>5. CASE tx[x].pc \notin Transacting \cup {"running", "collected"}
    BY <2>1, <2>5 DEF At
  <2>. QED  BY <2>2, <2>3, <2>4, <2>5
<1>. HIDE DEF row
<1>. QED  BY <1>1, <1>2

LEMMA ViewTyped == ASSUME TypeOK, NEW x \in Cutters PROVE View(x) \in Manifests
  BY DEF TypeOK, Txs, View, Over, Manifests, Content

\* The outputs of a run, or the end of a run without any.
Collected(t) ==
  /\ tx'[t].pc = "collected" /\ tx'[t].id = t
  /\ tx'[t].put = [p \in Paths |-> IF p \in Collectable(t) THEN disk[p] ELSE None]
  /\ tx'[t].since = {} /\ tx'[t].missed = {}

LEMMA CollectDoes ==
  ASSUME TypeOK, NEW t \in Tasks, Collect(t)
  PROVE  Others(t) /\ (tx'[t].pc = "over" \/ Collected(t))
<1>. DEFINE put == [p \in Paths |-> IF p \in Collectable(t) THEN disk[p] ELSE None]
            got == [NewTx EXCEPT !.pc = "collected", !.id = t, !.put = put]
            over == [NewTx EXCEPT !.pc = "over"]
<1>1. put \in Manifests
  BY DEF TypeOK, Manifests, Content
<1>2. over \in Txs /\ over.pc = "over"
  BY NewTxTyped DEF Pcs, NewTx
<1>3. /\ got \in Txs /\ got.pc = "collected" /\ got.id = t /\ got.put = put
      /\ got.since = {} /\ got.missed = {}
  <2>. HIDE DEF put
  <2>1. [NewTx EXCEPT !.pc = "collected"] \in Txs
    BY NewTxTyped DEF Pcs
  <2>. QED  BY <1>1, <2>1 DEF NewTx, Txs, Cuts
<1>4. tx' = [tx EXCEPT ![t] = IF Collectable(t) = {} THEN over ELSE got]
  BY DEF Collect
<1>5. tx \in [Cutters -> Txs] /\ t \in Cutters
  BY DEF TypeOK, Cutters
<1>. HIDE DEF got, over
<1>6. CASE Collectable(t) = {}
  BY <1>2, <1>4, <1>5, <1>6 DEF Others
<1>7. CASE Collectable(t) # {}
  BY <1>3, <1>4, <1>5, <1>7 DEF Others, Collected
<1>. QED  BY <1>6, <1>7

LEMMA ReadFilesDoes ==
  ASSUME TypeOK, NEW t \in Tasks, ReadFiles(t)
  PROVE  Others(t) /\ Carried(t) /\ tx'[t].pc = "read"
<1>. DEFINE seen == Held(files) \cap Held(tx[t].put)
            row == [tx[t] EXCEPT !.pc = "read", !.seen = seen]
<1>1. tx[t] \in Txs /\ tx \in [Cutters -> Txs] /\ t \in Cutters /\ seen \subseteq Paths
  BY DEF TypeOK, Cutters, Held
<1>2. tx' = [tx EXCEPT ![t] = row]
  BY DEF ReadFiles
<1>. HIDE DEF seen
<1>3. /\ row \in Txs /\ row.pc = "read" /\ row.id = tx[t].id /\ row.put = tx[t].put
      /\ row.erased = tx[t].erased /\ row.since = tx[t].since /\ row.missed = tx[t].missed
  BY <1>1 DEF Txs, Transacting
<1>. HIDE DEF row
<1>. QED  BY <1>1, <1>2, <1>3 DEF Others, Carried

LEMMA FlushFilesDoes ==
  ASSUME TypeOK, NEW t \in Tasks, FlushFiles(t)
  PROVE  Others(t) /\ (tx'[t].pc = "over" \/ (Carried(t) /\ tx'[t].pc = "manifest"))
<1>. DEFINE row == [tx[t] EXCEPT !.pc = "manifest", !.seen = {}]
<1>1. tx[t] \in Txs /\ tx \in [Cutters -> Txs] /\ t \in Cutters
  BY DEF TypeOK, Cutters
<1>2. tx' = [tx EXCEPT ![t] = row] \/ Rollback(t)
  BY DEF FlushFiles
<1>3. /\ row \in Txs /\ row.pc = "manifest" /\ row.id = tx[t].id /\ row.put = tx[t].put
      /\ row.erased = tx[t].erased /\ row.since = tx[t].since /\ row.missed = tx[t].missed
  BY <1>1 DEF Txs, Transacting, Writing
<1>. HIDE DEF row
<1>4. CASE tx' = [tx EXCEPT ![t] = row]
  BY <1>1, <1>3, <1>4 DEF Others, Carried
<1>5. CASE Rollback(t)
  BY <1>1, <1>5, RollbackDoes
<1>. QED  BY <1>2, <1>4, <1>5

LEMMA ReadManifestDoes ==
  ASSUME TypeOK, NEW t \in Tasks, ReadManifest(t)
  PROVE  Others(t) /\ Carried(t) /\ tx'[t].pc = "number" /\ tx'[t].manifest = View(t)
<1>. DEFINE m == View(t)
            row == [tx[t] EXCEPT !.pc = "number", !.manifest = m]
<1>1. tx[t] \in Txs /\ tx \in [Cutters -> Txs] /\ t \in Cutters
  BY DEF TypeOK, Cutters
<1>2. tx' = [tx EXCEPT ![t] = row]
  BY DEF ReadManifest
<1>3. m \in Manifests
  BY <1>1, ViewTyped
<1>. HIDE DEF m
<1>4. /\ row \in Txs /\ row.pc = "number" /\ row.id = tx[t].id /\ row.put = tx[t].put
      /\ row.erased = tx[t].erased /\ row.since = tx[t].since /\ row.missed = tx[t].missed
      /\ row.manifest = m
  BY <1>1, <1>3 DEF Txs, Transacting, Writing
<1>. HIDE DEF row
<1>5. Others(t) /\ Carried(t) /\ tx'[t].pc = "number" /\ tx'[t].manifest = m
  BY <1>1, <1>2, <1>4 DEF Others, Carried
<1>. QED  BY <1>5 DEF m

LEMMA NumberDoes ==
  ASSUME TypeOK, NEW x \in Cutters, Number(x)
  PROVE  /\ Others(x) /\ Carried(x) /\ tx'[x].pc = "insert"
         /\ tx'[x].manifest = tx[x].manifest
<1>. DEFINE no == Len(versions) + 1
            row == [tx[x] EXCEPT !.pc = "insert", !.no = no]
<1>1. tx[x] \in Txs /\ tx \in [Cutters -> Txs]
  BY DEF TypeOK
<1>2. tx' = [tx EXCEPT ![x] = row]
  BY DEF Number
<1>3. no \in Nat
  BY DEF TypeOK
<1>. HIDE DEF no
<1>4. /\ row \in Txs /\ row.pc = "insert" /\ row.id = tx[x].id /\ row.put = tx[x].put
      /\ row.erased = tx[x].erased /\ row.since = tx[x].since /\ row.missed = tx[x].missed
      /\ row.manifest = tx[x].manifest
  BY <1>1, <1>3 DEF Txs, Transacting, Writing
<1>. HIDE DEF row
<1>. QED  BY <1>1, <1>2, <1>4 DEF Others, Carried

\* The version is inserted, under a number that nobody else holds.
InsertedAs(x, pc) ==
  /\ Carried(x) /\ tx'[x].pc = pc
  /\ tx'[x].manifest = tx[x].manifest /\ tx'[x].no = tx[x].no /\ tx[x].no = Len(versions) + 1
  /\ \A y \in Cutters \ {x} : tx[y].pc \in Inserted => tx[y].no # tx[x].no

LEMMA InsertVersionDoes ==
  ASSUME TypeOK, NEW x \in Cutters, InsertVersion(x)
  PROVE  /\ Others(x)
         /\ \/ tx'[x].pc = IF x \in Tasks THEN "over" ELSE "idle"
            \/ InsertedAs(x, IF x \in Tasks THEN "label" ELSE "commit")
<1>. DEFINE pc == IF x \in Tasks THEN "label" ELSE "commit"
<1>1. pc \in Pcs
  BY DEF Pcs, Transacting, Writing
<1>2. CASE tx[x].no = Len(versions) + 1
  <2>1. tx' = [tx EXCEPT ![x].pc = pc]
    BY <1>2 DEF InsertVersion, Goto
  <2>2. \A y \in Cutters \ {x} : tx[y].pc \in Inserted => tx[y].no # tx[x].no
    BY DEF InsertVersion
  <2>. HIDE DEF pc
  <2>3. Others(x) /\ InsertedAs(x, pc)
    BY <1>1, <1>2, <2>1, <2>2, GotoDoes DEF InsertedAs
  <2>. QED  BY <2>3 DEF pc
<1>3. CASE tx[x].no # Len(versions) + 1
  BY <1>3, RollbackDoes DEF InsertVersion
<1>. QED  BY <1>2, <1>3

LEMMA EnqueueDoes ==
  ASSUME TypeOK, NEW t \in Tasks, Enqueue(t)
  PROVE  /\ Others(t) /\ Carried(t) /\ tx'[t].pc = "commit"
         /\ tx'[t].manifest = tx[t].manifest /\ tx'[t].no = tx[t].no
<1>1. t \in Cutters /\ "commit" \in Pcs /\ tx' = [tx EXCEPT ![t].pc = "commit"]
  BY DEF Enqueue, Goto, Cutters, Pcs, Transacting, Writing
<1>. QED  BY <1>1, GotoDoes

LEMMA CommitDoes ==
  ASSUME TypeOK, NEW x \in Cutters, Commit(x), tx[x].id \in Cuts
  PROVE  /\ Others(x)
         /\ x \in Tasks => tx'[x].pc = "over"
         /\ x \notin Tasks => tx'[x].pc = "announce" /\ tx'[x].id = tx[x].id
<1>1. CASE x \in Tasks
  BY <1>1, RollbackDoes DEF Commit
<1>2. CASE x \notin Tasks
  <2>. DEFINE id == tx[x].id
              row == [NewTx EXCEPT !.pc = "announce", !.id = id]
  <2>1. tx' = [tx EXCEPT ![x] = row] /\ tx \in [Cutters -> Txs] /\ id \in Cuts
    BY <1>2 DEF Commit, TypeOK
  <2>2. [NewTx EXCEPT !.pc = "announce"] \in Txs
    BY NewTxTyped DEF Pcs
  <2>. HIDE DEF id
  <2>3. row \in Txs /\ row.pc = "announce" /\ row.id = id
    BY <2>1, <2>2 DEF NewTx, Txs
  <2>. HIDE DEF row
  <2>. QED  BY <1>2, <2>1, <2>3 DEF Others, id
<1>. QED  BY <1>1, <1>2

\* The rows of the version replace those there are.
LEMMA RestoreDeleteDoes ==
  ASSUME TypeOK, VersionsAssumption, NEW a \in Apis, NEW n \in Numbers, RestoreDelete(a, n)
  PROVE  /\ Others(a) /\ tx'[a].pc = "insertfiles" /\ tx'[a].id = requests + 1
         /\ requests + 1 \in 1..MaxRequests
         /\ tx'[a].put = versions[n].manifest /\ tx'[a].manifest = versions[n].manifest
         /\ tx'[a].erased = Held(files) /\ tx'[a].since = {}
<1>. DEFINE id == requests + 1
            m == versions[n].manifest
            erased == Held(files)
            row == [NewTx EXCEPT !.pc = "insertfiles", !.id = id, !.put = m, !.manifest = m,
                                 !.erased = erased]
<1>1. tx' = [tx EXCEPT ![a] = row] /\ tx \in [Cutters -> Txs] /\ a \in Cutters
  BY DEF RestoreDelete, TypeOK, Cutters
<1>2. id \in 1..MaxRequests
  BY VersionsAssumption DEF RestoreDelete, TypeOK
<1>3. id \in Cuts
  BY <1>2 DEF Cuts
<1>4. m \in Manifests /\ erased \subseteq Paths
  BY RowsTyped DEF Held
<1>5. [NewTx EXCEPT !.pc = "insertfiles"] \in Txs
  BY NewTxTyped DEF Pcs, Transacting
<1>. HIDE DEF id, m, erased
<1>6. /\ row \in Txs /\ row.pc = "insertfiles" /\ row.id = id /\ row.put = m /\ row.manifest = m
      /\ row.erased = erased /\ row.since = {}
  BY <1>3, <1>4, <1>5 DEF NewTx, Txs
<1>. HIDE DEF row
<1>7. /\ Others(a) /\ tx'[a].pc = "insertfiles" /\ tx'[a].id = id /\ tx'[a].put = m
      /\ tx'[a].manifest = m /\ tx'[a].erased = erased /\ tx'[a].since = {}
  BY <1>1, <1>6 DEF Others
<1>. QED  BY <1>2, <1>7 DEF id, m, erased

LEMMA RestoreInsertDoes ==
  ASSUME TypeOK, NEW a \in Apis, a \notin Tasks, RestoreInsert(a)
  PROVE  /\ Others(a)
         /\ \/ tx'[a].pc = "idle"
            \/ Carried(a) /\ tx'[a].pc = "number" /\ tx'[a].manifest = tx[a].manifest
<1>1. a \in Cutters /\ "number" \in Pcs
  BY DEF Cutters, Pcs, Transacting, Writing
<1>2. tx' = [tx EXCEPT ![a].pc = "number"] \/ Rollback(a)
  BY DEF RestoreInsert, Goto
<1>3. CASE tx' = [tx EXCEPT ![a].pc = "number"]
  BY <1>1, <1>3, GotoDoes
<1>4. CASE Rollback(a)
  BY <1>1, <1>4, RollbackDoes
<1>. QED  BY <1>2, <1>3, <1>4

-----------------------------------------------------------------------------
(* What the steps that touch the versions do to them.                      *)

\* A version is added at the end.
Adds(x) ==
  /\ versions' \in Seq(VersionRows) /\ Len(versions') = Len(versions) + 1
  /\ Numbers' = Numbers \cup {Len(versions) + 1}
  /\ \A n \in Numbers : versions'[n] = versions[n] /\ n # Len(versions) + 1
  /\ versions'[Len(versions) + 1] = Version(tx[x].id, tx[x].manifest)

LEMMA CommitAdds ==
  ASSUME TypeOK, NEW x \in Cutters, Commit(x), tx[x].id \in Cuts
  PROVE  Adds(x)
<1>. DEFINE row == Version(tx[x].id, tx[x].manifest)
<1>1. tx[x].manifest \in Manifests
  BY DEF TypeOK, Txs
<1>2. row \in VersionRows
  BY <1>1 DEF Version, VersionRows
<1>3. versions' = Append(versions, row)
  BY DEF Commit
<1>. HIDE DEF row
<1>4. /\ versions' \in Seq(VersionRows) /\ Len(versions') = Len(versions) + 1
      /\ \A n \in Numbers : versions'[n] = versions[n]
      /\ versions'[Len(versions) + 1] = row
  BY <1>2, <1>3, RowsTyped DEF Numbers
<1>5. Numbers' = Numbers \cup {Len(versions) + 1} /\ \A n \in Numbers : n # Len(versions) + 1
  BY <1>4, RowsTyped DEF Numbers
<1>. QED  BY <1>4, <1>5 DEF row, Adds

\* Nothing of a version changes but that it counts as pushed.
Same ==
  /\ versions' \in Seq(VersionRows) /\ Len(versions') = Len(versions) /\ Numbers' = Numbers
  /\ \A n \in Numbers :
       /\ versions'[n].id = versions[n].id /\ versions'[n].manifest = versions[n].manifest
       /\ versions[n].pushed => versions'[n].pushed

LEMMA Unchanging == ASSUME TypeOK, versions' = versions PROVE Same
  BY RowsTyped DEF Same, Numbers

LEMMA MarkDoes ==
  ASSUME TypeOK, NEW q, Mark(q)
  PROVE  /\ Same
         /\ \A n \in Numbers :
              versions'[n].pushed = (versions[n].pushed \/ n = No(push[q].id))
<1>. DEFINE k == No(push[q].id)
<1>1. versions' = [versions EXCEPT ![k].pushed = TRUE]
  BY DEF Mark
<1>. HIDE DEF k
<1>2. ASSUME NEW n \in Numbers
      PROVE  /\ versions'[n] \in VersionRows
             /\ versions'[n].id = versions[n].id /\ versions'[n].manifest = versions[n].manifest
             /\ versions'[n].pushed = (versions[n].pushed \/ n = k)
  <2>1. versions[n] \in VersionRows /\ n \in DOMAIN versions /\ versions[n].pushed \in BOOLEAN
    BY RowsTyped DEF Numbers
  <2>2. CASE n = k
    <3>1. versions'[n] = [versions[n] EXCEPT !.pushed = TRUE]
      BY <1>1, <2>1, <2>2
    <3>. QED  BY <2>1, <2>2, <3>1 DEF VersionRows
  <2>3. CASE n # k
    <3>1. versions'[n] = versions[n]
      BY <1>1, <2>1, <2>3
    <3>. QED  BY <2>1, <2>3, <3>1
  <2>. QED  BY <2>2, <2>3
<1>3. versions' \in Seq(VersionRows) /\ Len(versions') = Len(versions)
  <2>1. Numbers = 1..Len(versions) /\ DOMAIN versions = 1..Len(versions)
    BY RowsTyped DEF Numbers
  <2>2. versions' = [n \in DOMAIN versions |-> versions'[n]]
    BY <1>1
  <2>3. versions' \in [1..Len(versions) -> VersionRows]
    BY <1>2, <2>1, <2>2
  <2>4. Len(versions) \in Nat
    BY RowsTyped
  <2>5. versions' \in Seq(VersionRows)
    BY <2>3, <2>4, SeqDef
  <2>6. DOMAIN versions' = 1..Len(versions)
    BY <2>3
  <2>7. Len(versions') = Len(versions)
    BY <2>4, <2>5, <2>6, LenProperties
  <2>. QED  BY <2>5, <2>7
<1>. QED  BY <1>2, <1>3 DEF Same, Numbers, k

-----------------------------------------------------------------------------
(* Who cuts what: a version is cut once.                                   *)

Open == Transacting \cup {"collected"}
TaskPcs == {"idle", "running", "collected", "read", "manifest", "number", "insert",
            "label", "commit", "over"}
ApiPcs == {"idle", "insertfiles", "number", "insert", "commit", "announce"}

\* Each transaction knows its version, and no two of them and no version share it.
Ids ==
  /\ \A t \in Tasks : tx[t].pc \in TaskPcs /\ (tx[t].pc \in Open => tx[t].id = t)
  /\ \A a \in Apis : tx[a].pc \in ApiPcs /\ (tx[a].pc # "idle" => tx[a].id \in 1..requests)
  /\ \A a, b \in Apis : a # b /\ tx[a].pc # "idle" /\ tx[b].pc # "idle" => tx[a].id # tx[b].id
  /\ \A a \in Apis : tx[a].pc \in Open => \A n \in Numbers : versions[n].id # tx[a].id
  /\ \A n \in Numbers : \/ versions[n].id \in Tasks /\ tx[versions[n].id].pc = "over"
                        \/ versions[n].id \in 1..requests
  /\ \A m, n \in Numbers : versions[m].id = versions[n].id => m = n

\* A step that cuts nothing new and begins no restore.
GoesOn(x) ==
  /\ x \in Tasks => /\ tx'[x].pc \in TaskPcs /\ (tx'[x].pc \in Open => tx'[x].id = x)
                    /\ tx[x].pc = "over" => tx'[x].pc = "over"
  /\ x \in Apis => /\ tx'[x].pc \in ApiPcs
                   /\ tx'[x].pc # "idle" => tx[x].pc # "idle" /\ tx'[x].id = tx[x].id
                   /\ tx'[x].pc \in Open => tx[x].pc \in Open

LEMMA IdsGoOn ==
  ASSUME TypeOK, Ids, Same, requests' \in {requests, requests + 1},
         \A x \in Cutters : GoesOn(x)
  PROVE  Ids'
<1>1. requests \in Nat /\ 1..requests \subseteq 1..requests'
  BY DEF TypeOK
<1>. USE DEF Same, GoesOn, Cutters
<1>2. \A t \in Tasks : tx'[t].pc \in TaskPcs /\ (tx'[t].pc \in Open => tx'[t].id = t)
  OBVIOUS
<1>3. \A a \in Apis : tx'[a].pc \in ApiPcs /\ (tx'[a].pc # "idle" => tx'[a].id \in 1..requests')
  BY <1>1 DEF Ids
<1>4. \A a, b \in Apis :
        a # b /\ tx'[a].pc # "idle" /\ tx'[b].pc # "idle" => tx'[a].id # tx'[b].id
  BY DEF Ids
<1>5. \A a \in Apis : tx'[a].pc \in Open => \A n \in Numbers' : versions'[n].id # tx'[a].id
  BY DEF Ids, ApiPcs, Open, Transacting, Writing
<1>6. \A n \in Numbers' : \/ versions'[n].id \in Tasks /\ tx'[versions'[n].id].pc = "over"
                          \/ versions'[n].id \in 1..requests'
  BY <1>1 DEF Ids
<1>7. \A m, n \in Numbers' : versions'[m].id = versions'[n].id => m = n
  BY DEF Ids
<1>. QED  BY <1>2, <1>3, <1>4, <1>5, <1>6, <1>7 DEF Ids

\* A row that is left alone goes on.
LEMMA StaysOn ==
  ASSUME Ids, NEW x \in Cutters, tx'[x].pc = tx[x].pc, tx'[x].id = tx[x].id
  PROVE  GoesOn(x)
  BY DEF Ids, GoesOn

LEMMA OneGoesOn ==
  ASSUME Ids, NEW x \in Cutters, Others(x), GoesOn(x)
  PROVE  \A y \in Cutters : GoesOn(y)
  BY StaysOn DEF Others

LEMMA KnowsIds ==
  ASSUME TypeOK, VersionsAssumption, Ids
  PROVE  /\ \A x \in Cutters : tx[x].pc \in Open \cup {"announce"} => tx[x].id \in Cuts
         /\ \A a \in Apis : a \notin Tasks
         /\ \A x \in Cutters : x \notin Tasks => x \in Apis
<1>1. 1..requests \subseteq 1..MaxRequests
  BY VersionsAssumption DEF TypeOK
<1>2. \A t \in Tasks : tx[t].pc \in Open \cup {"announce"} => tx[t].id \in Cuts
  BY DEF Ids, TaskPcs, Cuts
<1>3. \A a \in Apis : tx[a].pc \in Open \cup {"announce"} => tx[a].id \in Cuts
  BY <1>1 DEF Ids, ApiPcs, Cuts, Open, Transacting, Writing
<1>. QED  BY <1>2, <1>3 DEF Cutters, VersionsAssumption

-----------------------------------------------------------------------------
(* The list of a backfill.  The library's induction takes an operator as a *)
(* parameter; what is needed of it is that a set of numbers has a least.   *)

LEMMA Least ==
  ASSUME NEW T, T \subseteq Nat, T # {}
  PROVE  \E x \in T : \A y \in T : x <= y
<1>1. PICK x \in T : \A y \in T : <<y, x>> \notin OpToRel(<, Nat)
  BY NatLessThanWellFounded, WFMin
<1>2. \A y \in T : ~(y < x)
  BY <1>1 DEF OpToRel
<1>. QED  BY <1>2

\* f lists, up to each number, the versions that are not pushed.
Lists(f, N, V) ==
  f = [n \in 0..N |-> IF n = 0 THEN <<>>
                      ELSE IF V[n].pushed THEN f[n - 1]
                      ELSE Append(f[n - 1], n)]

LEMMA ListsExist ==
  ASSUME NEW V, NEW N \in Nat
  PROVE  \E f : Lists(f, N, V)
<1>. DEFINE T == {n \in Nat : ~ \E f : Lists(f, n, V)}
<1>. SUFFICES T = {}
  OBVIOUS
<1>. SUFFICES ASSUME T # {} PROVE FALSE
  OBVIOUS
<1>1. PICK x \in T : \A y \in T : x <= y
  <2>. HIDE DEF T
  <2>. QED
    <3>1. T \subseteq Nat
      BY DEF T
    <3>. QED  BY <3>1, Least
<1>2. x # 0
  <2>1. Lists([n \in 0..0 |-> <<>>], 0, V)
    BY DEF Lists
  <2>. QED  BY <2>1
<1>3. x \in Nat /\ x - 1 \in Nat /\ x - 1 \notin T
  BY <1>1, <1>2
<1>4. PICK f : Lists(f, x - 1, V)
  BY <1>3
<1>. DEFINE last == IF V[x].pushed THEN f[x - 1] ELSE Append(f[x - 1], x)
            g == [n \in 0..x |-> IF n = x THEN last ELSE f[n]]
            h == [n \in 0..x |-> IF n = 0 THEN <<>>
                                 ELSE IF V[n].pushed THEN g[n - 1]
                                 ELSE Append(g[n - 1], n)]
<1>5. \A n \in 0..(x - 1) :
         f[n] = IF n = 0 THEN <<>> ELSE IF V[n].pushed THEN f[n - 1] ELSE Append(f[n - 1], n)
  BY <1>4 DEF Lists
<1>6. ASSUME NEW n \in 0..x PROVE g[n] = h[n]
  <2>1. CASE n = x
    <3>1. g[n] = last /\ g[n - 1] = f[x - 1] /\ n # 0
      BY <1>2, <1>3, <2>1
    <3>. QED  BY <2>1, <3>1
  <2>2. CASE n # x
    <3>1. n \in 0..(x - 1) /\ (n # 0 => n - 1 \in 0..x /\ n - 1 # x)
      BY <1>3, <2>2
    <3>2. g[n] = f[n] /\ (n # 0 => g[n - 1] = f[n - 1])
      BY <2>2, <3>1
    <3>. QED  BY <1>5, <3>1, <3>2
  <2>. QED  BY <2>1, <2>2
<1>7. g = h
  BY <1>6
<1>8. Lists(g, x, V)
  BY <1>7 DEF Lists
<1>. QED  BY <1>8

\* The list s of the versions V up to n that are not pushed, in their order.
Rises(s, n, V) ==
  /\ s \in Seq(Nat)
  /\ \A k \in 1..Len(s) : s[k] \in 1..n /\ ~V[s[k]].pushed
  /\ \A j, k \in 1..Len(s) : j < k => s[j] < s[k]
  /\ \A m \in 1..n : V[m].pushed \/ \E k \in 1..Len(s) : s[k] = m

LEMMA AppendRises ==
  ASSUME NEW V, NEW n \in Nat, NEW s, Rises(s, n, V), ~V[n + 1].pushed
  PROVE  Rises(Append(s, n + 1), n + 1, V)
<1>. DEFINE m == n + 1
            r == Append(s, m)
<1>1. s \in Seq(Nat) /\ Len(s) \in Nat /\ m \in Nat
  BY DEF Rises
<1>2. m > n /\ \A k \in 1..n : k \in 1..m /\ k < m
  OBVIOUS
<1>3. \A k \in 1..m : k \in 1..n \/ k = m
  OBVIOUS
<1>. HIDE DEF m
<1>4. /\ r \in Seq(Nat) /\ Len(r) = Len(s) + 1
      /\ \A k \in 1..Len(s) : r[k] = s[k]
      /\ r[Len(s) + 1] = m
  BY <1>1
<1>. HIDE DEF r
<1>5. \A k \in 1..Len(r) : k \in 1..Len(s) \/ k = Len(s) + 1
  BY <1>1, <1>4
<1>6. \A k \in 1..Len(r) : r[k] \in 1..m /\ ~V[r[k]].pushed
  <2>1. m \in 1..m /\ ~V[m].pushed
    BY <1>1, <1>2 DEF m
  <2>. QED  BY <1>2, <1>4, <1>5, <2>1 DEF Rises
<1>7. \A j, k \in 1..Len(r) : j < k => r[j] < r[k]
  <2>. SUFFICES ASSUME NEW j \in 1..Len(r), NEW k \in 1..Len(r), j < k PROVE r[j] < r[k]
    OBVIOUS
  <2>1. j \in 1..Len(s)
    BY <1>1, <1>4
  <2>. QED  BY <1>2, <1>4, <1>5, <2>1 DEF Rises
<1>8. \A i \in 1..m : V[i].pushed \/ \E k \in 1..Len(r) : r[k] = i
  <2>. SUFFICES ASSUME NEW i \in 1..m, ~V[i].pushed PROVE \E k \in 1..Len(r) : r[k] = i
    OBVIOUS
  <2>1. CASE i = m
    <3>1. Len(s) + 1 \in 1..Len(r)
      BY <1>1, <1>4
    <3>. QED  BY <1>4, <2>1, <3>1
  <2>2. CASE i \in 1..n
    <3>1. PICK k \in 1..Len(s) : s[k] = i
      BY <2>2 DEF Rises
    <3>2. k \in 1..Len(r)
      BY <1>1, <1>4
    <3>. QED  BY <1>4, <3>1, <3>2
  <2>. QED  BY <1>3, <2>1, <2>2
<1>. QED  BY <1>4, <1>6, <1>7, <1>8 DEF Rises, m, r

LEMMA ListRises ==
  ASSUME NEW V, NEW N \in Nat, NEW f, Lists(f, N, V)
  PROVE  \A n \in 0..N : Rises(f[n], n, V)
<1>. DEFINE T == {n \in 0..N : ~Rises(f[n], n, V)}
<1>. SUFFICES ASSUME T # {} PROVE FALSE
  OBVIOUS
<1>1. PICK x \in T : \A y \in T : x <= y
  <2>1. T \subseteq Nat
    OBVIOUS
  <2>. HIDE DEF T
  <2>. QED  BY <2>1, Least
<1>2. f[x] = IF x = 0 THEN <<>> ELSE IF V[x].pushed THEN f[x - 1] ELSE Append(f[x - 1], x)
  BY DEF Lists
<1>3. x # 0
  <2>. SUFFICES ASSUME x = 0 PROVE FALSE
    OBVIOUS
  <2>1. f[x] = <<>>
    BY <1>2
  <2>2. <<>> \in Seq(Nat) /\ 1..0 = {} /\ 1..Len(<<>>) = {}
    OBVIOUS
  <2>3. Rises(<<>>, 0, V)
    BY <2>2 DEF Rises
  <2>. QED  BY <2>1, <2>3
<1>4. x - 1 \in Nat /\ x - 1 \in 0..N /\ x - 1 \notin T /\ (x - 1) + 1 = x /\ x \in Nat
  BY <1>1, <1>3
<1>5. Rises(f[x - 1], x - 1, V)
  BY <1>4
<1>6. CASE V[x].pushed
  <2>1. \A i \in 1..x : i \in 1..(x - 1) \/ i = x
    BY <1>4
  <2>2. 1..(x - 1) \subseteq 1..x
    BY <1>4
  <2>3. f[x] = f[x - 1]
    BY <1>2, <1>3, <1>6
  <2>4. Rises(f[x], x, V)
    BY <1>5, <1>6, <2>1, <2>2, <2>3 DEF Rises
  <2>. QED  BY <2>4
<1>7. CASE ~V[x].pushed
  <2>. DEFINE y == x - 1
  <2>1. y \in Nat /\ y + 1 = x /\ Rises(f[y], y, V)
    BY <1>4, <1>5
  <2>. HIDE DEF y
  <2>2. Rises(Append(f[y], y + 1), y + 1, V)
    BY <1>7, <2>1, AppendRises
  <2>3. f[x] = Append(f[y], y + 1)
    BY <1>2, <1>3, <1>7, <2>1 DEF y
  <2>4. Rises(f[x], x, V)
    BY <2>1, <2>2, <2>3
  <2>. QED  BY <2>4
<1>. QED  BY <1>6, <1>7

\* A backfill lists every version that is not pushed, in their order.
LEMMA UnpushedRises ==
  ASSUME TypeOK
  PROVE  Rises(Unpushed, Len(versions), versions)
<1>1. Len(versions) \in Nat /\ Len(versions) \in 0..Len(versions)
  BY RowsTyped
<1>. DEFINE f == CHOOSE f : Lists(f, Len(versions), versions)
<1>2. Lists(f, Len(versions), versions)
  BY <1>1, ListsExist
<1>3. Unpushed = f[Len(versions)]
  BY DEF Unpushed, Lists
<1>. HIDE DEF f
<1>. QED  BY <1>1, <1>2, <1>3, ListRises

-----------------------------------------------------------------------------
(* The steps keep Ids.                                                     *)

LEMMA NextActions ==
  ASSUME Next
  PROVE  \/ \E t \in Tasks :
              \/ Begin(t) \/ Fail(t) \/ Collect(t) \/ ReadFiles(t) \/ FlushFiles(t)
              \/ ReadManifest(t) \/ Enqueue(t) \/ \E p \in Paths : Write(t, p)
         \/ \E x \in Cutters : Number(x) \/ InsertVersion(x) \/ Commit(x) \/ Abort(x)
         \/ \E a \in Apis :
              \/ RestoreInsert(a) \/ RestoreAnnounce(a)
              \/ \E n \in Numbers : RestoreDelete(a, n)
         \/ \E a \in Apis :
              \/ RequestRepo(a) \/ TokenFails(a) \/ CreateRepo(a) \/ Backfill(a)
              \/ Deploy(a) \/ Ship(a) \/ ShipFails(a) \/ Deployed(a)
         \/ Connect
         \/ \E q \in Apis \cup Pushers :
              \/ TakeJob(q) \/ Skip(q) \/ StartPush(q) \/ Land(q) \/ Mark(q)
              \/ PushRaises(q) \/ PusherLost(q)
  BY DEF Next, Run, Cut, Finish, Restore, Push, Numbers

LEMMA IdsStep ==
  ASSUME TypeOK, VersionsAssumption, Ids, Next
  PROVE  Ids'
<1>. USE DEF TaskPcs, ApiPcs, Open, Transacting, Writing
<1>0. /\ \A t \in Tasks : t \in Cutters /\ t \notin Apis
      /\ \A a \in Apis : a \in Cutters /\ a \notin Tasks
      /\ \A x \in Cutters : x \in Tasks \/ x \in Apis
  BY DEF Cutters, VersionsAssumption
<1>1. ASSUME NEW t \in Tasks, Begin(t) PROVE Ids'
  <2>1. tx' = [tx EXCEPT ![t].pc = "running"] /\ tx[t].pc = "idle" /\ Same /\ requests' = requests
    BY <1>1, Unchanging DEF Begin, Goto, At
  <2>2. Others(t) /\ tx'[t].pc = "running"
    BY <1>0, <2>1, GotoDoes DEF Pcs
  <2>3. GoesOn(t)
    BY <1>0, <2>1, <2>2 DEF GoesOn
  <2>. QED  BY <1>0, <2>1, <2>2, <2>3, OneGoesOn, IdsGoOn
<1>2. ASSUME NEW t \in Tasks, NEW p \in Paths, Write(t, p) PROVE Ids'
  <2>1. Same /\ requests' = requests
    BY <1>2, Unchanging DEF Write
  <2>2. \A x \in Cutters : tx'[x].pc = tx[x].pc /\ tx'[x].id = tx[x].id
    BY <1>2, WriteDoes
  <2>3. \A x \in Cutters : GoesOn(x)
    BY <2>2, StaysOn
  <2>. QED  BY <2>1, <2>3, IdsGoOn
<1>3. ASSUME NEW t \in Tasks, Fail(t) PROVE Ids'
  <2>1. Same /\ requests' = requests
    BY <1>3, Unchanging DEF Fail
  <2>2. Others(t) /\ tx'[t].pc = "over"
    BY <1>0, <1>3, RollbackDoes DEF Fail
  <2>3. GoesOn(t)
    BY <1>0, <2>2 DEF GoesOn
  <2>. QED  BY <1>0, <2>1, <2>2, <2>3, OneGoesOn, IdsGoOn
<1>4. ASSUME NEW t \in Tasks, Collect(t) PROVE Ids'
  <2>1. Same /\ requests' = requests /\ tx[t].pc = "running"
    BY <1>4, Unchanging DEF Collect, At
  <2>2. Others(t) /\ (tx'[t].pc = "over" \/ (tx'[t].pc = "collected" /\ tx'[t].id = t))
    BY <1>4, CollectDoes DEF Collected
  <2>3. GoesOn(t)
    BY <1>0, <2>1, <2>2 DEF GoesOn
  <2>. QED  BY <1>0, <2>1, <2>2, <2>3, OneGoesOn, IdsGoOn
<1>5. ASSUME NEW t \in Tasks,
             ReadFiles(t) \/ FlushFiles(t) \/ ReadManifest(t) \/ Enqueue(t)
      PROVE  Ids'
  <2>1. Same /\ requests' = requests /\ tx[t].pc \in {"collected", "read", "manifest", "label"}
    BY <1>5, Unchanging DEF ReadFiles, FlushFiles, ReadManifest, Enqueue, cutting, At
  <2>2. /\ Others(t)
        /\ \/ tx'[t].pc = "over"
           \/ tx'[t].pc \in {"read", "manifest", "number", "commit"} /\ tx'[t].id = tx[t].id
    BY <1>5, ReadFilesDoes, FlushFilesDoes, ReadManifestDoes, EnqueueDoes DEF Carried
  <2>3. GoesOn(t)
    BY <1>0, <2>1, <2>2 DEF GoesOn, Ids
  <2>. QED  BY <1>0, <2>1, <2>2, <2>3, OneGoesOn, IdsGoOn
<1>6. ASSUME NEW x \in Cutters, Number(x) \/ InsertVersion(x) PROVE Ids'
  <2>1. Same /\ requests' = requests /\ tx[x].pc \in {"number", "insert"}
    BY <1>6, Unchanging DEF Number, InsertVersion, At
  <2>2. /\ Others(x)
        /\ \/ tx'[x].pc = IF x \in Tasks THEN "over" ELSE "idle"
           \/ tx'[x].pc = "insert" /\ tx'[x].id = tx[x].id
           \/ tx'[x].pc = (IF x \in Tasks THEN "label" ELSE "commit") /\ tx'[x].id = tx[x].id
    BY <1>6, NumberDoes, InsertVersionDoes DEF Carried, InsertedAs
  <2>3. GoesOn(x)
    BY <1>0, <2>1, <2>2 DEF GoesOn, Ids
  <2>. QED  BY <2>1, <2>2, <2>3, OneGoesOn, IdsGoOn
<1>7. ASSUME NEW x \in Cutters, Commit(x) PROVE Ids'
  <2>1. tx[x].pc = "commit" /\ tx[x].id \in Cuts /\ requests' = requests
    BY <1>7, KnowsIds DEF Commit, At
  <2>2. /\ Others(x)
        /\ x \in Tasks => tx'[x].pc = "over"
        /\ x \notin Tasks => tx'[x].pc = "announce" /\ tx'[x].id = tx[x].id
    BY <1>7, <2>1, CommitDoes
  <2>3. /\ Numbers' = Numbers \cup {Len(versions) + 1}
        /\ \A n \in Numbers : versions'[n] = versions[n] /\ n # Len(versions) + 1
        /\ versions'[Len(versions) + 1].id = tx[x].id
    <3>1. Adds(x)
      BY <1>7, <2>1, CommitAdds
    <3>. QED  BY <3>1 DEF Adds, Version
  <2>. DEFINE new == Len(versions) + 1
  <2>. HIDE DEF new
  <2>4. /\ Numbers' = Numbers \cup {new}
        /\ \A n \in Numbers : versions'[n] = versions[n] /\ n # new
        /\ versions'[new].id = tx[x].id
    BY <2>3 DEF new
  <2>5. \A n \in Numbers : versions[n].id # tx[x].id
    <3>1. CASE x \in Tasks
      <4>1. tx[x].id = x
        BY <2>1, <3>1 DEF Ids
      <4>. QED  BY <2>1, <3>1, <4>1, VersionsAssumption DEF Ids, TypeOK
    <3>. QED  BY <1>0, <2>1, <3>1 DEF Ids
  <2>6. \A t \in Tasks : tx'[t].pc \in TaskPcs /\ (tx'[t].pc \in Open => tx'[t].id = t)
    BY <1>0, <2>2 DEF Ids, Others
  <2>7. \A a \in Apis : /\ tx'[a].pc \in ApiPcs
                        /\ tx'[a].pc # "idle" => tx[a].pc # "idle" /\ tx'[a].id = tx[a].id
    BY <1>0, <2>1, <2>2 DEF Ids, Others
  <2>8. \A a \in Apis : tx'[a].pc # "idle" => tx'[a].id \in 1..requests'
    BY <2>1, <2>7 DEF Ids
  <2>9. \A a, b \in Apis :
          a # b /\ tx'[a].pc # "idle" /\ tx'[b].pc # "idle" => tx'[a].id # tx'[b].id
    BY <2>7 DEF Ids
  <2>10. \A a \in Apis : tx'[a].pc \in Open => a # x /\ tx[a].pc \in Open /\ tx'[a].id # tx[x].id
    <3>. SUFFICES ASSUME NEW a \in Apis, tx'[a].pc \in Open
                  PROVE  a # x /\ tx[a].pc \in Open /\ tx'[a].id # tx[x].id
      OBVIOUS
    <3>1. a # x /\ tx'[a] = tx[a]
      BY <1>0, <2>2 DEF Others
    <3>2. CASE x \in Apis
      BY <2>1, <3>1, <3>2 DEF Ids
    <3>3. CASE x \in Tasks
      <4>1. tx[x].id = x /\ tx[a].id \in 1..requests
        BY <2>1, <3>1, <3>3 DEF Ids
      <4>2. x \notin 1..requests
        BY <3>3, VersionsAssumption DEF TypeOK
      <4>. QED  BY <3>1, <4>1, <4>2
    <3>. QED  BY <1>0, <3>2, <3>3
  <2>11. \A a \in Apis : tx'[a].pc \in Open => \A n \in Numbers' : versions'[n].id # tx'[a].id
    BY <2>4, <2>7, <2>10 DEF Ids
  <2>12. \A n \in Numbers' : \/ versions'[n].id \in Tasks /\ tx'[versions'[n].id].pc = "over"
                             \/ versions'[n].id \in 1..requests'
    <3>1. \/ tx[x].id \in Tasks /\ tx'[tx[x].id].pc = "over"
          \/ tx[x].id \in 1..requests
      BY <1>0, <2>1, <2>2 DEF Ids
    <3>2. \A t \in Tasks : tx[t].pc = "over" => tx'[t].pc = "over"
      BY <1>0, <2>1, <2>2 DEF Others
    <3>. QED  BY <2>1, <2>4, <3>1, <3>2 DEF Ids
  <2>13. \A m, n \in Numbers' : versions'[m].id = versions'[n].id => m = n
    BY <2>4, <2>5 DEF Ids
  <2>. QED  BY <2>6, <2>7, <2>8, <2>9, <2>11, <2>12, <2>13 DEF Ids
<1>8. ASSUME NEW x \in Cutters, Abort(x) PROVE Ids'
  <2>1. Same /\ requests' = requests
    BY <1>8, Unchanging DEF Abort
  <2>2. Others(x) /\ tx'[x].pc = IF x \in Tasks THEN "over" ELSE "idle"
    BY <1>8, RollbackDoes DEF Abort
  <2>3. GoesOn(x)
    BY <1>0, <2>2 DEF GoesOn
  <2>. QED  BY <2>1, <2>2, <2>3, OneGoesOn, IdsGoOn
<1>9. ASSUME NEW a \in Apis, NEW n \in Numbers, RestoreDelete(a, n) PROVE Ids'
  <2>1. Same /\ requests' = requests + 1 /\ requests \in Nat /\ tx[a].pc = "idle"
    BY <1>9, Unchanging DEF RestoreDelete, Free, At, TypeOK
  <2>2. Others(a) /\ tx'[a].pc = "insertfiles" /\ tx'[a].id = requests + 1
    BY <1>9, RestoreDeleteDoes
  <2>. DEFINE new == requests + 1
  <2>3. /\ new \in 1..requests' /\ new \notin 1..requests /\ 1..requests \subseteq 1..requests'
        /\ requests' = new /\ new \notin Tasks
    BY <2>1, <1>9, RestoreDeleteDoes, VersionsAssumption
  <2>4. tx'[a].id = new
    BY <2>2
  <2>. HIDE DEF new
  <2>5. \A t \in Tasks : tx'[t] = tx[t]
    BY <1>0, <2>2 DEF Others
  <2>6. \A b \in Apis : b # a => tx'[b] = tx[b]
    BY <1>0, <2>2 DEF Others
  <2>7. \A b \in Apis : tx'[b].pc \in ApiPcs /\ (tx'[b].pc # "idle" => tx'[b].id \in 1..requests')
    BY <2>2, <2>3, <2>4, <2>6 DEF Ids
  <2>8. \A b, c \in Apis :
          b # c /\ tx'[b].pc # "idle" /\ tx'[c].pc # "idle" => tx'[b].id # tx'[c].id
    BY <2>3, <2>4, <2>6 DEF Ids
  <2>9. \A k \in Numbers : versions[k].id # new
    BY <2>3 DEF Ids
  <2>10. \A b \in Apis : tx'[b].pc \in Open => \A k \in Numbers' : versions'[k].id # tx'[b].id
    BY <2>1, <2>4, <2>6, <2>9 DEF Ids, Same
  <2>11. \A k \in Numbers' : \/ versions'[k].id \in Tasks /\ tx'[versions'[k].id].pc = "over"
                             \/ versions'[k].id \in 1..requests'
    BY <2>1, <2>3, <2>5 DEF Ids, Same
  <2>12. \A k, m \in Numbers' : versions'[k].id = versions'[m].id => k = m
    BY <2>1 DEF Ids, Same
  <2>. QED  BY <2>5, <2>7, <2>8, <2>10, <2>11, <2>12 DEF Ids
<1>10. ASSUME NEW a \in Apis, RestoreInsert(a) \/ RestoreAnnounce(a) PROVE Ids'
  <2>1. Same /\ requests' = requests /\ tx[a].pc \in {"insertfiles", "announce"}
    BY <1>10, Unchanging DEF RestoreInsert, RestoreAnnounce, At
  <2>2. /\ Others(a)
        /\ \/ tx'[a].pc = "idle"
           \/ tx'[a].pc = "number" /\ tx'[a].id = tx[a].id /\ tx[a].pc = "insertfiles"
    <3>1. CASE RestoreInsert(a)
      BY <1>0, <3>1, RestoreInsertDoes DEF Carried, RestoreInsert, At
    <3>2. CASE RestoreAnnounce(a)
      BY <1>0, <3>2, RollbackDoes DEF RestoreAnnounce
    <3>. QED  BY <1>10, <3>1, <3>2
  <2>3. GoesOn(a)
    BY <1>0, <2>1, <2>2 DEF GoesOn, Ids
  <2>. QED  BY <1>0, <2>1, <2>2, <2>3, OneGoesOn, IdsGoOn
<1>11. ASSUME NEW a \in Apis,
              \/ RequestRepo(a) \/ TokenFails(a) \/ CreateRepo(a) \/ Backfill(a)
              \/ Deploy(a) \/ Ship(a) \/ ShipFails(a) \/ Deployed(a)
       PROVE  Ids'
  <2>1. versions' = versions /\ tx' = tx /\ requests' \in {requests, requests + 1}
    BY <1>11 DEF RequestRepo, TokenFails, CreateRepo, Backfill, Deploy, Ship, ShipFails, Deployed,
                 cutting
  <2>2. \A x \in Cutters : GoesOn(x)
    BY <2>1, StaysOn
  <2>. QED  BY <2>1, <2>2, Unchanging, IdsGoOn
<1>12. CASE Connect
  <2>1. versions' = versions /\ tx' = tx /\ requests' = requests
    BY <1>12 DEF Connect, cutting
  <2>2. \A x \in Cutters : GoesOn(x)
    BY <2>1, StaysOn
  <2>. QED  BY <2>1, <2>2, Unchanging, IdsGoOn
<1>13. ASSUME NEW q \in Apis \cup Pushers,
              \/ TakeJob(q) \/ Skip(q) \/ StartPush(q) \/ Land(q) \/ Mark(q)
              \/ PushRaises(q) \/ PusherLost(q)
       PROVE  Ids'
  <2>1. tx' = tx /\ requests' = requests
    BY <1>13 DEF TakeJob, Skip, StartPush, Land, Mark, PushRaises, PusherLost, cutting
  <2>2. Same
    <3>1. CASE Mark(q)
      BY <3>1, MarkDoes
    <3>2. CASE ~Mark(q)
      BY <1>13, <3>2, Unchanging
         DEF TakeJob, Skip, StartPush, Land, PushRaises, PusherLost, cutting
    <3>. QED  BY <3>1, <3>2
  <2>3. \A x \in Cutters : GoesOn(x)
    BY <2>1, StaysOn
  <2>. QED  BY <2>1, <2>2, <2>3, IdsGoOn
<1>. QED
  BY <1>1, <1>2, <1>3, <1>4, <1>5, <1>6, <1>7, <1>8, <1>9, <1>10, <1>11, <1>12, <1>13, NextActions

-----------------------------------------------------------------------------
(* What each step of a push does to its record.                            *)

Sending == {"start", "land", "mark"}
Processes == Apis \cup Pushers

\* A process that pushes has something to push; what it lands is committed, what it
\* marks is on the branch; a slot pushes one version.
SendOK(q) ==
  /\ push[q].pc \in Sending <=> push[q].rest # <<>>
  /\ push[q].pc \in {"land", "mark"} => push[q].id = push[q].rest[1] /\ Committed(push[q].id)
  /\ push[q].pc = "mark" => \E k \in 1..Len(branch.commits) : branch.commits[k].id = push[q].id
  /\ push[q].pc \in {"deploy", "deployed"} => push[q].parent \in Numbers
  /\ q \in Pushers => push[q].pc \in Sending \cup {"idle"} /\ Len(push[q].rest) <= 1

Sends == \A q \in Processes : SendOK(q)

OtherPushes(q) ==
  push' \in [Processes -> Pushes] /\ \A r \in Processes \ {q} : push'[r] = push[r]

LEMMA PushTyped ==
  ASSUME TypeOK, NEW q \in Processes
  PROVE  /\ push \in [Processes -> Pushes] /\ push[q] \in Pushes
         /\ push[q].rest \in Seq(Cuts) /\ Len(push[q].rest) \in Nat
         /\ push[q].parent \in Nat /\ push[q].tries \in 0..MaxRetries
         /\ Range(push[q].rest) \subseteq Cuts
         /\ push[q].rest # <<>> => push[q].rest[1] \in Cuts /\ push[q].rest[1] \in Range(push[q].rest)
<1>1. push \in [Processes -> Pushes]
  BY DEF TypeOK, Processes
<1>2. push[q] \in Pushes
  BY <1>1
<1>. DEFINE rest == push[q].rest
<1>3. rest \in Seq(Cuts) /\ push[q].parent \in Nat /\ push[q].tries \in 0..MaxRetries
  BY <1>2 DEF Pushes
<1>. HIDE DEF rest
<1>4. Len(rest) \in Nat /\ DOMAIN rest = 1..Len(rest) /\ \A k \in 1..Len(rest) : rest[k] \in Cuts
  BY <1>3
<1>5. Range(rest) \subseteq Cuts
  BY <1>4 DEF Range
<1>6. rest # <<>> => 1 \in 1..Len(rest)
  BY <1>3, <1>4, EmptySeq
<1>7. rest # <<>> => rest[1] \in Cuts /\ rest[1] \in Range(rest)
  BY <1>4, <1>6 DEF Range
<1>. QED  BY <1>1, <1>2, <1>3, <1>4, <1>5, <1>7 DEF rest

LEMMA NoPushTyped ==
  ASSUME VersionsAssumption
  PROVE  NoPush \in Pushes /\ NoPush.pc = "idle" /\ NoPush.rest = <<>>
<1>1. 0 \in 0..MaxRetries /\ <<>> \in Seq(Cuts)
  BY DEF VersionsAssumption
<1>. QED  BY <1>1 DEF NoPush, Pushes

LEMMA SetDoes ==
  ASSUME TypeOK, NEW q \in Processes, NEW row \in Pushes, push' = [push EXCEPT ![q] = row]
  PROVE  OtherPushes(q) /\ push'[q] = row
<1>1. push \in [Processes -> Pushes]
  BY DEF TypeOK, Processes
<1>. QED  BY <1>1 DEF OtherPushes

LEMMA ResetDoes ==
  ASSUME TypeOK, VersionsAssumption, NEW q \in Processes, push' = [push EXCEPT ![q] = NoPush]
  PROVE  OtherPushes(q) /\ push'[q].pc = "idle" /\ push'[q].rest = <<>>
  BY SetDoes, NoPushTyped

PushPcs == {"idle", "repo", "list", "start", "land", "mark", "deploy", "deployed"}

LEMMA PcDoes ==
  ASSUME TypeOK, NEW q \in Processes, NEW pc \in PushPcs, push' = [push EXCEPT ![q].pc = pc]
  PROVE  /\ OtherPushes(q) /\ push'[q].pc = pc /\ push'[q].id = push[q].id
         /\ push'[q].parent = push[q].parent /\ push'[q].rest = push[q].rest
<1>. DEFINE row == [push[q] EXCEPT !.pc = pc]
<1>1. push[q] \in Pushes
  BY PushTyped
<1>2. /\ row \in Pushes /\ row.pc = pc /\ row.id = push[q].id
      /\ row.parent = push[q].parent /\ row.rest = push[q].rest
  BY <1>1 DEF Pushes, PushPcs
<1>3. push' = [push EXCEPT ![q] = row]
  OBVIOUS
<1>. HIDE DEF row
<1>. QED  BY <1>2, <1>3, SetDoes

\* What follows a push of a list is the push of the rest of the list.
GoesFurther(q) ==
  /\ push'[q].pc = "start" /\ push'[q].rest \in Seq(Cuts)
  /\ Len(push'[q].rest) = Len(push[q].rest) - 1 /\ Len(push[q].rest) > 1
  /\ \A k \in 1..Len(push'[q].rest) : push'[q].rest[k] = push[q].rest[k + 1]

LEMMA FollowingDoes ==
  ASSUME TypeOK, VersionsAssumption, NEW q \in Processes, push[q].rest # <<>>,
         push' = [push EXCEPT ![q] = Following(q)]
  PROVE  /\ OtherPushes(q)
         /\ \/ push'[q].pc = "idle" /\ push'[q].rest = <<>> /\ Len(push[q].rest) = 1
            \/ GoesFurther(q)
<1>1. Len(push[q].rest) \in Nat /\ push[q].rest \in Seq(Cuts) /\ push[q] \in Pushes
  BY PushTyped
<1>2. Len(push[q].rest) # 0
  BY <1>1, EmptySeq
<1>3. CASE Len(push[q].rest) > 1
  <2>. DEFINE rest == Tail(push[q].rest)
              row == [push[q] EXCEPT !.pc = "start", !.rest = rest]
  <2>1. /\ rest \in Seq(Cuts) /\ Len(rest) = Len(push[q].rest) - 1
        /\ \A k \in 1..Len(rest) : rest[k] = push[q].rest[k + 1]
    BY <1>1, <1>2
  <2>2. Following(q) = row
    BY <1>3 DEF Following
  <2>. HIDE DEF rest
  <2>3. row \in Pushes /\ row.pc = "start" /\ row.rest = rest
    BY <1>1, <2>1 DEF Pushes
  <2>. HIDE DEF row
  <2>4. OtherPushes(q) /\ push'[q] = row
    BY <2>2, <2>3, SetDoes
  <2>. QED  BY <1>3, <2>1, <2>3, <2>4 DEF GoesFurther
<1>4. CASE ~(Len(push[q].rest) > 1)
  <2>1. Following(q) = NoPush
    BY <1>4 DEF Following
  <2>2. \A n \in Nat : n # 0 /\ ~(n > 1) => n = 1
    OBVIOUS
  <2>3. Len(push[q].rest) = 1
    BY <1>1, <1>2, <1>4, <2>2
  <2>. QED  BY <2>1, <2>3, ResetDoes
<1>. QED  BY <1>3, <1>4

\* The record of a backfill that begins.
LEMMA BackfillDoes ==
  ASSUME TypeOK, VersionsAssumption, NEW a \in Apis, Backfill(a)
  PROVE  /\ OtherPushes(a)
         /\ \/ push'[a].pc = "idle" /\ push'[a].rest = <<>> /\ Unpushed = <<>>
            \/ /\ push'[a].pc = "start" /\ push'[a].rest # <<>> /\ push'[a].rest \in Seq(Cuts)
               /\ Len(push'[a].rest) = Len(Unpushed)
               /\ \A k \in 1..Len(Unpushed) :
                    Unpushed[k] \in Numbers /\ push'[a].rest[k] = versions[Unpushed[k]].id
<1>0. a \in Processes
  BY DEF Processes
<1>1. CASE Unpushed = <<>>
  <2>1. push' = [push EXCEPT ![a] = NoPush]
    BY <1>1 DEF Backfill
  <2>. QED  BY <1>0, <1>1, <2>1, ResetDoes
<1>2. CASE Unpushed # <<>>
  <2>. DEFINE rest == [k \in 1..Len(Unpushed) |-> versions[Unpushed[k]].id]
              row == [NoPush EXCEPT !.pc = "start", !.rest = rest]
  <2>1. Unpushed \in Seq(Nat) /\ \A k \in 1..Len(Unpushed) : Unpushed[k] \in Numbers
    BY UnpushedRises DEF Rises, Numbers
  <2>2. Len(Unpushed) \in Nat /\ Len(Unpushed) # 0
    BY <1>2, <2>1, EmptySeq
  <2>3. rest \in [1..Len(Unpushed) -> Cuts]
    BY <2>1, RowsTyped
  <2>4. rest \in Seq(Cuts)
    BY <2>2, <2>3, SeqDef
  <2>5. Len(rest) = Len(Unpushed)
    <3>1. DOMAIN rest = 1..Len(Unpushed)
      OBVIOUS
    <3>. HIDE DEF rest
    <3>. QED  BY <2>2, <2>4, <3>1, LenProperties
  <2>6. \A k \in 1..Len(Unpushed) : rest[k] = versions[Unpushed[k]].id
    OBVIOUS
  <2>7. push' = [push EXCEPT ![a] = row]
    BY <1>2 DEF Backfill, BackfillOrder
  <2>. HIDE DEF rest
  <2>8. rest # <<>>
    BY <2>2, <2>5
  <2>9. row \in Pushes /\ row.pc = "start" /\ row.rest = rest
    BY <2>4, NoPushTyped DEF NoPush, Pushes
  <2>. HIDE DEF row
  <2>10. OtherPushes(a) /\ push'[a] = row
    BY <1>0, <2>7, <2>9, SetDoes
  <2>. QED  BY <2>1, <2>4, <2>5, <2>6, <2>8, <2>9, <2>10
<1>. QED  BY <1>1, <1>2

LEMMA TakeJobDoes ==
  ASSUME TypeOK, VersionsAssumption, NEW q \in Pushers, TakeJob(q)
  PROVE  /\ OtherPushes(q) /\ push'[q].pc = "start" /\ push[q].pc = "idle"
         /\ push'[q].rest # <<>> /\ Len(push'[q].rest) = 1
         /\ \E j \in jobs : jobs' = jobs \ {j} /\ push'[q].rest[1] = j.id
<1>1. PICK j \in jobs :
         /\ jobs' = jobs \ {j}
         /\ push' = [push EXCEPT ![q] = [NoPush EXCEPT !.pc = "start", !.tries = j.tries,
                                          !.rest = <<j.id>>]]
  BY DEF TakeJob
<1>. DEFINE rest == <<j.id>>
            tries == j.tries
            row == [NoPush EXCEPT !.pc = "start", !.tries = tries, !.rest = rest]
<1>2. j.id \in Cuts /\ tries \in 0..MaxRetries
  BY DEF TypeOK
<1>3. rest \in Seq(Cuts) /\ rest # <<>> /\ Len(rest) = 1 /\ rest[1] = j.id
  BY <1>2
<1>. HIDE DEF rest, tries
<1>4. row \in Pushes /\ row.pc = "start" /\ row.rest = rest
  BY <1>2, <1>3, NoPushTyped DEF NoPush, Pushes
<1>5. push' = [push EXCEPT ![q] = row]
  BY <1>1 DEF rest, tries
<1>6. q \in Processes
  BY DEF Processes
<1>. HIDE DEF row
<1>7. OtherPushes(q) /\ push'[q] = row
  BY <1>4, <1>5, <1>6, SetDoes
<1>8. push[q].pc = "idle"
  BY DEF TakeJob
<1>. QED  BY <1>1, <1>3, <1>4, <1>7, <1>8

LEMMA StartPushDoes ==
  ASSUME TypeOK, Sends, NEW q \in Processes, StartPush(q)
  PROVE  /\ OtherPushes(q) /\ push'[q].pc = "land" /\ push'[q].rest = push[q].rest
         /\ push'[q].id = push[q].rest[1] /\ push'[q].parent = Len(branch.commits)
         /\ push[q].rest # <<>>
<1>. DEFINE id == push[q].rest[1]
            head == Len(branch.commits)
            row == [push[q] EXCEPT !.pc = "land", !.id = id, !.parent = head]
<1>1. push[q] \in Pushes /\ push[q].rest # <<>> /\ id \in Cuts
  BY PushTyped DEF StartPush, Sends, SendOK, Sending
<1>2. head \in Nat
  <2>1. branch.commits \in Seq([id: Cuts, job: BOOLEAN])
    BY DEF TypeOK
  <2>. QED  BY <2>1
<1>3. push' = [push EXCEPT ![q] = row]
  BY DEF StartPush
<1>. HIDE DEF id, head
<1>4. row \in Pushes /\ row.pc = "land" /\ row.rest = push[q].rest /\ row.id = id /\ row.parent = head
  BY <1>1, <1>2 DEF Pushes
<1>. HIDE DEF row
<1>5. OtherPushes(q) /\ push'[q] = row
  BY <1>3, <1>4, SetDoes
<1>. QED  BY <1>1, <1>4, <1>5 DEF id, head

LEMMA DeployDoes ==
  ASSUME TypeOK, VersionsAssumption, NEW a \in Apis, Deploy(a)
  PROVE  /\ OtherPushes(a) /\ push'[a].pc = "deploy" /\ push'[a].rest = <<>>
         /\ push'[a].parent = Len(versions) /\ Len(versions) \in Numbers
<1>. DEFINE n == Len(versions)
            row == [NoPush EXCEPT !.pc = "deploy", !.parent = n]
<1>1. n \in Nat /\ n \in Numbers
  BY RowsTyped, EmptySeq DEF Deploy, Numbers
<1>2. push' = [push EXCEPT ![a] = row]
  BY DEF Deploy
<1>. HIDE DEF n
<1>3. row \in Pushes /\ row.pc = "deploy" /\ row.rest = <<>> /\ row.parent = n
  BY <1>1, NoPushTyped DEF NoPush, Pushes
<1>. HIDE DEF row
<1>4. a \in Processes
  BY DEF Processes
<1>5. OtherPushes(a) /\ push'[a] = row
  BY <1>2, <1>3, <1>4, SetDoes
<1>. QED  BY <1>1, <1>3, <1>5 DEF n

CommitRows == [id: Cuts, job: BOOLEAN]

LEMMA LandDoes ==
  ASSUME TypeOK, Sends, NEW q \in Processes, Land(q)
  PROVE  /\ OtherPushes(q) /\ push[q].pc = "land" /\ push'[q].pc = "mark"
         /\ push'[q].rest = push[q].rest /\ push'[q].id = push[q].id /\ push[q].rest # <<>>
         /\ push[q].id = push[q].rest[1] /\ Committed(push[q].id) /\ push[q].id \in Cuts
         /\ branch' \in [commits: Seq(CommitRows), tree: Manifests]
         /\ Len(branch'.commits) = Len(branch.commits) + 1 /\ Len(branch.commits) \in Nat
         /\ \A k \in 1..Len(branch.commits) : branch'.commits[k] = branch.commits[k]
         /\ branch'.commits[Len(branch.commits) + 1] = [id |-> push[q].id, job |-> q \in Pushers]
         /\ branch'.tree = Over(branch.tree, versions[No(push[q].id)].manifest)
<1>1. /\ push[q].pc = "land" /\ push[q].rest # <<>>
      /\ push[q].id = push[q].rest[1] /\ Committed(push[q].id)
  BY DEF Land, Sends, SendOK, Sending
<1>2. push[q].id \in Cuts
  BY <1>1, PushTyped
<1>3. OtherPushes(q) /\ push'[q].pc = "mark" /\ push'[q].rest = push[q].rest /\ push'[q].id = push[q].id
  <2>1. push' = [push EXCEPT ![q].pc = "mark"]
    BY DEF Land, Upload
  <2>. QED  BY <2>1, PcDoes DEF PushPcs
<1>. DEFINE commits == branch.commits
            entry == [id |-> push[q].id, job |-> q \in Pushers]
            tree == Over(branch.tree, versions[No(push[q].id)].manifest)
<1>4. branch' = [commits |-> Append(commits, entry), tree |-> tree]
  BY DEF Land, Upload
<1>5. commits \in Seq(CommitRows) /\ branch.tree \in Manifests
  BY DEF TypeOK, CommitRows
<1>6. entry \in CommitRows
  BY <1>2 DEF CommitRows
<1>7. tree \in Manifests
  <2>1. No(push[q].id) \in Numbers
    BY <1>1 DEF Committed, No, Numbers
  <2>2. versions[No(push[q].id)].manifest \in Manifests
    BY <2>1, RowsTyped
  <2>. QED  BY <1>5, <2>2 DEF Over, Manifests
<1>. HIDE DEF commits, entry, tree
<1>8. /\ Append(commits, entry) \in Seq(CommitRows)
      /\ Len(Append(commits, entry)) = Len(commits) + 1 /\ Len(commits) \in Nat
      /\ \A k \in 1..Len(commits) : Append(commits, entry)[k] = commits[k]
      /\ Append(commits, entry)[Len(commits) + 1] = entry
  BY <1>5, <1>6
<1>9. /\ branch' \in [commits: Seq(CommitRows), tree: Manifests]
      /\ branch'.commits = Append(commits, entry) /\ branch'.tree = tree
  BY <1>4, <1>7, <1>8
<1>. QED  BY <1>1, <1>2, <1>3, <1>8, <1>9 DEF commits, entry, tree

-----------------------------------------------------------------------------
(* The steps keep Sends, and what is pushed stays in the history.          *)

LEMMA NoIs ==
  ASSUME NEW id, Committed(id)
  PROVE  No(id) \in Numbers /\ versions[No(id)].id = id
  BY DEF Committed, No, Numbers

\* What is committed stays, in the project and on the branch.
Grows ==
  /\ Numbers \subseteq Numbers'
  /\ \A n \in Numbers : versions'[n].id = versions[n].id
  /\ 1..Len(branch.commits) \subseteq 1..Len(branch'.commits)
  /\ \A k \in 1..Len(branch.commits) : branch'.commits[k] = branch.commits[k]

LEMMA GrowsAlways == ASSUME TypeOK, VersionsAssumption, Ids, Sends, Next PROVE Grows
<1>1. ASSUME NEW x \in Cutters, Commit(x) PROVE Grows
  <2>1. Adds(x)
    BY <1>1, CommitAdds, KnowsIds DEF Commit, At, Open, Transacting, Writing
  <2>2. branch' = branch
    BY <1>1 DEF Commit, github
  <2>. QED  BY <2>1, <2>2 DEF Adds, Grows
<1>2. ASSUME NEW q \in Processes, Mark(q) PROVE Grows
  <2>1. Same
    BY <1>2, MarkDoes
  <2>2. branch' = branch
    BY <1>2 DEF Mark
  <2>. QED  BY <2>1, <2>2 DEF Same, Grows
<1>3. ASSUME NEW q \in Processes, Land(q) PROVE Grows
  <2>1. versions' = versions
    BY <1>3 DEF Land, cutting
  <2>2. /\ Len(branch'.commits) = Len(branch.commits) + 1 /\ Len(branch.commits) \in Nat
        /\ \A k \in 1..Len(branch.commits) : branch'.commits[k] = branch.commits[k]
    BY <1>3, LandDoes
  <2>3. 1..Len(branch.commits) \subseteq 1..Len(branch'.commits)
    BY <2>2
  <2>. QED  BY <2>1, <2>2, <2>3 DEF Grows, Numbers
<1>4. ASSUME versions' = versions, branch' = branch PROVE Grows
  BY <1>4 DEF Grows, Numbers
<1>5. ASSUME NEW t \in Tasks,
             \/ Begin(t) \/ Fail(t) \/ Collect(t) \/ ReadFiles(t) \/ FlushFiles(t)
             \/ ReadManifest(t) \/ Enqueue(t) \/ \E p \in Paths : Write(t, p)
      PROVE  Grows
  BY <1>4, <1>5
     DEF Begin, Fail, Collect, ReadFiles, FlushFiles, ReadManifest, Enqueue, Write, github, cutting
<1>6. ASSUME NEW x \in Cutters, Number(x) \/ InsertVersion(x) \/ Abort(x) PROVE Grows
  BY <1>4, <1>6 DEF Number, InsertVersion, Abort, github
<1>7. ASSUME NEW a \in Apis, NEW n \in Numbers, RestoreDelete(a, n) PROVE Grows
  BY <1>4, <1>7 DEF RestoreDelete, github
<1>8. ASSUME NEW a \in Apis,
             \/ RestoreInsert(a) \/ RestoreAnnounce(a)
             \/ RequestRepo(a) \/ TokenFails(a) \/ CreateRepo(a) \/ Backfill(a)
             \/ Deploy(a) \/ Ship(a) \/ ShipFails(a) \/ Deployed(a)
      PROVE  Grows
  BY <1>4, <1>8 DEF RestoreInsert, RestoreAnnounce, RequestRepo, TokenFails, CreateRepo, Backfill,
                    Deploy, Ship, ShipFails, Deployed, github, cutting
<1>9. CASE Connect
  BY <1>4, <1>9 DEF Connect, cutting
<1>10. ASSUME NEW q \in Processes,
              TakeJob(q) \/ Skip(q) \/ StartPush(q) \/ PushRaises(q) \/ PusherLost(q)
       PROVE  Grows
  BY <1>4, <1>10 DEF TakeJob, Skip, StartPush, PushRaises, PusherLost, cutting
<1>. QED
  BY <1>1, <1>2, <1>3, <1>5, <1>6, <1>7, <1>8, <1>9, <1>10, NextActions DEF Processes

LEMMA SendStays ==
  ASSUME Grows, NEW q \in Processes, SendOK(q), push'[q] = push[q]
  PROVE  SendOK(q)'
<1>1. \A id : Committed(id) => Committed(id)'
  BY DEF Grows, Committed, Numbers
<1>2. \A id : (\E k \in 1..Len(branch.commits) : branch.commits[k].id = id)
              => \E k \in 1..Len(branch'.commits) : branch'.commits[k].id = id
  BY DEF Grows
<1>3. push[q].parent \in Numbers => push[q].parent \in Numbers'
  BY DEF Grows
<1>. QED  BY <1>1, <1>2, <1>3 DEF SendOK

LEMMA OneSends ==
  ASSUME Grows, Sends, NEW q \in Processes, OtherPushes(q), SendOK(q)'
  PROVE  Sends'
  BY SendStays DEF Sends, OtherPushes, Processes

LEMMA SendsStep ==
  ASSUME TypeOK, VersionsAssumption, Ids, Sends, Next
  PROVE  Sends'
<1>0. /\ Grows
      /\ \A a \in Apis : a \in Processes /\ a \notin Pushers
      /\ \A q \in Pushers : q \in Processes
      /\ \A q \in Processes : q \in Apis \/ q \in Pushers
  BY GrowsAlways DEF Processes, VersionsAssumption
<1>1. ASSUME push' = push PROVE Sends'
  BY <1>0, <1>1, SendStays DEF Sends, Processes
<1>2. ASSUME NEW q \in Processes, OtherPushes(q), push'[q].pc = "idle", push'[q].rest = <<>>
      PROVE  Sends'
  <2>1. Len(<<>>) = 0
    OBVIOUS
  <2>2. SendOK(q)'
    BY <1>2, <2>1 DEF SendOK, Sending
  <2>. QED  BY <1>0, <1>2, <2>2, OneSends
<1>3. ASSUME NEW t \in Tasks,
             \/ Begin(t) \/ Fail(t) \/ Collect(t) \/ ReadFiles(t) \/ FlushFiles(t)
             \/ ReadManifest(t) \/ Enqueue(t) \/ \E p \in Paths : Write(t, p)
      PROVE  Sends'
  BY <1>1, <1>3
     DEF Begin, Fail, Collect, ReadFiles, FlushFiles, ReadManifest, Enqueue, Write, github
<1>4. ASSUME NEW x \in Cutters, Number(x) \/ InsertVersion(x) \/ Commit(x) \/ Abort(x) PROVE Sends'
  BY <1>1, <1>4 DEF Number, InsertVersion, Commit, Abort, github
<1>5. ASSUME NEW a \in Apis, \/ RestoreInsert(a) \/ RestoreAnnounce(a)
                             \/ \E n \in Numbers : RestoreDelete(a, n)
      PROVE  Sends'
  BY <1>1, <1>5 DEF RestoreInsert, RestoreAnnounce, RestoreDelete, github
<1>6. ASSUME NEW a \in Apis, RequestRepo(a) PROVE Sends'
  <2>1. push' = [push EXCEPT ![a].pc = "repo"] /\ push[a].pc = "idle"
    BY <1>6 DEF RequestRepo, Free
  <2>2. OtherPushes(a) /\ push'[a].pc = "repo" /\ push'[a].rest = push[a].rest
    BY <1>0, <2>1, PcDoes DEF PushPcs
  <2>3. SendOK(a)'
    BY <1>0, <2>1, <2>2 DEF Sends, SendOK, Sending
  <2>. QED  BY <1>0, <2>2, <2>3, OneSends
<1>7. ASSUME NEW a \in Apis, TokenFails(a) \/ ShipFails(a) \/ Deployed(a) PROVE Sends'
  <2>1. push' = [push EXCEPT ![a] = NoPush]
    BY <1>7 DEF TokenFails, ShipFails, Deployed
  <2>. QED  BY <1>0, <1>2, <2>1, ResetDoes
<1>8. ASSUME NEW a \in Apis, CreateRepo(a) PROVE Sends'
  <2>1. push' = [push EXCEPT ![a].pc = "list"] /\ push[a].pc = "repo"
    BY <1>8 DEF CreateRepo
  <2>2. OtherPushes(a) /\ push'[a].pc = "list" /\ push'[a].rest = push[a].rest
    BY <1>0, <2>1, PcDoes DEF PushPcs
  <2>3. SendOK(a)'
    BY <1>0, <2>1, <2>2 DEF Sends, SendOK, Sending
  <2>. QED  BY <1>0, <2>2, <2>3, OneSends
<1>9. ASSUME NEW a \in Apis, Backfill(a) PROVE Sends'
  <2>1. CASE push'[a].pc = "idle"
    BY <1>0, <1>2, <1>9, <2>1, BackfillDoes
  <2>2. CASE push'[a].pc # "idle"
    <3>1. OtherPushes(a) /\ push'[a].pc = "start" /\ push'[a].rest # <<>>
      BY <1>9, <2>2, BackfillDoes
    <3>2. SendOK(a)'
      BY <1>0, <3>1 DEF SendOK, Sending
    <3>. QED  BY <1>0, <3>1, <3>2, OneSends
  <2>. QED  BY <2>1, <2>2
<1>10. ASSUME NEW a \in Apis, Deploy(a) PROVE Sends'
  <2>1. OtherPushes(a) /\ push'[a].pc = "deploy" /\ push'[a].rest = <<>> /\ push'[a].parent \in Numbers'
    BY <1>0, <1>10, DeployDoes DEF Grows
  <2>2. SendOK(a)'
    BY <1>0, <2>1 DEF SendOK, Sending
  <2>. QED  BY <1>0, <2>1, <2>2, OneSends
<1>11. ASSUME NEW a \in Apis, Ship(a) PROVE Sends'
  <2>1. push' = [push EXCEPT ![a].pc = "deployed"] /\ push[a].pc = "deploy"
    BY <1>11 DEF Ship
  <2>2. /\ OtherPushes(a) /\ push'[a].pc = "deployed" /\ push'[a].rest = push[a].rest
        /\ push'[a].parent = push[a].parent
    BY <1>0, <2>1, PcDoes DEF PushPcs
  <2>3. SendOK(a)'
    BY <1>0, <2>1, <2>2 DEF Sends, SendOK, Sending, Grows
  <2>. QED  BY <1>0, <2>2, <2>3, OneSends
<1>12. CASE Connect
  BY <1>1, <1>12 DEF Connect
<1>13. ASSUME NEW q \in Processes, TakeJob(q) PROVE Sends'
  <2>1. q \in Pushers
    BY <1>13 DEF TakeJob
  <2>2. OtherPushes(q) /\ push'[q].pc = "start" /\ push'[q].rest # <<>> /\ Len(push'[q].rest) = 1
    BY <1>13, <2>1, TakeJobDoes
  <2>3. SendOK(q)'
    BY <2>2 DEF SendOK, Sending
  <2>. QED  BY <1>0, <2>2, <2>3, OneSends
<1>14. ASSUME NEW q \in Processes, Skip(q) \/ Mark(q) PROVE Sends'
  <2>1. push[q].rest # <<>> /\ push' = [push EXCEPT ![q] = Following(q)]
    BY <1>14 DEF Skip, Mark, Sends, SendOK, Sending
  <2>2. /\ OtherPushes(q)
        /\ \/ push'[q].pc = "idle" /\ push'[q].rest = <<>>
           \/ GoesFurther(q)
    BY <2>1, FollowingDoes
  <2>3. CASE GoesFurther(q)
    <3>1. Len(push[q].rest) \in Nat /\ Len(push[q].rest) > 1
      BY <2>3, PushTyped DEF GoesFurther
    <3>2. q \notin Pushers
      BY <3>1 DEF Sends, SendOK
    <3>3. push'[q].pc = "start" /\ push'[q].rest # <<>>
      BY <2>3, <3>1 DEF GoesFurther
    <3>4. SendOK(q)'
      BY <3>2, <3>3 DEF SendOK, Sending
    <3>. QED  BY <1>0, <2>2, <3>4, OneSends
  <2>. QED  BY <1>2, <2>2, <2>3
<1>15. ASSUME NEW q \in Processes, StartPush(q) PROVE Sends'
  <2>1. /\ OtherPushes(q) /\ push'[q].pc = "land" /\ push'[q].rest = push[q].rest
        /\ push'[q].id = push[q].rest[1] /\ push[q].rest # <<>>
    BY <1>15, StartPushDoes
  <2>2. Committed(push[q].rest[1])'
    <3>1. Committed(push[q].rest[1]) /\ versions' = versions
      BY <1>15 DEF StartPush, cutting
    <3>. QED  BY <2>1, <3>1 DEF Committed
  <2>3. SendOK(q)'
    BY <2>1, <2>2 DEF Sends, SendOK, Sending
  <2>. QED  BY <1>0, <2>1, <2>3, OneSends
<1>16. ASSUME NEW q \in Processes, Land(q) PROVE Sends'
  <2>1. /\ OtherPushes(q) /\ push'[q].pc = "mark" /\ push'[q].rest = push[q].rest
        /\ push'[q].id = push[q].id /\ push[q].rest # <<>> /\ push[q].id = push[q].rest[1]
        /\ Committed(push[q].id)
    BY <1>16, LandDoes
  <2>2. Committed(push[q].id)'
    BY <1>16, <2>1 DEF Land, Committed, cutting
  <2>3. /\ Len(branch'.commits) = Len(branch.commits) + 1 /\ Len(branch.commits) \in Nat
        /\ branch'.commits[Len(branch.commits) + 1] = [id |-> push[q].id, job |-> q \in Pushers]
    BY <1>16, LandDoes
  <2>4. \E k \in 1..Len(branch'.commits) : branch'.commits[k].id = push[q].id
    BY <2>3
  <2>5. SendOK(q)'
    BY <2>1, <2>2, <2>4 DEF Sends, SendOK, Sending
  <2>. QED  BY <1>0, <2>1, <2>5, OneSends
<1>17. ASSUME NEW q \in Processes, PushRaises(q) \/ PusherLost(q) PROVE Sends'
  <2>1. push' = [push EXCEPT ![q] = NoPush]
    BY <1>17 DEF PushRaises, PusherLost
  <2>. QED  BY <1>2, <2>1, ResetDoes
<1>. QED
  BY <1>3, <1>4, <1>5, <1>6, <1>7, <1>8, <1>9, <1>10, <1>11, <1>12, <1>13, <1>14, <1>15, <1>16,
     <1>17, NextActions DEF Processes

-----------------------------------------------------------------------------
(* Which steps change what.                                                *)

LEMMA Changes ==
  ASSUME Next
  PROVE  /\ disk' = disk \/ \E t \in Tasks, p \in Paths : Write(t, p)
         /\ \/ <<recent, files, behind>>' = <<recent, files, behind>>
            \/ \E t \in Tasks, p \in Paths : Write(t, p)
            \/ \E x \in Cutters : Commit(x)
         /\ \/ versions' = versions
            \/ \E x \in Cutters : Commit(x)
            \/ \E q \in Processes : Mark(q)
         /\ linked' = linked \/ Connect \/ \E a \in Apis : CreateRepo(a)
         /\ <<branch, late>>' = <<branch, late>> \/ \E q \in Processes : Land(q)
         /\ site' = site \/ \E a \in Apis : Ship(a)
         /\ deployed' = deployed \/ \E a \in Apis : Deployed(a)
         /\ \/ overlapped' = overlapped
            \/ \E t \in Tasks : ReadFiles(t)
            \/ \E a \in Apis : Deploy(a) \/ \E n \in Numbers : RestoreDelete(a, n)
         /\ \/ requests' = requests
            \/ requests < MaxRequests /\ requests' = requests + 1
         /\ faults' = faults \/ Fault
         /\ \/ failed' = failed
            \/ \E t \in Tasks : Enqueue(t)
            \/ \E a \in Apis : RestoreAnnounce(a)
            \/ \E q \in Processes : PushRaises(q)
         /\ \/ dropped' = dropped
            \/ \E x \in Cutters : Commit(x)
            \/ \E q \in Processes : Skip(q)
         /\ \/ jobs' = jobs
            \/ \E t \in Tasks : Enqueue(t)
            \/ \E a \in Apis : RestoreAnnounce(a)
            \/ \E q \in Processes : TakeJob(q) \/ PushRaises(q) \/ PusherLost(q)
<1>. USE DEF workspace, cutting, github, hosting, history, Processes
<1>1. CASE \E t \in Tasks : \/ Begin(t) \/ Fail(t) \/ Collect(t) \/ ReadFiles(t) \/ FlushFiles(t)
                            \/ ReadManifest(t) \/ Enqueue(t) \/ \E p \in Paths : Write(t, p)
  BY <1>1 DEF Begin, Fail, Collect, ReadFiles, FlushFiles, ReadManifest, Enqueue, Write
<1>2. CASE \E x \in Cutters : Number(x) \/ InsertVersion(x) \/ Commit(x) \/ Abort(x)
  BY <1>2 DEF Number, InsertVersion, Commit, Abort
<1>3. CASE \E a \in Apis : \/ RestoreInsert(a) \/ RestoreAnnounce(a)
                           \/ \E n \in Numbers : RestoreDelete(a, n)
  BY <1>3 DEF RestoreInsert, RestoreAnnounce, RestoreDelete
<1>4. CASE \E a \in Apis : \/ RequestRepo(a) \/ TokenFails(a) \/ CreateRepo(a) \/ Backfill(a)
                           \/ Deploy(a) \/ Ship(a) \/ ShipFails(a) \/ Deployed(a)
  BY <1>4 DEF RequestRepo, TokenFails, CreateRepo, Backfill, Deploy, Ship, ShipFails, Deployed
<1>5. CASE Connect
  BY <1>5 DEF Connect
<1>6. CASE \E q \in Processes : \/ TakeJob(q) \/ Skip(q) \/ StartPush(q) \/ Land(q) \/ Mark(q)
                                \/ PushRaises(q) \/ PusherLost(q)
  BY <1>6 DEF TakeJob, Skip, StartPush, Land, Upload, Mark, PushRaises, PusherLost
<1>. QED  BY <1>1, <1>2, <1>3, <1>4, <1>5, <1>6, NextActions

-----------------------------------------------------------------------------
(* The steps keep the types.                                               *)

LEMMA VersionsGrow ==
  ASSUME TypeOK, VersionsAssumption, Ids, Next
  PROVE  Same \/ \E x \in Cutters : Commit(x) /\ Adds(x)
<1>1. ASSUME NEW x \in Cutters, Commit(x) PROVE Adds(x)
  BY <1>1, CommitAdds, KnowsIds DEF Commit, At, Open, Transacting, Writing
<1>. QED  BY <1>1, Changes, MarkDoes, Unchanging DEF Processes

LEMMA TxTyped ==
  ASSUME TypeOK, VersionsAssumption, Ids, Next
  PROVE  tx' \in [Cutters -> Txs]
<1>0. /\ tx \in [Cutters -> Txs]
      /\ \A t \in Tasks : t \in Cutters
      /\ \A a \in Apis : a \in Cutters /\ a \notin Tasks
  BY DEF Cutters, VersionsAssumption, TypeOK
<1>1. ASSUME NEW t \in Tasks, Begin(t) PROVE tx' \in [Cutters -> Txs]
  BY <1>0, <1>1, GotoDoes DEF Begin, Goto, Pcs, Others
<1>2. ASSUME NEW t \in Tasks, Fail(t) PROVE tx' \in [Cutters -> Txs]
  BY <1>0, <1>2, RollbackDoes DEF Fail, Others
<1>3. ASSUME NEW t \in Tasks,
             \/ Collect(t) \/ ReadFiles(t) \/ FlushFiles(t) \/ ReadManifest(t) \/ Enqueue(t)
             \/ \E p \in Paths : Write(t, p)
      PROVE  tx' \in [Cutters -> Txs]
  BY <1>3, CollectDoes, ReadFilesDoes, FlushFilesDoes, ReadManifestDoes, EnqueueDoes, WriteDoes
     DEF Others
<1>4. ASSUME NEW x \in Cutters, Number(x) \/ InsertVersion(x) \/ Commit(x) \/ Abort(x)
      PROVE  tx' \in [Cutters -> Txs]
  <2>1. Commit(x) => tx[x].id \in Cuts
    BY KnowsIds DEF Commit, At, Open, Transacting, Writing
  <2>2. Abort(x) => Rollback(x)
    BY DEF Abort
  <2>. QED  BY <1>4, <2>1, <2>2, NumberDoes, InsertVersionDoes, CommitDoes, RollbackDoes DEF Others
<1>5. ASSUME NEW a \in Apis, \/ RestoreInsert(a) \/ RestoreAnnounce(a)
                             \/ \E n \in Numbers : RestoreDelete(a, n)
      PROVE  tx' \in [Cutters -> Txs]
  <2>1. RestoreAnnounce(a) => Rollback(a)
    BY DEF RestoreAnnounce
  <2>. QED  BY <1>0, <1>5, <2>1, RestoreInsertDoes, RollbackDoes, RestoreDeleteDoes DEF Others
<1>6. ASSUME NEW a \in Apis,
             \/ RequestRepo(a) \/ TokenFails(a) \/ CreateRepo(a) \/ Backfill(a)
             \/ Deploy(a) \/ Ship(a) \/ ShipFails(a) \/ Deployed(a)
      PROVE  tx' \in [Cutters -> Txs]
  BY <1>0, <1>6 DEF RequestRepo, TokenFails, CreateRepo, Backfill, Deploy, Ship, ShipFails,
                    Deployed, cutting
<1>7. CASE Connect
  BY <1>0, <1>7 DEF Connect, cutting
<1>8. ASSUME NEW q \in Processes, \/ TakeJob(q) \/ Skip(q) \/ StartPush(q) \/ Land(q) \/ Mark(q)
                                  \/ PushRaises(q) \/ PusherLost(q)
      PROVE  tx' \in [Cutters -> Txs]
  BY <1>0, <1>8 DEF TakeJob, Skip, StartPush, Land, Mark, PushRaises, PusherLost, cutting
<1>. QED  BY <1>1, <1>2, <1>3, <1>4, <1>5, <1>6, <1>7, <1>8, NextActions DEF Processes

LEMMA PushesTyped ==
  ASSUME TypeOK, VersionsAssumption, Sends, Next
  PROVE  push' \in [Processes -> Pushes]
<1>0. /\ push \in [Processes -> Pushes]
      /\ \A a \in Apis : a \in Processes
      /\ \A q \in Pushers : q \in Processes
  BY DEF Processes, TypeOK
<1>1. ASSUME NEW t \in Tasks,
             \/ Begin(t) \/ Fail(t) \/ Collect(t) \/ ReadFiles(t) \/ FlushFiles(t)
             \/ ReadManifest(t) \/ Enqueue(t) \/ \E p \in Paths : Write(t, p)
      PROVE  push' = push
  BY <1>1 DEF Begin, Fail, Collect, ReadFiles, FlushFiles, ReadManifest, Enqueue, Write, github
<1>2. ASSUME NEW x \in Cutters, Number(x) \/ InsertVersion(x) \/ Commit(x) \/ Abort(x)
      PROVE  push' = push
  BY <1>2 DEF Number, InsertVersion, Commit, Abort, github
<1>3. ASSUME NEW a \in Apis, \/ RestoreInsert(a) \/ RestoreAnnounce(a)
                             \/ \E n \in Numbers : RestoreDelete(a, n)
      PROVE  push' = push
  BY <1>3 DEF RestoreInsert, RestoreAnnounce, RestoreDelete, github
<1>4. ASSUME NEW a \in Apis, RequestRepo(a) \/ CreateRepo(a) \/ Ship(a)
      PROVE  push' \in [Processes -> Pushes]
  <2>1. PICK pc \in PushPcs : push' = [push EXCEPT ![a].pc = pc]
    BY <1>4 DEF RequestRepo, CreateRepo, Ship, PushPcs
  <2>. QED  BY <1>0, <2>1, PcDoes DEF OtherPushes
<1>5. ASSUME NEW q \in Processes,
             TokenFails(q) \/ ShipFails(q) \/ Deployed(q) \/ PushRaises(q) \/ PusherLost(q)
      PROVE  push' \in [Processes -> Pushes]
  <2>1. push' = [push EXCEPT ![q] = NoPush]
    BY <1>5 DEF TokenFails, ShipFails, Deployed, PushRaises, PusherLost
  <2>. QED  BY <2>1, ResetDoes DEF OtherPushes
<1>6. ASSUME NEW a \in Apis, Backfill(a) \/ Deploy(a) PROVE push' \in [Processes -> Pushes]
  BY <1>6, BackfillDoes, DeployDoes DEF OtherPushes
<1>7. CASE Connect
  BY <1>0, <1>7 DEF Connect
<1>8. ASSUME NEW q \in Processes, TakeJob(q) PROVE push' \in [Processes -> Pushes]
  BY <1>8, TakeJobDoes DEF TakeJob, OtherPushes
<1>9. ASSUME NEW q \in Processes, Skip(q) \/ Mark(q) PROVE push' \in [Processes -> Pushes]
  <2>1. push[q].rest # <<>> /\ push' = [push EXCEPT ![q] = Following(q)]
    BY <1>9 DEF Skip, Mark, Sends, SendOK, Sending
  <2>. QED  BY <2>1, FollowingDoes DEF OtherPushes
<1>10. ASSUME NEW q \in Processes, StartPush(q) \/ Land(q) PROVE push' \in [Processes -> Pushes]
  BY <1>10, StartPushDoes, LandDoes DEF OtherPushes
<1>. QED
  BY <1>0, <1>1, <1>2, <1>3, <1>4, <1>5, <1>6, <1>7, <1>8, <1>9, <1>10, NextActions DEF Processes

\* One open transaction holds the next number.
Holds ==
  \A c, d \in Cutters :
    /\ tx[c].pc \in Inserted => tx[c].no = Len(versions) + 1
    /\ c # d /\ tx[c].pc \in Inserted => tx[d].pc \notin Inserted

LEMMA HoldsOn ==
  ASSUME Holds, NEW x \in Cutters, Others(x), Len(versions') = Len(versions),
         tx'[x].pc \in Inserted =>
           /\ tx'[x].no = Len(versions) + 1
           /\ tx[x].pc \in Inserted \/ \A y \in Cutters \ {x} : tx[y].pc \notin Inserted
  PROVE  Holds'
<1>1. \A c \in Cutters : tx'[c].pc \in Inserted => tx'[c].no = Len(versions') + 1
  BY DEF Holds, Others
<1>2. \A c, d \in Cutters : c # d /\ tx'[c].pc \in Inserted => tx'[d].pc \notin Inserted
  BY DEF Holds, Others
<1>. QED  BY <1>1, <1>2 DEF Holds

LEMMA HoldsStep ==
  ASSUME TypeOK, VersionsAssumption, Ids, Next
  PROVE  Holds'
<1>0. /\ Holds
      /\ \A t \in Tasks : t \in Cutters
      /\ \A a \in Apis : a \in Cutters /\ a \notin Tasks
  BY DEF Cutters, VersionsAssumption, TypeOK, Holds
<1>. USE DEF Inserted
<1>1. ASSUME NEW t \in Tasks,
             \/ Begin(t) \/ Fail(t) \/ Collect(t) \/ ReadFiles(t) \/ FlushFiles(t)
             \/ ReadManifest(t)
      PROVE  Holds'
  <2>1. versions' = versions
    BY <1>1 DEF Begin, Fail, Collect, ReadFiles, FlushFiles, ReadManifest, cutting
  <2>2. Begin(t) => tx' = [tx EXCEPT ![t].pc = "running"] /\ "running" \in Pcs
    BY DEF Begin, Goto, Pcs
  <2>3. Fail(t) => Rollback(t)
    BY DEF Fail
  <2>4. Others(t) /\ tx'[t].pc \notin Inserted
    <3>1. CASE Begin(t)
      BY <1>0, <2>2, <3>1, GotoDoes
    <3>2. CASE Fail(t)
      BY <1>0, <2>3, <3>2, RollbackDoes
    <3>3. CASE Collect(t)
      BY <3>3, CollectDoes DEF Collected
    <3>4. CASE ReadFiles(t) \/ FlushFiles(t) \/ ReadManifest(t)
      BY <3>4, ReadFilesDoes, FlushFilesDoes, ReadManifestDoes
    <3>. QED  BY <1>1, <3>1, <3>2, <3>3, <3>4
  <2>. QED  BY <1>0, <2>1, <2>4, HoldsOn
<1>2. ASSUME NEW t \in Tasks, NEW p \in Paths, Write(t, p) PROVE Holds'
  <2>1. versions' = versions
    BY <1>2 DEF Write
  <2>2. \A x \in Cutters : tx'[x].pc = tx[x].pc /\ tx'[x].no = tx[x].no
    BY <1>2, WriteDoes
  <2>. QED  BY <1>0, <2>1, <2>2 DEF Holds
<1>3. ASSUME NEW t \in Tasks, Enqueue(t) PROVE Holds'
  <2>1. versions' = versions /\ tx[t].pc = "label"
    BY <1>3 DEF Enqueue, At
  <2>2. Others(t) /\ tx'[t].no = tx[t].no
    BY <1>3, EnqueueDoes
  <2>. QED  BY <1>0, <2>1, <2>2, HoldsOn DEF Holds
<1>4. ASSUME NEW x \in Cutters, Number(x) \/ Abort(x) PROVE Holds'
  <2>1. versions' = versions /\ (Abort(x) => Rollback(x))
    BY <1>4 DEF Number, Abort
  <2>2. Others(x) /\ tx'[x].pc \notin Inserted
    BY <1>4, <2>1, NumberDoes, RollbackDoes
  <2>. QED  BY <1>0, <2>1, <2>2, HoldsOn
<1>5. ASSUME NEW x \in Cutters, InsertVersion(x) PROVE Holds'
  <2>1. versions' = versions
    BY <1>5 DEF InsertVersion
  <2>2. /\ Others(x)
        /\ tx'[x].pc \in Inserted =>
             /\ tx'[x].no = Len(versions) + 1
             /\ \A y \in Cutters \ {x} : tx[y].pc \in Inserted => tx[y].no # Len(versions) + 1
    <3>1. /\ Others(x)
          /\ \/ tx'[x].pc = IF x \in Tasks THEN "over" ELSE "idle"
             \/ InsertedAs(x, IF x \in Tasks THEN "label" ELSE "commit")
      BY <1>5, InsertVersionDoes
    <3>. QED  BY <3>1 DEF InsertedAs
  <2>3. \A y \in Cutters : tx[y].pc \in Inserted => tx[y].no = Len(versions) + 1
    BY <1>0 DEF Holds
  <2>. QED  BY <1>0, <2>1, <2>2, <2>3, HoldsOn
<1>6. ASSUME NEW x \in Cutters, Commit(x) PROVE Holds'
  <2>1. tx[x].pc = "commit" /\ tx[x].id \in Cuts
    BY <1>6, KnowsIds DEF Commit, At, Open, Transacting, Writing
  <2>2. Others(x) /\ tx'[x].pc \notin Inserted
    BY <1>6, <2>1, CommitDoes
  <2>3. \A y \in Cutters : tx'[y].pc \notin Inserted
    BY <1>0, <2>1, <2>2 DEF Holds, Others
  <2>. QED  BY <2>3 DEF Holds
<1>7. ASSUME NEW a \in Apis, \/ RestoreInsert(a) \/ RestoreAnnounce(a)
                             \/ \E n \in Numbers : RestoreDelete(a, n)
      PROVE  Holds'
  <2>1. versions' = versions /\ (RestoreAnnounce(a) => Rollback(a))
    BY <1>7 DEF RestoreInsert, RestoreAnnounce, RestoreDelete
  <2>2. Others(a) /\ tx'[a].pc \notin Inserted
    BY <1>0, <1>7, <2>1, RestoreInsertDoes, RollbackDoes, RestoreDeleteDoes
  <2>. QED  BY <1>0, <2>1, <2>2, HoldsOn
<1>8. ASSUME tx' = tx, Len(versions') = Len(versions) PROVE Holds'
  BY <1>0, <1>8 DEF Holds
<1>9. ASSUME NEW a \in Apis,
             \/ RequestRepo(a) \/ TokenFails(a) \/ CreateRepo(a) \/ Backfill(a)
             \/ Deploy(a) \/ Ship(a) \/ ShipFails(a) \/ Deployed(a)
      PROVE  Holds'
  BY <1>8, <1>9 DEF RequestRepo, TokenFails, CreateRepo, Backfill, Deploy, Ship, ShipFails,
                    Deployed, cutting
<1>10. CASE Connect
  BY <1>8, <1>10 DEF Connect, cutting
<1>11. ASSUME NEW q \in Processes, \/ TakeJob(q) \/ Skip(q) \/ StartPush(q) \/ Land(q)
                                   \/ PushRaises(q) \/ PusherLost(q)
       PROVE  Holds'
  BY <1>8, <1>11 DEF TakeJob, Skip, StartPush, Land, PushRaises, PusherLost, cutting
<1>12. ASSUME NEW q \in Processes, Mark(q) PROVE Holds'
  BY <1>8, <1>12, MarkDoes DEF Mark, Same
<1>. QED
  BY <1>1, <1>2, <1>3, <1>4, <1>5, <1>6, <1>7, <1>9, <1>10, <1>11, <1>12, NextActions DEF Processes

\* The recovered paths and what is remembered about versions stay what they are.
LEMMA RestTyped ==
  ASSUME TypeOK, VersionsAssumption, Ids, Sends, Next
  PROVE  /\ disk' \in Manifests /\ files' \in Manifests
         /\ recent' \subseteq Paths /\ behind' \subseteq Paths
         /\ linked' \in {"no", "connected", "repo"}
         /\ branch' \in [commits: Seq(CommitRows), tree: Manifests]
         /\ jobs' \subseteq [id: Cuts, tries: 0..MaxRetries]
         /\ requests' \in 0..MaxRequests /\ faults' \in 0..MaxFaults
         /\ overlapped' \in BOOLEAN /\ late' \in BOOLEAN
         /\ failed' \cup dropped' \subseteq Cuts
<1>0. \A x \in Cutters : tx[x] \in Txs
  BY DEF TypeOK
<1>1. disk' \in Manifests
  <2>1. \A t \in Tasks, p \in Paths : Write(t, p) => disk' = [disk EXCEPT ![p] = t]
    BY DEF Write
  <2>2. disk \in Manifests
    BY DEF TypeOK
  <2>. QED  BY <2>1, <2>2, Changes DEF Manifests, Content
<1>2. files' \in Manifests /\ recent' \subseteq Paths /\ behind' \subseteq Paths
  <2>1. files \in Manifests /\ recent \subseteq Paths /\ behind \subseteq Paths
    BY DEF TypeOK
  <2>2. ASSUME NEW t \in Tasks, NEW p \in Paths, Write(t, p)
        PROVE  files' = files /\ behind' = behind /\ recent' = recent \cup {p}
    BY <2>2 DEF Write, history
  <2>3. ASSUME NEW x \in Cutters, Commit(x)
        PROVE  files' \in Manifests /\ recent' \subseteq Paths /\ behind' \subseteq Paths
    <3>1. tx[x].since \subseteq Paths /\ tx[x].missed \subseteq Paths
      BY <1>0 DEF Txs
    <3>2. View(x) \in Manifests
      BY ViewTyped
    <3>. QED  BY <2>1, <2>3, <3>1, <3>2 DEF Commit
  <2>. QED  BY <2>1, <2>2, <2>3, Changes
<1>3. linked' \in {"no", "connected", "repo"}
  BY Changes DEF TypeOK, Connect, CreateRepo
<1>4. branch' \in [commits: Seq(CommitRows), tree: Manifests] /\ late' \in BOOLEAN
  <2>1. branch \in [commits: Seq(CommitRows), tree: Manifests] /\ late \in BOOLEAN
    BY DEF TypeOK, CommitRows
  <2>2. ASSUME NEW q \in Processes, Land(q) PROVE late' \in BOOLEAN
    BY <2>1, <2>2 DEF Land, Upload
  <2>. QED  BY <2>1, <2>2, Changes, LandDoes
<1>5. jobs' \subseteq [id: Cuts, tries: 0..MaxRetries]
  <2>1. jobs \subseteq [id: Cuts, tries: 0..MaxRetries] /\ 0 \in 0..MaxRetries /\ MaxRetries \in Nat
    BY DEF TypeOK, VersionsAssumption
  <2>2. ASSUME NEW t \in Tasks, Enqueue(t) PROVE jobs' \subseteq jobs \cup {[id |-> tx[t].id, tries |-> 0]}
    BY <2>2 DEF Enqueue
  <2>3. ASSUME NEW a \in Apis, RestoreAnnounce(a)
        PROVE  jobs' \subseteq jobs \cup {[id |-> tx[a].id, tries |-> 0]}
    BY <2>3 DEF RestoreAnnounce
  <2>4. ASSUME NEW x \in Cutters, tx[x].pc \in Open \cup {"announce"},
               jobs' \subseteq jobs \cup {[id |-> tx[x].id, tries |-> 0]}
        PROVE  jobs' \subseteq [id: Cuts, tries: 0..MaxRetries]
    BY <2>1, <2>4, KnowsIds
  <2>5. ASSUME NEW q \in Processes, TakeJob(q) PROVE jobs' \subseteq jobs
    BY <2>5 DEF TakeJob
  <2>6. ASSUME NEW q \in Processes, PushRaises(q)
        PROVE  jobs' \subseteq [id: Cuts, tries: 0..MaxRetries]
    <3>1. push[q].id \in Cuts /\ push[q].tries \in 0..MaxRetries
      BY <2>6, PushTyped DEF PushRaises, Sends, SendOK, Sending
    <3>2. CASE push[q].tries < MaxRetries
      <4>1. push[q].tries + 1 \in 0..MaxRetries
        BY <2>1, <3>1, <3>2
      <4>2. jobs' \subseteq jobs \cup {[id |-> push[q].id, tries |-> push[q].tries + 1]}
        BY <2>6 DEF PushRaises
      <4>. QED  BY <2>1, <3>1, <4>1, <4>2
    <3>3. CASE ~(push[q].tries < MaxRetries)
      BY <2>1, <2>6, <3>3 DEF PushRaises
    <3>. QED  BY <3>2, <3>3
  <2>7. ASSUME NEW q \in Processes, PusherLost(q)
        PROVE  jobs' \subseteq [id: Cuts, tries: 0..MaxRetries]
    <3>1. push[q].rest # <<>>
      BY <2>7 DEF PusherLost, Sends, SendOK, Sending
    <3>2. push[q].rest[1] \in Cuts /\ push[q].tries \in 0..MaxRetries
      BY <3>1, PushTyped
    <3>. QED  BY <2>1, <2>7, <3>2 DEF PusherLost
  <2>8. /\ \A t \in Tasks : Enqueue(t) => t \in Cutters /\ tx[t].pc \in Open
        /\ \A a \in Apis : RestoreAnnounce(a) => a \in Cutters /\ tx[a].pc = "announce"
    BY DEF Enqueue, RestoreAnnounce, At, Cutters, Open, Transacting, Writing
  <2>9. CASE \E t \in Tasks : Enqueue(t)
    BY <2>2, <2>4, <2>8, <2>9
  <2>10. CASE \E a \in Apis : RestoreAnnounce(a)
    BY <2>3, <2>4, <2>8, <2>10
  <2>. QED  BY <2>1, <2>5, <2>6, <2>7, <2>9, <2>10, Changes
<1>6. requests' \in 0..MaxRequests /\ faults' \in 0..MaxFaults
  BY Changes DEF TypeOK, Fault, VersionsAssumption
<1>7. overlapped' \in BOOLEAN
  <2>1. /\ \A t \in Tasks : ReadFiles(t) => overlapped' \in BOOLEAN
        /\ \A a \in Apis : Deploy(a) => overlapped' \in BOOLEAN
        /\ \A a \in Apis, n \in Numbers : RestoreDelete(a, n) => overlapped' \in BOOLEAN
    BY DEF ReadFiles, Deploy, RestoreDelete, Overlap
  <2>. QED  BY <2>1, Changes DEF TypeOK
<1>8. failed' \subseteq Cuts
  <2>1. failed \subseteq Cuts
    BY DEF TypeOK
  <2>2. ASSUME NEW t \in Tasks, Enqueue(t) PROVE failed' \subseteq failed \cup {tx[t].id} /\ tx[t].id \in Cuts
    BY <2>2, KnowsIds DEF Enqueue, At, Cutters, Open, Transacting, Writing
  <2>3. ASSUME NEW a \in Apis, RestoreAnnounce(a)
        PROVE  failed' \subseteq failed \cup {tx[a].id} /\ tx[a].id \in Cuts
    BY <2>3, KnowsIds DEF RestoreAnnounce, At, Cutters
  <2>4. ASSUME NEW q \in Processes, PushRaises(q)
        PROVE  failed' \subseteq failed \cup Range(push[q].rest) /\ Range(push[q].rest) \subseteq Cuts
    BY <2>4, PushTyped DEF PushRaises
  <2>. QED  BY <2>1, <2>2, <2>3, <2>4, Changes
<1>9. dropped' \subseteq Cuts
  <2>1. dropped \subseteq Cuts
    BY DEF TypeOK
  <2>2. ASSUME NEW x \in Cutters, Commit(x) PROVE dropped' \subseteq dropped \cup {tx[x].id} /\ tx[x].id \in Cuts
    BY <2>2, KnowsIds DEF Commit, Unannounced, At, Open, Transacting, Writing
  <2>3. ASSUME NEW q \in Processes, Skip(q)
        PROVE  dropped' \subseteq dropped \cup {push[q].rest[1]} /\ push[q].rest[1] \in Cuts
    <3>1. push[q].rest # <<>>
      BY <2>3 DEF Skip, Sends, SendOK, Sending
    <3>2. push[q].rest[1] \in Cuts
      BY <3>1, PushTyped
    <3>. QED  BY <2>3, <3>2 DEF Skip
  <2>. QED  BY <2>1, <2>2, <2>3, Changes
<1>. QED  BY <1>1, <1>2, <1>3, <1>4, <1>5, <1>6, <1>7, <1>8, <1>9

LEMMA TypeStep ==
  ASSUME TypeOK, VersionsAssumption, Ids, Sends, Next
  PROVE  TypeOK'
<1>1. versions' \in Seq(VersionRows) /\ Numbers \subseteq Numbers' /\ Len(versions') \in Nat
  <2>1. Same \/ \E x \in Cutters : Adds(x)
    BY VersionsGrow
  <2>2. versions' \in Seq(VersionRows) /\ Numbers \subseteq Numbers'
    BY <2>1 DEF Same, Adds
  <2>. QED  BY <2>2
<1>2. {site', deployed'} \subseteq 0..Len(versions')
  <2>1. 0..Len(versions) = {0} \cup Numbers /\ 0..Len(versions') = {0} \cup Numbers'
    BY <1>1, RowsTyped DEF Numbers
  <2>2. {site, deployed} \subseteq 0..Len(versions)
    BY DEF TypeOK
  <2>3. ASSUME NEW a \in Apis, Ship(a) PROVE site' \in Numbers
    BY <2>3 DEF Ship, Sends, SendOK, Processes
  <2>4. ASSUME NEW a \in Apis, Deployed(a) PROVE deployed' \in Numbers
    BY <2>4 DEF Deployed, Sends, SendOK, Processes
  <2>5. site' = site \/ site' \in Numbers
    BY <2>3, Changes
  <2>6. deployed' = deployed \/ deployed' \in Numbers
    BY <2>4, Changes
  <2>. QED  BY <1>1, <2>1, <2>2, <2>5, <2>6
<1>3. tx' \in [Cutters -> Txs] /\ push' \in [Processes -> Pushes] /\ Holds'
  BY TxTyped, PushesTyped, HoldsStep
<1>. QED  BY <1>1, <1>2, <1>3, RestTyped DEF TypeOK, VersionRows, CommitRows, Processes, Holds

Core == TypeOK /\ Ids /\ Sends

LEMMA CoreInit == Init /\ VersionsAssumption => Core
<1>. SUFFICES ASSUME Init, VersionsAssumption PROVE Core
  OBVIOUS
<1>1. Empty \in Manifests
  BY DEF Empty, Manifests, Content
<1>2. [NewTx EXCEPT !.pc = "idle"] = NewTx /\ NewTx.pc = "idle"
  BY DEF NewTx
<1>3. NewTx \in Txs
  BY <1>2, NewTxTyped DEF Pcs
<1>4. Len(<<>>) = 0 /\ \A S : <<>> \in Seq(S)
  OBVIOUS
<1>5. tx \in [Cutters -> Txs] /\ push \in [Apis \cup Pushers -> Pushes]
  BY <1>3, NoPushTyped DEF Init
<1>6. \A x \in Cutters : tx[x].pc = "idle"
  BY <1>2 DEF Init
<1>7. branch \in [commits: Seq([id: Cuts, job: BOOLEAN]), tree: Manifests]
  BY <1>1, <1>4 DEF Init
<1>8. requests \in 0..MaxRequests /\ faults \in 0..MaxFaults
  BY DEF Init, VersionsAssumption
<1>9. TypeOK
  <2>1. Holds
    BY <1>6 DEF Holds, Inserted
  <2>2. versions \in Seq(VersionRows) /\ {site, deployed} \subseteq 0..Len(versions)
    BY <1>4 DEF Init
  <2>. QED  BY <1>1, <1>5, <1>7, <1>8, <2>1, <2>2 DEF Init, TypeOK, Holds, VersionRows
<1>10. Ids
  BY <1>4, <1>6 DEF Init, Ids, TaskPcs, ApiPcs, Open, Transacting, Writing, Numbers, Cutters
<1>11. Sends
  <2>1. \A q \in Processes : push[q].pc = "idle" /\ push[q].rest = <<>>
    BY NoPushTyped DEF Init, Processes
  <2>. QED  BY <1>4, <2>1 DEF Sends, SendOK, Sending
<1>. QED  BY <1>9, <1>10, <1>11 DEF Core

LEMMA CoreStep == Core /\ VersionsAssumption /\ [Next]_vars => Core'
<1>. SUFFICES ASSUME Core, VersionsAssumption, [Next]_vars PROVE Core'
  OBVIOUS
<1>1. CASE Next
  BY <1>1, TypeStep, IdsStep, SendsStep DEF Core
<1>2. CASE UNCHANGED vars
  BY <1>2 DEF vars, workspace, cutting, github, hosting, history, Core, TypeOK, Ids, Sends, SendOK,
              Numbers, Committed
<1>. QED  BY <1>1, <1>2

\* Every variable keeps its type, for any number of tasks, paths, API processes and
\* slots: a transaction that has its version inserted holds the next number, alone.
THEOREM TypeCorrect == Spec => []TypeOK
<1>1. Spec => []Core
  BY CoreInit, CoreStep, VersionsAssumption, PTL DEF Spec
<1>2. Core => TypeOK
  BY DEF Core
<1>. QED  BY <1>1, <1>2, PTL

-----------------------------------------------------------------------------
(* What is pushed is in the history of the branch.                         *)

OnBranch(b, id) == \E k \in 1..Len(b.commits) : b.commits[k].id = id

\* A version counts as pushed only after its commit is on the branch, which nothing
\* takes back: the branch is moved only forward (PushedIsInHistory).
THEOREM PushedStays == Spec => []PushedIsInHistory
<1>1. Init => PushedIsInHistory
  BY DEF Init, PushedIsInHistory
<1>2. Core /\ PushedIsInHistory /\ VersionsAssumption /\ [Next]_vars => PushedIsInHistory'
  <2>. SUFFICES ASSUME Core, PushedIsInHistory, VersionsAssumption, Next PROVE PushedIsInHistory'
    BY DEF vars, cutting, github, PushedIsInHistory
  <2>. USE DEF Core
  <2>1. \A id : OnBranch(branch, id) => OnBranch(branch', id)
    BY GrowsAlways DEF Grows, OnBranch
  <2>2. \A n \in Numbers : versions[n].pushed => OnBranch(branch, versions[n].id)
    BY DEF PushedIsInHistory, Numbers, OnBranch
  <2>3. ASSUME NEW x \in Cutters, Commit(x), Adds(x) PROVE PushedIsInHistory'
    <3>1. versions'[Len(versions) + 1].pushed = FALSE
      BY <2>3 DEF Adds, Version
    <3>2. \A n \in Numbers' : versions'[n].pushed => n \in Numbers /\ versions'[n] = versions[n]
      BY <2>3, <3>1 DEF Adds
    <3>3. \A n \in Numbers' : versions'[n].pushed => OnBranch(branch', versions'[n].id)
      BY <2>1, <2>2, <3>2
    <3>. QED  BY <3>3 DEF PushedIsInHistory, Numbers, OnBranch
  <2>4. ASSUME NEW q \in Processes, Mark(q) PROVE PushedIsInHistory'
    <3>1. push[q].pc = "mark"
      BY <2>4 DEF Mark
    <3>2. Committed(push[q].id) /\ OnBranch(branch, push[q].id)
      BY <3>1 DEF Sends, SendOK, OnBranch
    <3>3. versions[No(push[q].id)].id = push[q].id
      BY <3>2, NoIs
    <3>4. \A n \in Numbers : versions'[n].pushed => OnBranch(branch, versions[n].id)
      BY <2>2, <2>4, <3>2, <3>3, MarkDoes
    <3>5. \A n \in Numbers' : n \in Numbers /\ versions'[n].id = versions[n].id
      BY <2>4, MarkDoes DEF Same
    <3>6. \A n \in Numbers' : versions'[n].pushed => OnBranch(branch', versions'[n].id)
      BY <2>1, <3>4, <3>5
    <3>. QED  BY <3>6 DEF PushedIsInHistory, Numbers, OnBranch
  <2>5. CASE versions' = versions
    <3>1. \A n \in Numbers' : versions'[n].pushed => OnBranch(branch', versions'[n].id)
      BY <2>1, <2>2, <2>5 DEF Numbers
    <3>. QED  BY <3>1 DEF PushedIsInHistory, Numbers, OnBranch
  <2>6. ASSUME NEW x \in Cutters, Commit(x) PROVE Adds(x)
    BY <2>6, CommitAdds, KnowsIds DEF Commit, At, Open, Transacting, Writing
  <2>. QED  BY <2>3, <2>4, <2>5, <2>6, Changes
<1>. QED  BY <1>1, <1>2, CoreInit, CoreStep, VersionsAssumption, PTL DEF Spec

-----------------------------------------------------------------------------
(* No version is left behind.                                              *)

\* A restore that is committed is announced in its next step.
LEMMA AnnounceStays ==
  ASSUME Core, VersionsAssumption, NEW b \in Apis, tx[b].pc = "announce", Next
  PROVE  RestoreAnnounce(b) \/ (tx'[b].pc = "announce" /\ tx'[b].id = tx[b].id)
<1>. USE DEF Core
<1>. DEFINE Stays == tx'[b].pc = "announce" /\ tx'[b].id = tx[b].id
<1>0. /\ b \in Cutters /\ b \notin Tasks
      /\ \A t \in Tasks : t \in Cutters
      /\ \A a \in Apis : a \in Cutters /\ a \notin Tasks
  BY DEF Cutters, VersionsAssumption
<1>1. ASSUME NEW x \in Cutters \ {b}, Others(x) PROVE Stays
  BY <1>0, <1>1 DEF Others
<1>2. ASSUME NEW t \in Tasks, Begin(t) \/ Fail(t) PROVE Stays
  <2>1. Begin(t) => tx' = [tx EXCEPT ![t].pc = "running"] /\ "running" \in Pcs
    BY DEF Begin, Goto, Pcs
  <2>2. Fail(t) => Rollback(t)
    BY DEF Fail
  <2>3. Others(t)
    BY <1>0, <1>2, <2>1, <2>2, GotoDoes, RollbackDoes
  <2>. QED  BY <1>0, <1>1, <2>3
<1>3. ASSUME NEW t \in Tasks,
             Collect(t) \/ ReadFiles(t) \/ FlushFiles(t) \/ ReadManifest(t) \/ Enqueue(t)
      PROVE  Stays
  <2>1. Others(t)
    BY <1>3, CollectDoes, ReadFilesDoes, FlushFilesDoes, ReadManifestDoes, EnqueueDoes
  <2>. QED  BY <1>0, <1>1, <2>1
<1>4. ASSUME NEW t \in Tasks, NEW p \in Paths, Write(t, p) PROVE Stays
  BY <1>0, <1>4, WriteDoes
<1>5. ASSUME NEW x \in Cutters, Number(x) \/ InsertVersion(x) \/ Commit(x) \/ Abort(x) PROVE Stays
  <2>1. x # b
    BY <1>5 DEF Number, InsertVersion, Commit, Abort, At, Transacting, Writing
  <2>2. (Commit(x) => tx[x].id \in Cuts) /\ (Abort(x) => Rollback(x))
    BY KnowsIds DEF Commit, At, Open, Transacting, Writing, Abort
  <2>3. Others(x)
    BY <1>5, <2>2, NumberDoes, InsertVersionDoes, CommitDoes, RollbackDoes
  <2>. QED  BY <1>1, <2>1, <2>3
<1>6. ASSUME NEW a \in Apis, \/ RestoreInsert(a) \/ RestoreAnnounce(a)
                             \/ \E n \in Numbers : RestoreDelete(a, n)
      PROVE  RestoreAnnounce(b) \/ Stays
  <2>1. a = b => RestoreAnnounce(b)
    BY <1>6 DEF RestoreInsert, RestoreDelete, Free, At
  <2>2. RestoreAnnounce(a) => Rollback(a)
    BY DEF RestoreAnnounce
  <2>3. Others(a)
    BY <1>0, <1>6, <2>2, RestoreInsertDoes, RestoreDeleteDoes, RollbackDoes
  <2>. QED  BY <1>0, <1>1, <2>1, <2>3
<1>7. ASSUME tx' = tx PROVE Stays
  BY <1>7
<1>8. ASSUME NEW a \in Apis,
             \/ RequestRepo(a) \/ TokenFails(a) \/ CreateRepo(a) \/ Backfill(a)
             \/ Deploy(a) \/ Ship(a) \/ ShipFails(a) \/ Deployed(a)
      PROVE  Stays
  BY <1>7, <1>8 DEF RequestRepo, TokenFails, CreateRepo, Backfill, Deploy, Ship, ShipFails,
                    Deployed, cutting
<1>9. ASSUME Connect PROVE Stays
  BY <1>7, <1>9 DEF Connect, cutting
<1>10. ASSUME NEW q \in Processes, \/ TakeJob(q) \/ Skip(q) \/ StartPush(q) \/ Land(q) \/ Mark(q)
                                   \/ PushRaises(q) \/ PusherLost(q)
       PROVE  Stays
  BY <1>7, <1>10 DEF TakeJob, Skip, StartPush, Land, Mark, PushRaises, PusherLost, cutting
<1>. HIDE DEF Stays
<1>11. RestoreAnnounce(b) \/ Stays
  <2>1. CASE \E t \in Tasks : \/ Begin(t) \/ Fail(t) \/ Collect(t) \/ ReadFiles(t) \/ FlushFiles(t)
                              \/ ReadManifest(t) \/ Enqueue(t) \/ \E p \in Paths : Write(t, p)
    BY <1>2, <1>3, <1>4, <2>1
  <2>2. CASE \E x \in Cutters : Number(x) \/ InsertVersion(x) \/ Commit(x) \/ Abort(x)
    BY <1>5, <2>2
  <2>3. CASE \E a \in Apis : \/ RestoreInsert(a) \/ RestoreAnnounce(a)
                             \/ \E n \in Numbers : RestoreDelete(a, n)
    BY <1>6, <2>3
  <2>4. CASE \E a \in Apis : \/ RequestRepo(a) \/ TokenFails(a) \/ CreateRepo(a) \/ Backfill(a)
                             \/ Deploy(a) \/ Ship(a) \/ ShipFails(a) \/ Deployed(a)
    BY <1>8, <2>4
  <2>5. CASE \E q \in Processes : \/ TakeJob(q) \/ Skip(q) \/ StartPush(q) \/ Land(q) \/ Mark(q)
                                  \/ PushRaises(q) \/ PusherLost(q)
    BY <1>10, <2>5
  <2>. QED  BY <1>9, <2>1, <2>2, <2>3, <2>4, <2>5, NextActions DEF Processes
<1>. QED  BY <1>11 DEF Stays

Listed(q, id) == \E k \in 1..Len(push[q].rest) : push[q].rest[k] = id

\* Somebody will push version id, or it is known to be lost.
Handled(id) ==
  \/ \E j \in jobs : j.id = id
  \/ \E q \in Processes : push[q].pc = "list" \/ Listed(q, id)
  \/ \E a \in Apis : tx[a].pc = "announce" /\ tx[a].id = id
  \/ id \in failed \cup dropped

LEMMA HandledIs ==
  ASSUME TypeOK, NEW id
  PROVE  Handled(id) <=> Pending(id) \/ id \in failed \cup dropped
<1>1. ASSUME NEW q \in Processes PROVE Listed(q, id) <=> id \in Range(push[q].rest)
  <2>1. DOMAIN push[q].rest = 1..Len(push[q].rest)
    <3>1. push[q].rest \in Seq(Cuts)
      BY PushTyped
    <3>. QED  BY <3>1, LenProperties
  <2>. QED  BY <2>1 DEF Listed, Range
<1>. QED  BY <1>1 DEF Handled, Pending, Processes, At

LEMMA ListedFirst ==
  ASSUME TypeOK, NEW q \in Processes, push[q].rest # <<>>
  PROVE  Listed(q, push[q].rest[1])
<1>1. push[q].rest \in Seq(Cuts) /\ Len(push[q].rest) \in Nat
  BY PushTyped
<1>2. Len(push[q].rest) # 0
  BY <1>1, EmptySeq
<1>3. 1 \in 1..Len(push[q].rest)
  BY <1>1, <1>2
<1>. QED  BY <1>3 DEF Listed

\* The records of the pushes change one at a time.
LEMMA PushSteps ==
  ASSUME Core, VersionsAssumption, Next
  PROVE  \/ push' = push
         \/ \E q \in Processes :
              /\ OtherPushes(q)
              /\ \/ q \in Apis /\ \/ RequestRepo(q) \/ TokenFails(q) \/ CreateRepo(q) \/ Backfill(q)
                                  \/ Deploy(q) \/ Ship(q) \/ ShipFails(q) \/ Deployed(q)
                 \/ TakeJob(q) \/ Skip(q) \/ StartPush(q) \/ Land(q) \/ Mark(q)
                 \/ PushRaises(q) \/ PusherLost(q)
<1>. USE DEF Core
<1>0. \A a \in Apis : a \in Processes
  BY DEF Processes
<1>1. CASE \E t \in Tasks : \/ Begin(t) \/ Fail(t) \/ Collect(t) \/ ReadFiles(t) \/ FlushFiles(t)
                            \/ ReadManifest(t) \/ Enqueue(t) \/ \E p \in Paths : Write(t, p)
  BY <1>1 DEF Begin, Fail, Collect, ReadFiles, FlushFiles, ReadManifest, Enqueue, Write, github
<1>2. CASE \E x \in Cutters : Number(x) \/ InsertVersion(x) \/ Commit(x) \/ Abort(x)
  BY <1>2 DEF Number, InsertVersion, Commit, Abort, github
<1>3. CASE \E a \in Apis : \/ RestoreInsert(a) \/ RestoreAnnounce(a)
                           \/ \E n \in Numbers : RestoreDelete(a, n)
  BY <1>3 DEF RestoreInsert, RestoreAnnounce, RestoreDelete, github
<1>4. ASSUME NEW a \in Apis, RequestRepo(a) \/ CreateRepo(a) \/ Ship(a) PROVE OtherPushes(a)
  <2>1. PICK pc \in PushPcs : push' = [push EXCEPT ![a].pc = pc]
    BY <1>4 DEF RequestRepo, CreateRepo, Ship, PushPcs
  <2>. QED  BY <1>0, <2>1, PcDoes
<1>5. ASSUME NEW q \in Processes,
             TokenFails(q) \/ ShipFails(q) \/ Deployed(q) \/ PushRaises(q) \/ PusherLost(q)
      PROVE  OtherPushes(q)
  <2>1. push' = [push EXCEPT ![q] = NoPush]
    BY <1>5 DEF TokenFails, ShipFails, Deployed, PushRaises, PusherLost
  <2>. QED  BY <2>1, ResetDoes
<1>6. ASSUME NEW a \in Apis, Backfill(a) \/ Deploy(a) PROVE OtherPushes(a)
  BY <1>6, BackfillDoes, DeployDoes
<1>7. CASE Connect
  BY <1>7 DEF Connect
<1>8. ASSUME NEW q \in Processes, TakeJob(q) PROVE OtherPushes(q)
  BY <1>8, TakeJobDoes DEF TakeJob
<1>9. ASSUME NEW q \in Processes, Skip(q) \/ Mark(q) PROVE OtherPushes(q)
  <2>1. push[q].rest # <<>> /\ push' = [push EXCEPT ![q] = Following(q)]
    BY <1>9 DEF Skip, Mark, Sends, SendOK, Sending
  <2>. QED  BY <2>1, FollowingDoes
<1>10. ASSUME NEW q \in Processes, StartPush(q) \/ Land(q) PROVE OtherPushes(q)
  BY <1>10, StartPushDoes, LandDoes
<1>. QED
  BY <1>0, <1>1, <1>2, <1>3, <1>4, <1>5, <1>6, <1>7, <1>8, <1>9, <1>10, NextActions DEF Processes

\* A version that a process is to push is pushed by it, left to another or given up.
LEMMA PushHandles ==
  ASSUME Core, VersionsAssumption, Next, NEW n \in Numbers, NEW id, id = versions[n].id,
         ~versions[n].pushed, NEW r \in Processes, push[r].pc = "list" \/ Listed(r, id)
  PROVE  versions'[n].pushed \/ Handled(id)'
<1>. USE DEF Core
<1>1. CASE push'[r] = push[r]
  BY <1>1 DEF Handled, Listed
<1>. SUFFICES ASSUME push'[r] # push[r] PROVE versions'[n].pushed \/ Handled(id)'
  BY <1>1
<1>2. SendOK(r) /\ push[r].rest \in Seq(Cuts) /\ Len(push[r].rest) \in Nat
  BY PushTyped DEF Sends
<1>3. Len(<<>>) = 0
  OBVIOUS
<1>4. push[r].pc \notin Sending => push[r].pc = "list"
  BY <1>2, <1>3 DEF SendOK, Listed
<1>5. push[r].pc \in Sending => Listed(r, id) /\ push[r].rest # <<>>
  BY <1>2 DEF SendOK, Sending
<1>6. /\ OtherPushes(r)
      /\ \/ r \in Apis /\ \/ RequestRepo(r) \/ TokenFails(r) \/ CreateRepo(r) \/ Backfill(r)
                          \/ Deploy(r) \/ Ship(r) \/ ShipFails(r) \/ Deployed(r)
         \/ TakeJob(r) \/ Skip(r) \/ StartPush(r) \/ Land(r) \/ Mark(r)
         \/ PushRaises(r) \/ PusherLost(r)
  BY PushSteps DEF OtherPushes
<1>7. ~(RequestRepo(r) \/ TokenFails(r) \/ CreateRepo(r) \/ Deploy(r) \/ Ship(r) \/ ShipFails(r)
        \/ Deployed(r) \/ TakeJob(r))
  BY <1>4 DEF RequestRepo, TokenFails, CreateRepo, Deploy, Ship, ShipFails, Deployed, TakeJob, Free,
              Sending
<1>8. ASSUME r \in Apis, Backfill(r) PROVE Handled(id)'
  <2>1. PICK k \in 1..Len(Unpushed) : Unpushed[k] = n
    BY UnpushedRises DEF Rises, Numbers
  <2>2. Unpushed # <<>>
    BY <1>3, <2>1
  <2>3. Len(push'[r].rest) = Len(Unpushed) /\ push'[r].rest[k] = versions[Unpushed[k]].id
    BY <1>8, <2>2, BackfillDoes
  <2>4. Listed(r, id)'
    BY <2>1, <2>3 DEF Listed
  <2>. QED  BY <2>4 DEF Handled
<1>9. \A m \in Numbers : versions[m].id = id => m = n
  BY DEF Ids
<1>10. ASSUME Skip(r) \/ Mark(r) PROVE versions'[n].pushed \/ Handled(id)'
  <2>1. push[r].rest # <<>> /\ push' = [push EXCEPT ![r] = Following(r)]
    BY <1>2, <1>10 DEF Skip, Mark, SendOK, Sending
  <2>2. \/ Len(push[r].rest) = 1
        \/ GoesFurther(r)
    BY <2>1, FollowingDoes
  <2>3. PICK k \in 1..Len(push[r].rest) : push[r].rest[k] = id
    BY <1>5, <1>10 DEF Skip, Mark, Sending, Listed
  <2>4. CASE k = 1
    <3>1. push[r].rest[1] = id
      BY <2>3, <2>4
    <3>2. CASE Skip(r)
      <4>1. CASE ~Committed(id)
        <5>1. id \in dropped'
          BY <3>1, <3>2, <4>1 DEF Skip
        <5>. QED  BY <5>1 DEF Handled
      <4>2. CASE Committed(id)
        <5>1. No(id) = n
          BY <1>9, <4>2, NoIs
        <5>. QED  BY <3>1, <3>2, <4>2, <5>1 DEF Skip
      <4>. QED  BY <4>1, <4>2
    <3>3. CASE Mark(r)
      <4>1. push[r].id = id /\ Committed(id)
        BY <1>2, <3>1, <3>3 DEF SendOK, Mark
      <4>2. No(id) = n
        BY <1>9, <4>1, NoIs
      <4>. QED  BY <3>3, <4>1, <4>2, MarkDoes
    <3>. QED  BY <1>10, <3>2, <3>3
  <2>5. CASE k # 1
    <3>1. GoesFurther(r)
      <4>1. Len(push[r].rest) # 1
        <5>1. \A m \in 1..1 : m = 1
          OBVIOUS
        <5>. QED  BY <2>5, <5>1
      <4>. QED  BY <2>2, <4>1
    <3>2. k - 1 \in 1..Len(push'[r].rest) /\ (k - 1) + 1 = k
      BY <1>2, <2>5, <3>1 DEF GoesFurther
    <3>3. push'[r].rest[k - 1] = id
      BY <2>3, <3>1, <3>2 DEF GoesFurther
    <3>4. Listed(r, id)'
      BY <3>2, <3>3 DEF Listed
    <3>. QED  BY <3>4 DEF Handled
  <2>. QED  BY <2>4, <2>5
<1>11. ASSUME StartPush(r) \/ Land(r) PROVE Handled(id)'
  <2>1. push'[r].rest = push[r].rest
    BY <1>11, StartPushDoes, LandDoes
  <2>2. Listed(r, id)
    BY <1>5, <1>11 DEF StartPush, Land, Sending
  <2>. QED  BY <2>1, <2>2 DEF Handled, Listed
<1>12. ASSUME r \in Pushers, push[r].pc \in Sending PROVE push[r].rest[1] = id
  BY <1>2, <1>5, <1>12 DEF SendOK, Listed
<1>13. ASSUME PushRaises(r) PROVE Handled(id)'
  <2>1. push[r].pc = "land" /\ Listed(r, id) /\ push[r].id = push[r].rest[1]
    BY <1>2, <1>5, <1>13 DEF PushRaises, SendOK, Sending
  <2>2. CASE r \in Pushers /\ push[r].tries < MaxRetries
    <3>1. push[r].id = id
      BY <1>12, <2>1, <2>2 DEF Sending
    <3>2. [id |-> push[r].id, tries |-> push[r].tries + 1] \in jobs'
      BY <1>13, <2>2 DEF PushRaises
    <3>. QED  BY <3>1, <3>2 DEF Handled
  <2>3. CASE ~(r \in Pushers /\ push[r].tries < MaxRetries)
    <3>1. failed' = failed \cup Range(push[r].rest)
      BY <1>13, <2>3 DEF PushRaises
    <3>2. DOMAIN push[r].rest = 1..Len(push[r].rest)
      BY <1>2, LenProperties
    <3>3. id \in failed'
      BY <2>1, <3>1, <3>2 DEF Listed, Range
    <3>. QED  BY <3>3 DEF Handled
  <2>. QED  BY <2>2, <2>3
<1>14. ASSUME PusherLost(r) PROVE Handled(id)'
  <2>1. r \in Pushers /\ push[r].pc \in Sending
    BY <1>2, <1>14 DEF PusherLost, SendOK
  <2>2. [id |-> push[r].rest[1], tries |-> push[r].tries] \in jobs'
    BY <1>14 DEF PusherLost
  <2>. QED  BY <1>12, <2>1, <2>2 DEF Handled
<1>. QED  BY <1>6, <1>7, <1>8, <1>10, <1>11, <1>13, <1>14

LEMMA StaysHandled ==
  ASSUME Core, VersionsAssumption, Next, HasRepo, NEW n \in Numbers, NEW id,
         id = versions[n].id, ~versions[n].pushed, Handled(id)
  PROVE  versions'[n].pushed \/ Handled(id)'
<1>. USE DEF Core
<1>1. CASE id \in failed \cup dropped
  <2>1. failed \subseteq failed' /\ dropped \subseteq dropped'
    <3>1. \A t \in Tasks : Enqueue(t) => failed \subseteq failed'
      BY DEF Enqueue
    <3>2. \A a \in Apis : RestoreAnnounce(a) => failed \subseteq failed'
      BY DEF RestoreAnnounce
    <3>3. \A q \in Processes : PushRaises(q) => failed \subseteq failed'
      BY DEF PushRaises
    <3>4. \A x \in Cutters : Commit(x) => dropped \subseteq dropped'
      BY DEF Commit
    <3>5. \A q \in Processes : Skip(q) => dropped \subseteq dropped'
      BY DEF Skip
    <3>. QED  BY <3>1, <3>2, <3>3, <3>4, <3>5, Changes
  <2>. QED  BY <1>1, <2>1 DEF Handled
<1>2. ASSUME NEW j \in jobs, j.id = id PROVE Handled(id)'
  <2>1. CASE j \in jobs'
    BY <1>2, <2>1 DEF Handled
  <2>2. CASE j \notin jobs'
    <3>1. \A t \in Tasks : Enqueue(t) => j \in jobs'
      BY DEF Enqueue
    <3>2. \A a \in Apis : RestoreAnnounce(a) => j \in jobs'
      BY DEF RestoreAnnounce
    <3>3. \A q \in Processes : PushRaises(q) \/ PusherLost(q) => j \in jobs'
      BY DEF PushRaises, PusherLost
    <3>4. PICK q \in Processes : TakeJob(q)
      BY <2>2, <3>1, <3>2, <3>3, Changes
    <3>5. q \in Pushers
      BY <3>4 DEF TakeJob
    <3>6. Len(push'[q].rest) = 1 /\ push'[q].rest[1] = id
      BY <1>2, <2>2, <3>4, <3>5, TakeJobDoes
    <3>7. Listed(q, id)'
      BY <3>6 DEF Listed
    <3>. QED  BY <3>7 DEF Handled
  <2>. QED  BY <2>1, <2>2
<1>3. ASSUME NEW a \in Apis, tx[a].pc = "announce", tx[a].id = id PROVE Handled(id)'
  <2>1. CASE RestoreAnnounce(a)
    <3>1. [id |-> id, tries |-> 0] \in jobs' \/ id \in failed'
      BY <1>3, <2>1 DEF RestoreAnnounce
    <3>. QED  BY <3>1 DEF Handled
  <2>2. CASE tx'[a].pc = "announce" /\ tx'[a].id = tx[a].id
    BY <1>3, <2>2 DEF Handled
  <2>. QED  BY <1>3, <2>1, <2>2, AnnounceStays
<1>. QED  BY <1>1, <1>2, <1>3, PushHandles DEF Handled

\* Every version is pushed, handled or lost, once there is a repository.
NobodyBehind ==
  HasRepo => \A n \in Numbers : \A id :
               id = versions[n].id => versions[n].pushed \/ Handled(id)

LEMMA BehindStep == Core /\ NobodyBehind /\ VersionsAssumption /\ [Next]_vars => NobodyBehind'
<1>1. ASSUME NobodyBehind, UNCHANGED vars PROVE NobodyBehind'
  <2>1. UNCHANGED <<versions, tx, linked, jobs, push, failed, dropped>>
    BY <1>1 DEF vars, cutting, github, history
  <2>. QED  BY <1>1, <2>1 DEF NobodyBehind, HasRepo, Handled, Listed, Numbers
<1>2. ASSUME Core, NobodyBehind, VersionsAssumption, Next PROVE NobodyBehind'
  <2>. USE <1>2 DEF Core
  <2>. SUFFICES ASSUME HasRepo', NEW n \in Numbers', NEW id, id = versions'[n].id,
                       ~versions'[n].pushed
                PROVE  Handled(id)'
    BY DEF NobodyBehind
  <2>1. CASE n \in Numbers
    <3>1. id = versions[n].id /\ ~versions[n].pushed
      BY <2>1, VersionsGrow DEF Same, Adds
    <3>2. CASE HasRepo
      BY <2>1, <3>1, <3>2, StaysHandled DEF NobodyBehind
    <3>3. CASE ~HasRepo
      <4>1. PICK a \in Apis : CreateRepo(a)
        BY <3>3, Changes DEF HasRepo, Connect
      <4>2. push' = [push EXCEPT ![a].pc = "list"] /\ a \in Processes
        BY <4>1 DEF CreateRepo, Processes
      <4>3. push'[a].pc = "list"
        BY <4>2, PcDoes DEF PushPcs
      <4>. QED  BY <4>2, <4>3 DEF Handled
    <3>. QED  BY <3>2, <3>3
  <2>2. CASE n \notin Numbers
    <3>1. PICK x \in Cutters : Commit(x) /\ Adds(x)
      BY <2>2, VersionsGrow DEF Same
    <3>2. n = Len(versions) + 1 /\ id = tx[x].id
      BY <2>2, <3>1 DEF Adds, Version
    <3>3. tx[x].pc = "commit" /\ tx[x].id \in Cuts
      BY <3>1, KnowsIds DEF Commit, At, Open, Transacting, Writing
    <3>4. /\ Others(x)
          /\ x \notin Tasks => tx'[x].pc = "announce" /\ tx'[x].id = tx[x].id
      BY <3>1, <3>3, CommitDoes
    <3>5. HasRepo /\ jobs' = jobs /\ push' = push /\ failed' = failed
          /\ dropped' = dropped \cup Unannounced(x)
      BY <3>1 DEF Commit, github, HasRepo
    <3>6. CASE x \notin Tasks
      <4>1. x \in Apis
        BY <3>6 DEF Cutters
      <4>. QED  BY <3>2, <3>4, <3>6, <4>1 DEF Handled
    <3>7. CASE x \in Tasks
      <4>1. CASE Pending(id)
        <5>1. Handled(id)
          BY <4>1, HandledIs
        <5>2. \A a \in Apis : tx'[a] = tx[a]
          BY <3>4, <3>7 DEF Others, Cutters, VersionsAssumption
        <5>. QED  BY <3>5, <5>1, <5>2 DEF Handled, Listed
      <4>2. CASE ~Pending(id)
        <5>1. id \in dropped'
          BY <3>2, <3>5, <3>7, <4>2 DEF Unannounced
        <5>. QED  BY <5>1 DEF Handled
      <4>. QED  BY <4>1, <4>2
    <3>. QED  BY <3>6, <3>7
  <2>. QED  BY <2>1, <2>2
<1>. QED  BY <1>1, <1>2

\* Once the project has a repository every version is pushed, or a job, a backfill or a
\* restore is still to push it, or it is known to be lost (NoneLeftBehind): whatever
\* connections, cuts, jobs, retries and lost processes come in between.
THEOREM AllArePushed == Spec => []NoneLeftBehind
<1>1. Init => NobodyBehind
  BY DEF Init, NobodyBehind, HasRepo
<1>2. Core /\ NobodyBehind => NoneLeftBehind
  BY HandledIs DEF Core, NobodyBehind, NoneLeftBehind, Numbers
<1>. QED  BY <1>1, <1>2, BehindStep, CoreInit, CoreStep, VersionsAssumption, PTL DEF Spec

-----------------------------------------------------------------------------
(* The deployed version is recorded.                                       *)

\* Unless two deployments overlapped, at most one is open and the host serves its version
\* or the one recorded.
Hosting ==
  ~overlapped =>
    /\ \A a, b \in Apis :
         push[a].pc \in {"deploy", "deployed"} /\ push[b].pc \in {"deploy", "deployed"} => a = b
    /\ \A a \in Apis : push[a].pc = "deployed" => site = push[a].parent
    /\ (\A a \in Apis : push[a].pc # "deployed") => site = deployed

LEMMA HostingStep == Core /\ Hosting /\ VersionsAssumption /\ [Next]_vars => Hosting'
<1>1. ASSUME Hosting, push' = push, site' = site, deployed' = deployed, overlapped => overlapped'
      PROVE  Hosting'
  BY <1>1 DEF Hosting
<1>2. ASSUME Core, Hosting, VersionsAssumption, Next PROVE Hosting'
  <2>. USE <1>2 DEF Core
  <2>. SUFFICES ASSUME ~overlapped' PROVE Hosting'
    BY DEF Hosting
  <2>1. ~overlapped
    <3>1. /\ \A t \in Tasks : ReadFiles(t) => (overlapped => overlapped')
          /\ \A a \in Apis : Deploy(a) => (overlapped => overlapped')
          /\ \A a \in Apis, n \in Numbers : RestoreDelete(a, n) => (overlapped => overlapped')
      BY DEF ReadFiles, Deploy, RestoreDelete, Overlap
    <3>. QED  BY <3>1, Changes
  <2>2. \A a \in Apis : a \in Processes
    BY DEF Processes
  <2>3. ASSUME NEW a \in Apis, Ship(a) PROVE Hosting'
    <3>1. push' = [push EXCEPT ![a].pc = "deployed"] /\ push[a].pc = "deploy" /\ site' = push[a].parent
      BY <2>3 DEF Ship
    <3>2. OtherPushes(a) /\ push'[a].pc = "deployed" /\ push'[a].parent = push[a].parent
      BY <2>2, <3>1, PcDoes DEF PushPcs
    <3>. QED  BY <2>1, <2>2, <3>1, <3>2 DEF Hosting, OtherPushes
  <2>4. ASSUME NEW a \in Apis, Deployed(a) PROVE Hosting'
    <3>1. /\ push' = [push EXCEPT ![a] = NoPush] /\ push[a].pc = "deployed"
          /\ deployed' = push[a].parent /\ site' = site
      BY <2>4 DEF Deployed
    <3>2. OtherPushes(a) /\ push'[a].pc = "idle"
      BY <2>2, <3>1, ResetDoes
    <3>. QED  BY <2>1, <2>2, <3>1, <3>2 DEF Hosting, OtherPushes
  <2>5. ASSUME NEW a \in Apis, Deploy(a) PROVE Hosting'
    <3>1. /\ \A b \in Apis : push[b].pc \notin {"deploy", "deployed"}
          /\ site' = site /\ deployed' = deployed
      BY <2>5 DEF Deploy
    <3>2. OtherPushes(a) /\ push'[a].pc = "deploy"
      BY <2>5, DeployDoes
    <3>. QED  BY <2>1, <2>2, <3>1, <3>2 DEF Hosting, OtherPushes
  <2>6. ASSUME NEW a \in Apis, ShipFails(a) PROVE Hosting'
    <3>1. /\ push' = [push EXCEPT ![a] = NoPush] /\ push[a].pc = "deploy"
          /\ deployed' = deployed /\ site' = site
      BY <2>6 DEF ShipFails, hosting
    <3>2. OtherPushes(a) /\ push'[a].pc = "idle"
      BY <2>2, <3>1, ResetDoes
    <3>. QED  BY <2>1, <2>2, <3>1, <3>2 DEF Hosting, OtherPushes
  <2>7. ASSUME NEW q \in Processes, OtherPushes(q),
               \/ q \in Apis /\ (RequestRepo(q) \/ TokenFails(q) \/ CreateRepo(q) \/ Backfill(q))
               \/ TakeJob(q) \/ Skip(q) \/ StartPush(q) \/ Land(q) \/ Mark(q)
               \/ PushRaises(q) \/ PusherLost(q)
        PROVE  Hosting'
    <3>1. site' = site /\ deployed' = deployed
      BY <2>7 DEF RequestRepo, TokenFails, CreateRepo, Backfill, TakeJob, Skip, StartPush, Land, Mark,
                  PushRaises, PusherLost, hosting
    <3>2. CASE q \in Pushers
      <4>1. \A a \in Apis : push'[a] = push[a]
        BY <2>2, <2>7, <3>2 DEF OtherPushes, VersionsAssumption
      <4>. QED  BY <2>1, <3>1, <4>1 DEF Hosting
    <3>3. CASE q \in Apis
      <4>1. push[q].pc \notin {"deploy", "deployed"}
        BY <2>7, <3>3 DEF RequestRepo, TokenFails, CreateRepo, Backfill, TakeJob, Skip, StartPush, Land,
                    Mark, PushRaises, PusherLost, Free, VersionsAssumption
      <4>2. push'[q].pc \notin {"deploy", "deployed"}
        <5>1. CASE RequestRepo(q)
          <6>1. push' = [push EXCEPT ![q].pc = "repo"]
            BY <5>1 DEF RequestRepo
          <6>. QED  BY <6>1, PcDoes DEF PushPcs
        <5>2. CASE CreateRepo(q)
          <6>1. push' = [push EXCEPT ![q].pc = "list"]
            BY <5>2 DEF CreateRepo
          <6>. QED  BY <6>1, PcDoes DEF PushPcs
        <5>3. CASE TokenFails(q) \/ PushRaises(q) \/ PusherLost(q)
          <6>1. push' = [push EXCEPT ![q] = NoPush]
            BY <5>3 DEF TokenFails, PushRaises, PusherLost
          <6>. QED  BY <6>1, ResetDoes
        <5>4. CASE Backfill(q)
          BY <3>3, <5>4, BackfillDoes
        <5>5. CASE TakeJob(q)
          BY <3>3, <5>5 DEF TakeJob, VersionsAssumption
        <5>6. CASE Skip(q) \/ Mark(q)
          <6>1. push[q].rest # <<>> /\ push' = [push EXCEPT ![q] = Following(q)]
            BY <5>6 DEF Skip, Mark, Sends, SendOK, Sending
          <6>. QED  BY <6>1, FollowingDoes DEF GoesFurther
        <5>7. CASE StartPush(q) \/ Land(q)
          BY <5>7, StartPushDoes, LandDoes
        <5>. QED  BY <2>7, <5>1, <5>2, <5>3, <5>4, <5>5, <5>6, <5>7
      <4>. QED  BY <2>1, <2>2, <2>7, <3>1, <3>3, <4>1, <4>2 DEF Hosting, OtherPushes
    <3>. QED  BY <3>2, <3>3 DEF Processes
  <2>8. CASE push' = push
    <3>1. CASE site' = site /\ deployed' = deployed
      BY <2>1, <2>8, <3>1 DEF Hosting
    <3>. QED  BY <2>3, <2>4, <3>1, Changes
  <2>. QED  BY <2>3, <2>4, <2>5, <2>6, <2>7, <2>8, PushSteps
<1>3. ASSUME UNCHANGED vars PROVE UNCHANGED <<push, site, deployed, overlapped>>
  BY <1>3 DEF vars, github, hosting, history
<1>. QED  BY <1>1, <1>2, <1>3

\* deployed_version_no names what the host serves whenever no answer of the host waits to
\* be recorded, unless two deployments overlapped (SiteIsRecorded).
THEOREM SiteStaysRecorded == Spec => []SiteIsRecorded
<1>1. Init => Hosting
  BY NoPushTyped DEF Init, Hosting, NoPush
<1>2. Hosting => SiteIsRecorded
  BY DEF Hosting, SiteIsRecorded
<1>. QED  BY <1>1, <1>2, HostingStep, CoreInit, CoreStep, VersionsAssumption, PTL DEF Spec

-----------------------------------------------------------------------------
(* The newest version is the project.                                      *)

\* What a step may do to one transaction.
Quiet == UNCHANGED <<disk, recent, files, behind>>

Proceeds(x) ==
  \/ tx'[x].pc \in {"idle", "running", "over"}
  \/ x \in Tasks /\ Collect(x) /\ Collected(x)
  \/ x \in Tasks /\ ReadFiles(x) /\ Carried(x) /\ tx[x].pc = "collected" /\ tx'[x].pc = "read"
  \/ x \in Tasks /\ Carried(x) /\ tx[x].pc = "read" /\ tx'[x].pc = "manifest"
  \/ /\ x \in Tasks /\ Carried(x) /\ tx[x].pc = "manifest" /\ tx'[x].pc = "number"
     /\ tx'[x].manifest = View(x)
  \/ /\ Carried(x) /\ tx'[x].manifest = tx[x].manifest
     /\ tx[x].pc \in {"insertfiles", "number", "insert", "label"}
     /\ tx'[x].pc \in {"number", "insert", "label", "commit"}
  \/ x \in Apis /\ \E n \in Numbers : RestoreDelete(x, n)

Commits(x) ==
  /\ Commit(x) /\ Others(x) /\ Adds(x)
  /\ tx[x].pc = "commit" /\ tx'[x].pc \in {"over", "announce"}

LEMMA TxSteps ==
  ASSUME Core, VersionsAssumption, Next
  PROVE  \/ tx' = tx /\ Quiet /\ Same
         \/ \E t \in Tasks, p \in Paths : Write(t, p)
         \/ \E x \in Cutters : Commits(x)
         \/ \E x \in Cutters : Others(x) /\ Quiet /\ Same /\ Proceeds(x)
<1>. USE DEF Core
<1>0. /\ \A t \in Tasks : t \in Cutters
      /\ \A a \in Apis : a \in Cutters /\ a \notin Tasks
  BY DEF Cutters, VersionsAssumption
<1>1. ASSUME NEW t \in Tasks,
             \/ Begin(t) \/ Fail(t) \/ Collect(t) \/ ReadFiles(t) \/ FlushFiles(t)
             \/ ReadManifest(t) \/ Enqueue(t)
      PROVE  Others(t) /\ Quiet /\ Same /\ Proceeds(t)
  <2>1. Quiet /\ Same
    BY <1>1, Unchanging DEF Begin, Fail, Collect, ReadFiles, FlushFiles, ReadManifest, Enqueue,
                            workspace, cutting, history, Quiet
  <2>2. CASE Begin(t)
    <3>1. tx' = [tx EXCEPT ![t].pc = "running"] /\ "running" \in Pcs
      BY <2>2 DEF Begin, Goto, Pcs
    <3>. QED  BY <1>0, <2>1, <3>1, GotoDoes DEF Proceeds
  <2>3. CASE Fail(t)
    BY <1>0, <2>1, <2>3, RollbackDoes DEF Fail, Proceeds
  <2>4. CASE Collect(t)
    BY <2>1, <2>4, CollectDoes DEF Proceeds
  <2>5. CASE ReadFiles(t)
    <3>1. tx[t].pc = "collected"
      BY <2>5 DEF ReadFiles, At
    <3>. QED  BY <2>1, <2>5, <3>1, ReadFilesDoes DEF Proceeds
  <2>6. CASE FlushFiles(t)
    <3>1. tx[t].pc = "read"
      BY <2>6 DEF FlushFiles, At
    <3>. QED  BY <2>1, <2>6, <3>1, FlushFilesDoes DEF Proceeds
  <2>7. CASE ReadManifest(t)
    <3>1. tx[t].pc = "manifest"
      BY <2>7 DEF ReadManifest, At
    <3>. QED  BY <2>1, <2>7, <3>1, ReadManifestDoes DEF Proceeds
  <2>8. CASE Enqueue(t)
    <3>1. tx[t].pc = "label"
      BY <2>8 DEF Enqueue, At
    <3>. QED  BY <2>1, <2>8, <3>1, EnqueueDoes DEF Proceeds
  <2>. QED  BY <1>1, <2>2, <2>3, <2>4, <2>5, <2>6, <2>7, <2>8
<1>2. ASSUME NEW x \in Cutters, Commit(x) PROVE Commits(x)
  <2>1. tx[x].pc = "commit" /\ tx[x].id \in Cuts
    BY <1>2, KnowsIds DEF Commit, At, Open, Transacting, Writing
  <2>. QED  BY <1>2, <2>1, CommitDoes, CommitAdds DEF Commits
<1>3. ASSUME NEW x \in Cutters, Number(x) \/ InsertVersion(x) \/ Abort(x)
      PROVE  Others(x) /\ Quiet /\ Same /\ Proceeds(x)
  <2>1. Quiet /\ Same
    BY <1>3, Unchanging DEF Number, InsertVersion, Abort, workspace, cutting, history, Quiet
  <2>2. CASE Number(x)
    <3>1. tx[x].pc = "number"
      BY <2>2 DEF Number, At
    <3>. QED  BY <2>1, <2>2, <3>1, NumberDoes DEF Proceeds
  <2>3. CASE InsertVersion(x)
    <3>1. tx[x].pc = "insert"
      BY <2>3 DEF InsertVersion, At
    <3>2. /\ Others(x)
          /\ \/ tx'[x].pc = IF x \in Tasks THEN "over" ELSE "idle"
             \/ InsertedAs(x, IF x \in Tasks THEN "label" ELSE "commit")
      BY <2>3, InsertVersionDoes
    <3>. QED  BY <2>1, <3>1, <3>2 DEF Proceeds, InsertedAs
  <2>4. CASE Abort(x)
    BY <2>1, <2>4, RollbackDoes DEF Abort, Proceeds
  <2>. QED  BY <1>3, <2>2, <2>3, <2>4
<1>4. ASSUME NEW a \in Apis, \/ RestoreInsert(a) \/ RestoreAnnounce(a)
                             \/ \E n \in Numbers : RestoreDelete(a, n)
      PROVE  Others(a) /\ Quiet /\ Same /\ Proceeds(a)
  <2>1. Quiet /\ Same
    BY <1>4, Unchanging DEF RestoreInsert, RestoreAnnounce, RestoreDelete, workspace, cutting, history,
                            Quiet
  <2>2. CASE RestoreInsert(a)
    <3>1. tx[a].pc = "insertfiles"
      BY <2>2 DEF RestoreInsert, At
    <3>. QED  BY <1>0, <2>1, <2>2, <3>1, RestoreInsertDoes DEF Proceeds
  <2>3. CASE RestoreAnnounce(a)
    BY <1>0, <2>1, <2>3, RollbackDoes DEF RestoreAnnounce, Proceeds
  <2>4. CASE \E n \in Numbers : RestoreDelete(a, n)
    BY <2>1, <2>4, RestoreDeleteDoes DEF Proceeds
  <2>. QED  BY <1>4, <2>2, <2>3, <2>4
<1>5. ASSUME NEW a \in Apis,
             \/ RequestRepo(a) \/ TokenFails(a) \/ CreateRepo(a) \/ Backfill(a)
             \/ Deploy(a) \/ Ship(a) \/ ShipFails(a) \/ Deployed(a)
      PROVE  tx' = tx /\ Quiet /\ Same
  <2>1. versions' = versions /\ tx' = tx /\ Quiet
    BY <1>5 DEF RequestRepo, TokenFails, CreateRepo, Backfill, Deploy, Ship, ShipFails, Deployed,
                workspace, cutting, history, Quiet
  <2>. QED  BY <2>1, Unchanging
<1>6. CASE Connect
  <2>1. versions' = versions /\ tx' = tx /\ Quiet
    BY <1>6 DEF Connect, workspace, cutting, history, Quiet
  <2>. QED  BY <2>1, Unchanging
<1>7. ASSUME NEW q \in Processes, \/ TakeJob(q) \/ Skip(q) \/ StartPush(q) \/ Land(q) \/ Mark(q)
                                  \/ PushRaises(q) \/ PusherLost(q)
      PROVE  tx' = tx /\ Quiet /\ Same
  <2>1. tx' = tx /\ Quiet /\ (versions' = versions \/ Mark(q))
    BY <1>7 DEF TakeJob, Skip, StartPush, Land, Mark, PushRaises, PusherLost, workspace, cutting,
                history, Quiet
  <2>. QED  BY <2>1, MarkDoes, Unchanging
<1>. QED  BY <1>0, <1>1, <1>2, <1>3, <1>4, <1>5, <1>6, <1>7, NextActions DEF Processes

Newest == IF versions = <<>> THEN Empty ELSE versions[Len(versions)].manifest

LEMMA NewestStays == ASSUME TypeOK, Same PROVE Newest' = Newest
<1>1. versions' = <<>> <=> versions = <<>>
  BY RowsTyped, EmptySeq DEF Same
<1>2. versions # <<>> => Len(versions) \in Numbers
  BY RowsTyped, EmptySeq DEF Numbers
<1>. QED  BY <1>1, <1>2 DEF Same, Newest

\* The steps in which a transaction knows the manifest that it will commit.
Made == {"insertfiles", "number", "insert", "label", "commit"}

\* As long as no two transactions overlap, the rows are the newest manifest, and an open
\* transaction will leave exactly the rows it has listed.
Alone ==
  ~overlapped =>
    /\ \A x, y \in Cutters : tx[x].pc \in Transacting /\ tx[y].pc \in Transacting => x = y
    /\ files = Newest
    /\ \A x \in Cutters : tx[x].pc \in Made => tx[x].manifest = View(x)

LEMMA AloneStep == Core /\ Alone /\ VersionsAssumption /\ [Next]_vars => Alone'
<1>1. ASSUME Alone, UNCHANGED vars PROVE Alone'
  <2>1. UNCHANGED <<files, versions, tx, overlapped>>
    BY <1>1 DEF vars, cutting, history
  <2>. QED  BY <1>1, <2>1 DEF Alone, Newest, View
<1>2. ASSUME Core, Alone, VersionsAssumption, Next PROVE Alone'
  <2>. USE <1>2 DEF Core
  <2>. SUFFICES ASSUME ~overlapped' PROVE Alone'
    BY DEF Alone
  <2>1. ~overlapped
    <3>1. /\ \A t \in Tasks : ReadFiles(t) => (overlapped => overlapped')
          /\ \A a \in Apis : Deploy(a) => (overlapped => overlapped')
          /\ \A a \in Apis, n \in Numbers : RestoreDelete(a, n) => (overlapped => overlapped')
      BY DEF ReadFiles, Deploy, RestoreDelete, Overlap
    <3>. QED  BY <3>1, Changes
  <2>2. /\ \A x, y \in Cutters : tx[x].pc \in Transacting /\ tx[y].pc \in Transacting => x = y
        /\ files = Newest
        /\ \A x \in Cutters : tx[x].pc \in Made => tx[x].manifest = View(x)
    BY <2>1 DEF Alone
  <2>3. CASE tx' = tx /\ Quiet /\ Same
    <3>1. files' = Newest'
      BY <2>2, <2>3, NewestStays DEF Quiet
    <3>2. \A x \in Cutters : View(x)' = View(x)
      BY <2>3 DEF Quiet, View
    <3>. QED  BY <2>2, <2>3, <3>1, <3>2 DEF Alone
  <2>4. ASSUME NEW t \in Tasks, NEW p \in Paths, Write(t, p) PROVE Alone'
    <3>1. files' = files /\ versions' = versions
      BY <2>4 DEF Write
    <3>2. \A x \in Cutters :
            /\ tx'[x].pc = tx[x].pc /\ tx'[x].put = tx[x].put
            /\ tx'[x].erased = tx[x].erased /\ tx'[x].manifest = tx[x].manifest
      BY <2>4, WriteDoes
    <3>3. \A x \in Cutters : View(x)' = View(x)
      BY <3>1, <3>2 DEF View
    <3>4. Newest' = Newest
      BY <3>1 DEF Newest
    <3>. QED  BY <2>2, <3>1, <3>2, <3>3, <3>4 DEF Alone
  <2>5. ASSUME NEW x \in Cutters, Commits(x) PROVE Alone'
    <3>1. \A y \in Cutters : tx'[y].pc \notin Transacting
      BY <2>2, <2>5 DEF Commits, Others, Transacting, Writing
    <3>2. files' = tx[x].manifest
      BY <2>2, <2>5 DEF Commits, Commit, Made
    <3>3. /\ versions' \in Seq(VersionRows) /\ Len(versions') = Len(versions) + 1
          /\ versions'[Len(versions) + 1] = Version(tx[x].id, tx[x].manifest)
      BY <2>5 DEF Commits, Adds
    <3>4. versions'[Len(versions')].manifest = tx[x].manifest
      BY <3>3 DEF Version
    <3>5. versions' # <<>>
      <4>1. Len(<<>>) = 0 /\ Len(versions) + 1 # 0
        BY RowsTyped
      <4>. QED  BY <3>3, <4>1
    <3>6. Newest' = tx[x].manifest
      BY <3>4, <3>5 DEF Newest
    <3>7. Made \subseteq Transacting
      BY DEF Made, Transacting, Writing
    <3>. QED  BY <3>1, <3>2, <3>6, <3>7 DEF Alone
  <2>6. ASSUME NEW x \in Cutters, Others(x), Quiet, Same, Proceeds(x) PROVE Alone'
    <3>1. files' = files /\ files' = Newest'
      BY <2>2, <2>6, NewestStays DEF Quiet
    <3>2. \A y \in Cutters \ {x} : View(y)' = View(y)
      BY <2>6, <3>1 DEF Others, View
    <3>3. Carried(x) => View(x)' = View(x)
      BY <3>1 DEF Carried, View
    <3>4. ASSUME NEW n \in Numbers, x \in Apis, RestoreDelete(x, n)
          PROVE  tx'[x].manifest = View(x)'
      <4>1. /\ tx'[x].put = versions[n].manifest /\ tx'[x].manifest = versions[n].manifest
            /\ tx'[x].erased = Held(files)
        BY <3>4, RestoreDeleteDoes
      <4>2. versions[n].manifest \in Manifests
        BY RowsTyped
      <4>. DEFINE m == versions[n].manifest
                  gone == [p \in Paths |-> IF p \in Held(files) THEN None ELSE files[p]]
      <4>3. \A p \in Paths : gone[p] = None
        BY DEF Held
      <4>4. View(x)' = Over(gone, m)
        BY <3>1, <4>1 DEF View
      <4>. HIDE DEF m, gone
      <4>5. Over(gone, m) = [p \in Paths |-> m[p]]
        BY <4>3 DEF Over
      <4>6. m \in Manifests
        BY <4>2 DEF m
      <4>7. Over(gone, m) = m
        BY <4>5, <4>6 DEF Manifests
      <4>. QED  BY <4>1, <4>4, <4>7 DEF m
    <3>5. tx'[x].pc \in Made => tx'[x].manifest = View(x)'
      BY <2>2, <2>6, <3>3, <3>4 DEF Proceeds, Made, Collected
    <3>6. tx'[x].pc \in Transacting =>
            tx[x].pc \in Transacting \/ \A y \in Cutters \ {x} : tx[y].pc \notin Transacting
      <4>1. ReadFiles(x) => \A y \in Cutters \ {x} : tx[y].pc \notin Transacting
        BY DEF ReadFiles, Overlap
      <4>2. \A n \in Numbers : RestoreDelete(x, n) => \A y \in Cutters \ {x} : tx[y].pc \notin Transacting
        BY DEF RestoreDelete, Overlap
      <4>. QED  BY <2>6, <4>1, <4>2 DEF Proceeds, Collected, Transacting, Writing
    <3>7. \A y, z \in Cutters : tx'[y].pc \in Transacting /\ tx'[z].pc \in Transacting => y = z
      BY <2>2, <2>6, <3>6 DEF Others
    <3>8. \A y \in Cutters : tx'[y].pc \in Made => tx'[y].manifest = View(y)'
      BY <2>2, <2>6, <3>2, <3>5 DEF Others
    <3>. QED  BY <3>1, <3>7, <3>8 DEF Alone
  <2>. QED  BY <2>3, <2>4, <2>5, <2>6, TxSteps
<1>. QED  BY <1>1, <1>2

\* The manifest of the newest version is exactly the current files, after any sequence of
\* cuts, failed cuts, restores and lost processes; unless two were open at once, when each
\* may miss the files of the other (HeadIsFiles).
THEOREM NewestIsFiles == Spec => []HeadIsFiles
<1>1. Init => Alone
  <2>1. \A x \in Cutters : Init => tx[x].pc = "idle"
    BY DEF Init, NewTx
  <2>. QED  BY <2>1 DEF Init, Alone, Newest, Transacting, Writing, Made
<1>2. Alone => HeadIsFiles
  BY DEF Alone, HeadIsFiles, Newest, Last
<1>. QED  BY <1>1, <1>2, AloneStep, CoreInit, CoreStep, VersionsAssumption, PTL DEF Spec

-----------------------------------------------------------------------------
(* No work is forgotten.                                                   *)

\* Some version holds what the path p holds on the disk.
Saved(p) == \E n \in Numbers : versions[n].manifest[p] = disk[p]

\* What is on the disk is collected by every open task, but for what was written since it
\* listed the disk, or was saved before.
Kept ==
  /\ \A t \in Tasks : tx[t].pc \in Open =>
       \A p \in Held(disk) : \/ p \in behind \/ p \in tx[t].missed \/ p \in tx[t].since
                             \/ tx[t].put[p] = disk[p] \/ Saved(p)
  /\ \A t \in Tasks : tx[t].pc \in Made =>
       \A p \in Held(tx[t].put) : tx[t].manifest[p] = tx[t].put[p]
  /\ \A a \in Apis : tx[a].pc \in Open => versions # <<>>
  /\ \A p \in Held(disk) : p \in behind \/ versions = <<>> \/ p \in recent \/ Saved(p)

LEMMA SavedStays ==
  ASSUME Same \/ \E x : Adds(x), disk' = disk, NEW p, Saved(p)
  PROVE  Saved(p)'
  BY DEF Same, Adds, Saved

LEMMA EmptyStays == ASSUME TypeOK, Same PROVE versions' = <<>> <=> versions = <<>>
  BY RowsTyped, EmptySeq DEF Same

LEMMA KeptStep == Core /\ Kept /\ VersionsAssumption /\ [Next]_vars => Kept'
<1>1. ASSUME Kept, UNCHANGED vars PROVE Kept'
  <2>1. UNCHANGED <<disk, recent, versions, tx, behind>>
    BY <1>1 DEF vars, workspace, cutting, history
  <2>. QED  BY <1>1, <2>1 DEF Kept, Saved, Numbers, Held
<1>2. ASSUME Core, Kept, VersionsAssumption, Next PROVE Kept'
  <2>. USE <1>2 DEF Core
  <2>0. /\ \A t \in Tasks : t \in Cutters /\ t \notin Apis
        /\ \A a \in Apis : a \in Cutters /\ a \notin Tasks
        /\ \A x \in Cutters : x \in Tasks \/ x \in Apis
    BY DEF Cutters, VersionsAssumption
  <2>1. CASE tx' = tx /\ Quiet /\ Same
    <3>1. \A p : Saved(p) => Saved(p)'
      BY <2>1, SavedStays DEF Quiet
    <3>2. versions' = <<>> <=> versions = <<>>
      BY <2>1, EmptyStays
    <3>. QED  BY <2>1, <3>1, <3>2 DEF Kept, Quiet, Held
  <2>2. ASSUME NEW t \in Tasks, NEW f \in Paths, Write(t, f) PROVE Kept'
    <3>1. /\ disk' = [disk EXCEPT ![f] = t] /\ recent' = recent \cup {f} /\ versions' = versions
          /\ behind' = behind
      BY <2>2 DEF Write, history
    <3>2. \A p \in Paths \ {f} : disk'[p] = disk[p]
      BY <3>1 DEF TypeOK, Manifests
    <3>3. \A p \in Paths \ {f} : Saved(p) => Saved(p)'
      BY <3>1, <3>2 DEF Saved, Numbers
    <3>4. \A p \in Paths \ {f} : p \in Held(disk') => p \in Held(disk)
      BY <3>2 DEF Held
    <3>5. \A x \in Cutters :
            /\ tx'[x].pc = tx[x].pc /\ tx'[x].put = tx[x].put /\ tx'[x].manifest = tx[x].manifest
            /\ tx[x].since \subseteq tx'[x].since /\ tx[x].missed \subseteq tx'[x].missed
            /\ tx[x].pc \in Open => f \in tx'[x].since \cup tx'[x].missed
      BY <2>2, WriteDoes DEF Open
    <3>6. \A u \in Tasks : tx'[u].pc \in Open =>
            \A p \in Held(disk') : \/ p \in behind' \/ p \in tx'[u].missed \/ p \in tx'[u].since
                                   \/ tx'[u].put[p] = disk'[p] \/ Saved(p)'
      <4>. SUFFICES ASSUME NEW u \in Tasks, tx'[u].pc \in Open, NEW p \in Held(disk'), p # f
                    PROVE  \/ p \in behind' \/ p \in tx'[u].missed \/ p \in tx'[u].since
                           \/ tx'[u].put[p] = disk'[p] \/ Saved(p)'
        BY <2>0, <3>5
      <4>1. p \in Paths \ {f} /\ p \in Held(disk)
        BY <3>4 DEF Held
      <4>2. \/ p \in behind \/ p \in tx[u].missed \/ p \in tx[u].since
            \/ tx[u].put[p] = disk[p] \/ Saved(p)
        BY <2>0, <3>5, <4>1 DEF Kept
      <4>. QED  BY <2>0, <3>1, <3>2, <3>3, <3>5, <4>1, <4>2
    <3>7. \A u \in Tasks : tx'[u].pc \in Made =>
            \A p \in Held(tx'[u].put) : tx'[u].manifest[p] = tx'[u].put[p]
      BY <2>0, <3>5 DEF Kept
    <3>8. \A a \in Apis : tx'[a].pc \in Open => versions' # <<>>
      BY <2>0, <3>1, <3>5 DEF Kept
    <3>9. \A p \in Held(disk') : p \in behind' \/ versions' = <<>> \/ p \in recent' \/ Saved(p)'
      <4>. SUFFICES ASSUME NEW p \in Held(disk'), p # f
                    PROVE  p \in behind' \/ versions' = <<>> \/ p \in recent' \/ Saved(p)'
        BY <3>1
      <4>1. p \in Paths \ {f} /\ p \in Held(disk)
        BY <3>4 DEF Held
      <4>. QED  BY <3>1, <3>3, <4>1 DEF Kept
    <3>. QED  BY <3>6, <3>7, <3>8, <3>9 DEF Kept, Held
  <2>3. ASSUME NEW x \in Cutters, Commits(x) PROVE Kept'
    <3>1. /\ disk' = disk /\ recent' = tx[x].since
          /\ behind' = behind \cup tx[x].missed
                              \cup IF x \in Tasks THEN {} ELSE recent \ tx[x].since
      BY <2>3 DEF Commits, Commit
    <3>2. \A p : Saved(p) => Saved(p)'
      BY <2>3, <3>1, SavedStays DEF Commits
    <3>3. versions' # <<>>
      <4>1. Len(versions') = Len(versions) + 1 /\ Len(versions) + 1 # 0 /\ Len(<<>>) = 0
        BY <2>3, RowsTyped DEF Commits, Adds
      <4>. QED  BY <4>1
    <3>4. tx'[x].pc \notin Open /\ tx'[x].pc \notin Made
      BY <2>3 DEF Commits, Open, Made, Transacting, Writing
    <3>5. \A y \in Cutters \ {x} : tx'[y] = tx[y]
      BY <2>3 DEF Commits, Others
    <3>6. \A p : tx[x].manifest[p] = disk[p] => Saved(p)'
      <4>1. Len(versions) + 1 \in Numbers' /\ versions'[Len(versions) + 1].manifest = tx[x].manifest
        BY <2>3 DEF Commits, Adds, Version
      <4>. QED  BY <3>1, <4>1 DEF Saved
    <3>7. tx[x].pc \in Open /\ tx[x].pc \in Made
      BY <2>3 DEF Commits, Open, Made, Transacting, Writing
    <3>8. \A p \in Held(disk) : p \in behind' \/ p \in recent' \/ Saved(p)'
      <4>. SUFFICES ASSUME NEW p \in Held(disk), p \notin behind', p \notin recent' PROVE Saved(p)'
        OBVIOUS
      <4>1. p \in Paths /\ disk[p] # None
        BY DEF Held
      <4>2. CASE x \in Tasks
        <5>1. tx[x].put[p] = disk[p] \/ Saved(p)
          BY <3>1, <3>7, <4>2 DEF Kept
        <5>2. tx[x].put[p] = disk[p] => tx[x].manifest[p] = disk[p]
          BY <3>7, <4>1, <4>2 DEF Kept, Held
        <5>. QED  BY <3>2, <3>6, <5>1, <5>2
      <4>3. CASE x \notin Tasks
        <5>1. p \notin recent /\ p \notin behind
          BY <3>1, <4>3
        <5>2. versions # <<>>
          BY <2>0, <3>7, <4>3 DEF Kept
        <5>. QED  BY <3>2, <5>1, <5>2 DEF Kept
      <4>. QED  BY <4>2, <4>3
    <3>9. \A t \in Tasks : tx'[t].pc \in Open =>
            \A p \in Held(disk) : \/ p \in behind' \/ p \in tx'[t].missed \/ p \in tx'[t].since
                                  \/ tx'[t].put[p] = disk[p] \/ Saved(p)'
      <4>. SUFFICES ASSUME NEW t \in Tasks, tx'[t].pc \in Open, NEW p \in Held(disk)
                    PROVE  \/ p \in behind' \/ p \in tx'[t].missed \/ p \in tx'[t].since
                           \/ tx'[t].put[p] = disk[p] \/ Saved(p)'
        OBVIOUS
      <4>1. tx'[t] = tx[t]
        BY <2>0, <3>4, <3>5
      <4>. QED  BY <3>1, <3>2, <4>1 DEF Kept
    <3>10. \A t \in Tasks : tx'[t].pc \in Made =>
             \A p \in Held(tx'[t].put) : tx'[t].manifest[p] = tx'[t].put[p]
      BY <2>0, <3>4, <3>5 DEF Kept
    <3>. QED  BY <3>1, <3>3, <3>8, <3>9, <3>10 DEF Kept, Held
  <2>4. ASSUME NEW x \in Cutters, Others(x), Quiet, Same, Proceeds(x) PROVE Kept'
    <3>1. disk' = disk /\ recent' = recent /\ behind' = behind
      BY <2>4 DEF Quiet
    <3>2. \A p : Saved(p) => Saved(p)'
      BY <2>4, <3>1, SavedStays
    <3>3. versions' = <<>> <=> versions = <<>>
      BY <2>4, EmptyStays
    <3>4. \A y \in Cutters \ {x} : tx'[y] = tx[y]
      BY <2>4 DEF Others
    <3>5. ASSUME x \in Tasks, tx'[x].pc \in Open, NEW p \in Held(disk)
          PROVE  \/ p \in behind \/ p \in tx'[x].missed \/ p \in tx'[x].since
                 \/ tx'[x].put[p] = disk[p] \/ Saved(p)
      <4>1. CASE Collect(x) /\ Collected(x)
        <5>1. p \in Paths
          BY DEF Held
        <5>2. CASE p \in Collectable(x)
          BY <4>1, <5>1, <5>2 DEF Collected
        <5>3. CASE p \notin Collectable(x)
          BY <3>5, <5>3 DEF Collectable, Kept
        <5>. QED  BY <5>2, <5>3
      <4>2. CASE Carried(x) /\ tx[x].pc \in Open
        BY <3>5, <4>2 DEF Carried, Kept
      <4>3. (Collect(x) /\ Collected(x)) \/ (Carried(x) /\ tx[x].pc \in Open)
        BY <2>0, <2>4, <3>5 DEF Proceeds, Open, Transacting, Writing
      <4>. QED  BY <4>1, <4>2, <4>3
    <3>6. ASSUME x \in Tasks, tx'[x].pc \in Made, NEW p \in Held(tx'[x].put)
          PROVE  tx'[x].manifest[p] = tx'[x].put[p]
      <4>1. CASE Carried(x) /\ tx'[x].manifest = View(x)
        <5>1. p \in Paths /\ tx[x].put[p] # None /\ tx'[x].put = tx[x].put
          BY <3>6, <4>1 DEF Held, Carried
        <5>. QED  BY <4>1, <5>1 DEF View, Over
      <4>2. CASE Carried(x) /\ tx'[x].manifest = tx[x].manifest /\ tx[x].pc \in Made
        BY <3>6, <4>2 DEF Carried, Kept
      <4>3. \/ Carried(x) /\ tx'[x].manifest = View(x)
            \/ Carried(x) /\ tx'[x].manifest = tx[x].manifest /\ tx[x].pc \in Made
        BY <2>0, <2>4, <3>6 DEF Proceeds, Made, Collected
      <4>. QED  BY <4>1, <4>2, <4>3
    <3>7. ASSUME x \in Apis, tx'[x].pc \in Open PROVE versions # <<>>
      <4>1. CASE \E n \in Numbers : RestoreDelete(x, n)
        <5>1. Len(<<>>) = 0
          OBVIOUS
        <5>. QED  BY <4>1, <5>1 DEF Numbers
      <4>2. CASE tx[x].pc \in Open
        BY <3>7, <4>2 DEF Kept
      <4>. QED  BY <2>0, <2>4, <3>7, <4>1, <4>2 DEF Proceeds, Open, Transacting, Writing
    <3>8. \A t \in Tasks : tx'[t].pc \in Open =>
            \A p \in Held(disk) : \/ p \in behind \/ p \in tx'[t].missed \/ p \in tx'[t].since
                                  \/ tx'[t].put[p] = disk[p] \/ Saved(p)
      BY <2>0, <3>4, <3>5 DEF Kept
    <3>9. \A t \in Tasks : tx'[t].pc \in Made =>
            \A p \in Held(tx'[t].put) : tx'[t].manifest[p] = tx'[t].put[p]
      BY <2>0, <3>4, <3>6 DEF Kept
    <3>10. \A a \in Apis : tx'[a].pc \in Open => versions' # <<>>
      BY <2>0, <3>3, <3>4, <3>7 DEF Kept
    <3>11. \A p \in Held(disk) : p \in behind \/ versions' = <<>> \/ p \in recent \/ Saved(p)'
      BY <3>2, <3>3 DEF Kept
    <3>. QED  BY <3>1, <3>2, <3>8, <3>9, <3>10, <3>11 DEF Kept, Held
  <2>. QED  BY <2>1, <2>2, <2>3, <2>4, TxSteps
<1>. QED  BY <1>1, <1>2

\* Whatever runs fail, are lost or are rolled back, a file on the disk is in a version or
\* will be collected by the next run; unless it was written between a listing and its cut,
\* or lay uncollected when an old version was restored (NothingForgotten).
THEOREM WorkIsFound == Spec => []NothingForgotten
<1>1. Init => Kept
  <2>1. \A x \in Cutters : Init => tx[x].pc = "idle"
    BY DEF Init, NewTx
  <2>2. Init => Held(disk) = {}
    BY DEF Init, Held, Empty
  <2>. QED  BY <2>1, <2>2 DEF Kept, Open, Transacting, Writing, Made, Cutters
<1>2. Kept => NothingForgotten
  BY DEF Kept, NothingForgotten, Saved, Numbers
<1>. QED  BY <1>1, <1>2, KeptStep, CoreInit, CoreStep, VersionsAssumption, PTL DEF Spec

-----------------------------------------------------------------------------
(* What the repository shows.                                              *)

\* A push of the API process a: a backfill that begins, lists, goes on or ends, or a
\* deployment.
Filling == {"list"} \cup Sending

Fills(a) ==
  \/ push'[a].pc \notin Filling \cup {"repo"}
  \/ RequestRepo(a) /\ push'[a].pc = "repo"
  \/ CreateRepo(a) /\ push'[a].pc = "list"
  \/ /\ Backfill(a) /\ push[a].pc = "list" /\ push'[a].pc = "start"
     /\ Len(push'[a].rest) = Len(Unpushed)
     /\ \A k \in 1..Len(Unpushed) :
          Unpushed[k] \in Numbers /\ push'[a].rest[k] = versions[Unpushed[k]].id
  \/ push[a].pc \in Sending /\ GoesFurther(a)
  \/ push[a].pc \in Sending /\ push'[a].pc \in Sending /\ push'[a].rest = push[a].rest

LEMMA FillSteps ==
  ASSUME Core, VersionsAssumption, Next
  PROVE  \/ push' = push
         \/ \E q \in Processes : OtherPushes(q) /\ (q \in Apis => Fills(q))
<1>. USE DEF Core
<1>. SUFFICES ASSUME NEW q \in Processes, OtherPushes(q), q \in Apis,
                     \/ RequestRepo(q) \/ TokenFails(q) \/ CreateRepo(q) \/ Backfill(q)
                     \/ Deploy(q) \/ Ship(q) \/ ShipFails(q) \/ Deployed(q)
                     \/ TakeJob(q) \/ Skip(q) \/ StartPush(q) \/ Land(q) \/ Mark(q)
                     \/ PushRaises(q) \/ PusherLost(q)
              PROVE  Fills(q)
  BY PushSteps
<1>. USE DEF Filling, Sending
<1>1. CASE RequestRepo(q)
  <2>1. push' = [push EXCEPT ![q].pc = "repo"]
    BY <1>1 DEF RequestRepo
  <2>. QED  BY <1>1, <2>1, PcDoes DEF PushPcs, Fills
<1>2. CASE CreateRepo(q)
  <2>1. push' = [push EXCEPT ![q].pc = "list"]
    BY <1>2 DEF CreateRepo
  <2>. QED  BY <1>2, <2>1, PcDoes DEF PushPcs, Fills
<1>3. CASE Ship(q)
  <2>1. push' = [push EXCEPT ![q].pc = "deployed"]
    BY <1>3 DEF Ship
  <2>. QED  BY <2>1, PcDoes DEF PushPcs, Fills
<1>4. CASE TokenFails(q) \/ ShipFails(q) \/ Deployed(q) \/ PushRaises(q) \/ PusherLost(q)
  <2>1. push' = [push EXCEPT ![q] = NoPush]
    BY <1>4 DEF TokenFails, ShipFails, Deployed, PushRaises, PusherLost
  <2>. QED  BY <2>1, ResetDoes DEF Fills
<1>5. CASE Backfill(q)
  BY <1>5, BackfillDoes DEF Backfill, Fills
<1>6. CASE Deploy(q)
  BY <1>6, DeployDoes DEF Fills
<1>7. CASE TakeJob(q)
  BY <1>7 DEF TakeJob, VersionsAssumption
<1>8. CASE Skip(q) \/ Mark(q)
  <2>1. /\ push[q].rest # <<>> /\ push[q].pc \in Sending
        /\ push' = [push EXCEPT ![q] = Following(q)]
    BY <1>8 DEF Skip, Mark, Sends, SendOK
  <2>. QED  BY <2>1, FollowingDoes DEF Fills
<1>9. CASE StartPush(q)
  BY <1>9, StartPushDoes DEF StartPush, Fills
<1>10. CASE Land(q)
  BY <1>10, LandDoes DEF Fills
<1>. QED  BY <1>1, <1>2, <1>3, <1>4, <1>5, <1>6, <1>7, <1>8, <1>9, <1>10

\* There is one backfill at a time, and after it the project has a repository.
OneBackfill ==
  /\ \A a \in Apis : push[a].pc = "repo" => linked = "connected"
  /\ \A a \in Apis : push[a].pc \in Filling => linked = "repo"
  /\ \A a, b \in Apis :
       push[a].pc \in Filling \cup {"repo"} /\ push[b].pc \in Filling \cup {"repo"} => a = b

LEMMA OneBackfillStep ==
  ASSUME Core, OneBackfill, VersionsAssumption, Next
  PROVE  OneBackfill'
<1>. USE DEF Core
<1>0. \A a \in Apis : a \in Processes
  BY DEF Processes
<1>1. CASE Connect
  BY <1>1 DEF Connect, OneBackfill, Filling, Sending
<1>2. ASSUME NEW a \in Apis, CreateRepo(a) PROVE OneBackfill'
  <2>1. /\ push' = [push EXCEPT ![a].pc = "list"] /\ push[a].pc = "repo" /\ linked' = "repo"
    BY <1>2 DEF CreateRepo
  <2>2. /\ push'[a].pc = "list" /\ \A b \in Apis \ {a} : push'[b] = push[b]
    BY <1>0, <2>1, PcDoes DEF PushPcs, OtherPushes
  <2>3. \A b \in Apis \ {a} : push'[b].pc \notin Filling \cup {"repo"}
    BY <2>1, <2>2 DEF OneBackfill
  <2>. QED  BY <2>1, <2>2, <2>3 DEF OneBackfill
<1>3. CASE linked' = linked /\ ~ \E a \in Apis : CreateRepo(a)
  <2>1. CASE push' = push
    BY <1>3, <2>1 DEF OneBackfill
  <2>2. ASSUME NEW q \in Processes, OtherPushes(q), q \in Apis => Fills(q)
        PROVE  OneBackfill'
    <3>1. \A b \in Apis \ {q} : push'[b] = push[b]
      BY <1>0, <2>2 DEF OtherPushes
    <3>2. CASE q \notin Apis \/ push'[q].pc \notin Filling \cup {"repo"}
      BY <1>3, <3>1, <3>2 DEF OneBackfill
    <3>3. CASE q \in Apis /\ RequestRepo(q) /\ push'[q].pc = "repo"
      <4>1. linked = "connected" /\ \A b \in Apis : push[b].pc # "repo"
        BY <3>3 DEF RequestRepo
      <4>2. \A b \in Apis : push[b].pc \notin Filling
        BY <4>1 DEF OneBackfill
      <4>3. "repo" \notin Filling
        BY DEF Filling, Sending
      <4>. QED  BY <1>3, <3>1, <3>3, <4>1, <4>2, <4>3 DEF OneBackfill
    <3>4. CASE q \in Apis /\ push[q].pc \in Filling /\ push'[q].pc \in Filling
      <4>1. "repo" \notin Filling
        BY DEF Filling, Sending
      <4>. QED  BY <1>3, <3>1, <3>4, <4>1 DEF OneBackfill
    <3>. QED
      BY <1>3, <2>2, <3>2, <3>3, <3>4 DEF Fills, GoesFurther, Filling, Sending
  <2>. QED  BY <2>1, <2>2, FillSteps
<1>. QED  BY <1>1, <1>2, <1>3, Changes

\* The number of a version that is committed, and what it holds, stay.
LEMMA NumbersStay ==
  ASSUME Core, VersionsAssumption, Next
  PROVE  /\ \A id : Committed(id) => Committed(id)' /\ No(id)' = No(id)
         /\ \A n \in Numbers : n \in Numbers' /\ versions'[n].manifest = versions[n].manifest
<1>. USE DEF Core
<1>1. Grows /\ Ids'
  BY GrowsAlways, IdsStep
<1>2. ASSUME NEW id, Committed(id) PROVE Committed(id)' /\ No(id)' = No(id)
  <2>1. No(id) \in Numbers /\ versions[No(id)].id = id
    BY <1>2, NoIs
  <2>2. No(id) \in Numbers' /\ versions'[No(id)].id = id
    BY <1>1, <2>1 DEF Grows
  <2>3. Committed(id)'
    BY <2>2 DEF Committed, Numbers
  <2>4. No(id)' \in Numbers' /\ versions'[No(id)'].id = id
    BY <2>3 DEF Committed, No, Numbers
  <2>5. \A m, n \in Numbers' : versions'[m].id = versions'[n].id => m = n
    BY <1>1 DEF Ids
  <2>. QED  BY <2>2, <2>3, <2>4, <2>5
<1>3. \A n \in Numbers : n \in Numbers' /\ versions'[n].manifest = versions[n].manifest
  BY VersionsGrow DEF Same, Adds
<1>. QED  BY <1>2, <1>3

LEMMA NoOf ==
  ASSUME Ids, NEW n \in Numbers
  PROVE  Committed(versions[n].id) /\ No(versions[n].id) = n
<1>1. Committed(versions[n].id)
  BY DEF Committed, Numbers
<1>. QED  BY <1>1, NoIs DEF Ids

-----------------------------------------------------------------------------
\* Every commit is of a version that is committed.
CommitsKnown == \A k \in 1..Len(branch.commits) : Committed(branch.commits[k].id)

\* The branch has no commit of a backfill before there is a list.
OnlyJobs ==
  linked # "repo" \/ (\E a \in Apis : push[a].pc = "list")
  => \A k \in 1..Len(branch.commits) : branch.commits[k].job

\* A list of versions by number, after those that backfills have pushed.
Orderly(rest) ==
  /\ Len(rest) \in Nat /\ Len(rest) # 0
  /\ \A i \in 1..Len(rest) : Committed(rest[i])
  /\ \A i, j \in 1..Len(rest) : i < j => No(rest[i]) < No(rest[j])
  /\ \A k \in 1..Len(branch.commits) :
       branch.commits[k].job \/ No(branch.commits[k].id) <= No(rest[1])

InOrder == \A a \in Apis : push[a].pc \in Sending => Orderly(push[a].rest)

Backfills == OneBackfill /\ CommitsKnown /\ OnlyJobs /\ InOrder

LEMMA CommitsKnownStep ==
  ASSUME Core, CommitsKnown, VersionsAssumption, Next
  PROVE  CommitsKnown'
<1>. USE DEF Core
<1>1. \A id : Committed(id) => Committed(id)'
  BY NumbersStay
<1>2. CASE branch' = branch
  BY <1>1, <1>2 DEF CommitsKnown
<1>3. ASSUME NEW q \in Processes, Land(q) PROVE CommitsKnown'
  <2>1. /\ Len(branch'.commits) = Len(branch.commits) + 1 /\ Len(branch.commits) \in Nat
        /\ \A k \in 1..Len(branch.commits) : branch'.commits[k] = branch.commits[k]
        /\ branch'.commits[Len(branch.commits) + 1] = [id |-> push[q].id, job |-> q \in Pushers]
        /\ Committed(push[q].id)
    BY <1>3, LandDoes
  <2>2. \A k \in 1..Len(branch'.commits) : Committed(branch'.commits[k].id)
    <3>1. \A k \in 1..Len(branch'.commits) : k \in 1..Len(branch.commits) \/ k = Len(branch.commits) + 1
      BY <2>1
    <3>2. branch'.commits[Len(branch.commits) + 1].id = push[q].id
      BY <2>1
    <3>. QED  BY <2>1, <3>1, <3>2 DEF CommitsKnown
  <2>3. \A k \in 1..Len(branch'.commits) : \A id : id = branch'.commits[k].id => Committed(id)'
    BY <1>1, <2>2
  <2>. QED  BY <2>3 DEF CommitsKnown
<1>. QED  BY <1>2, <1>3, Changes

LEMMA OnlyJobsStep ==
  ASSUME Core, OneBackfill, OnlyJobs, VersionsAssumption, Next
  PROVE  OnlyJobs'
<1>. USE DEF Core
<1>1. OneBackfill'
  BY OneBackfillStep
<1>2. ASSUME linked' # "repo" \/ \E a \in Apis : push'[a].pc = "list"
      PROVE  linked # "repo" \/ \E a \in Apis : push[a].pc = "list"
  <2>1. CASE linked' # "repo"
    BY <2>1, Changes DEF CreateRepo, Connect
  <2>2. ASSUME NEW a \in Apis, push'[a].pc = "list", linked = "repo"
        PROVE  push[a].pc = "list"
    <3>1. linked # "connected"
      BY <2>2
    <3>2. ~CreateRepo(a)
      BY <3>1 DEF CreateRepo, OneBackfill
    <3>3. a \in Processes
      BY DEF Processes
    <3>. QED
      BY <2>2, <3>2, <3>3, FillSteps DEF OtherPushes, Fills, GoesFurther, Filling, Sending
  <2>. QED  BY <1>2, <2>1, <2>2
<1>3. CASE branch' = branch
  BY <1>2, <1>3 DEF OnlyJobs
<1>4. ASSUME NEW q \in Processes, Land(q),
             linked' # "repo" \/ \E a \in Apis : push'[a].pc = "list",
             NEW k \in 1..Len(branch'.commits)
      PROVE  branch'.commits[k].job
  <2>1. /\ Len(branch'.commits) = Len(branch.commits) + 1 /\ Len(branch.commits) \in Nat
        /\ \A l \in 1..Len(branch.commits) : branch'.commits[l] = branch.commits[l]
        /\ branch'.commits[Len(branch.commits) + 1] = [id |-> push[q].id, job |-> q \in Pushers]
        /\ push[q].pc = "land" /\ push'[q].pc = "mark"
    BY <1>4, LandDoes
  <2>2. q \notin Apis
    BY <1>1, <1>4, <2>1 DEF OneBackfill, Filling, Sending
  <2>3. q \in Pushers
    BY <2>2 DEF Processes
  <2>4. \A l \in 1..Len(branch.commits) : branch.commits[l].job
    BY <1>2, <1>4 DEF OnlyJobs
  <2>5. k \in 1..Len(branch.commits) \/ k = Len(branch.commits) + 1
    BY <2>1
  <2>6. [id |-> push[q].id, job |-> q \in Pushers].job
    BY <2>3, Zenon
  <2>. QED  BY <2>1, <2>4, <2>5, <2>6
<1>. QED  BY <1>3, <1>4, Changes DEF OnlyJobs

\* What a process has left to push after a step is a list in order.
LEMMA ListInOrder ==
  ASSUME Core, Backfills, VersionsAssumption, Next, NEW a \in Apis, push'[a].pc \in Sending
  PROVE  Orderly(push'[a].rest)
<1>. USE DEF Core, Backfills
<1>1. a \in Processes
  BY DEF Processes
<1>2. CASE push'[a].rest = push[a].rest /\ push[a].pc \in Sending
  BY <1>2 DEF InOrder
<1>3. CASE push[a].pc \in Sending /\ GoesFurther(a)
  <2>. DEFINE old == push[a].rest
              new == push'[a].rest
  <2>1. Orderly(old)
    BY <1>3 DEF InOrder
  <2>2. /\ Len(new) = Len(old) - 1 /\ Len(old) > 1
        /\ \A k \in 1..Len(new) : new[k] = old[k + 1]
    BY <1>3 DEF GoesFurther
  <2>. HIDE DEF old, new
  <2>3. /\ Len(old) \in Nat /\ Len(new) \in Nat /\ Len(new) # 0 /\ 1 \in 1..Len(new)
        /\ \A k \in 1..Len(new) : k + 1 \in 1..Len(old)
        /\ 1 \in 1..Len(old) /\ 2 \in 1..Len(old) /\ new[1] = old[2]
    BY <2>1, <2>2 DEF Orderly
  <2>4. \A i \in 1..Len(new) : Committed(new[i])
    BY <2>1, <2>2, <2>3 DEF Orderly
  <2>5. \A i, j \in 1..Len(new) : i < j => No(new[i]) < No(new[j])
    <3>. SUFFICES ASSUME NEW i \in 1..Len(new), NEW j \in 1..Len(new), i < j
                  PROVE  No(old[i + 1]) < No(old[j + 1])
      BY <2>2
    <3>1. i + 1 \in 1..Len(old) /\ j + 1 \in 1..Len(old) /\ i + 1 < j + 1
      BY <2>3
    <3>. QED  BY <2>1, <3>1 DEF Orderly
  <2>6. \A k \in 1..Len(branch.commits) :
          branch.commits[k].job \/ No(branch.commits[k].id) <= No(new[1])
    <3>1. No(old[1]) < No(old[2])
      BY <2>1, <2>3 DEF Orderly
    <3>2. No(old[1]) \in Nat /\ No(old[2]) \in Nat
      BY <2>1, <2>3, NoIs DEF Orderly, Numbers
    <3>3. \A k \in 1..Len(branch.commits) : No(branch.commits[k].id) \in Nat
      BY NoIs DEF CommitsKnown, Numbers
    <3>. QED  BY <2>1, <2>3, <3>1, <3>2, <3>3 DEF Orderly
  <2>7. Orderly(new)
    BY <2>3, <2>4, <2>5, <2>6 DEF Orderly
  <2>. QED  BY <2>7 DEF new
<1>4. CASE /\ push[a].pc = "list" /\ push'[a].pc = "start"
           /\ Len(push'[a].rest) = Len(Unpushed)
           /\ \A k \in 1..Len(Unpushed) :
                Unpushed[k] \in Numbers /\ push'[a].rest[k] = versions[Unpushed[k]].id
  <2>. DEFINE list == Unpushed
              new == push'[a].rest
  <2>1. Rises(list, Len(versions), versions)
    BY UnpushedRises
  <2>2. /\ Len(new) = Len(list)
        /\ \A k \in 1..Len(new) : list[k] \in Numbers /\ new[k] = versions[list[k]].id
    BY <1>4
  <2>3. Len(list) \in Nat /\ Len(list) # 0
    <3>1. list \in Seq(Nat)
      BY <2>1 DEF Rises
    <3>2. new # <<>> /\ Len(new) \in Nat /\ new \in Seq(Cuts)
      <4>1. push' \in [Processes -> Pushes] /\ Sends'
        BY PushesTyped, SendsStep
      <4>2. new \in Seq(Cuts)
        BY <1>1, <4>1 DEF Pushes
      <4>3. new # <<>>
        BY <1>1, <4>1 DEF Sends, SendOK
      <4>. QED  BY <4>2, <4>3
    <3>3. Len(new) # 0
      BY <3>2, EmptySeq
    <3>. QED  BY <2>2, <3>1, <3>3
  <2>. HIDE DEF list, new
  <2>4. \A k \in 1..Len(new) : Committed(new[k]) /\ No(new[k]) = list[k]
    BY <2>2, NoOf
  <2>5. \A i, j \in 1..Len(new) : i < j => No(new[i]) < No(new[j])
    BY <2>1, <2>2, <2>4 DEF Rises
  <2>6. \A k \in 1..Len(branch.commits) : branch.commits[k].job
    BY <1>4 DEF OnlyJobs
  <2>7. Orderly(new)
    BY <2>2, <2>3, <2>4, <2>5, <2>6 DEF Orderly
  <2>. QED  BY <2>7 DEF new
<1>5. push' = push \/ push'[a] = push[a] \/ Fills(a)
  BY <1>1, FillSteps DEF OtherPushes
<1>6. \/ push'[a].rest = push[a].rest /\ push[a].pc \in Sending
      \/ push[a].pc \in Sending /\ GoesFurther(a)
      \/ /\ push[a].pc = "list" /\ push'[a].pc = "start"
         /\ Len(push'[a].rest) = Len(Unpushed)
         /\ \A k \in 1..Len(Unpushed) :
              Unpushed[k] \in Numbers /\ push'[a].rest[k] = versions[Unpushed[k]].id
  BY <1>5 DEF Fills, Filling, Sending
<1>. QED  BY <1>2, <1>3, <1>4, <1>6

LEMMA OrderlyStays ==
  ASSUME Core, CommitsKnown, VersionsAssumption, Next, NEW s, Orderly(s),
         \A q \in Processes : Land(q) => q \in Pushers \/ push[q].id = s[1]
  PROVE  Orderly(s)'
<1>. USE DEF Core
<1>1. ASSUME NEW id PROVE Committed(id) => Committed(id)' /\ No(id)' = No(id)
  BY NumbersStay
<1>2. \A i \in 1..Len(s) : Committed(s[i])' /\ No(s[i])' = No(s[i])
  BY <1>1 DEF Orderly
<1>3. 1 \in 1..Len(s) /\ No(s[1]) \in Nat
  BY NoIs DEF Orderly, Numbers
<1>4. \A k \in 1..Len(branch'.commits) :
        \/ branch'.commits[k].job
        \/ Committed(branch'.commits[k].id) /\ No(branch'.commits[k].id) <= No(s[1])
  <2>1. CASE branch' = branch
    BY <2>1 DEF Orderly, CommitsKnown
  <2>2. ASSUME NEW q \in Processes, Land(q), NEW k \in 1..Len(branch'.commits)
        PROVE  \/ branch'.commits[k].job
               \/ Committed(branch'.commits[k].id) /\ No(branch'.commits[k].id) <= No(s[1])
    <3>1. /\ Len(branch'.commits) = Len(branch.commits) + 1 /\ Len(branch.commits) \in Nat
          /\ \A l \in 1..Len(branch.commits) : branch'.commits[l] = branch.commits[l]
          /\ branch'.commits[Len(branch.commits) + 1] = [id |-> push[q].id, job |-> q \in Pushers]
          /\ Committed(push[q].id)
      BY <2>2, LandDoes
    <3>2. k \in 1..Len(branch.commits) \/ k = Len(branch.commits) + 1
      BY <3>1
    <3>3. CASE k \in 1..Len(branch.commits)
      BY <3>1, <3>3 DEF Orderly, CommitsKnown
    <3>4. CASE k = Len(branch.commits) + 1 /\ q \in Pushers
      <4>1. [id |-> push[q].id, job |-> q \in Pushers].job
        BY <3>4, Zenon
      <4>. QED  BY <3>1, <3>4, <4>1
    <3>5. CASE k = Len(branch.commits) + 1 /\ push[q].id = s[1]
      <4>1. branch'.commits[k].id = s[1]
        BY <3>1, <3>5
      <4>. QED  BY <1>3, <3>1, <3>5, <4>1
    <3>. QED  BY <2>2, <3>2, <3>3, <3>4, <3>5
  <2>. QED  BY <2>1, <2>2, Changes
<1>5. \A k \in 1..Len(branch'.commits) :
        branch'.commits[k].job \/ No(branch.commits[k].id)' <= No(s[1])'
  <2>1. \A id : Committed(id) => No(id)' = No(id)
    BY <1>1
  <2>2. \A k \in 1..Len(branch'.commits) :
          Committed(branch'.commits[k].id) => No(branch.commits[k].id)' = No(branch'.commits[k].id)
    BY <2>1 DEF No
  <2>. QED  BY <1>2, <1>3, <1>4, <2>2
<1>. QED  BY <1>2, <1>5 DEF Orderly

LEMMA InOrderStep ==
  ASSUME Core, Backfills, VersionsAssumption, Next
  PROVE  InOrder'
<1>. USE DEF Core, Backfills
<1>1. ASSUME NEW a \in Apis, push'[a].pc \in Sending, NEW s, s = push'[a].rest
      PROVE  Orderly(s)'
  <2>1. Orderly(s)
    BY <1>1, ListInOrder
  <2>2. ASSUME NEW q \in Processes, Land(q), q \notin Pushers PROVE push[q].id = s[1]
    <3>1. q \in Apis /\ push'[q].pc = "mark" /\ push'[q].rest = push[q].rest /\ push[q].id = push[q].rest[1]
      BY <2>2, LandDoes DEF Processes
    <3>2. OneBackfill'
      BY OneBackfillStep
    <3>3. a = q
      BY <1>1, <3>1, <3>2 DEF OneBackfill, Filling, Sending
    <3>. QED  BY <1>1, <3>1, <3>3
  <2>. QED  BY <2>1, <2>2, OrderlyStays
<1>2. ASSUME NEW a \in Apis, push'[a].pc \in Sending PROVE Orderly(push[a].rest)'
  <2>1. \A s : s = push'[a].rest => Orderly(s)'
    BY <1>1, <1>2
  <2>. QED  BY <2>1 DEF Orderly
<1>. QED  BY <1>2 DEF InOrder

\* The tree m is what the version n holds, and files of others.
Shows(m, n) == \A p \in Held(versions[n].manifest) : m[p] = versions[n].manifest[p]

\* Unless a job has landed out of order, commits go by number and the branch shows the
\* version of the last one.
Shown ==
  ~late =>
    /\ \A k, l \in 1..Len(branch.commits) :
         k < l => No(branch.commits[k].id) <= No(branch.commits[l].id)
    /\ Len(branch.commits) # 0 =>
         Shows(branch.tree, No(branch.commits[Len(branch.commits)].id))

LEMMA ShownStep ==
  ASSUME Core, Backfills, Shown, VersionsAssumption, Next
  PROVE  Shown'
<1>. USE DEF Core, Backfills
<1>1. \A id : Committed(id) => No(id) \in Numbers /\ No(id) \in Nat /\ No(id)' = No(id)
  BY NumbersStay, NoIs DEF Numbers
<1>2. \A n \in Numbers : versions'[n].manifest = versions[n].manifest
  BY NumbersStay
<1>3. CASE branch' = branch /\ late' = late
  <2>1. \A k \in 1..Len(branch.commits) : No(branch.commits[k].id) \in Numbers
    BY <1>1 DEF CommitsKnown
  <2>3. \A k \in 1..Len(branch'.commits) : No(branch.commits[k].id)' = No(branch'.commits[k].id)
    <3>1. \A k \in 1..Len(branch'.commits) : Committed(branch'.commits[k].id)
      BY <1>3 DEF CommitsKnown
    <3>2. \A i : Committed(i) => No(i)' = No(i)
      BY <1>1
    <3>. QED  BY <3>1, <3>2 DEF No
  <2>2. Len(branch.commits) # 0 => Len(branch.commits) \in 1..Len(branch.commits)
    <3>1. branch.commits \in Seq([id: Cuts, job: BOOLEAN])
      BY DEF TypeOK
    <3>2. Len(branch.commits) \in Nat
      BY <3>1
    <3>. QED  BY <3>2
  <2>. QED  BY <1>2, <1>3, <2>1, <2>2, <2>3 DEF Shown, Shows
<1>4. ASSUME NEW q \in Processes, Land(q), ~late' PROVE Shown'
  <2>. DEFINE head == Len(branch.commits)
              id == push[q].id
              n == No(id)
              m == versions[n].manifest
  <2>1. /\ Len(branch'.commits) = head + 1 /\ head \in Nat
        /\ \A l \in 1..head : branch'.commits[l] = branch.commits[l]
        /\ branch'.commits[head + 1] = [id |-> id, job |-> q \in Pushers]
        /\ Committed(id) /\ push[q].pc = "land" /\ id = push[q].rest[1]
        /\ branch'.tree = Over(branch.tree, m)
    BY <1>4, LandDoes
  <2>2. /\ ~late
        /\ \A k \in 1..head :
             ~(No(branch.commits[k].id) > n /\ (branch.commits[k].job \/ q \in Pushers))
    BY <1>4 DEF Land, Upload
  <2>3. \A k \in 1..head :
          q \notin Pushers => branch.commits[k].job \/ No(branch.commits[k].id) <= n
    BY <2>1 DEF InOrder, Orderly, Processes, Sending
  <2>4. n \in Nat /\ n \in Numbers /\ \A k \in 1..head : No(branch.commits[k].id) \in Nat
    BY <1>1, <2>1 DEF CommitsKnown
  <2>. HIDE DEF n, m, id, head
  <2>5. \A k \in 1..head : No(branch.commits[k].id) <= n
    BY <2>2, <2>3, <2>4
  <2>6. branch'.commits[head + 1].id = id
    BY <2>1
  <2>7. \A k \in 1..(head + 1) : k \in 1..head \/ k = head + 1
    BY <2>1
  \* The numbers of the commits after the step, in the state before it.
  <2>8. \A k \in 1..(head + 1) :
          Committed(branch'.commits[k].id) /\ No(branch.commits[k].id)' = No(branch'.commits[k].id)
    <3>1. \A k \in 1..(head + 1) : Committed(branch'.commits[k].id)
      BY <2>1, <2>6, <2>7 DEF CommitsKnown, head
    <3>2. \A i : Committed(i) => No(i)' = No(i)
      BY <1>1
    <3>. QED  BY <3>1, <3>2 DEF No
  <2>9. \A k \in 1..head : No(branch'.commits[k].id) = No(branch.commits[k].id)
    BY <2>1
  <2>10. No(branch'.commits[head + 1].id) = n
    BY <2>6 DEF n
  <2>11. \A k, l \in 1..head :
           k < l => No(branch.commits[k].id) <= No(branch.commits[l].id)
    BY <2>2 DEF Shown, head
  <2>12. \A k, l \in 1..(head + 1) :
           k < l => No(branch'.commits[k].id) <= No(branch'.commits[l].id)
    <3>. SUFFICES ASSUME NEW k \in 1..(head + 1), NEW l \in 1..(head + 1), k < l
                  PROVE  No(branch'.commits[k].id) <= No(branch'.commits[l].id)
      OBVIOUS
    <3>1. k \in 1..head /\ (l \in 1..head \/ l = head + 1)
      BY <2>1
    <3>. QED  BY <2>5, <2>9, <2>10, <2>11, <3>1
  <2>13. \A p \in Held(versions'[n].manifest) : branch'.tree[p] = versions'[n].manifest[p]
    <3>1. versions'[n].manifest = m
      BY <1>2, <2>4 DEF m
    <3>2. \A p \in Held(m) : Over(branch.tree, m)[p] = m[p]
      BY DEF Held, Over
    <3>. QED  BY <2>1, <3>1, <3>2
  <2>14. head + 1 \in 1..(head + 1)
    BY <2>1
  <2>15. \A k : k = head + 1 => No(branch.commits[k].id)' = n
    BY <2>8, <2>10, <2>14
  <2>16. Shows(branch.tree, No(branch.commits[Len(branch.commits)].id))'
    <3>1. No(branch.commits[Len(branch.commits)].id)' = n
      BY <2>1, <2>15
    <3>. QED  BY <2>13, <3>1 DEF Shows
  <2>17. \A k, l \in 1..Len(branch'.commits) :
           k < l => No(branch.commits[k].id)' <= No(branch.commits[l].id)'
    BY <2>1, <2>8, <2>12
  <2>. QED  BY <2>16, <2>17 DEF Shown
<1>5. CASE late'
  BY <1>5 DEF Shown
<1>. QED  BY <1>3, <1>4, <1>5, Changes

\* When every version counts as pushed the repository shows the newest one, however
\* backfills, jobs, retries and refused pushes were interleaved; unless a job has put an
\* older one on top of it (RepoShowsHead).
THEOREM NewestIsShown == Spec => []RepoShowsHead
<1>1. Init => Backfills /\ Shown
  <2>1. Len(<<>>) = 0
    OBVIOUS
  <2>2. Init => \A a \in Apis : push[a].pc = "idle"
    BY DEF Init, NoPush
  <2>. QED
    BY <2>1, <2>2 DEF Init, Backfills, OneBackfill, CommitsKnown, OnlyJobs, InOrder, Shown, Filling,
                      Sending
<1>2. Core /\ Backfills /\ VersionsAssumption /\ [Next]_vars => Backfills'
  <2>1. ASSUME Backfills, UNCHANGED vars PROVE Backfills'
    <3>1. linked' = linked /\ push' = push /\ branch' = branch /\ versions' = versions
      BY <2>1 DEF vars, cutting, github
    <3>2. OneBackfill' /\ OnlyJobs' /\ CommitsKnown'
      BY <2>1, <3>1 DEF Backfills, OneBackfill, CommitsKnown, OnlyJobs, Committed
    <3>3. InOrder'
      BY <2>1, <3>1 DEF Backfills, InOrder, Orderly, Committed, No
    <3>. QED  BY <3>2, <3>3 DEF Backfills
  <2>2. ASSUME Core, Backfills, VersionsAssumption, Next PROVE Backfills'
    <3>. USE <2>2
    <3>1. OneBackfill' /\ CommitsKnown' /\ OnlyJobs'
      BY OneBackfillStep, CommitsKnownStep, OnlyJobsStep DEF Backfills
    <3>. QED  BY <3>1, InOrderStep DEF Backfills
  <2>. QED  BY <2>1, <2>2
<1>3. Core /\ Backfills /\ Shown /\ VersionsAssumption /\ [Next]_vars => Shown'
  <2>1. CASE UNCHANGED vars
    BY <2>1 DEF vars, cutting, github, history, Shown, Shows, No
  <2>. QED  BY <2>1, ShownStep
<1>4. Core /\ Backfills /\ Shown /\ PushedIsInHistory => RepoShowsHead
  <2>. SUFFICES ASSUME Core, Backfills, Shown, PushedIsInHistory,
                       versions # <<>>, ~late, \A n \in Numbers : versions[n].pushed
                PROVE  \A p \in Held(Last(versions).manifest) :
                         branch.tree[p] = Last(versions).manifest[p]
    BY DEF RepoShowsHead, Numbers
  <2>. USE DEF Core, Backfills
  <2>. DEFINE n == Len(versions)
              head == Len(branch.commits)
  <2>1. n \in Numbers /\ n \in Nat
    BY RowsTyped, EmptySeq DEF Numbers
  <2>2. PICK k \in 1..head : branch.commits[k].id = versions[n].id
    BY <2>1 DEF PushedIsInHistory, Numbers
  <2>3. No(branch.commits[k].id) = n
    BY <2>1, <2>2, NoOf
  <2>4. head \in Nat
    <3>1. branch.commits \in Seq([id: Cuts, job: BOOLEAN])
      BY DEF TypeOK
    <3>. QED  BY <3>1
  <2>5. head # 0 /\ head \in 1..head /\ (k = head \/ k < head)
    BY <2>2, <2>4
  <2>6. No(branch.commits[k].id) <= No(branch.commits[head].id)
    <3>1. No(branch.commits[head].id) \in Nat
      BY <2>5, NoIs DEF CommitsKnown, Numbers
    <3>. QED  BY <2>2, <2>3, <2>1, <2>5, <3>1 DEF Shown
  <2>7. No(branch.commits[head].id) \in Numbers
    BY <2>5, NoIs DEF CommitsKnown
  <2>8. No(branch.commits[head].id) = n
    BY <2>1, <2>3, <2>6, <2>7 DEF Numbers
  <2>9. Shows(branch.tree, n)
    BY <2>5, <2>8 DEF Shown
  <2>. QED  BY <2>9 DEF Shows, Last
<1>. QED
  BY <1>1, <1>2, <1>3, <1>4, PushedStays, CoreInit, CoreStep, VersionsAssumption, PTL DEF Spec
=============================================================================
