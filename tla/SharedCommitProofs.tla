-------------------------- MODULE SharedCommitProofs --------------------------
(***************************************************************************)
(* Snapshot isolation of the shared commit path, proved for any number of  *)
(* transactions, entities and groups.                                      *)
(***************************************************************************)
EXTENDS SharedCommit, TLAPS

(* Which phases each stage of the group leader allows. *)
PhaseInv ==
    /\ coord = "free" => \A t \in Txns : phase[t] \notin {"claimed", "accepted", "resolved"}
    /\ \A t \in Txns : phase[t] = "claimed" => coord = "validating"
    /\ \A t \in Txns : phase[t] = "accepted" => coord \in {"validating", "syncing", "publishing"}
    /\ \A t \in Txns : Committed(t) => phase[t] \in {"resolved", "done"}
    /\ \A t \in Txns : phase[t] = "resolved" /\ Committed(t)
                          => coord \in {"publishing", "recording", "finishing"}

(* The group being published is newer than the readers' view and than every
   commit the revision table already covers.                                *)
SequenceInv ==
    /\ published.lsn <= lsn
    /\ coord # "publishing" => published.lsn = lsn /\ published.view = store
    /\ \A t \in Txns : seq[t] <= lsn
    /\ \A t \in Txns : base[t] <= published.lsn
    /\ \A t \in Txns : phase[t] = "pinning" => base[t] = published.lsn
    /\ coord = "publishing" =>
          /\ \A t \in Txns : RecordedInTable(t) => seq[t] <= published.lsn
          /\ \A t \in JustCommitted : seq[t] > published.lsn
    /\ coord = "recording" =>
          \A t \in JustCommitted, u \in Txns : RecordedInTable(u) => seq[u] < seq[t]

(* An accepted batch overlaps no commit after its pin and no batch before it in
   its group; the batches of one group overlap nowhere.                     *)
GroupInv ==
    /\ \A t \in Group : rank[t] < accepted
    /\ \A t, u \in Group : t # u => rank[t] # rank[u]
    /\ \A t, u \in Group : rank[t] < rank[u] => keys[t] \intersect keys[u] = {} /\ ~ddl[t]
    /\ \A t \in Group, u \in Txns :
          Committed(u) /\ seq[u] > base[t] => keys[t] \intersect keys[u] = {} /\ ~ddl[u]
    /\ coord \in {"publishing", "recording"} =>
          \A t, u \in JustCommitted :
             t # u => keys[t] \intersect keys[u] = {} /\ ~(ddl[t] /\ ddl[u])

IInv ==
    /\ TypeOK
    /\ PhaseInv
    /\ SequenceInv
    /\ GroupInv
    /\ RevisionsCoverPins
    /\ ViewsArePrefixes
    /\ NoLostUpdate
    /\ FirstCommitterWins
-----------------------------------------------------------------------------
(* Every step of a transaction keeps the types. *)
LEMMA TxnTypes ==
    ASSUME TypeOK, NEW t \in Txns, TxnStep(t)
    PROVE  TypeOK'
  <1> USE DEF TypeOK, View, Phases, Outcomes, CoordStates, dbVars, jobVars
  <1>1. CASE PinRead(t)
    BY <1>1 DEF PinRead
  <1>2. CASE PinRegister(t)
    BY <1>2 DEF PinRegister
  <1>3. CASE \E k \in Keys : Stage(t, k)
    BY <1>3 DEF Stage
  <1>4. CASE StageTable(t)
    BY <1>4 DEF StageTable
  <1>5. CASE Drop(t)
    BY <1>5 DEF Drop, Resolve
  <1>6. CASE DeadlinePasses(t)
    BY <1>6 DEF DeadlinePasses
  <1>7. CASE Commit(t)
    BY <1>7 DEF Commit, Resolve
  <1>8. CASE Cancel(t)
    BY <1>8 DEF Cancel, Resolve
  <1>9. QED
    BY <1>1, <1>2, <1>3, <1>4, <1>5, <1>6, <1>7, <1>8 DEF TxnStep

(* Every step of the group leader keeps the types. *)
LEMMA LeaderTypes ==
    ASSUME TypeOK, LeaderStep
    PROVE  TypeOK'
  <1> USE DEF TypeOK, View, Phases, Outcomes, CoordStates, txVars, dbVars, jobVars
  <1>1. CASE Claim
    BY <1>1 DEF Claim
  <1>2. ASSUME NEW t \in Txns, Reject(t) \/ Accept(t) PROVE TypeOK'
    <2>1. CASE Reject(t)
      <3>1. Verdict(t) \in Outcomes
        BY <2>1 DEF Reject, Verdict
      <3>2. QED
        BY <2>1, <3>1 DEF Reject, Resolve
    <2>2. CASE Accept(t)
      BY <2>2 DEF Accept
    <2>3. QED
      BY <1>2, <2>1, <2>2
  <1>3. CASE \E t \in Txns : ExpireInGroup(t)
    BY <1>3 DEF ExpireInGroup, Resolve
  <1>4. ASSUME NEW t \in Txns, PublishState(t) PROVE TypeOK'
    <2>1. store' \in View
      BY <1>4 DEF PublishState, StagedWriters, StagedCatalog
    <2>2. QED
      BY <1>4, <2>1 DEF PublishState, Resolve
  <1>5. CASE RefuseGroup
    BY <1>5 DEF RefuseGroup, ResolveAll
  <1>6. CASE StartWrite \/ SyncGroup
    BY <1>6 DEF StartWrite, SyncGroup
  <1>7. CASE SyncFails
    BY <1>7 DEF SyncFails, ResolveAll
  <1>8. CASE PublishReaders
    BY <1>8 DEF PublishReaders
  <1>9. CASE RecordRevisions
    <2>1. \A t \in JustCommitted : seq[t] \in Nat
      BY DEF JustCommitted
    <2>2. revisions' \in [Keys -> Nat] /\ catalogRevision' \in Nat
      BY <1>9, <2>1 DEF RecordRevisions
    <2>3. QED
      BY <1>9, <2>2 DEF RecordRevisions
  <1>10. CASE Finish
    BY <1>10 DEF Finish
  <1>11. QED
    BY <1>1, <1>2, <1>3, <1>4, <1>5, <1>6, <1>7, <1>8, <1>9, <1>10 DEF LeaderStep

(* Every step of maintenance keeps the types. *)
LEMMA MaintenanceTypes ==
    ASSUME TypeOK, MaintenanceStep
    PROVE  TypeOK'
  <1> USE DEF TypeOK, View, Phases, Outcomes, CoordStates, txVars, dbVars, jobVars
  <1>1. CASE CaptureCheckpoint
    <2>1. captured' \in Nat /\ UNCHANGED <<txVars, lsn, store, published, revisions,
              catalogRevision, coord, accepted, rootLsn>>
      BY <1>1 DEF CaptureCheckpoint, Frontier
    <2>2. building' \in BOOLEAN /\ poisoned' \in BOOLEAN
      BY <1>1, Zenon DEF CaptureCheckpoint
    <2>3. QED
      BY <2>1, <2>2
  <1>2. CASE AbandonCheckpoint
    BY <1>2 DEF AbandonCheckpoint
  <1>3. CASE InstallCheckpoint
    BY <1>3 DEF InstallCheckpoint
  <1>4. CASE InstallFails
    <2>1. poisoned' \in BOOLEAN
      BY <1>4, Zenon DEF InstallFails
    <2>2. QED
      BY <1>4, <2>1 DEF InstallFails
  <1>5. QED
    BY <1>1, <1>2, <1>3, <1>4 DEF MaintenanceStep

(* Init has the right types. *)
LEMMA TypeCorrectInit ==
    ASSUME Init PROVE TypeOK
  <1>1. building \in BOOLEAN /\ poisoned \in BOOLEAN
    BY Zenon DEF Init
  <1>2. snap \in [Txns -> View] /\ store \in View /\ published \in [lsn : Nat, view : View]
    BY DEF Init, View
  <1>3. QED
    BY <1>1, <1>2 DEF Init, TypeOK, Phases, Outcomes, CoordStates

(* The types of SharedCommit hold in every behaviour. *)
THEOREM TypeCorrect == Spec => []TypeOK
  <1>1. Init => TypeOK
    BY TypeCorrectInit
  <1>2. TypeOK /\ [Next]_vars => TypeOK'
    <2>1. TypeOK /\ UNCHANGED vars => TypeOK'
      BY DEF TypeOK, vars, txVars, dbVars, jobVars
    <2>2. QED
      BY <2>1, TxnTypes, LeaderTypes, MaintenanceTypes DEF Next
  <1>3. QED
    BY <1>1, <1>2, PTL DEF Spec
-----------------------------------------------------------------------------
(* What a transaction's own step may do to the state the invariant is about. *)
LEMMA TxnSummary ==
    ASSUME TypeOK, NEW t \in Txns, TxnStep(t)
    PROVE  /\ UNCHANGED <<seq, lsn, store, published, revisions, catalogRevision,
                          coord, accepted, rank>>
           /\ \A u \in Txns \ {t} :
                 /\ phase'[u] = phase[u] /\ base'[u] = base[u] /\ snap'[u] = snap[u]
                 /\ keys'[u] = keys[u] /\ ddl'[u] = ddl[u]
           /\ \/ phase'[t] = phase[t] /\ base'[t] = base[t] /\ snap'[t] = snap[t]
                 /\ phase[t] = "open"
              \/ phase'[t] = phase[t] /\ base'[t] = base[t] /\ snap'[t] = snap[t]
                 /\ keys'[t] = keys[t] /\ ddl'[t] = ddl[t]
              \/ /\ phase[t] = "idle" /\ phase'[t] = "pinning"
                 /\ base'[t] = published.lsn /\ snap'[t] = published.view
                 /\ keys'[t] = keys[t] /\ ddl'[t] = ddl[t]
              \/ /\ phase[t] \in {"pinning", "open", "queued"}
                 /\ phase'[t] \in {"open", "queued", "done"}
                 /\ base'[t] = base[t] /\ snap'[t] = snap[t]
                 /\ keys'[t] = keys[t] /\ ddl'[t] = ddl[t]
  <1> USE DEF TypeOK, dbVars, jobVars
  <1>1. CASE PinRead(t)
    BY <1>1 DEF PinRead
  <1>2. CASE PinRegister(t)
    BY <1>2 DEF PinRegister
  <1>3. CASE \E k \in Keys : Stage(t, k)
    BY <1>3 DEF Stage
  <1>4. CASE StageTable(t)
    BY <1>4 DEF StageTable
  <1>5. CASE Drop(t)
    BY <1>5 DEF Drop, Resolve
  <1>6. CASE DeadlinePasses(t)
    BY <1>6 DEF DeadlinePasses
  <1>7. CASE Commit(t)
    BY <1>7 DEF Commit, Resolve
  <1>8. CASE Cancel(t)
    BY <1>8 DEF Cancel, Resolve
  <1>9. QED
    BY <1>1, <1>2, <1>3, <1>4, <1>5, <1>6, <1>7, <1>8 DEF TxnStep

(* Views stay prefixes as long as no committed transaction changes. *)
LEMMA PrefixFrame ==
    ASSUME UNCHANGED seq, NEW n, NEW view,
           \A u \in Txns : Committed(u) => keys'[u] = keys[u] /\ ddl'[u] = ddl[u],
           IsPrefix(view, n)
    PROVE  /\ \A k \in Keys : view.writers[k] = WritersUpTo(n, k)'
           /\ view.catalog = CatalogUpTo(n)'
  <1>1. \A u \in Txns : Committed(u)' <=> Committed(u)
    BY DEF Committed
  <1>2. \A k \in Keys : WritersUpTo(n, k)' = WritersUpTo(n, k)
    BY <1>1 DEF WritersUpTo
  <1>3. CatalogUpTo(n)' = CatalogUpTo(n)
    BY <1>1 DEF CatalogUpTo
  <1>4. QED
    BY <1>2, <1>3 DEF IsPrefix

(* A transaction's own steps preserve the inductive invariant. *)
LEMMA TxnInv ==
    ASSUME IInv, NEW t \in Txns, TxnStep(t)
    PROVE  IInv'
  <1> USE DEF IInv
  <1>0. TypeOK'
    BY TxnTypes
  <1> DEFINE Other(u) == /\ phase'[u] = phase[u] /\ base'[u] = base[u]
                         /\ snap'[u] = snap[u] /\ keys'[u] = keys[u] /\ ddl'[u] = ddl[u]
  <1>a. UNCHANGED <<seq, lsn, store, published, revisions, catalogRevision,
                    coord, accepted, rank>>
    BY TxnSummary
  <1>b. \A u \in Txns : u # t => Other(u)
    BY TxnSummary
  <1>c. ~Committed(t) \/ Other(t)
    BY TxnSummary DEF PhaseInv
  <1>d. \A u \in Txns : /\ Committed(u)' <=> Committed(u)
                        /\ Committed(u) => Other(u)
    BY <1>a, <1>b, <1>c DEF Committed
  <1>e. \A u \in Txns : phase[u] \in {"claimed", "accepted", "resolved"} \/
                        phase'[u] \in {"claimed", "accepted", "resolved"} => Other(u)
    BY <1>b, TxnSummary
  <1>f. Group' = Group /\ JustCommitted' = JustCommitted
    BY <1>d, <1>e DEF Group, JustCommitted
  <1>g. \A u \in Txns : RecordedInTable(u)' <=> RecordedInTable(u)
    BY <1>a, <1>d, <1>e DEF RecordedInTable
  <1>1. PhaseInv'
    BY <1>a, <1>d, <1>e DEF PhaseInv
  <1>2. SequenceInv'
    <2>1. \A u \in Txns : base'[u] = base[u] \/ base'[u] = published.lsn
      BY <1>b, TxnSummary
    <2>2. \A u \in Txns : phase'[u] = "pinning" => base'[u] = published.lsn
      BY <1>b, TxnSummary DEF SequenceInv
    <2>3. QED
      BY <1>a, <1>f, <1>g, <2>1, <2>2, <1>0 DEF SequenceInv, TypeOK
  <1>3. GroupInv'
    <2>1. \A u \in Group \union JustCommitted : u \in Txns /\ Other(u)
      BY <1>e DEF Group, JustCommitted
    <2>2. QED
      BY <1>a, <1>d, <1>f, <2>1 DEF GroupInv
  <1>4. RevisionsCoverPins'
    <2> SUFFICES ASSUME NEW v \in Txns, NEW u \in Txns, RecordedInTable(u)',
                        phase'[v] \in {"pinning", "open", "queued", "claimed", "accepted"},
                        base'[v] < seq'[u]
                 PROVE  /\ \A k \in keys'[u] : revisions'[k] >= seq'[u]
                        /\ ddl'[u] => catalogRevision' >= seq'[u]
      BY DEF RevisionsCoverPins
    <2>1. RecordedInTable(u) /\ keys'[u] = keys[u] /\ ddl'[u] = ddl[u]
      BY <1>d, <1>g DEF RecordedInTable
    <2>2. seq[u] <= lsn /\ (coord # "publishing" => published.lsn = lsn)
          /\ (coord = "publishing" => seq[u] <= published.lsn)
      BY <2>1 DEF SequenceInv
    <2>3. base'[v] # published.lsn
      BY <1>a, <2>2 DEF TypeOK, CoordStates
    <2>4. /\ base'[v] = base[v]
          /\ phase[v] \in {"pinning", "open", "queued", "claimed", "accepted"}
      BY <1>b, <2>3, TxnSummary
    <2>5. QED
      BY <1>a, <2>1, <2>4 DEF RevisionsCoverPins
  <1>5. ViewsArePrefixes'
    <2>1. IsPrefix(published.view, published.lsn)'
      BY <1>a, <1>d, PrefixFrame DEF ViewsArePrefixes, IsPrefix
    <2>2. ASSUME NEW u \in Txns, phase'[u] # "idle"
          PROVE  IsPrefix(snap[u], base[u])'
      <3>1. PICK n : n = base'[u]
        OBVIOUS
      <3>2. PICK view : view = snap'[u]
        OBVIOUS
      <3>3. IsPrefix(view, n)
        BY <1>b, <2>2, <3>1, <3>2, TxnSummary DEF ViewsArePrefixes
      <3>4. QED
        BY <1>a, <1>d, <3>1, <3>2, <3>3, PrefixFrame DEF IsPrefix, WritersUpTo, CatalogUpTo
    <2>3. QED
      BY <2>1, <2>2 DEF ViewsArePrefixes
  <1>6. NoLostUpdate'
    BY <1>a, <1>d, PrefixFrame DEF NoLostUpdate, IsPrefix
  <1>7. FirstCommitterWins'
    BY <1>a, <1>d DEF FirstCommitterWins
  <1>8. QED
    BY <1>0, <1>1, <1>2, <1>3, <1>4, <1>5, <1>6, <1>7

(* Steps that move transactions between phases, or the leader between its
   stages, leave the data properties alone.                                 *)
LEMMA DataFrame ==
    ASSUME ViewsArePrefixes, NoLostUpdate, FirstCommitterWins,
           UNCHANGED <<seq, keys, ddl, base, snap, lsn, store, published>>,
           \A t \in Txns : phase'[t] # "idle" => phase[t] # "idle"
    PROVE  ViewsArePrefixes' /\ NoLostUpdate' /\ FirstCommitterWins'
  <1>1. \A t \in Txns : Committed(t)' <=> Committed(t)
    BY DEF Committed
  <1>2. ASSUME NEW n, NEW view, IsPrefix(view, n) PROVE IsPrefix(view, n)'
    BY <1>1, <1>2 DEF IsPrefix, WritersUpTo, CatalogUpTo
  <1>3. NoLostUpdate'
    BY <1>1 DEF NoLostUpdate, IsPrefix, WritersUpTo, CatalogUpTo
  <1>4. ViewsArePrefixes'
    BY <1>1 DEF ViewsArePrefixes, IsPrefix, WritersUpTo, CatalogUpTo
  <1>5. FirstCommitterWins'
    BY <1>1 DEF FirstCommitterWins
  <1>6. QED
    BY <1>3, <1>4, <1>5

(* The leader's steps before and after publication preserve the invariant. *)
LEMMA ClaimInv ==
    ASSUME IInv, Claim PROVE IInv'
  <1> USE DEF IInv
  <1>0. TypeOK'
    BY LeaderTypes DEF LeaderStep
  <1>1. UNCHANGED <<base, snap, keys, ddl, rank, seq, lsn, store, published,
                    revisions, catalogRevision>>
        /\ coord = "free" /\ coord' = "validating"
    BY DEF Claim, dbVars
  <1>2. \A t \in Txns : phase'[t] = phase[t] \/ (phase[t] = "queued" /\ phase'[t] = "claimed")
    BY DEF Claim, TypeOK
  <1>3. \A t \in Txns : phase[t] \notin {"accepted", "resolved"} /\
                        phase'[t] \notin {"accepted", "resolved"}
    BY <1>1, <1>2 DEF PhaseInv
  <1>4. \A t \in Txns : /\ Committed(t)' <=> Committed(t)
                        /\ RecordedInTable(t)' <=> RecordedInTable(t)
    BY <1>1, <1>3 DEF Committed, RecordedInTable
  <1>5. PhaseInv'
    BY <1>1, <1>2, <1>3, <1>4 DEF PhaseInv
  <1>6. SequenceInv'
    BY <1>1, <1>2 DEF SequenceInv
  <1>7. GroupInv'
    BY <1>1, <1>3 DEF GroupInv, Group
  <1>8. RevisionsCoverPins'
    BY <1>1, <1>2, <1>4 DEF RevisionsCoverPins
  <1>9. QED
    BY <1>0, <1>1, <1>2, <1>5, <1>6, <1>7, <1>8, DataFrame

(* Leaving the group with an outcome other than success. *)
LEMMA LeaveGroupInv ==
    ASSUME IInv, TypeOK',
           UNCHANGED <<base, snap, keys, ddl, rank, seq, lsn, store, published,
                       revisions, catalogRevision, accepted>>,
           \A t \in Txns : \/ phase'[t] = phase[t]
                           \/ phase[t] \in {"claimed", "accepted"} /\ phase'[t] = "resolved",
           \/ coord' = coord /\ coord \in {"validating", "syncing"}
           \/ /\ coord \in {"validating", "syncing"} /\ coord' = "recording"
              /\ \A t \in Txns : phase'[t] \notin {"claimed", "accepted"}
    PROVE  IInv'
  <1> USE DEF IInv
  <1>1. \A t \in Txns : /\ Committed(t)' <=> Committed(t)
                        /\ Committed(t) => phase'[t] = "done" /\ phase[t] = "done"
    BY DEF Committed, PhaseInv
  <1>2. \A t \in Txns : RecordedInTable(t)' <=> RecordedInTable(t)
    BY <1>1 DEF RecordedInTable
  <1>3. JustCommitted' = {} /\ Group' \subseteq Group
    BY <1>1 DEF JustCommitted, Group
  <1>4. PhaseInv'
    BY <1>1 DEF PhaseInv
  <1>5. SequenceInv'
    BY <1>3 DEF SequenceInv
  <1>6. GroupInv'
    BY <1>1, <1>3 DEF GroupInv
  <1>7. RevisionsCoverPins'
    BY <1>2 DEF RevisionsCoverPins
  <1>8. \A t \in Txns : phase'[t] # "idle" => phase[t] # "idle"
    OBVIOUS
  <1>9. QED
    BY <1>4, <1>5, <1>6, <1>7, <1>8, DataFrame

(* Validation against the revision table and the group so far. *)
LEMMA AcceptInv ==
    ASSUME IInv, NEW t \in Txns, Accept(t) PROVE IInv'
  <1> USE DEF IInv
  <1>0. TypeOK'
    BY LeaderTypes DEF LeaderStep
  <1>1. UNCHANGED <<base, snap, keys, ddl, seq, lsn, store, published,
                    revisions, catalogRevision, coord>> /\ coord = "validating"
    BY DEF Accept, dbVars
  <1>2. /\ \A u \in Txns : u # t => phase'[u] = phase[u] /\ rank'[u] = rank[u]
        /\ phase[t] = "claimed" /\ phase'[t] = "accepted"
        /\ rank'[t] = accepted /\ accepted' = accepted + 1
    BY DEF Accept, TypeOK
  <1>3. ~Conflicts(t)
    BY DEF Accept, Verdict
  <1>4. \A u \in Txns : /\ Committed(u)' <=> Committed(u)
                        /\ Committed(u) => RecordedInTable(u)
                        /\ RecordedInTable(u)' <=> RecordedInTable(u)
    BY <1>1, <1>2 DEF Committed, RecordedInTable
  <1>5. PhaseInv'
    BY <1>1, <1>2, <1>4 DEF PhaseInv
  <1>6. SequenceInv'
    BY <1>1, <1>2 DEF SequenceInv
  <1>7. RevisionsCoverPins'
    BY <1>1, <1>2, <1>4 DEF RevisionsCoverPins
  <1>8. GroupInv'
    <2>1. Group' = Group \union {t} /\ t \notin Group
      BY <1>2 DEF Group
    <2>2. \A u \in Group : u # t /\ rank[u] < accepted /\ rank[u] \in Nat
                           /\ keys[u] \intersect keys[t] = {} /\ ~ddl[u]
      BY <1>3, <2>1 DEF GroupInv, Conflicts, InGroupConflict, TypeOK, Group
    <2>3. \A u \in Txns : Committed(u) /\ seq[u] > base[t]
                            => keys[t] \intersect keys[u] = {} /\ ~ddl[u]
      <3> SUFFICES ASSUME NEW u \in Txns, Committed(u), seq[u] > base[t]
                   PROVE  keys[t] \intersect keys[u] = {} /\ ~ddl[u]
        OBVIOUS
      <3>1. /\ \A k \in keys[u] : revisions[k] >= seq[u]
            /\ ddl[u] => catalogRevision >= seq[u]
        BY <1>2, <1>4 DEF RevisionsCoverPins, TypeOK
      <3>2. /\ catalogRevision <= base[t]
            /\ \A k \in keys[t] : revisions[k] <= base[t]
        BY <1>3 DEF Conflicts, RevisionConflict, TypeOK
      <3>3. QED
        BY <3>1, <3>2 DEF TypeOK
    <2>4. accepted \in Nat /\ \A u \in Group : u \in Txns /\ rank'[u] = rank[u]
      BY <1>2, <2>1 DEF TypeOK, Group
    <2>5. \A u \in Group' : rank'[u] < accepted'
      BY <1>2, <2>1, <2>2, <2>4
    <2>6. \A u, v \in Group' : u # v => rank'[u] # rank'[v]
      BY <1>2, <2>1, <2>2, <2>4 DEF GroupInv
    <2>7. \A u, v \in Group' : rank'[u] < rank'[v]
                                  => keys[u] \intersect keys[v] = {} /\ ~ddl[u]
      BY <1>2, <2>1, <2>2, <2>4 DEF GroupInv
    <2>8. \A u \in Group', v \in Txns : Committed(v) /\ seq[v] > base[u]
                                  => keys[u] \intersect keys[v] = {} /\ ~ddl[v]
      BY <2>1, <2>3 DEF GroupInv
    <2>9. QED
      BY <1>1, <1>4, <2>5, <2>6, <2>7, <2>8 DEF GroupInv
  <1>9. QED
    BY <1>0, <1>1, <1>2, <1>5, <1>6, <1>7, <1>8, DataFrame

(* The steps that only move the leader on to the WAL and past its sync.    *)
LEMMA WriteInv ==
    ASSUME IInv, StartWrite \/ SyncGroup PROVE IInv'
  <1> USE DEF IInv
  <1>0. TypeOK'
    BY LeaderTypes DEF LeaderStep
  <1>1. /\ UNCHANGED <<phase, base, snap, keys, ddl, rank, seq, lsn, store, published,
                       revisions, catalogRevision, accepted>>
        /\ \/ coord = "validating" /\ coord' = "syncing"
              /\ \A t \in Txns : phase[t] # "claimed"
           \/ coord = "syncing" /\ coord' = "publishing"
    BY DEF StartWrite, SyncGroup, AllValidated, txVars, dbVars
  <1>2. \A t \in Txns : /\ Committed(t)' <=> Committed(t)
                        /\ Committed(t) => phase[t] = "done"
                        /\ RecordedInTable(t)' <=> RecordedInTable(t)
    BY <1>1 DEF Committed, RecordedInTable, PhaseInv
  <1>3. JustCommitted' = {} /\ Group' = Group
    BY <1>1, <1>2 DEF JustCommitted, Group
  <1>4. PhaseInv'
    BY <1>1, <1>2 DEF PhaseInv
  <1>5. SequenceInv'
    BY <1>1, <1>3 DEF SequenceInv
  <1>6. GroupInv'
    BY <1>1, <1>2, <1>3 DEF GroupInv
  <1>7. RevisionsCoverPins'
    BY <1>1, <1>2 DEF RevisionsCoverPins
  <1>8. QED
    BY <1>0, <1>1, <1>4, <1>5, <1>6, <1>7, DataFrame

(* Publication of one batch: what it staged on an older view is complete.  *)
LEMMA PublishStateInv ==
    ASSUME IInv, NEW t \in Txns, PublishState(t) PROVE IInv'
  <1> USE DEF IInv
  <1>0. TypeOK'
    BY LeaderTypes DEF LeaderStep
  <1>1. /\ UNCHANGED <<base, snap, keys, ddl, rank, published, revisions,
                       catalogRevision, coord, accepted>>
        /\ coord = "publishing" /\ lsn' = lsn + 1
        /\ phase[t] = "accepted" /\ phase'[t] = "resolved"
        /\ seq'[t] = lsn + 1
        /\ \A u \in Txns : u # t => phase'[u] = phase[u] /\ seq'[u] = seq[u]
    BY DEF PublishState, Resolve, NextInGroup, Group, TypeOK
  <1>2. /\ lsn \in Nat /\ published.lsn \in Nat /\ published.lsn <= lsn
        /\ \A u \in Txns : seq[u] \in Nat /\ base[u] \in Nat /\ seq[u] <= lsn
                           /\ base[u] <= published.lsn
    BY DEF TypeOK, SequenceInv
  <1>3. /\ ~Committed(t) /\ Committed(t)'
        /\ \A u \in Txns : u # t => (Committed(u)' <=> Committed(u))
    BY <1>1, <1>2 DEF Committed, PhaseInv
  <1>4. /\ ~RecordedInTable(t) /\ ~RecordedInTable(t)'
        /\ \A u \in Txns : RecordedInTable(u)' <=> RecordedInTable(u)
    BY <1>1, <1>3 DEF RecordedInTable
  <1>5. Group' = Group \ {t} /\ JustCommitted' = JustCommitted \union {t} /\ t \in Group
    BY <1>1, <1>3 DEF Group, JustCommitted
  <1>6. \A u \in Txns : Committed(u) /\ seq[u] > base[t]
                          => keys[t] \intersect keys[u] = {} /\ ~ddl[u]
    BY <1>5 DEF GroupInv
  <1>7. \A u \in Group' : keys[u] \intersect keys[t] = {} /\ ~ddl[t]
    <2> SUFFICES ASSUME NEW u \in Group'
                 PROVE  keys[u] \intersect keys[t] = {} /\ ~ddl[t]
      OBVIOUS
    <2>1. u \in Group /\ u \in Txns /\ u # t
      BY <1>5 DEF Group
    <2>2. rank[t] < rank[u]
      BY <1>5, <2>1 DEF PublishState, NextInGroup, GroupInv, TypeOK
    <2>3. QED
      BY <1>5, <2>1, <2>2 DEF GroupInv
  <1>8. \A u \in JustCommitted : u \in Txns /\ Committed(u) /\ seq[u] > base[t] /\ u # t
    BY <1>1, <1>2, <1>3 DEF SequenceInv, JustCommitted
  <1>10. PhaseInv'
    BY <1>1, <1>3 DEF PhaseInv
  <1>11. SequenceInv'
    <2>1. \A u \in Txns : seq'[u] <= lsn'
      BY <1>1, <1>2
    <2>2. \A u \in Txns : RecordedInTable(u)' => seq'[u] <= published.lsn
      BY <1>1, <1>4 DEF SequenceInv
    <2>3. \A u \in JustCommitted' : seq'[u] > published.lsn
      BY <1>1, <1>2, <1>5, <1>8 DEF SequenceInv
    <2>4. QED
      BY <1>1, <1>2, <2>1, <2>2, <2>3 DEF SequenceInv
  <1>12. GroupInv'
    <2>1. \A u \in Group', v \in Txns : Committed(v)' /\ seq'[v] > base[u]
                                 => keys[u] \intersect keys[v] = {} /\ ~ddl[v]
      BY <1>1, <1>3, <1>5, <1>7 DEF GroupInv
    <2>2. \A u, v \in JustCommitted' :
             u # v => keys[u] \intersect keys[v] = {} /\ ~(ddl[u] /\ ddl[v])
      BY <1>1, <1>5, <1>6, <1>8 DEF GroupInv
    <2>3. QED
      BY <1>1, <1>5, <2>1, <2>2 DEF GroupInv
  <1>13. RevisionsCoverPins'
    <2> SUFFICES ASSUME NEW v \in Txns, NEW u \in Txns, RecordedInTable(u)',
                        phase'[v] \in {"pinning", "open", "queued", "claimed", "accepted"},
                        base'[v] < seq'[u]
                 PROVE  /\ \A k \in keys'[u] : revisions'[k] >= seq'[u]
                        /\ ddl'[u] => catalogRevision' >= seq'[u]
      BY DEF RevisionsCoverPins
    <2>1. u # t /\ v # t
      BY <1>1, <1>4
    <2>2. QED
      BY <1>1, <1>4, <2>1 DEF RevisionsCoverPins
  <1>14. ASSUME NEW n \in Nat, n <= lsn
         PROVE  /\ \A k \in Keys : WritersUpTo(n, k)' = WritersUpTo(n, k)
                /\ CatalogUpTo(n)' = CatalogUpTo(n)
    BY <1>1, <1>2, <1>3, <1>14 DEF WritersUpTo, CatalogUpTo
  <1>15. ViewsArePrefixes'
    <2>1. published.lsn \in Nat /\ published.lsn <= lsn
          /\ \A u \in Txns : base[u] \in Nat /\ base[u] <= lsn
      BY <1>2
    <2>2. IsPrefix(published.view, published.lsn)'
      BY <1>1, <1>14, <2>1 DEF ViewsArePrefixes, IsPrefix
    <2>3. ASSUME NEW u \in Txns, phase'[u] # "idle" PROVE IsPrefix(snap[u], base[u])'
      <3>1. IsPrefix(snap[u], base[u])
        BY <1>1, <2>3 DEF ViewsArePrefixes
      <3>2. QED
        BY <1>1, <1>14, <2>1, <3>1 DEF IsPrefix
    <2>4. QED
      BY <2>2, <2>3 DEF ViewsArePrefixes
  <1>16. NoLostUpdate'
    <2>0. IsPrefix(snap[t], base[t]) /\ IsPrefix(store, lsn)
      BY <1>1 DEF ViewsArePrefixes, NoLostUpdate
    <2>1. \A k \in Keys : store'.writers[k] = IF k \in keys[t]
                             THEN snap[t].writers[k] \union {t} ELSE store.writers[k]
      BY DEF PublishState, StagedWriters
    <2>2. store'.catalog = snap[t].catalog \union (IF ddl[t] THEN {t} ELSE {})
      BY DEF PublishState, StagedCatalog
    <2>3. ASSUME NEW k \in Keys PROVE store'.writers[k] = WritersUpTo(lsn, k)'
      <3>1. CASE k \in keys[t]
        <4>1. \A u \in Txns : Committed(u) /\ k \in keys[u] => seq[u] <= base[t]
          BY <1>2, <1>6, <3>1
        <4>2. WritersUpTo(lsn, k)' = WritersUpTo(base[t], k) \union {t}
          BY <1>1, <1>2, <1>3, <3>1, <4>1 DEF WritersUpTo
        <4>3. QED
          BY <2>0, <2>1, <3>1, <4>2 DEF IsPrefix
      <3>2. CASE k \notin keys[t]
        <4>1. WritersUpTo(lsn, k)' = WritersUpTo(lsn, k)
          BY <1>1, <1>2, <1>3, <3>2 DEF WritersUpTo
        <4>2. QED
          BY <2>0, <2>1, <3>2, <4>1 DEF IsPrefix
      <3>3. QED
        BY <3>1, <3>2
    <2>4. store'.catalog = CatalogUpTo(lsn)'
      <3>1. \A u \in Txns : Committed(u) /\ ddl[u] => seq[u] <= base[t]
        BY <1>2, <1>6
      <3>2. CatalogUpTo(lsn)' = CatalogUpTo(base[t]) \union (IF ddl[t] THEN {t} ELSE {})
        BY <1>1, <1>2, <1>3, <3>1 DEF CatalogUpTo
      <3>3. QED
        BY <2>0, <2>2, <3>2 DEF IsPrefix
    <2>5. QED
      BY <2>3, <2>4 DEF NoLostUpdate, IsPrefix
  <1>17. FirstCommitterWins'
    <2> SUFFICES ASSUME NEW u \in Txns, NEW v \in Txns, Committed(u)', Committed(v)',
                        seq'[u] < seq'[v], ddl[u] \/ keys[u] \intersect keys[v] # {}
                 PROVE  seq'[u] <= base[v]
      BY <1>1 DEF FirstCommitterWins
    <2>1. u # t
      BY <1>1, <1>2
    <2>2. CASE v = t
      BY <1>1, <1>2, <1>3, <1>6, <2>1, <2>2
    <2>3. CASE v # t
      BY <1>1, <1>3, <2>1, <2>3 DEF FirstCommitterWins
    <2>4. QED
      BY <2>2, <2>3
  <1>18. QED
    BY <1>0, <1>10, <1>11, <1>12, <1>13, <1>15, <1>16, <1>17

(* The readers' view moves to the end of the group. *)
LEMMA PublishReadersInv ==
    ASSUME IInv, PublishReaders PROVE IInv'
  <1> USE DEF IInv
  <1>0. TypeOK'
    BY LeaderTypes DEF LeaderStep
  <1>1. /\ UNCHANGED <<phase, base, snap, keys, ddl, rank, seq, lsn, store,
                       revisions, catalogRevision, accepted>>
        /\ coord = "publishing" /\ coord' = "recording"
        /\ published'.lsn = lsn /\ published'.view = store
        /\ Group = {} /\ \A t \in Txns : phase[t] # "pinning"
    BY DEF PublishReaders, txVars, NoReadGuard
  <1>2. \A t \in Txns : /\ Committed(t)' <=> Committed(t)
                        /\ RecordedInTable(t)' <=> RecordedInTable(t)
    BY <1>1 DEF Committed, RecordedInTable
  <1>3. JustCommitted' = JustCommitted /\ Group' = {}
    BY <1>1, <1>2 DEF JustCommitted, Group
  <1>4. PhaseInv'
    BY <1>1, <1>2 DEF PhaseInv, Group
  <1>5. SequenceInv'
    <2>1. \A t \in Txns : base[t] <= lsn
      BY DEF SequenceInv, TypeOK
    <2>2. \A t \in JustCommitted, u \in Txns : RecordedInTable(u) => seq[u] < seq[t]
      BY <1>1 DEF SequenceInv, TypeOK, JustCommitted
    <2>3. QED
      BY <1>1, <1>2, <1>3, <2>1, <2>2, <1>0 DEF SequenceInv, TypeOK
  <1>6. GroupInv'
    BY <1>1, <1>3 DEF GroupInv
  <1>7. RevisionsCoverPins'
    BY <1>1, <1>2 DEF RevisionsCoverPins
  <1>8. ViewsArePrefixes' /\ NoLostUpdate'
    BY <1>1, <1>2 DEF ViewsArePrefixes, NoLostUpdate, IsPrefix, WritersUpTo, CatalogUpTo
  <1>9. FirstCommitterWins'
    BY <1>1, <1>2 DEF FirstCommitterWins
  <1>10. QED
    BY <1>0, <1>4, <1>5, <1>6, <1>7, <1>8, <1>9

(* After the revisions of the group are recorded the table covers the group. *)
LEMMA RecordRevisionsInv ==
    ASSUME IInv, RecordRevisions PROVE IInv'
  <1> USE DEF IInv
  <1>0. TypeOK'
    BY LeaderTypes DEF LeaderStep
  <1>1. /\ UNCHANGED <<phase, base, snap, keys, ddl, rank, seq, lsn, store,
                       published, accepted>>
        /\ coord = "recording" /\ coord' = "finishing"
    BY DEF RecordRevisions, txVars
  <1>2. \A t \in Txns : Committed(t)' <=> Committed(t)
    BY <1>1 DEF Committed
  <1>3. \A t \in Txns : RecordedInTable(t)' <=> (RecordedInTable(t) \/ t \in JustCommitted)
    BY <1>1, <1>2 DEF RecordedInTable, JustCommitted
  <1>4. \A t \in JustCommitted : t \in Txns
    BY DEF JustCommitted
  <1>5. ASSUME NEW u \in JustCommitted
        PROVE  /\ \A k \in keys[u] : k \in Keys => revisions'[k] = seq[u]
               /\ ddl[u] => catalogRevision' = seq[u]
    <2>1. ASSUME NEW k \in Keys, k \in keys[u] PROVE revisions'[k] = seq[u]
      <3>1. \A t \in JustCommitted : k \in keys[t] => t = u
        BY <1>1, <2>1 DEF GroupInv
      <3>2. (CHOOSE t \in JustCommitted : k \in keys[t]) = u
        BY <2>1, <3>1
      <3>3. QED
        BY <2>1, <3>2 DEF RecordRevisions
    <2>2. ASSUME ddl[u] PROVE catalogRevision' = seq[u]
      <3>1. \A t \in JustCommitted : ddl[t] => t = u
        BY <1>1, <2>2 DEF GroupInv
      <3>2. (CHOOSE t \in JustCommitted : ddl[t]) = u
        BY <2>2, <3>1
      <3>3. QED
        BY <2>2, <3>2 DEF RecordRevisions
    <2>3. QED
      BY <2>1, <2>2
  <1>6. /\ \A k \in Keys : \/ revisions'[k] = revisions[k]
                           \/ \E t \in JustCommitted : revisions'[k] = seq[t]
        /\ \/ catalogRevision' = catalogRevision
           \/ \E t \in JustCommitted : catalogRevision' = seq[t]
    BY DEF RecordRevisions
  <1>7. PhaseInv'
    BY <1>1, <1>2 DEF PhaseInv
  <1>8. SequenceInv'
    BY <1>1 DEF SequenceInv
  <1>9. GroupInv'
    BY <1>1, <1>2 DEF GroupInv, Group
  <1>10. RevisionsCoverPins'
    <2> SUFFICES ASSUME NEW v \in Txns, NEW u \in Txns, RecordedInTable(u)',
                        phase'[v] \in {"pinning", "open", "queued", "claimed", "accepted"},
                        base'[v] < seq'[u]
                 PROVE  /\ \A k \in keys[u] : revisions'[k] >= seq[u]
                        /\ ddl[u] => catalogRevision' >= seq[u]
      BY <1>1 DEF RevisionsCoverPins
    <2>1. keys[u] \subseteq Keys /\ seq[u] \in Nat /\ base[v] \in Nat
      BY DEF TypeOK
    <2>2. CASE u \in JustCommitted
      BY <1>5, <2>1, <2>2
    <2>3. CASE RecordedInTable(u)
      <3>1. /\ \A k \in keys[u] : revisions[k] >= seq[u]
            /\ ddl[u] => catalogRevision >= seq[u]
        BY <1>1, <2>3 DEF RevisionsCoverPins
      <3>2. \A t \in JustCommitted : seq[u] < seq[t] /\ seq[t] \in Nat
        BY <1>1, <2>3, <1>4 DEF SequenceInv, TypeOK
      <3>3. QED
        BY <1>6, <2>1, <3>1, <3>2
    <2>4. QED
      BY <1>3, <2>2, <2>3
  <1>11. QED
    BY <1>0, <1>1, <1>7, <1>8, <1>9, <1>10, DataFrame

(* Handing out the results. *)
LEMMA FinishInv ==
    ASSUME IInv, Finish PROVE IInv'
  <1> USE DEF IInv
  <1>0. TypeOK'
    BY LeaderTypes DEF LeaderStep
  <1>1. /\ UNCHANGED <<base, snap, keys, ddl, rank, seq, lsn, store, published,
                       revisions, catalogRevision, accepted>>
        /\ coord = "finishing" /\ coord' = "free"
        /\ \A t \in Txns : phase'[t] = IF phase[t] = "resolved" THEN "done" ELSE phase[t]
    BY DEF Finish, dbVars
  <1>2. \A t \in Txns : /\ Committed(t)' <=> Committed(t)
                        /\ RecordedInTable(t)' <=> RecordedInTable(t)
    BY <1>1 DEF Committed, RecordedInTable
  <1>3. Group' = {} /\ JustCommitted' = {}
    BY <1>1, <1>2 DEF Group, JustCommitted, PhaseInv
  <1>4. PhaseInv'
    BY <1>1, <1>2 DEF PhaseInv
  <1>5. SequenceInv'
    BY <1>1 DEF SequenceInv
  <1>6. GroupInv'
    BY <1>3 DEF GroupInv
  <1>7. RevisionsCoverPins'
    BY <1>1, <1>2 DEF RevisionsCoverPins
  <1>8. QED
    BY <1>0, <1>1, <1>4, <1>5, <1>6, <1>7, DataFrame

(* The leader preserves the inductive invariant. *)
LEMMA LeaderInv ==
    ASSUME IInv, LeaderStep PROVE IInv'
  <1>0. TypeOK'
    BY LeaderTypes DEF IInv
  <1>1. CASE \E t \in Txns : Reject(t) \/ ExpireInGroup(t)
    BY <1>0, <1>1, LeaveGroupInv
       DEF Reject, ExpireInGroup, Resolve, Group, dbVars, IInv, TypeOK
  <1>2. CASE RefuseGroup
    <2>1. /\ UNCHANGED <<base, snap, keys, ddl, rank, seq, lsn, store, published,
                         revisions, catalogRevision, accepted>>
          /\ coord = "validating" /\ coord' = "recording"
          /\ \A t \in Txns : phase[t] # "claimed"
      BY <1>2 DEF RefuseGroup, dbVars, AllValidated
    <2>2. \A t \in Txns : IF phase[t] = "accepted" THEN phase'[t] = "resolved"
                                                   ELSE phase'[t] = phase[t]
      BY <1>2 DEF RefuseGroup, ResolveAll, Group
    <2>3. QED
      BY <1>0, <2>1, <2>2, LeaveGroupInv
  <1>3. CASE SyncFails
    <2>1. /\ UNCHANGED <<base, snap, keys, ddl, rank, seq, lsn, store, published,
                         revisions, catalogRevision, accepted>>
          /\ coord = "syncing" /\ coord' = "recording"
          /\ \A t \in Txns : phase[t] # "claimed"
      BY <1>3 DEF SyncFails, IInv, PhaseInv
    <2>2. \A t \in Txns : IF phase[t] = "accepted" THEN phase'[t] = "resolved"
                                                   ELSE phase'[t] = phase[t]
      BY <1>3 DEF SyncFails, ResolveAll, Group
    <2>3. QED
      BY <1>0, <2>1, <2>2, LeaveGroupInv
  <1>4. QED
    BY <1>1, <1>2, <1>3, ClaimInv, AcceptInv, WriteInv, PublishStateInv,
       PublishReadersInv, RecordRevisionsInv, FinishInv DEF LeaderStep

(* Maintenance preserves the inductive invariant: pruning keeps every revision
   above the oldest pin.                                                    *)
LEMMA MaintenanceInv ==
    ASSUME IInv, MaintenanceStep PROVE IInv'
  <1> USE DEF IInv
  <1>0. TypeOK'
    BY MaintenanceTypes
  <1>1. /\ UNCHANGED <<phase, base, snap, keys, ddl, rank, seq, lsn, store, coord, accepted,
                       catalogRevision>>
        /\ coord \in {"free", "finishing"}
    BY DEF MaintenanceStep, CaptureCheckpoint, AbandonCheckpoint, InstallCheckpoint,
           InstallFails, CoordinatorFree, txVars, dbVars
  <1>2. UNCHANGED <<published.lsn, published.view>>
    BY <1>1 DEF MaintenanceStep, CaptureCheckpoint, AbandonCheckpoint, InstallCheckpoint,
           InstallFails, dbVars, SequenceInv
  <1>3. \A t \in Txns : /\ Committed(t)' <=> Committed(t)
                        /\ RecordedInTable(t)' <=> RecordedInTable(t)
    BY <1>1 DEF Committed, RecordedInTable
  <1>4. PhaseInv'
    BY <1>1, <1>3 DEF PhaseInv
  <1>5. SequenceInv'
    BY <1>1, <1>2 DEF SequenceInv
  <1>6. GroupInv'
    BY <1>1, <1>3 DEF GroupInv, Group
  <1>7. RevisionsCoverPins'
    <2>1. CASE UNCHANGED revisions
      BY <1>1, <1>3, <2>1 DEF RevisionsCoverPins
    <2>2. CASE InstallCheckpoint
      <3> SUFFICES ASSUME NEW v \in Txns, NEW u \in Txns, RecordedInTable(u),
                          phase[v] \in {"pinning", "open", "queued", "claimed", "accepted"},
                          base[v] < seq[u], NEW k \in keys[u]
                   PROVE  revisions'[k] >= seq[u]
        BY <1>1, <1>3 DEF RevisionsCoverPins
      <3>1. v \in LivePins
        BY <2>2 DEF InstallCheckpoint, NoReadGuard, LivePins
      <3>2. k \in Keys /\ revisions[k] >= seq[u] /\ revisions[k] > base[v]
        BY DEF RevisionsCoverPins, TypeOK
      <3>3. StillNeeded(revisions[k])
        BY <3>1, <3>2 DEF StillNeeded
      <3>4. QED
        BY <2>2, <3>2, <3>3 DEF InstallCheckpoint
    <2>3. QED
      BY <2>1, <2>2 DEF MaintenanceStep, CaptureCheckpoint, AbandonCheckpoint,
                        InstallFails, dbVars
  <1>8. ViewsArePrefixes' /\ NoLostUpdate'
    BY <1>1, <1>2, <1>3 DEF ViewsArePrefixes, NoLostUpdate, IsPrefix, WritersUpTo, CatalogUpTo
  <1>9. FirstCommitterWins'
    BY <1>1, <1>3 DEF FirstCommitterWins
  <1>10. QED
    BY <1>0, <1>4, <1>5, <1>6, <1>7, <1>8, <1>9

-----------------------------------------------------------------------------
(* The inductive invariant of the shared commit path. *)
THEOREM InductiveInvariant == Spec => []IInv
  <1>1. Init => IInv
    <2> SUFFICES ASSUME Init PROVE IInv
      OBVIOUS
    <2>1. TypeOK
      BY TypeCorrectInit
    <2>2. \A t \in Txns : ~Committed(t) /\ phase[t] = "idle" /\ base[t] = 0 /\ seq[t] = 0
      BY DEF Init, Committed
    <2>3. PhaseInv /\ SequenceInv /\ GroupInv /\ RevisionsCoverPins /\ FirstCommitterWins
      BY <2>2 DEF Init, PhaseInv, SequenceInv, GroupInv, Group, RevisionsCoverPins,
                  RecordedInTable, FirstCommitterWins
    <2>4. NoLostUpdate /\ ViewsArePrefixes
      BY <2>2 DEF Init, NoLostUpdate, ViewsArePrefixes, IsPrefix, WritersUpTo, CatalogUpTo
    <2>5. QED
      BY <2>1, <2>3, <2>4 DEF IInv
  <1>2. IInv /\ [Next]_vars => IInv'
    <2>1. IInv /\ UNCHANGED vars => IInv'
      <3> SUFFICES ASSUME IInv, UNCHANGED vars PROVE IInv'
        OBVIOUS
      <3> USE DEF vars, txVars, dbVars, jobVars, IInv
      <3>1. TypeOK'
        BY DEF TypeOK
      <3>2. PhaseInv' /\ FirstCommitterWins' /\ RevisionsCoverPins'
        BY DEF PhaseInv, FirstCommitterWins, RevisionsCoverPins, RecordedInTable, Committed
      <3>3. SequenceInv'
        BY DEF SequenceInv, RecordedInTable, JustCommitted, Committed
      <3>4. GroupInv'
        BY DEF GroupInv, JustCommitted, Group, Committed
      <3>5. ViewsArePrefixes' /\ NoLostUpdate'
        BY DataFrame
      <3>6. QED
        BY <3>1, <3>2, <3>3, <3>4, <3>5
    <2>2. QED
      BY <2>1, TxnInv, LeaderInv, MaintenanceInv DEF Next
  <1>3. QED
    BY <1>1, <1>2, PTL DEF Spec

(* No lost update, for any number of transactions, entities, groups and
   checkpoints: validation, the pins carried by queued batches and the pruning
   rule together make overwriting whole entities safe.                     *)
THEOREM NoUpdateIsLost == Spec => []NoLostUpdate
  BY InductiveInvariant, PTL DEF IInv

(* First committer wins, for the same reason. *)
THEOREM SnapshotIsolation == Spec => []FirstCommitterWins
  BY InductiveInvariant, PTL DEF IInv

(* Every view, pinned at whatever point of a group's publication, is what the
   commits up to its sequence left: no reader sees half a group.            *)
THEOREM ViewsAreConsistent == Spec => []ViewsArePrefixes
  BY InductiveInvariant, PTL DEF IInv

(* Pruning the revision table never removes what a live pin may still ask. *)
THEOREM PruningIsSafe == Spec => []RevisionsCoverPins
  BY InductiveInvariant, PTL DEF IInv

(* Once commit() returned a sequence, every later pin contains the commit: results
   are handed out only after the whole group is published.                  *)
THEOREM AcknowledgedCommitsAreVisible == Spec => []AcknowledgedIsVisible
  <1>1. IInv => AcknowledgedIsVisible
    <2> SUFFICES ASSUME IInv, NEW t \in Txns, phase[t] = "done", Committed(t)
                 PROVE  seq[t] <= published.lsn
      BY DEF AcknowledgedIsVisible
    <2>1. CASE coord = "publishing"
      BY <2>1 DEF IInv, SequenceInv, RecordedInTable
    <2>2. CASE coord # "publishing"
      BY <2>2 DEF IInv, SequenceInv
    <2>3. QED
      BY <2>1, <2>2
  <1>2. QED
    BY <1>1, InductiveInvariant, PTL

-----------------------------------------------------------------------------
(* A poisoned handle has no group on its way to the log. *)
PoisonInv ==
    poisoned => /\ coord \notin {"syncing", "publishing"}
                /\ coord = "validating" => Group = {}

(* Nothing that follows poisoning starts a group again. *)
LEMMA PoisonStep ==
    ASSUME IInv, PoisonInv, [Next]_vars
    PROVE  PoisonInv'
  <1>1. CASE UNCHANGED vars
    BY <1>1 DEF PoisonInv, Group, vars, txVars, dbVars
  <1>2. ASSUME NEW t \in Txns, TxnStep(t) PROVE PoisonInv'
    <2>1. UNCHANGED <<poisoned, coord>>
      BY <1>2 DEF TxnStep, PinRead, PinRegister, Stage, StageTable, Drop, DeadlinePasses,
                  Commit, Cancel, dbVars
    <2>2. \A u \in Txns : phase'[u] = "accepted" => phase[u] = "accepted"
      BY <1>2, TxnSummary DEF IInv
    <2>3. QED
      BY <2>1, <2>2 DEF PoisonInv, Group
  <1>3. CASE LeaderStep
    <2>1. CASE Claim
      <3>1. Group' = {}
        BY <2>1 DEF Claim, Group, IInv, PhaseInv, TypeOK
      <3>2. QED
        BY <2>1, <3>1 DEF Claim, PoisonInv
    <2>2. ASSUME NEW t \in Txns, Reject(t) PROVE PoisonInv'
      BY <2>2 DEF Reject, Resolve, PoisonInv, Group, IInv, TypeOK, dbVars
    <2>3. ASSUME NEW t \in Txns, Accept(t) PROVE PoisonInv'
      BY <2>3 DEF Accept, Verdict, PoisonInv, dbVars
    <2>4. ASSUME NEW t \in Txns, ExpireInGroup(t) PROVE PoisonInv'
      BY <2>4 DEF ExpireInGroup, Resolve, PoisonInv, Group, IInv, TypeOK, dbVars
    <2>5. ASSUME NEW t \in Txns, PublishState(t) PROVE PoisonInv'
      BY <2>5 DEF PublishState, PoisonInv
    <2>6. CASE RefuseGroup \/ StartWrite \/ SyncGroup \/ SyncFails
      BY <2>6 DEF RefuseGroup, StartWrite, SyncGroup, SyncFails, PoisonInv, dbVars
    <2>7. CASE PublishReaders \/ RecordRevisions \/ Finish
      BY <2>7 DEF PublishReaders, RecordRevisions, Finish, PoisonInv, dbVars
    <2>8. QED
      BY <1>3, <2>1, <2>2, <2>3, <2>4, <2>5, <2>6, <2>7 DEF LeaderStep
  <1>4. CASE MaintenanceStep
    BY <1>4 DEF MaintenanceStep, CaptureCheckpoint, AbandonCheckpoint, InstallCheckpoint,
                InstallFails, CoordinatorFree, PoisonInv, Group, txVars, dbVars
  <1>5. QED
    BY <1>1, <1>2, <1>3, <1>4 DEF Next

(* After an uncertain I/O outcome nothing is committed or published through the
   handle: every step of a poisoned handle leaves the state alone.          *)
THEOREM PoisonIsFinal == Spec => PoisonStopsCommits
  <1>1. Init => PoisonInv
    BY DEF Init, PoisonInv
  <1>2. IInv /\ PoisonInv /\ [Next]_vars => PoisonInv'
    BY PoisonStep
  <1>3. PoisonInv /\ [Next]_vars => [poisoned => UNCHANGED <<lsn, store, published>>]_vars
    <2> SUFFICES ASSUME PoisonInv, Next, poisoned PROVE UNCHANGED <<lsn, store, published>>
      OBVIOUS
    <2>1. ASSUME NEW t \in Txns, TxnStep(t) PROVE UNCHANGED <<lsn, store, published>>
      BY <2>1 DEF TxnStep, PinRead, PinRegister, Stage, StageTable, Drop, DeadlinePasses,
                  Commit, Cancel, dbVars
    <2>2. CASE LeaderStep
      BY <2>2 DEF LeaderStep, Claim, Reject, Accept, ExpireInGroup, PublishState, RefuseGroup,
                  StartWrite, SyncGroup, SyncFails, PublishReaders, RecordRevisions, Finish,
                  PoisonInv, dbVars
    <2>3. CASE MaintenanceStep
      BY <2>3 DEF MaintenanceStep, CaptureCheckpoint, AbandonCheckpoint, InstallCheckpoint,
                  InstallFails, dbVars
    <2>4. QED
      BY <2>1, <2>2, <2>3 DEF Next
  <1>4. QED
    BY <1>1, <1>2, <1>3, InductiveInvariant, PTL DEF Spec, PoisonStopsCommits

-----------------------------------------------------------------------------
(* Every revision stands for a commit: a transaction that wrote the entity, or
   changed the catalog, and got that sequence.                              *)
RevisionsAreReal ==
    /\ \A k \in Keys : revisions[k] # 0 =>
          \E u \in Txns : Committed(u) /\ seq[u] = revisions[k] /\ k \in keys[u]
    /\ catalogRevision # 0 =>
          \E u \in Txns : Committed(u) /\ seq[u] = catalogRevision /\ ddl[u]

(* What a committed transaction wrote is settled: its sequence, its keys and its
   catalog change never move again.                                         *)
LEMMA CommitIsSettled ==
    ASSUME IInv, Next
    PROVE  \A u \in Txns : Committed(u) => seq'[u] = seq[u] /\ keys'[u] = keys[u]
                                           /\ ddl'[u] = ddl[u]
  <1> USE DEF IInv
  <1>1. ASSUME NEW t \in Txns, TxnStep(t), NEW u \in Txns, Committed(u)
        PROVE  seq'[u] = seq[u] /\ keys'[u] = keys[u] /\ ddl'[u] = ddl[u]
    <2>1. phase[u] \in {"resolved", "done"}
      BY <1>1 DEF PhaseInv
    <2>2. QED
      BY <1>1, <2>1, TxnSummary
  <1>2. CASE LeaderStep
    <2>1. ASSUME NEW t \in Txns, PublishState(t), NEW u \in Txns, Committed(u)
          PROVE  seq'[u] = seq[u] /\ keys'[u] = keys[u] /\ ddl'[u] = ddl[u]
      <3>1. u # t
        BY <2>1 DEF PublishState, NextInGroup, Group, PhaseInv
      <3>2. QED
        BY <2>1, <3>1 DEF PublishState, TypeOK
    <2>2. ASSUME NEW t \in Txns, Reject(t) \/ Accept(t) \/ ExpireInGroup(t)
          PROVE  UNCHANGED <<seq, keys, ddl>>
      BY <2>2 DEF Reject, Accept, ExpireInGroup
    <2>3. CASE \/ Claim \/ RefuseGroup \/ StartWrite \/ SyncGroup \/ SyncFails
               \/ PublishReaders \/ RecordRevisions \/ Finish
      BY <2>3 DEF Claim, RefuseGroup, StartWrite, SyncGroup, SyncFails, PublishReaders,
                  RecordRevisions, Finish, txVars
    <2>4. QED
      BY <1>2, <2>1, <2>2, <2>3 DEF LeaderStep
  <1>3. CASE MaintenanceStep
    BY <1>3 DEF MaintenanceStep, CaptureCheckpoint, AbandonCheckpoint, InstallCheckpoint,
                InstallFails, txVars
  <1>4. QED
    BY <1>1, <1>2, <1>3 DEF Next

(* A revision is recorded for a commit of the group, kept, or pruned. *)
LEMMA RevisionsAreRealStep ==
    ASSUME IInv, RevisionsAreReal, [Next]_vars
    PROVE  RevisionsAreReal'
  <1> DEFINE Kept == /\ \A k \in Keys : revisions'[k] \in {revisions[k], 0}
                     /\ catalogRevision' = catalogRevision
  <1>1. ASSUME UNCHANGED vars PROVE RevisionsAreReal'
    BY <1>1 DEF RevisionsAreReal, Committed, vars, txVars, dbVars
  <1>2. ASSUME Next PROVE RevisionsAreReal'
    <2>1. \A u \in Txns : Committed(u) => /\ Committed(u)' /\ seq'[u] = seq[u]
                                          /\ keys'[u] = keys[u] /\ ddl'[u] = ddl[u]
      BY <1>2, CommitIsSettled DEF Committed
    <2>2. CASE Kept
      BY <2>1, <2>2 DEF RevisionsAreReal
    <2>3. CASE RecordRevisions
      <3>1. \A t \in JustCommitted : t \in Txns /\ Committed(t)
        BY DEF JustCommitted
      <3>2. ASSUME NEW k \in Keys, revisions'[k] # 0
            PROVE  \E u \in Txns : Committed(u) /\ seq[u] = revisions'[k] /\ k \in keys[u]
        <4>1. CASE \E t \in JustCommitted : k \in keys[t]
          BY <2>3, <3>1, <4>1 DEF RecordRevisions
        <4>2. CASE ~ \E t \in JustCommitted : k \in keys[t]
          BY <2>3, <3>2, <4>2 DEF RecordRevisions, RevisionsAreReal
        <4>3. QED
          BY <4>1, <4>2
      <3>3. ASSUME catalogRevision' # 0
            PROVE  \E u \in Txns : Committed(u) /\ seq[u] = catalogRevision' /\ ddl[u]
        <4>1. CASE \E t \in JustCommitted : ddl[t]
          BY <2>3, <3>1, <4>1 DEF RecordRevisions
        <4>2. CASE ~ \E t \in JustCommitted : ddl[t]
          BY <2>3, <3>3, <4>2 DEF RecordRevisions, RevisionsAreReal
        <4>3. QED
          BY <4>1, <4>2
      <3>4. QED
        BY <2>1, <3>2, <3>3 DEF RevisionsAreReal
    <2>4. ASSUME NEW t \in Txns, TxnStep(t) PROVE Kept
      BY <2>4, TxnSummary DEF IInv
    <2>5. ASSUME NEW t \in Txns, Reject(t) \/ Accept(t) \/ ExpireInGroup(t) \/ PublishState(t)
          PROVE  Kept
      BY <2>5 DEF Reject, Accept, ExpireInGroup, PublishState, dbVars
    <2>6. CASE \/ Claim \/ RefuseGroup \/ StartWrite \/ SyncGroup \/ SyncFails
               \/ PublishReaders \/ Finish
      <3>1. Kept
        BY <2>6 DEF Claim, RefuseGroup, StartWrite, SyncGroup, SyncFails, PublishReaders,
                    Finish, dbVars
      <3>2. QED
        BY <2>2, <3>1
    <2>7. CASE MaintenanceStep
      <3>1. Kept
        BY <2>7 DEF MaintenanceStep, CaptureCheckpoint, AbandonCheckpoint, InstallCheckpoint,
                    InstallFails, dbVars
      <3>2. QED
        BY <2>2, <3>1
    <2>8. QED
      BY <1>2, <2>2, <2>3, <2>4, <2>5, <2>6, <2>7 DEF Next, LeaderStep
  <1>3. QED
    BY <1>1, <1>2

(* Validation refuses nobody without cause: whoever is told of a conflict overlaps
   a transaction that committed after its pin, or one accepted before it in the
   same group, however groups and prunings interleave.                      *)
THEOREM ConflictsAreReal == Spec => ConflictIsReal
  <1>1. Init => RevisionsAreReal
    BY DEF Init, RevisionsAreReal
  <1>2. IInv /\ RevisionsAreReal /\ [Next]_vars => RevisionsAreReal'
    BY RevisionsAreRealStep
  <1> DEFINE Cause(t) == \E u \in Txns \ {t} :
                            /\ ddl[u] \/ keys[u] \intersect keys[t] # {}
                            /\ (Committed(u) /\ seq[u] > base[t]) \/ phase[u] = "accepted"
  <1>3. IInv /\ RevisionsAreReal /\ [Next]_vars =>
           [\A t \in Txns : outcome'[t] = "conflict" /\ outcome[t] # "conflict" => Cause(t)]_vars
    <2> SUFFICES ASSUME IInv, RevisionsAreReal, Next, NEW t \in Txns,
                        outcome'[t] = "conflict", outcome[t] # "conflict"
                 PROVE  Cause(t)
      OBVIOUS
    <2> USE DEF IInv
    <2>1. PICK r \in Txns : Reject(r)
      <3>1. ASSUME NEW r \in Txns, TxnStep(r) PROVE FALSE
        BY <3>1 DEF TxnStep, PinRead, PinRegister, Stage, StageTable, Drop, DeadlinePasses,
                    Commit, Cancel, Resolve, TypeOK
      <3>2. ASSUME NEW r \in Txns, Accept(r) \/ ExpireInGroup(r) \/ PublishState(r)
            PROVE  FALSE
        BY <3>2 DEF Accept, ExpireInGroup, PublishState, Resolve, TypeOK
      <3>3. ~(\/ Claim \/ RefuseGroup \/ StartWrite \/ SyncGroup \/ SyncFails
              \/ PublishReaders \/ RecordRevisions \/ Finish)
        BY DEF Claim, RefuseGroup, StartWrite, SyncGroup, SyncFails, PublishReaders,
               RecordRevisions, Finish, ResolveAll, txVars
      <3>4. ~MaintenanceStep
        BY DEF MaintenanceStep, CaptureCheckpoint, AbandonCheckpoint, InstallCheckpoint,
               InstallFails, txVars
      <3>5. QED
        BY <3>1, <3>2, <3>3, <3>4 DEF Next, LeaderStep
    <2>2. r = t /\ phase[t] = "claimed" /\ Conflicts(t)
      BY <2>1 DEF Reject, Resolve, Verdict, TypeOK
    <2>3. ~Committed(t) /\ base[t] \in Nat /\ keys[t] \subseteq Keys
      BY <2>2 DEF PhaseInv, TypeOK
    <2>4. CASE InGroupConflict(t)
      BY <2>2, <2>4 DEF InGroupConflict, Group
    <2>5. CASE RevisionConflict(t)
      <3>1. CASE catalogRevision > base[t]
        BY <2>3, <3>1 DEF RevisionsAreReal, TypeOK
      <3>2. ASSUME NEW k \in keys[t], revisions[k] > base[t] PROVE Cause(t)
        <4>1. k \in Keys /\ revisions[k] # 0
          BY <2>3, <3>2
        <4>2. PICK u \in Txns : Committed(u) /\ seq[u] = revisions[k] /\ k \in keys[u]
          BY <4>1 DEF RevisionsAreReal
        <4>3. QED
          BY <2>3, <3>2, <4>2
      <3>3. QED
        BY <2>5, <3>1, <3>2 DEF RevisionConflict
    <2>6. QED
      BY <2>2, <2>4, <2>5 DEF Conflicts
  <1>4. QED
    BY <1>1, <1>2, <1>3, InductiveInvariant, PTL DEF Spec, ConflictIsReal

-----------------------------------------------------------------------------
(* Whoever got a sequence is told of success. *)
CommitsSucceed == \A t \in Txns : Committed(t) => outcome[t] = "ok"

(* A transaction the group leader has not resolved got no sequence yet, and one
   that did keeps its outcome.                                              *)
LEMMA CommitsSucceedStep ==
    ASSUME IInv, CommitsSucceed, [Next]_vars
    PROVE  CommitsSucceed'
  <1> USE DEF IInv
  <1>1. ASSUME UNCHANGED <<seq, outcome>> PROVE CommitsSucceed'
    BY <1>1 DEF CommitsSucceed, Committed
  <1>2. ASSUME NEW t \in Txns, ~Committed(t), seq' = seq,
               \A u \in Txns : u # t => outcome'[u] = outcome[u]
        PROVE  CommitsSucceed'
    BY <1>2 DEF CommitsSucceed, Committed
  <1>3. CASE UNCHANGED vars
    BY <1>1, <1>3 DEF vars, txVars
  <1>4. ASSUME NEW t \in Txns, TxnStep(t) PROVE CommitsSucceed'
    <2>1. CASE PinRead(t) \/ PinRegister(t) \/ (\E k \in Keys : Stage(t, k)) \/ StageTable(t)
               \/ DeadlinePasses(t)
      BY <1>1, <2>1 DEF PinRead, PinRegister, Stage, StageTable, DeadlinePasses
    <2>2. CASE Drop(t) \/ Commit(t) \/ Cancel(t)
      <3>1. phase[t] \in {"pinning", "open", "queued"} /\ seq' = seq
        BY <2>2 DEF Drop, Commit, Cancel
      <3>2. \A u \in Txns : u # t => outcome'[u] = outcome[u]
        BY <2>2 DEF Drop, Commit, Cancel, Resolve, TypeOK
      <3>3. ~Committed(t)
        BY <3>1 DEF PhaseInv
      <3>4. QED
        BY <1>2, <3>1, <3>2, <3>3
    <2>3. QED
      BY <1>4, <2>1, <2>2 DEF TxnStep
  <1>5. CASE LeaderStep
    <2>1. CASE Claim \/ StartWrite \/ SyncGroup \/ PublishReaders \/ RecordRevisions \/ Finish
      BY <1>1, <2>1 DEF Claim, StartWrite, SyncGroup, PublishReaders, RecordRevisions, Finish,
                        txVars
    <2>2. ASSUME NEW t \in Txns, Accept(t) PROVE CommitsSucceed'
      BY <1>1, <2>2 DEF Accept
    <2>3. ASSUME NEW t \in Txns, Reject(t) \/ ExpireInGroup(t) PROVE CommitsSucceed'
      <3>1. phase[t] \in {"claimed", "accepted"} /\ seq' = seq
        BY <2>3 DEF Reject, ExpireInGroup, Group
      <3>2. \A u \in Txns : u # t => outcome'[u] = outcome[u]
        BY <2>3 DEF Reject, ExpireInGroup, Resolve, TypeOK
      <3>3. ~Committed(t)
        BY <3>1 DEF PhaseInv
      <3>4. QED
        BY <1>2, <3>1, <3>2, <3>3
    <2>4. ASSUME NEW t \in Txns, PublishState(t) PROVE CommitsSucceed'
      <3>1. /\ outcome'[t] = "ok"
            /\ \A u \in Txns : u # t => outcome'[u] = outcome[u] /\ seq'[u] = seq[u]
        BY <2>4 DEF PublishState, Resolve, TypeOK
      <3>2. QED
        BY <3>1 DEF CommitsSucceed, Committed
    <2>5. CASE RefuseGroup \/ SyncFails
      <3>1. /\ seq' = seq
            /\ \A u \in Txns : phase[u] # "accepted" => outcome'[u] = outcome[u]
        BY <2>5 DEF RefuseGroup, SyncFails, ResolveAll, Group
      <3>2. QED
        BY <3>1 DEF CommitsSucceed, Committed, PhaseInv
    <2>6. QED
      BY <1>5, <2>1, <2>2, <2>3, <2>4, <2>5 DEF LeaderStep
  <1>6. CASE MaintenanceStep
    BY <1>1, <1>6 DEF MaintenanceStep, CaptureCheckpoint, AbandonCheckpoint, InstallCheckpoint,
                      InstallFails, txVars
  <1>7. QED
    BY <1>3, <1>4, <1>5, <1>6 DEF Next

(* What the isolated store calls the state of each transaction. *)
LEMMA StatusOf ==
    ASSUME NEW t \in Txns
    PROVE  /\ phase[t] = "idle" => Status[t] = "idle"
           /\ phase[t] \in {"pinning", "open", "queued", "claimed", "accepted"}
                 => Status[t] = "open"
           /\ phase[t] = "resolved" /\ Committed(t) => Status[t] = "committed"
           /\ (phase[t] = "resolved" /\ ~Committed(t)) \/ phase[t] = "done"
                 => Status[t] = IF outcome[t] = "ok" THEN "acknowledged" ELSE "failed"
  BY DEF Status

(* The state of every transaction is one of the isolated store's, and says what
   phase it stands for.                                                     *)
LEMMA PhaseOf ==
    ASSUME TypeOK, NEW t \in Txns
    PROVE  /\ Status[t] = "idle" <=> phase[t] = "idle"
           /\ Status[t] = "open" <=> phase[t] \in {"pinning", "open", "queued", "claimed",
                                                   "accepted"}
           /\ Status[t] = "committed" <=> phase[t] = "resolved" /\ Committed(t)
  BY DEF Status, TypeOK, Phases

(* Only the transactions of S moved. *)
LEMMA Moved ==
    ASSUME NEW S, NEW what,
           \A t \in Txns : Status'[t] = IF t \in S THEN what ELSE Status[t]
    PROVE  Isolated!Become(S, what)
  <1>1. Status' = [t \in Txns |-> Status'[t]]
    BY DEF Status
  <1>2. QED
    BY <1>1 DEF Isolated!Become

(* A transaction's state depends on its phase, its sequence and its outcome. *)
LEMMA StatusFrame ==
    ASSUME NEW t \in Txns, phase'[t] = phase[t], seq'[t] = seq[t], outcome'[t] = outcome[t]
    PROVE  Status'[t] = Status[t]
  BY DEF Status, Committed

LEMMA StatusKept ==
    ASSUME \A t \in Txns : Status'[t] = Status[t]
    PROVE  Status' = Status
  BY DEF Status

(* Everything else the isolated store keeps. *)
StoreKept == UNCHANGED <<snap, keys, ddl, store, published, poisoned>>

(* Steps the isolated store does not see. *)
LEMMA Unseen ==
    ASSUME StoreKept, \A t \in Txns : Status'[t] = Status[t]
    PROVE  UNCHANGED Isolated!vars
  BY StatusKept DEF StoreKept, Isolated!vars

(* Transactions that were open end without a trace. *)
LEMMA Failed ==
    ASSUME StoreKept, TypeOK, NEW S \in SUBSET Txns,
           \A t \in S : Status[t] = "open" /\ Status'[t] = "failed",
           \A t \in Txns : t \notin S => Status'[t] = Status[t]
    PROVE  Isolated!Fail
  <1>1. S \in SUBSET Isolated!In("open")
    BY DEF Isolated!In
  <1>2. Isolated!Become(S, "failed")
    BY Moved
  <1>3. poisoned' \in {poisoned, TRUE}
    BY Zenon DEF StoreKept
  <1>4. QED
    BY <1>1, <1>2, <1>3 DEF Isolated!Fail, StoreKept

(* A transaction's own step: it begins with the published view, changes an entity or
   the catalog, ends without a trace, or is acknowledged although it did nothing. *)
LEMMA TxnMaps ==
    ASSUME IInv, NEW t \in Txns, TxnStep(t)
    PROVE  [Isolated!Next]_(Isolated!vars)
  <1> USE DEF IInv
  <1>a. ASSUME \A u \in Txns : u # t => phase'[u] = phase[u] /\ outcome'[u] = outcome[u],
               seq' = seq
        PROVE  \A u \in Txns : u # t => Status'[u] = Status[u]
    BY <1>a, StatusFrame
  <1>1. CASE PinRead(t)
    <2>1. /\ phase[t] = "idle" /\ ~poisoned /\ phase'[t] = "pinning" /\ seq' = seq
          /\ \A u \in Txns : u # t => phase'[u] = phase[u] /\ outcome'[u] = outcome[u]
      BY <1>1 DEF PinRead, TypeOK
    <2>2. Status[t] = "idle" /\ Status'[t] = "open"
      BY <2>1 DEF Status
    <2>3. \A u \in Txns : Status'[u] = IF u \in {t} THEN "open" ELSE Status[u]
      BY <1>a, <2>1, <2>2
    <2>4. Isolated!Become({t}, "open")
      BY <2>3, Moved
    <2>5. /\ snap' = [snap EXCEPT ![t] = published.view]
          /\ UNCHANGED <<keys, ddl, store, published, poisoned>>
      BY <1>1 DEF PinRead, dbVars
    <2>6. Isolated!Begin(t)
      BY <2>1, <2>2, <2>4, <2>5 DEF Isolated!Begin
    <2>7. QED
      BY <2>6 DEF Isolated!Next
  <1>2. CASE PinRegister(t) \/ DeadlinePasses(t)
    <2>1. /\ StoreKept /\ seq' = seq /\ outcome' = outcome
          /\ \A u \in Txns : u # t => phase'[u] = phase[u]
          /\ \/ phase'[t] = phase[t]
             \/ phase[t] = "pinning" /\ phase'[t] = "open"
      BY <1>2 DEF PinRegister, DeadlinePasses, StoreKept, dbVars, TypeOK
    <2>2. Status'[t] = Status[t]
      BY <2>1 DEF Status, Committed
    <2>3. QED
      BY <1>a, <2>1, <2>2, Unseen
  <1>3. ASSUME NEW k \in Keys, Stage(t, k) PROVE Isolated!Next
    <2>1. /\ phase[t] = "open" /\ ~poisoned /\ keys' = [keys EXCEPT ![t] = @ \union {k}]
          /\ UNCHANGED <<phase, seq, outcome, snap, ddl, store, published, poisoned>>
      BY <1>3 DEF Stage, dbVars
    <2>2. Status' = Status
      BY <2>1, StatusFrame, StatusKept
    <2>3. Status[t] = "open"
      BY <2>1, StatusOf
    <2>4. Isolated!Write(t, k)
      BY <2>1, <2>2, <2>3 DEF Isolated!Write
    <2>5. QED
      BY <2>4 DEF Isolated!Next
  <1>4. CASE StageTable(t)
    <2>1. /\ phase[t] = "open" /\ ~poisoned /\ ddl' = [ddl EXCEPT ![t] = TRUE]
          /\ UNCHANGED <<phase, seq, outcome, snap, keys, store, published, poisoned>>
      BY <1>4 DEF StageTable, dbVars
    <2>2. Status' = Status
      BY <2>1, StatusFrame, StatusKept
    <2>3. Status[t] = "open"
      BY <2>1, StatusOf
    <2>4. Isolated!Alter(t)
      BY <2>1, <2>2, <2>3 DEF Isolated!Alter
    <2>5. QED
      BY <2>4 DEF Isolated!Next
  <1>5. CASE Drop(t) \/ Commit(t) \/ Cancel(t)
    <2>1. /\ StoreKept /\ seq' = seq
          /\ \A u \in Txns : u # t => phase'[u] = phase[u] /\ outcome'[u] = outcome[u]
      BY <1>5 DEF Drop, Commit, Cancel, Resolve, StoreKept, dbVars, TypeOK
    <2>2. phase[t] \in {"pinning", "open", "queued"} /\ Status[t] = "open"
      BY <1>5, StatusOf DEF Drop, Commit, Cancel
    <2>3. \/ phase'[t] = "done" /\ outcome'[t] \in {"aborted", "expired", "recovery", "limit"}
          \/ phase'[t] = "queued"
          \/ phase'[t] = "done" /\ outcome'[t] = "ok" /\ keys[t] = {} /\ ~ddl[t]
      BY <1>5 DEF Drop, Commit, Cancel, Resolve, IsEmpty, TypeOK
    <2>4. CASE phase'[t] = "done" /\ outcome'[t] \in {"aborted", "expired", "recovery", "limit"}
      <3>1. Status'[t] = "failed"
        BY <2>4 DEF Status
      <3>2. Isolated!Fail
        <4> DEFINE S == {t}
        <4>1. S \in SUBSET Txns
          OBVIOUS
        <4>2. \A u \in S : Status[u] = "open" /\ Status'[u] = "failed"
          BY <2>2, <3>1
        <4>3. \A u \in Txns : u \notin S => Status'[u] = Status[u]
          BY <1>a, <2>1
        <4> HIDE DEF S
        <4>4. QED
          BY <2>1, <4>1, <4>2, <4>3, Failed
      <3>3. QED
        BY <3>2 DEF Isolated!Next
    <2>5. CASE phase'[t] = "queued"
      <3>1. Status'[t] = "open"
        BY <2>5 DEF Status
      <3>2. QED
        BY <1>a, <2>1, <2>2, <3>1, Unseen
    <2>6. CASE phase'[t] = "done" /\ outcome'[t] = "ok" /\ keys[t] = {} /\ ~ddl[t]
      <3>1. Status'[t] = "acknowledged"
        BY <2>6 DEF Status
      <3>2. \A u \in Txns : Status'[u] = IF u \in {t} THEN "acknowledged" ELSE Status[u]
        BY <1>a, <2>1, <3>1
      <3>3. Isolated!Become({t}, "acknowledged") /\ t \in Isolated!In("open")
        BY <2>2, <3>2, Moved DEF Isolated!In
      <3>4. Isolated!Acknowledge
        BY <2>1, <2>6, <3>3 DEF Isolated!Acknowledge, StoreKept
      <3>5. QED
        BY <3>4 DEF Isolated!Next
    <2>7. QED
      BY <2>3, <2>4, <2>5, <2>6
  <1>6. QED
    BY <1>1, <1>2, <1>3, <1>4, <1>5 DEF TxnStep

(* The leader resolves transactions without success. *)
LEMMA ResolvedWithoutSuccess ==
    ASSUME IInv, StoreKept, seq' = seq, NEW S \in SUBSET Txns,
           \A t \in S : /\ phase[t] \in {"claimed", "accepted"} /\ phase'[t] = "resolved"
                        /\ outcome'[t] # "ok",
           \A t \in Txns : t \notin S => phase'[t] = phase[t] /\ outcome'[t] = outcome[t]
    PROVE  Isolated!Fail
  <1> USE DEF IInv
  <1>1. \A t \in S : ~Committed(t) /\ ~Committed(t)'
    BY DEF PhaseInv, Committed
  <1>2. ASSUME NEW t \in S PROVE Status[t] = "open" /\ Status'[t] = "failed"
    BY <1>1 DEF Status
  <1>3. \A t \in Txns : t \notin S => Status'[t] = Status[t]
    BY StatusFrame
  <1>4. QED
    BY <1>2, <1>3, Failed

(* Publishing a batch is a commit of the isolated store: nobody changed what it
   overwrites since it pinned its view, so overwriting whole entities and the whole
   catalog adds its own writes and nothing else.                            *)
LEMMA PublishStateMaps ==
    ASSUME IInv, PoisonInv, NEW t \in Txns, PublishState(t)
    PROVE  Isolated!Commit(t)
  <1> USE DEF IInv
  <1>1. /\ coord = "publishing" /\ phase[t] = "accepted" /\ t \in Group
        /\ phase'[t] = "resolved" /\ seq'[t] = lsn + 1
        /\ \A u \in Txns : u # t => phase'[u] = phase[u] /\ seq'[u] = seq[u]
                                    /\ outcome'[u] = outcome[u]
    BY DEF PublishState, Resolve, NextInGroup, Group, TypeOK
  <1>2. ~poisoned
    BY <1>1 DEF PoisonInv
  <1>3. Status[t] = "open" /\ Status'[t] = "committed"
    <2>1. Committed(t)'
      BY <1>1 DEF Committed, TypeOK
    <2>2. QED
      BY <1>1, <2>1 DEF Status
  <1>4. \A u \in Txns : Status'[u] = IF u \in {t} THEN "committed" ELSE Status[u]
    BY <1>1, <1>3, StatusFrame
  <1>5. Isolated!Become({t}, "committed")
    BY <1>4, Moved
  <1>6. IsPrefix(snap[t], base[t]) /\ IsPrefix(store, lsn)
    BY <1>1 DEF ViewsArePrefixes, NoLostUpdate
  <1>7. \A u \in Txns : /\ seq[u] \in Nat /\ seq[u] <= lsn /\ lsn \in Nat
                        /\ base[t] \in Nat /\ base[t] <= lsn
    BY DEF TypeOK, SequenceInv
  <1>8. \A u \in Txns : Committed(u) /\ seq[u] > base[t]
                          => keys[t] \intersect keys[u] = {} /\ ~ddl[u]
    BY <1>1 DEF GroupInv
  <1>9. ASSUME NEW k \in Keys, k \in keys[t] PROVE snap[t].writers[k] = store.writers[k]
    <2>1. WritersUpTo(base[t], k) = WritersUpTo(lsn, k)
      BY <1>7, <1>8, <1>9 DEF WritersUpTo
    <2>2. QED
      BY <1>6, <2>1 DEF IsPrefix
  <1>10. snap[t].catalog = store.catalog
    <2>1. CatalogUpTo(base[t]) = CatalogUpTo(lsn)
      BY <1>7, <1>8 DEF CatalogUpTo
    <2>2. QED
      BY <1>6, <2>1 DEF IsPrefix
  <1>11. Isolated!Undisturbed(t)
    BY <1>9, <1>10 DEF Isolated!Undisturbed, TypeOK
  <1>12. store' = [writers |-> [k \in Keys |-> store.writers[k] \union
                                               IF k \in keys[t] THEN {t} ELSE {}],
                   catalog |-> store.catalog \union IF ddl[t] THEN {t} ELSE {}]
    <2>1. store' = [writers |-> [k \in Keys |-> IF k \in keys[t] THEN snap[t].writers[k] \union {t}
                                                               ELSE store.writers[k]],
                    catalog |-> snap[t].catalog \union (IF ddl[t] THEN {t} ELSE {})]
      BY DEF PublishState, StagedWriters, StagedCatalog
    <2>2. \A k \in Keys : (IF k \in keys[t] THEN snap[t].writers[k] \union {t}
                                            ELSE store.writers[k])
                          = store.writers[k] \union IF k \in keys[t] THEN {t} ELSE {}
      BY <1>9
    <2>3. QED
      BY <2>1, <2>2, <1>10
  <1>13. UNCHANGED <<snap, keys, ddl, published, poisoned>>
    BY DEF PublishState
  <1>14. QED
    BY <1>2, <1>3, <1>5, <1>11, <1>12, <1>13 DEF Isolated!Commit

(* Handing out the results acknowledges the group, which by then is visible. *)
LEMMA FinishMaps ==
    ASSUME IInv, CommitsSucceed, Finish
    PROVE  Isolated!Acknowledge
  <1> USE DEF IInv
  <1>1. /\ coord = "finishing" /\ StoreKept /\ seq' = seq /\ outcome' = outcome
        /\ \A t \in Txns : phase'[t] = IF phase[t] = "resolved" THEN "done" ELSE phase[t]
    BY DEF Finish, dbVars, StoreKept
  <1>2. published.view = store
    BY <1>1 DEF SequenceInv
  <1>3. ASSUME NEW t \in Txns, Status[t] = "committed"
        PROVE  Isolated!IsVisible(t) /\ Status'[t] = "acknowledged"
    <2>1. phase[t] = "resolved" /\ Committed(t) /\ seq[t] <= lsn /\ keys[t] \subseteq Keys
      BY <1>3, PhaseOf DEF SequenceInv, TypeOK
    <2>2. \A k \in keys[t] : t \in store.writers[k]
      BY <2>1 DEF NoLostUpdate, IsPrefix, WritersUpTo
    <2>3. ddl[t] => t \in store.catalog
      BY <2>1 DEF NoLostUpdate, IsPrefix, CatalogUpTo
    <2>4. outcome'[t] = "ok" /\ phase'[t] = "done"
      BY <1>1, <2>1 DEF CommitsSucceed
    <2>5. QED
      BY <1>2, <2>2, <2>3, <2>4 DEF Isolated!IsVisible, Status
  <1>4. ASSUME NEW t \in Txns, Status[t] # "committed" PROVE Status'[t] = Status[t]
    <2>1. CASE phase[t] = "resolved"
      <3>1. ~Committed(t) /\ phase'[t] = "done" /\ outcome'[t] = outcome[t]
        BY <1>1, <1>4, <2>1, PhaseOf
      <3>2. QED
        BY <2>1, <3>1 DEF Status
    <2>2. CASE phase[t] # "resolved"
      BY <1>1, <2>2, StatusFrame
    <2>3. QED
      BY <2>1, <2>2
  <1>5. \A t \in Txns : Status'[t] = IF t \in Isolated!In("committed") THEN "acknowledged"
                                                                      ELSE Status[t]
    BY <1>3, <1>4 DEF Isolated!In
  <1>6. Isolated!Become(Isolated!In("committed"), "acknowledged")
    BY <1>5, Moved
  <1>7. \A t \in Isolated!In("committed") : Isolated!IsVisible(t)
    BY <1>3 DEF Isolated!In
  <1>8. QED
    BY <1>1, <1>6, <1>7 DEF Isolated!Acknowledge, StoreKept

(* Every step of the group leader is a step of the isolated store or invisible. *)
LEMMA LeaderMaps ==
    ASSUME IInv, PoisonInv, CommitsSucceed, LeaderStep
    PROVE  [Isolated!Next]_(Isolated!vars)
  <1> USE DEF IInv
  <1>1. CASE Claim
    <2>1. /\ StoreKept /\ seq' = seq /\ outcome' = outcome
          /\ \A t \in Txns : phase'[t] = phase[t] \/ (phase[t] = "queued" /\ phase'[t] = "claimed")
      BY <1>1 DEF Claim, StoreKept, dbVars
    <2>2. \A t \in Txns : Status'[t] = Status[t]
      BY <2>1 DEF Status, Committed
    <2>3. QED
      BY <2>1, <2>2, Unseen
  <1>2. ASSUME NEW t \in Txns, Accept(t) PROVE UNCHANGED Isolated!vars
    <2>1. /\ StoreKept /\ seq' = seq /\ outcome' = outcome
          /\ \A u \in Txns : phase'[u] = phase[u] \/ (phase[u] = "claimed" /\ phase'[u] = "accepted")
      BY <1>2 DEF Accept, StoreKept, dbVars, TypeOK
    <2>2. \A u \in Txns : Status'[u] = Status[u]
      BY <2>1 DEF Status, Committed
    <2>3. QED
      BY <2>1, <2>2, Unseen
  <1>3. ASSUME NEW t \in Txns, Reject(t) \/ ExpireInGroup(t) PROVE Isolated!Fail
    <2>1. /\ StoreKept /\ seq' = seq
          /\ phase[t] \in {"claimed", "accepted"} /\ phase'[t] = "resolved" /\ outcome'[t] # "ok"
          /\ \A u \in Txns : u # t => phase'[u] = phase[u] /\ outcome'[u] = outcome[u]
      BY <1>3 DEF Reject, ExpireInGroup, Verdict, Resolve, Group, StoreKept, dbVars, TypeOK
    <2> DEFINE S == {t}
    <2>2. S \in SUBSET Txns
      OBVIOUS
    <2>3. /\ \A u \in S : /\ phase[u] \in {"claimed", "accepted"} /\ phase'[u] = "resolved"
                          /\ outcome'[u] # "ok"
          /\ \A u \in Txns : u \notin S => phase'[u] = phase[u] /\ outcome'[u] = outcome[u]
      BY <2>1
    <2> HIDE DEF S
    <2>4. QED
      BY <2>1, <2>2, <2>3, ResolvedWithoutSuccess
  <1>4. CASE RefuseGroup
    <2>1. StoreKept /\ seq' = seq /\ Group \in SUBSET Txns
      BY <1>4 DEF RefuseGroup, StoreKept, dbVars, Group
    <2>2. CASE UNCHANGED <<phase, outcome>>
      BY <2>1, <2>2, StatusFrame, Unseen
    <2>3. CASE ResolveAll(Group, "io") \/ ResolveAll(Group, "limit")
      <3>1. /\ \A u \in Group : /\ phase[u] \in {"claimed", "accepted"}
                                /\ phase'[u] = "resolved" /\ outcome'[u] # "ok"
            /\ \A u \in Txns : u \notin Group => phase'[u] = phase[u] /\ outcome'[u] = outcome[u]
        BY <2>3 DEF ResolveAll, Group
      <3>2. Isolated!Fail
        BY <2>1, <3>1, ResolvedWithoutSuccess
      <3>3. QED
        BY <3>2 DEF Isolated!Next
    <2>4. QED
      BY <1>4, <2>2, <2>3 DEF RefuseGroup
  <1>5. CASE StartWrite \/ SyncGroup \/ RecordRevisions
    <2>1. StoreKept /\ UNCHANGED <<phase, seq, outcome>>
      BY <1>5 DEF StartWrite, SyncGroup, RecordRevisions, StoreKept, txVars, dbVars
    <2>2. QED
      BY <2>1, StatusFrame, Unseen
  <1>6. CASE SyncFails
    <2>1. /\ seq' = seq /\ poisoned' = TRUE /\ UNCHANGED <<snap, keys, ddl, store, published>>
          /\ \A u \in Txns : u \in Group => phase'[u] = "resolved" /\ outcome'[u] = "unknown"
          /\ \A u \in Txns : u \notin Group => phase'[u] = phase[u] /\ outcome'[u] = outcome[u]
      BY <1>6 DEF SyncFails, ResolveAll
    <2>2. \A u \in Group : u \in Txns /\ Status[u] = "open" /\ Status'[u] = "failed"
      <3>1. \A u \in Group : /\ u \in Txns /\ phase[u] = "accepted" /\ ~Committed(u)
                             /\ ~Committed(u)'
        BY <2>1 DEF Group, PhaseInv, Committed
      <3>2. QED
        BY <2>1, <3>1 DEF Status
    <2>3. \A u \in Txns : Status'[u] = IF u \in Group THEN "failed" ELSE Status[u]
      BY <2>1, <2>2, StatusFrame
    <2>4. Isolated!Become(Group, "failed")
      BY <2>3, Moved
    <2>5. Group \in SUBSET Isolated!In("open")
      BY <2>2 DEF Isolated!In
    <2>6. Isolated!Fail
      BY <2>1, <2>4, <2>5 DEF Isolated!Fail
    <2>7. QED
      BY <2>6 DEF Isolated!Next
  <1>7. ASSUME NEW t \in Txns, PublishState(t) PROVE Isolated!Next
    BY <1>7, PublishStateMaps DEF Isolated!Next
  <1>8. CASE PublishReaders
    <2>1. /\ UNCHANGED <<phase, seq, outcome, snap, keys, ddl, store, poisoned>>
          /\ published'.view = store /\ coord = "publishing"
      BY <1>8 DEF PublishReaders, txVars
    <2>2. Status' = Status
      BY <2>1, StatusFrame, StatusKept
    <2>3. ~poisoned
      BY <2>1 DEF PoisonInv
    <2>4. Isolated!Reveal
      BY <2>1, <2>2, <2>3 DEF Isolated!Reveal
    <2>5. QED
      BY <2>4 DEF Isolated!Next
  <1>9. CASE Finish
    BY <1>9, FinishMaps DEF Isolated!Next
  <1>10. QED
    BY <1>1, <1>2, <1>3, <1>4, <1>5, <1>6, <1>7, <1>8, <1>9 DEF LeaderStep, Isolated!Next

(* Maintenance is invisible, unless its outcome is uncertain: the view it installs
   is the one that was already visible.                                     *)
LEMMA MaintenanceMaps ==
    ASSUME IInv, MaintenanceStep
    PROVE  [Isolated!Next]_(Isolated!vars)
  <1> USE DEF IInv
  <1>1. /\ UNCHANGED <<phase, seq, outcome, snap, keys, ddl, store>>
        /\ CoordinatorFree
    BY DEF MaintenanceStep, CaptureCheckpoint, AbandonCheckpoint, InstallCheckpoint,
           InstallFails, txVars, dbVars
  <1>2. \A t \in Txns : Status'[t] = Status[t]
    BY <1>1, StatusFrame
  <1>3. published'.view = published.view
    <2>1. published.view = store
      BY <1>1 DEF CoordinatorFree, SequenceInv
    <2>2. QED
      BY <2>1 DEF MaintenanceStep, CaptureCheckpoint, AbandonCheckpoint, InstallCheckpoint,
                  InstallFails, dbVars
  <1>4. poisoned' = poisoned \/ poisoned' = TRUE
    BY Zenon DEF MaintenanceStep, CaptureCheckpoint, AbandonCheckpoint, InstallCheckpoint,
                 InstallFails, dbVars
  <1>5. CASE poisoned' = poisoned
    BY <1>1, <1>2, <1>3, <1>5, StatusKept DEF Isolated!vars
  <1>6. CASE poisoned' = TRUE
    <2>1. {} \in SUBSET Isolated!In("open")
      OBVIOUS
    <2>2. \A t \in Txns : Status'[t] = IF t \in {} THEN "failed" ELSE Status[t]
      BY <1>2
    <2>3. Isolated!Become({}, "failed")
      BY <2>2, Moved
    <2>4. Isolated!Fail
      BY <1>1, <1>3, <1>6, <2>1, <2>3 DEF Isolated!Fail
    <2>5. QED
      BY <2>4 DEF Isolated!Next
  <1>7. QED
    BY <1>4, <1>5, <1>6

(* The shared database is snapshot isolated for any number of transactions, entities,
   groups and checkpoints: pins, validation against a pruned revision table and the
   group's publication implement a store in which a transaction commits only if
   nobody changed what it overwrites since it began, adds exactly its own writes, is
   acknowledged only when it is visible, and nothing commits after an uncertain
   outcome.                                                                 *)
THEOREM ImplementsIsolatedStore == Spec => IsIsolated
  <1>1. Init => Isolated!Init /\ PoisonInv /\ CommitsSucceed
    <2> SUFFICES ASSUME Init PROVE Isolated!Init /\ PoisonInv /\ CommitsSucceed
      OBVIOUS
    <2>1. /\ snap = [t \in Txns |-> Isolated!Empty] /\ store = Isolated!Empty
          /\ published.view = Isolated!Empty
          /\ keys = [t \in Txns |-> {}] /\ ddl = [t \in Txns |-> FALSE]
      BY DEF Init, Isolated!Empty
    <2>2. Status = [t \in Txns |-> "idle"]
      BY DEF Init, Status
    <2>3. poisoned = FALSE
      BY Zenon DEF Init
    <2>4. Isolated!Init
      BY <2>1, <2>2, <2>3 DEF Isolated!Init
    <2>5. \A t \in Txns : ~Committed(t)
      BY DEF Init, Committed
    <2>6. QED
      BY <2>3, <2>4, <2>5 DEF PoisonInv, CommitsSucceed
  <1>2. IInv /\ PoisonInv /\ [Next]_vars => PoisonInv'
    BY PoisonStep
  <1>3. IInv /\ CommitsSucceed /\ [Next]_vars => CommitsSucceed'
    BY CommitsSucceedStep
  <1>4. IInv /\ PoisonInv /\ CommitsSucceed /\ [Next]_vars
           => [Isolated!Next]_(Isolated!vars)
    <2> SUFFICES ASSUME IInv, PoisonInv, CommitsSucceed, [Next]_vars
                 PROVE  [Isolated!Next]_(Isolated!vars)
      OBVIOUS
    <2>1. CASE UNCHANGED vars
      <3>1. StoreKept /\ UNCHANGED <<phase, seq, outcome>>
        BY <2>1 DEF vars, txVars, dbVars, StoreKept
      <3>2. QED
        BY <3>1, StatusFrame, Unseen
    <2>2. QED
      BY <2>1, TxnMaps, LeaderMaps, MaintenanceMaps DEF Next
  <1>5. QED
    BY <1>1, <1>2, <1>3, <1>4, InductiveInvariant, PTL DEF Spec, IsIsolated, Isolated!Spec
=============================================================================
