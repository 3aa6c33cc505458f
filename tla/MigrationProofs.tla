-------------------------- MODULE MigrationProofs --------------------------
(***************************************************************************)
(* That running the chain of migrations is safe, for any number of         *)
(* processes, any databases to begin with and any deployments.  Of the     *)
(* chain only two facts are used, which TLC evaluates (ArbitersStay,       *)
(* MendersLock); where the chain leads to is not the subject.              *)
(***************************************************************************)
EXTENDS Migrations, TLAPS

(* Facts of the chain's numbers and of what a migration does to the keys. *)

Versions == Version \cup {0}
Busy == {"guard", "count", "change"}
Asked == {0} \cup {d[1] : d \in Deploys}
ProcessRow == [pc : {"off", "lock", "serving"} \cup Busy, role : {"none", "service", "tool", "operator"},
               expects : Asked, target : Version]

MigTypes ==
    /\ applied \in Versions /\ passed \in Versions /\ flawed \subseteq Flaw /\ old \in BOOLEAN
    /\ lockedBy \in Process \cup {Unlocked}
    /\ process \in [Process -> ProcessRow]

\* The migrations that the open transaction has run.
Run(v) == applied < v /\ v <= work.upto

\* What the holder of the lock has done, if there is one.
WorkFits ==
    /\ work.upto \in Versions
    /\ lockedBy = Unlocked => work.mended = {}
    /\ \A d \in work.mended : d \in flawed /\ \E v \in Version : Run(v) /\ d \in Chain[v].mends
    /\ lockedBy # Unlocked =>
           /\ applied <= work.upto
           /\ \A k \in work.schema.keys : k \in schema.keys \/ \E v \in Version : Run(v) /\ k \in Chain[v].keys
           /\ \A d \in flawed \ work.mended : ~RuledOut(d, work.schema.keys)
           /\ arbiters \subseteq work.schema.keys

\* What lets a process be where it is: a start has seen that nothing blocks it,
\* the operator has seen that the old writers are gone.
PlaceFits(p) ==
    /\ process[p].pc \in Busy <=> lockedBy = p
    /\ process[p].pc # "off" => process[p].role # "none"
    /\ process[p].pc # "off" /\ process[p].role = "operator" => ~old
    /\ process[p].role = "service" => process[p].target = Newest
    /\ process[p].pc \in {"count", "change"} /\ process[p].role \in {"service", "tool"} => ~Blocked
    /\ process[p].pc = "change" => work.upto < process[p].target
    /\ process[p].pc = "serving" => applied = Newest

OldFits == /\ arbiters \subseteq OldArbiters /\ arbiters \subseteq schema.keys
           /\ (old => applied # 0) /\ (~old => arbiters = {})

MigInv == MigTypes /\ WorkFits /\ KeysHold /\ OldFits /\ \A p \in Process : PlaceFits(p)

ProcessAt(p) ==
    /\ process' \in [Process -> ProcessRow] /\ \A x \in Process \ {p} : process'[x] = process[x]

LEMMA VersionNumbers ==
    /\ \A v \in Versions : v \in Nat /\ v <= 71
    /\ 0 \in Versions /\ 71 \in Version /\ Newest = 71 /\ Version \subseteq Versions
  BY DEF Versions, Version, Newest

LEMMA NextIsVersion ==
    ASSUME NEW u \in Versions, NEW t \in Version, u < t
    PROVE  Following(u) \in Version /\ u < Following(u)
<1>1. u \in Nat /\ u < 71 /\ (u = 0 \/ u <= 13 \/ u >= 19)
  BY DEF Versions, Version
<1>2. CASE u = 13
  BY <1>2 DEF Following, Version
<1>3. CASE u # 13
  BY <1>1, <1>3 DEF Following, Version
<1> QED BY <1>2, <1>3

LEMMA OffRow ==
    Off \in ProcessRow /\ Off.pc = "off" /\ Off.role = "none" /\ Off.target = Newest /\ Off.expects = 0
<1>1. Off.pc = "off" /\ Off.role = "none" /\ Off.target = Newest /\ Off.expects = 0
  BY DEF Off
<1>2. 0 \in Asked /\ Newest \in Version
  BY VersionNumbers DEF Asked
<1> QED BY <1>1, <1>2 DEF Off, ProcessRow

LEMMA MovesMoves ==
    ASSUME MigTypes, NEW p \in Process, NEW pc \in {"off", "lock", "serving"} \cup Busy, Moves(p, pc)
    PROVE  /\ ProcessAt(p) /\ process'[p].pc = pc
           /\ process'[p].role = process[p].role /\ process'[p].target = process[p].target
<1>1. PICK r \in ProcessRow : r = process[p]
  BY DEF MigTypes
<1>2. process' = [process EXCEPT ![p] = [r EXCEPT !.pc = pc]]
  BY <1>1 DEF Moves, MigTypes
<1>3. [r EXCEPT !.pc = pc] \in ProcessRow
  BY DEF ProcessRow
<1>4. PICK q \in ProcessRow : q = [r EXCEPT !.pc = pc]
  BY <1>3
<1>5. q.pc = pc /\ q.role = r.role /\ q.target = r.target
  BY <1>4 DEF ProcessRow
<1>6. process'[p] = q /\ ProcessAt(p)
  BY <1>2, <1>4 DEF ProcessAt, MigTypes
<1> QED BY <1>1, <1>5, <1>6

LEMMA StopsMoves ==
    ASSUME MigTypes, NEW p \in Process, process' = [process EXCEPT ![p] = Off]
    PROVE  ProcessAt(p) /\ process'[p] = Off
  BY OffRow DEF ProcessAt, MigTypes

\* A step of one process leaves the others where they may be.
LEMMA OthersStay ==
    ASSUME MigInv, NEW p \in Process, ProcessAt(p), UNCHANGED old,
           \A x \in Process \ {p} : lockedBy' = x <=> lockedBy = x,
           UNCHANGED <<applied, schema, work>> \/ lockedBy \in {p, Unlocked},
           applied = Newest => applied' = Newest
    PROVE  \A x \in Process \ {p} : PlaceFits(x)'
<1> SUFFICES ASSUME NEW x \in Process \ {p}
             PROVE  PlaceFits(x)'
  OBVIOUS
<1> PICK r \in ProcessRow : r = process[x]
  BY DEF MigInv, MigTypes
<1>1. process'[x] = r /\ PlaceFits(x)
  BY DEF ProcessAt, MigInv
<1>2. CASE UNCHANGED <<applied, schema, work>>
  BY <1>1, <1>2 DEF PlaceFits, Blocked
<1>3. CASE lockedBy \in {p, Unlocked}
  <2>1. lockedBy # x
    BY <1>3, MigrationBounds
  <2>2. r.pc \notin Busy /\ lockedBy' # x
    BY <1>1, <2>1 DEF PlaceFits
  <2> QED BY <1>1, <2>2 DEF PlaceFits, Busy
<1> QED BY <1>2, <1>3

LEMMA StartKeeps ==
    ASSUME MigInv, NEW p \in Process, Start(p)
    PROVE  MigInv'
<1>1. process[p] = Off /\ UNCHANGED <<schema, applied, flawed, old, arbiters, lockedBy, work, passed>> /\ MigTypes
  BY DEF MigInv, Start, dbVars, oldVars
<1>2. PICK q \in ProcessRow : /\ process' = [process EXCEPT ![p] = q] /\ q.pc = "lock" /\ q.role # "none"
                              /\ q.role = "operator" => ~old
                              /\ q.role = "service" => q.target = Newest
  <2>1. ASSUME NEW r \in {"service", "tool"}, process' = [process EXCEPT ![p] = [Off EXCEPT !.pc = "lock", !.role = r]]
        PROVE  \E q \in ProcessRow : /\ process' = [process EXCEPT ![p] = q] /\ q.pc = "lock" /\ q.role = r
                                     /\ q.target = Newest
    <3>1. [Off EXCEPT !.pc = "lock", !.role = r] \in ProcessRow
      BY OffRow DEF ProcessRow
    <3>2. PICK q \in ProcessRow : q = [Off EXCEPT !.pc = "lock", !.role = r]
      BY <3>1
    <3>3. q.pc = "lock" /\ q.role = r /\ q.target = Newest
      BY <3>2 DEF Off
    <3> QED BY <2>1, <3>2, <3>3
  <2>2. ASSUME ~old, NEW d \in Deploys,
               process' = [process EXCEPT ![p] = [pc |-> "lock", role |-> "operator", expects |-> d[1], target |-> d[2]]]
        PROVE  \E q \in ProcessRow : /\ process' = [process EXCEPT ![p] = q] /\ q.pc = "lock" /\ q.role = "operator"
    <3>1. d[1] \in Asked /\ d[2] \in Version
      BY MigrationBounds DEF Asked
    <3>2. [pc |-> "lock", role |-> "operator", expects |-> d[1], target |-> d[2]] \in ProcessRow
      BY <3>1 DEF ProcessRow
    <3> QED BY <2>2, <3>2
  <2>3. CASE \E r \in {"service", "tool"} : process' = [process EXCEPT ![p] = [Off EXCEPT !.pc = "lock", !.role = r]]
    BY <2>1, <2>3
  <2>4. CASE ~old /\ \E d \in Deploys : process' = [process EXCEPT ![p] =
                [pc |-> "lock", role |-> "operator", expects |-> d[1], target |-> d[2]]]
    BY <2>2, <2>4
  <2> QED BY <2>3, <2>4 DEF Start
<1>3. process'[p] = q /\ ProcessAt(p)
  BY <1>1, <1>2 DEF ProcessAt, MigTypes
<1>4. lockedBy # p
  BY <1>1, OffRow DEF MigInv, PlaceFits, Busy
<1>5. PlaceFits(p)'
  BY <1>1, <1>2, <1>3, <1>4 DEF PlaceFits, Busy
<1>6. \A x \in Process \ {p} : PlaceFits(x)'
  BY <1>1, <1>3, OthersStay
<1>7. MigTypes'
  BY <1>1, <1>3 DEF MigTypes, ProcessAt
<1>8. WorkFits' /\ KeysHold' /\ OldFits'
  BY <1>1 DEF MigInv, WorkFits, Run, KeysHold, OldFits
<1> QED BY <1>5, <1>6, <1>7, <1>8 DEF MigInv

LEMMA TakeLockKeeps ==
    ASSUME MigInv, NEW p \in Process, TakeLock(p)
    PROVE  MigInv'
<1>1. process[p].pc = "lock" /\ lockedBy = Unlocked /\ lockedBy' = p /\ Moves(p, "guard")
      /\ UNCHANGED <<schema, applied, flawed, old, arbiters, passed>> /\ MigTypes /\ KeysHold /\ OldFits /\ PlaceFits(p)
  BY DEF MigInv, TakeLock, dbVars, oldVars
<1>2. work'.schema = schema /\ work'.upto = applied /\ work'.mended = {}
  BY DEF TakeLock, NoWork
<1>3. ProcessAt(p) /\ process'[p].pc = "guard" /\ process'[p].role = process[p].role
      /\ process'[p].target = process[p].target
  BY <1>1, MovesMoves DEF Busy
<1>4. PlaceFits(p)'
  BY <1>1, <1>3 DEF PlaceFits, Busy
<1>5. \A x \in Process \ {p} : PlaceFits(x)'
  <2>1. \A x \in Process \ {p} : lockedBy' = x <=> lockedBy = x
    BY <1>1, MigrationBounds
  <2> QED BY <1>1, <1>3, <2>1, OthersStay
<1>6. MigTypes'
  BY <1>1, <1>3 DEF MigTypes, ProcessAt
<1>7. applied \in Versions /\ applied <= applied
  BY <1>1, VersionNumbers DEF MigTypes
<1>8. WorkFits'
  BY <1>1, <1>2, <1>7, MigrationBounds DEF WorkFits, KeysHold, OldFits
<1>9. KeysHold' /\ OldFits'
  BY <1>1 DEF KeysHold, OldFits
<1> QED BY <1>4, <1>5, <1>6, <1>8, <1>9 DEF MigInv

\* The lock is gone, and with it what the transaction has done.
LEMMA RollbackKeeps ==
    ASSUME MigInv, NEW p \in Process, process[p].pc \in Busy, Rollback(p)
    PROVE  MigInv'
<1>1. lockedBy' = Unlocked /\ UNCHANGED <<schema, applied, flawed, old, arbiters, passed>>
      /\ MigTypes /\ KeysHold /\ OldFits /\ lockedBy = p
  BY DEF MigInv, Rollback, dbVars, oldVars, PlaceFits
<1>2. work'.upto = 0 /\ work'.mended = {}
  BY DEF Rollback, NoWork
<1>3. ProcessAt(p) /\ process'[p] = Off
  BY <1>1, StopsMoves DEF Rollback
<1>4. PlaceFits(p)'
  BY <1>1, <1>3, OffRow, MigrationBounds DEF PlaceFits, Busy
<1>5. \A x \in Process \ {p} : PlaceFits(x)'
  <2>1. \A x \in Process \ {p} : lockedBy' = x <=> lockedBy = x
    BY <1>1, MigrationBounds
  <2> QED BY <1>1, <1>3, <2>1, OthersStay
<1>6. MigTypes'
  BY <1>1, <1>3 DEF MigTypes, ProcessAt
<1>7. WorkFits'
  BY <1>1, <1>2, VersionNumbers DEF WorkFits
<1>8. KeysHold' /\ OldFits'
  BY <1>1 DEF KeysHold, OldFits
<1> QED BY <1>4, <1>5, <1>6, <1>7, <1>8 DEF MigInv

\* The holder of the lock goes on.
LEMMA HolderMoves ==
    ASSUME MigInv, NEW p \in Process, process[p].pc \in Busy, NEW pc \in {"count", "change"}, Moves(p, pc),
           UNCHANGED <<schema, applied, flawed, old, arbiters, lockedBy, passed>>, WorkFits',
           process[p].role \in {"service", "tool"} => ~Blocked,
           pc = "change" => work'.upto < process[p].target
    PROVE  MigInv'
<1>1. MigTypes /\ KeysHold /\ OldFits /\ PlaceFits(p) /\ lockedBy = p
  BY DEF MigInv, PlaceFits
<1>2. ProcessAt(p) /\ process'[p].pc = pc /\ process'[p].role = process[p].role
      /\ process'[p].target = process[p].target
  BY <1>1, MovesMoves DEF Busy
<1>3. PlaceFits(p)'
  BY <1>1, <1>2 DEF PlaceFits, Busy, Blocked
<1>4. \A x \in Process \ {p} : PlaceFits(x)'
  BY <1>1, <1>2, OthersStay
<1>5. MigTypes'
  BY <1>1, <1>2 DEF MigTypes, ProcessAt
<1>6. KeysHold' /\ OldFits'
  BY <1>1 DEF KeysHold, OldFits
<1> QED BY <1>3, <1>4, <1>5, <1>6 DEF MigInv

LEMMA WorkStays ==
    ASSUME MigInv, UNCHANGED <<schema, applied, flawed, old, arbiters, lockedBy, work>>
    PROVE  WorkFits'
  BY DEF MigInv, WorkFits, Run

LEMMA GuardKeeps ==
    ASSUME MigInv, NEW p \in Process, Guard(p)
    PROVE  MigInv'
<1>1. process[p].pc \in Busy /\ MigTypes /\ PlaceFits(p)
  BY DEF MigInv, Guard, Busy
<1>2. CASE Rollback(p)
  BY <1>1, <1>2, RollbackKeeps
<1>3. ASSUME MayMigrate(p), Moves(p, "count"), UNCHANGED <<dbVars, oldVars, lockedBy, work, starts, passed>>
      PROVE  MigInv'
  <2>1. UNCHANGED <<schema, applied, flawed, old, arbiters, lockedBy, work, passed>>
    BY <1>3 DEF dbVars, oldVars
  <2>2. process[p].role \in {"service", "tool"} => ~Blocked
    BY <1>3 DEF MayMigrate
  <2> QED BY <1>1, <1>3, <2>1, <2>2, WorkStays, HolderMoves
<1> QED BY <1>2, <1>3 DEF Guard

LEMMA CountKeeps ==
    ASSUME MigInv, NEW p \in Process, Count(p)
    PROVE  MigInv'
<1>1. process[p].pc = "count" /\ Outstanding(p) /\ process[p].pc \in Busy /\ MigTypes /\ PlaceFits(p)
  BY DEF MigInv, Count, Busy
<1>2. CASE Rollback(p)
  BY <1>1, <1>2, RollbackKeeps
<1>3. ASSUME Moves(p, "change"), UNCHANGED <<dbVars, oldVars, lockedBy, work, starts, passed>>
      PROVE  MigInv'
  <2>1. UNCHANGED <<schema, applied, flawed, old, arbiters, lockedBy, work, passed>>
    BY <1>3 DEF dbVars, oldVars
  <2>2. process[p].role \in {"service", "tool"} => ~Blocked
    BY <1>1 DEF PlaceFits
  <2>3. work'.upto < process[p].target
    BY <1>1, <2>1 DEF Outstanding
  <2> QED BY <1>1, <1>3, <2>1, <2>2, <2>3, WorkStays, HolderMoves
<1> QED BY <1>2, <1>3 DEF Count

\* Past the contracts old writers keep their keys; a contract is run for the
\* operator, or in an empty database, when no old writer is at work.
LEMMA OldKeysStay ==
    ASSUME MigInv, NEW p \in Process, process[p].pc = "change", NEW v \in Version, work.upto < v,
           NEW keys, arbiters \subseteq keys
    PROVE  arbiters \cap Chain[v].drops = {}
<1>1. MigTypes /\ OldFits /\ PlaceFits(p) /\ WorkFits /\ lockedBy = p /\ lockedBy # Unlocked
  BY MigrationBounds DEF MigInv, PlaceFits, Busy
<1>2. CASE ~old
  BY <1>1, <1>2 DEF OldFits
<1>3. CASE old
  <2>1. process[p].role \in {"service", "tool"}
    <3>1. process[p].role \in {"none", "service", "tool", "operator"}
      BY <1>1 DEF MigTypes, ProcessRow
    <3> QED BY <1>1, <1>3, <3>1 DEF PlaceFits
  <2>2. ~Blocked
    BY <1>1, <2>1 DEF PlaceFits
  <2>3. applied \in Nat /\ applied > 0 /\ work.upto \in Nat /\ applied <= work.upto /\ v \in Nat
    BY <1>1, <1>3, VersionNumbers DEF MigTypes, OldFits, WorkFits
  <2>4. \A c \in Contracts : ~(applied < c)
    BY <2>2, <2>3 DEF Blocked
  <2>5. \A c \in Contracts : c < v
    BY <2>3, <2>4 DEF Contracts
  <2>6. Chain[v].drops \cap OldArbiters = {}
    BY <2>5, ArbitersStay
  <2> QED BY <1>1, <2>6 DEF OldFits
<1> QED BY <1>2, <1>3

LEMMA ChangeKeeps ==
    ASSUME MigInv, NEW p \in Process, Change(p)
    PROVE  MigInv'
<1>1. process[p].pc = "change" /\ process[p].pc \in Busy /\ MigTypes /\ PlaceFits(p) /\ WorkFits /\ OldFits
      /\ lockedBy = p /\ lockedBy # Unlocked
  BY MigrationBounds DEF MigInv, Change, PlaceFits, Busy
<1> DEFINE v == NextVersion
           m == Chain[v]
           mended == work.mended \cup (m.mends \cap Seen)
<1>2. CASE Rollback(p)
  BY <1>1, <1>2, RollbackKeeps
<1>3. ASSUME ~(\E d \in flawed \ mended : RuledOut(d, m.keys)),
             work' = [schema |-> Changed(work.schema, m), upto |-> v, mended |-> mended],
             Moves(p, "count"), UNCHANGED <<dbVars, oldVars, lockedBy, starts, passed, astray>>
      PROVE  MigInv'
  <2>1. UNCHANGED <<schema, applied, flawed, old, arbiters, lockedBy, passed>>
    BY <1>3 DEF dbVars, oldVars
  <2>2. v \in Version /\ work.upto < v /\ work.upto \in Versions
    <3>1. work.upto \in Versions /\ work.upto < process[p].target /\ process[p].target \in Version
      BY <1>1 DEF WorkFits, PlaceFits, MigTypes, ProcessRow
    <3> QED BY <3>1, NextIsVersion DEF NextVersion
  <2> PICK w \in Version : w = v
    BY <2>2
  <2>3. applied \in Nat /\ work.upto \in Nat /\ w \in Nat /\ applied <= work.upto /\ work.upto < w
    BY <1>1, <2>2, VersionNumbers DEF MigTypes, WorkFits
  <2>4. work'.schema.keys = (work.schema.keys \ Chain[w].drops) \cup Chain[w].keys
        /\ work'.upto = w /\ work'.mended = work.mended \cup (Chain[w].mends \cap Seen)
    BY <1>3 DEF Changed
  <2>5. Run(w)' /\ \A u \in Version : Run(u) => Run(u)'
    <3>1. \A u \in Version : u \in Nat
      BY VersionNumbers
    <3> QED BY <2>1, <2>3, <2>4, <3>1 DEF Run
  <2>6. \A d \in work'.mended : d \in flawed /\ \E u \in Version : Run(u)' /\ d \in Chain[u].mends
    BY <1>1, <2>4, <2>5 DEF WorkFits, Seen
  <2>7. \A k \in work'.schema.keys : k \in schema.keys \/ \E u \in Version : Run(u)' /\ k \in Chain[u].keys
    BY <1>1, <2>4, <2>5 DEF WorkFits
  <2>8. ASSUME NEW d \in flawed \ work'.mended
        PROVE  ~RuledOut(d, work'.schema.keys)
    <3>1. ~RuledOut(d, work.schema.keys) /\ ~RuledOut(d, Chain[w].keys)
      BY <1>1, <1>3, <2>4 DEF WorkFits
    <3> QED BY <2>4, <3>1 DEF RuledOut
  <2>9. arbiters \subseteq work'.schema.keys
    <3>1. arbiters \subseteq work.schema.keys
      BY <1>1 DEF WorkFits
    <3>2. arbiters \cap Chain[w].drops = {}
      BY <1>1, <2>3, <3>1, OldKeysStay
    <3> QED BY <2>4, <3>1, <3>2
  <2>10. WorkFits'
    <3>1. work'.upto \in Versions /\ applied <= work'.upto
      BY <2>3, <2>4, VersionNumbers
    <3> QED BY <1>1, <2>1, <2>6, <2>7, <2>8, <2>9, <3>1 DEF WorkFits
  <2>11. process[p].role \in {"service", "tool"} => ~Blocked
    BY <1>1 DEF PlaceFits
  <2> QED BY <1>1, <1>3, <2>1, <2>10, <2>11, HolderMoves
<1> QED BY <1>2, <1>3 DEF Change

LEMMA CommitRunKeeps ==
    ASSUME MigInv, NEW p \in Process, CommitRun(p)
    PROVE  MigInv'
<1>1. process[p].pc = "count" /\ ~Outstanding(p) /\ schema' = work.schema /\ applied' = work.upto
      /\ flawed' = flawed \ work.mended /\ lockedBy' = Unlocked /\ UNCHANGED <<old, arbiters>>
      /\ passed' = (IF work.upto = applied THEN passed ELSE 0)
      /\ MigTypes /\ PlaceFits(p) /\ WorkFits /\ OldFits /\ lockedBy = p /\ lockedBy # Unlocked
  BY MigrationBounds DEF MigInv, CommitRun, PlaceFits, Busy, oldVars
<1>2. work'.upto = 0 /\ work'.mended = {}
  BY DEF CommitRun, NoWork
<1>3. work.upto \in Versions /\ work.upto \in Nat /\ work.upto <= 71 /\ applied \in Nat /\ applied <= work.upto
  BY <1>1, VersionNumbers DEF WorkFits, MigTypes
<1> PICK r \in ProcessRow : r = process[p]
  BY <1>1 DEF MigTypes
<1>4. PICK q \in ProcessRow : /\ process' = [process EXCEPT ![p] = q]
                              /\ q = Off \/ (q.pc = "serving" /\ q.role = "service" /\ q.target = r.target /\ r.role = "service")
  <2>1. CASE r.role = "service"
    <3>1. process' = [process EXCEPT ![p] = [r EXCEPT !.pc = "serving"]]
      BY <1>1, <2>1 DEF CommitRun, MigTypes
    <3>2. [r EXCEPT !.pc = "serving"] \in ProcessRow
      BY DEF ProcessRow
    <3>3. PICK q \in ProcessRow : q = [r EXCEPT !.pc = "serving"]
      BY <3>2
    <3>4. q.pc = "serving" /\ q.role = r.role /\ q.target = r.target
      BY <3>3 DEF ProcessRow
    <3> QED BY <2>1, <3>1, <3>3, <3>4
  <2>2. CASE r.role # "service"
    BY <1>1, <2>2, OffRow DEF CommitRun, MigTypes
  <2> QED BY <2>1, <2>2
<1>5. ProcessAt(p) /\ process'[p] = q
  BY <1>1, <1>4 DEF ProcessAt, MigTypes
<1>6. r.role = "service" => work.upto = Newest
  BY <1>1, <1>3, VersionNumbers DEF PlaceFits, Outstanding
<1>7. PlaceFits(p)'
  <2>1. CASE q = Off
    BY <1>1, <1>5, <2>1, OffRow, MigrationBounds DEF PlaceFits, Busy
  <2>2. CASE q.pc = "serving" /\ q.role = "service" /\ q.target = r.target /\ r.role = "service"
    BY <1>1, <1>5, <1>6, <2>2, MigrationBounds DEF PlaceFits, Busy
  <2> QED BY <1>4, <2>1, <2>2
<1>8. \A x \in Process \ {p} : PlaceFits(x)'
  <2>1. \A x \in Process \ {p} : lockedBy' = x <=> lockedBy = x
    BY <1>1, MigrationBounds
  <2>2. applied = Newest => applied' = Newest
    BY <1>1, <1>3, VersionNumbers
  <2> QED BY <1>1, <1>5, <2>1, <2>2, OthersStay
<1>9. MigTypes'
  <2>1. passed' \in Versions
    BY <1>1, VersionNumbers DEF MigTypes
  <2> QED BY <1>1, <1>3, <1>5, <2>1 DEF MigTypes, ProcessAt
<1>10. WorkFits'
  BY <1>1, <1>2, VersionNumbers DEF WorkFits
<1>11. KeysHold'
  BY <1>1 DEF WorkFits, KeysHold
<1>12. OldFits'
  BY <1>1, <1>3 DEF WorkFits, OldFits
<1> QED BY <1>7, <1>8, <1>9, <1>10, <1>11, <1>12 DEF MigInv

LEMMA QuitsKeeps ==
    ASSUME MigInv, NEW p \in Process, Quits(p)
    PROVE  MigInv'
<1>1. process[p].pc \in {"lock", "serving"} /\ process' = [process EXCEPT ![p] = Off]
      /\ UNCHANGED <<schema, applied, flawed, old, arbiters, lockedBy, work, passed>>
      /\ MigTypes /\ KeysHold /\ OldFits /\ PlaceFits(p)
  BY DEF MigInv, Quits, dbVars, oldVars
<1>2. ProcessAt(p) /\ process'[p] = Off /\ lockedBy # p
  BY <1>1, StopsMoves DEF PlaceFits, Busy
<1>3. PlaceFits(p)'
  BY <1>1, <1>2, OffRow DEF PlaceFits, Busy
<1>4. \A x \in Process \ {p} : PlaceFits(x)'
  BY <1>1, <1>2, OthersStay
<1>5. MigTypes'
  BY <1>1, <1>2 DEF MigTypes, ProcessAt
<1>6. KeysHold' /\ OldFits'
  BY <1>1 DEF KeysHold, OldFits
<1> QED BY <1>1, <1>3, <1>4, <1>5, <1>6, WorkStays DEF MigInv

\* What the rest of the world does leaves the processes where they are.
LEMMA PlacesStay ==
    ASSUME MigInv, UNCHANGED <<schema, applied, lockedBy, work, process>>, ~old => ~old'
    PROVE  \A p \in Process : PlaceFits(p)'
  BY DEF MigInv, PlaceFits, Blocked

LEMMA SlipKeeps ==
    ASSUME MigInv, NEW d \in Flaws, Slip(d)
    PROVE  MigInv'
<1>1. flawed = {} /\ flawed' = {d} /\ passed' = 0 /\ ~Altered(d) /\ ~RuledOut(d, schema.keys)
      /\ UNCHANGED <<schema, applied, old, arbiters, lockedBy, work, process>>
      /\ MigTypes /\ WorkFits /\ OldFits
  BY DEF MigInv, Slip, oldVars
<1>2. MigTypes'
  BY <1>1, VersionNumbers, MigrationBounds DEF MigTypes
<1>3. work.mended = {}
  BY <1>1 DEF WorkFits
<1>4. lockedBy # Unlocked => ~RuledOut(d, work.schema.keys)
  <2>1. \A v \in Version : Run(v) => ~RuledOut(d, Chain[v].keys \cup Chain[v].drops)
    BY <1>1 DEF Altered, Run
  <2>2. \A k \in KeysAgainst(d) : k \notin schema.keys /\ \A v \in Version : Run(v) => k \notin Chain[v].keys
    BY <1>1, <2>1 DEF RuledOut
  <2> QED BY <1>1, <2>2 DEF WorkFits, RuledOut
<1>5. WorkFits'
  BY <1>1, <1>3, <1>4 DEF WorkFits, Run
<1>6. KeysHold' /\ OldFits'
  BY <1>1 DEF KeysHold, OldFits
<1> QED BY <1>1, <1>2, <1>5, <1>6, PlacesStay DEF MigInv

\* Nobody repairs by hand what the open transaction has repaired.
LEMMA ReconcileKeeps ==
    ASSUME MigInv, NEW d \in Flaws, Reconcile(d)
    PROVE  MigInv'
<1>1. flawed' = flawed \ {d} /\ passed' = 0 /\ ~Altered(d)
      /\ UNCHANGED <<schema, applied, old, arbiters, lockedBy, work, process>>
      /\ MigTypes /\ WorkFits /\ OldFits /\ KeysHold
  BY DEF MigInv, Reconcile, oldVars
<1>2. MigTypes'
  BY <1>1, VersionNumbers DEF MigTypes
<1>3. d \notin work.mended
  <2> SUFFICES ASSUME d \in work.mended
               PROVE  FALSE
    OBVIOUS
  <2>1. PICK v \in Version : Run(v) /\ d \in Chain[v].mends
    BY <1>1 DEF WorkFits
  <2> QED BY <1>1, <2>1, MendersLock DEF Altered, Run
<1>4. WorkFits'
  BY <1>1, <1>3 DEF WorkFits, Run
<1>5. KeysHold' /\ OldFits'
  BY <1>1 DEF KeysHold, OldFits
<1> QED BY <1>1, <1>2, <1>4, <1>5, PlacesStay DEF MigInv

LEMMA DrainKeeps ==
    ASSUME MigInv, Drain
    PROVE  MigInv'
<1>1. old' = FALSE /\ arbiters' = {} /\ UNCHANGED <<schema, applied, flawed, lockedBy, work, process, passed>>
      /\ MigTypes /\ WorkFits /\ OldFits /\ KeysHold
  BY DEF MigInv, Drain, dbVars
<1>2. MigTypes'
  BY <1>1 DEF MigTypes
<1>3. WorkFits'
  BY <1>1 DEF WorkFits, Run
<1>4. KeysHold' /\ OldFits'
  BY <1>1 DEF KeysHold, OldFits
<1> QED BY <1>1, <1>2, <1>3, <1>4, PlacesStay DEF MigInv

LEMMA PrecheckKeeps ==
    ASSUME MigInv, Precheck
    PROVE  MigInv'
<1>1. passed' = (IF flawed \cap Checked = {} THEN applied ELSE 0)
      /\ UNCHANGED <<schema, applied, flawed, old, arbiters, lockedBy, work, process>>
      /\ MigTypes /\ OldFits /\ KeysHold
  BY DEF MigInv, Precheck, dbVars, oldVars
<1>2. MigTypes'
  BY <1>1, VersionNumbers DEF MigTypes
<1>3. KeysHold' /\ OldFits'
  BY <1>1 DEF KeysHold, OldFits
<1> QED BY <1>1, <1>2, <1>3, WorkStays, PlacesStay DEF MigInv

LEMMA MigrationsBegin ==
    ASSUME MigrationInit
    PROVE  MigInv
<1>1. applied \in Versions
  BY MigrationBounds DEF MigrationInit, Versions
<1>2. flawed = {} /\ lockedBy = Unlocked /\ work = NoWork /\ passed = 0 /\ process = [p \in Process |-> Off]
  BY DEF MigrationInit
<1>3. old \in BOOLEAN /\ (old => applied # 0)
  BY DEF MigrationInit
<1>4. arbiters \subseteq OldArbiters /\ arbiters \subseteq schema.keys /\ (~old => arbiters = {})
  BY DEF MigrationInit
<1>5. MigTypes
  BY <1>1, <1>2, <1>3, VersionNumbers, OffRow DEF MigTypes
<1>6. work.upto = 0 /\ work.mended = {}
  BY <1>2 DEF NoWork
<1>7. WorkFits
  BY <1>2, <1>6, VersionNumbers DEF WorkFits
<1>8. \A p \in Process : PlaceFits(p)
  BY <1>2, OffRow, MigrationBounds DEF PlaceFits, Busy
<1> QED BY <1>2, <1>3, <1>4, <1>5, <1>7, <1>8 DEF MigInv, OldFits, KeysHold

LEMMA MigrationNextKeeps ==
    ASSUME MigInv, MigrationNext
    PROVE  MigInv'
<1>1. ASSUME NEW p \in Process, Break(p)
      PROVE  MigInv'
  <2>1. process[p].pc \in Busy /\ Rollback(p)
    BY <1>1 DEF Break, Busy
  <2> QED BY <2>1, RollbackKeeps
<1>2. ASSUME NEW p \in Process, Start(p) \/ TakeLock(p) \/ Guard(p) \/ Count(p) \/ Change(p) \/ CommitRun(p) \/ Quits(p)
      PROVE  MigInv'
  BY <1>2, StartKeeps, TakeLockKeeps, GuardKeeps, CountKeeps, ChangeKeeps, CommitRunKeeps, QuitsKeeps
<1>3. ASSUME NEW d \in Flaws, Slip(d) \/ Reconcile(d)
      PROVE  MigInv'
  BY <1>3, SlipKeeps, ReconcileKeeps
<1> QED BY <1>1, <1>2, <1>3, DrainKeeps, PrecheckKeeps DEF MigrationNext

LEMMA MigInvIsEnough ==
    ASSUME MigInv
    PROVE  MigrationsAreSafe
<1>1. MigTypes /\ WorkFits /\ KeysHold /\ OldFits
  BY DEF MigInv
<1>2. MigrationTypeOK
  BY <1>1 DEF MigrationTypeOK, MigTypes, WorkFits, Versions
<1>3. OldWritersFit
  BY <1>1 DEF OldFits, OldWritersFit
<1>4. ServesTheNewest
  BY DEF MigInv, PlaceFits, ServesTheNewest
<1> QED BY <1>1, <1>2, <1>3, <1>4 DEF MigrationsAreSafe

\* However any number of processes start, are killed or lose their connection,
\* whatever the databases were and whoever writes, deploys and repairs beside
\* them: unique keys and rows agree, old writers find the keys that they name, and a
\* service serves on the newest version only (_core.py, init_db, migrate_db_through).
THEOREM MigrationsStaySafe == MigrationSpec => []MigrationsAreSafe
<1>1. MigrationInit => MigInv
  BY MigrationsBegin
<1>2. MigInv /\ [MigrationNext]_migrationVars => MigInv'
  <2>1. CASE MigrationNext
    BY <2>1, MigrationNextKeeps
  <2>2. ASSUME MigInv, UNCHANGED migrationVars
        PROVE  MigInv'
    <3>1. UNCHANGED <<schema, applied, flawed, old, arbiters, lockedBy, work, process, passed>>
      BY <2>2 DEF migrationVars
    <3>2. MigTypes' /\ KeysHold' /\ OldFits'
      BY <2>2, <3>1 DEF MigInv, MigTypes, KeysHold, OldFits
    <3> QED BY <2>2, <3>1, <3>2, WorkStays, PlacesStay DEF MigInv
  <2> QED BY <2>1, <2>2
<1>3. MigInv => MigrationsAreSafe
  BY MigInvIsEnough
<1> QED BY <1>1, <1>2, <1>3, PTL DEF MigrationSpec

=============================================================================
