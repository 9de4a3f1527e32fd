------------------------- MODULE PolicyCacheProofs -------------------------
(***************************************************************************)
(* The safety properties of PolicyCache for every set of processes, saves  *)
(* and settings. A save is made on the newest version because it holds the *)
(* lock from the read to the commit; a read answers at least what is in    *)
(* force because a process has one read at a time; and a save that has     *)
(* been answered was followed by a read begun after its commit.            *)
(* And those of Browser, whose tabs act on a copy of the token as the      *)
(* processes do on one of the policies, for every set of tabs and sessions *)
(* and every length of a token and a session: a timer acts only where its  *)
(* copy is the token that is stored.                                       *)
(***************************************************************************)
EXTENDS PolicyCache, Browser, TLAPS

Holding == {"locked", "read", "inserted", "audited"}
Known   == {"max known", "row known"}

\* The table has a newest version, and a number belongs to one version.
Newest ==
  /\ \A v, w \in versions : v.version = w.version => v = w
  /\ versions # {} => \E v \in versions : \A w \in versions : w.version <= v.version

\* A save under the lock writes what follows the newest version.
OnNewest ==
  \A r \in Saves :
    /\ pc[r] \in Holding => lock = r
    /\ pc[r] = "read" => wrote[r] = Latest
    /\ pc[r] \in {"inserted", "audited"} =>
         /\ wrote[r].version \in 1 .. serial
         /\ \A v \in versions : v.version < wrote[r].version
         /\ wrote[r].state = ApplyChange(Latest.state, call[r])
    /\ pc[r] = "audited" => wrote[r].version \in audit

\* A copy is a version that was saved, and a read answers nothing older.
Copies ==
  \A p \in Processes :
    /\ loaded[p] \in versions \cup {Defaults, Nothing}
    /\ seen[p] \in versions \cup {Defaults}
    /\ pending[p] \in Known => seen[p].version >= loaded[p].version
    /\ pending[p] \in {"max", "max known"} => Serves(p)

\* The read a save waits for was answered after its commit.
Looked ==
  \A r \in Saves :
    LET p == call[r].process
    IN  /\ pc[r] = "forcing" => pending[p] # "none"
        /\ pc[r] \in {"settled", "forcing"} /\ pending[p] \in Known => seen[p].version >= wrote[r].version

\* A record is left out only where the route was found closed.
Recorded ==
  \A p \in Callers :
    asking[p] \in {"recorded", "looking again", "ready"} => record[p] = (Closing \notin first[p].state)

IInv == /\ TypeOK /\ Newest /\ OnNewest /\ Copies /\ Looked /\ Recorded
        /\ NoChangeLost /\ ChangesAudited /\ AppliesAtOnce /\ DecisionsJustified
-----------------------------------------------------------------------------
(* Facts about the table *)

\* Latest is a version, and none is newer.
LEMMA LatestIs ==
  ASSUME TypeOK, Newest
  PROVE  /\ Latest \in versions \cup {Defaults}
         /\ Latest \in Version
         /\ \A v \in versions : v.version <= Latest.version
<1>1. Defaults \in Version
  BY DEF Defaults, Version
<1>2. CASE versions = {}
  BY <1>1, <1>2 DEF Latest
<1>3. CASE versions # {}
  <2>1. \E v \in versions : \A w \in versions : w.version <= v.version
    BY <1>3 DEF Newest
  <2>2. /\ Latest \in versions
        /\ \A w \in versions : w.version <= Latest.version
    BY <1>3, <2>1, Zenon DEF Latest
  <2> QED
    BY <2>2 DEF TypeOK
<1> QED
  BY <1>2, <1>3

\* What a process has in force has a number.
LEMMA Numbers ==
  ASSUME TypeOK
  PROVE  /\ \A p \in Processes : loaded[p].version \in Nat /\ seen[p].version \in Nat
         /\ \A r \in Saves : /\ wrote[r] \in Version /\ wrote[r].version \in Nat
                             /\ call[r].process \in Processes
         /\ \A v \in versions : v \in Version /\ v.version \in Nat /\ v.version >= 1
         /\ Defaults.version = 0 /\ Nothing.version = 0
         /\ \A v \in versions \cup {Defaults} : v # Nothing
<1>0. Nothing.version = 0
  BY DEF Nothing
<1>1. \A v \in Version \cup {Nothing} : v.version \in Nat
  BY <1>0 DEF Version
<1>2. \A r \in Saves : wrote[r] \in Version /\ call[r].process \in Processes
  BY CallsAssumption DEF TypeOK
<1>3. Defaults.version = 0 /\ Nothing.version = 0
  BY DEF Defaults, Nothing
<1>4. Defaults # Nothing
  <2>1. Defaults.state = {} /\ Nothing.state = {"not loaded"}
    BY DEF Defaults, Nothing
  <2> QED
    BY <2>1
<1>5. \A v \in versions : v \in Version /\ v.version \in Nat /\ v.version >= 1
  <2>1. /\ versions \subseteq Version /\ serial \in Nat
        /\ \A v \in versions : v.version \in 1 .. serial
    BY DEF TypeOK
  <2> QED
    BY <2>1
<1>6. \A v \in versions : v # Nothing
  <2> SUFFICES ASSUME NEW v \in versions, v = Nothing PROVE FALSE
    OBVIOUS
  <2>1. v.version = 0 /\ v.version >= 1
    BY <1>3, <1>5
  <2> QED
    BY <2>1
<1> QED
  BY <1>1, <1>2, <1>3, <1>4, <1>5, <1>6 DEF TypeOK

\* Applying a change to a version leaves settings only.
LEMMA ChangeTyped ==
  ASSUME TypeOK, NEW v \in Version, NEW r \in Saves
  PROVE  ApplyChange(v.state, call[r]) \in SUBSET Settings
<1>1. v.state \in SUBSET Settings
  BY DEF Version
<1>2. call[r].on \subseteq Settings
  BY CallsAssumption DEF TypeOK
<1> QED
  BY <1>1, <1>2 DEF ApplyChange
-----------------------------------------------------------------------------
(* Types *)

\* What a process holds keeps its type when a read begins.
LEMMA ReadTyped ==
  ASSUME TypeOK, NEW p \in Processes, BeginRead(p) \/ UNCHANGED process
  PROVE  /\ loaded' = loaded /\ seen' = seen /\ failures' = failures
         /\ fresh' \in [Processes -> BOOLEAN]
         /\ pending' \in [Processes -> {"none", "max", "row", "max known", "row known"}]
BY DEF TypeOK, BeginRead, Serves, process

\* What waits for a read keeps its type when the read settles.
LEMMA SettleTyped ==
  ASSUME TypeOK, NEW p \in Processes, Settle(p)
  PROVE  /\ pending' \in [Processes -> {"none", "max", "row", "max known", "row known"}]
         /\ seen' \in [Processes -> Version]
         /\ pc' \in [Saves -> {"idle", "queued", "locked", "read", "inserted", "audited", "committed",
                               "waiting", "settled", "forcing", "saved", "lost", "failed"}]
         /\ asking' \in [Callers -> {"idle", "looking", "looked", "recorded", "looking again", "ready"}]
         /\ \A q \in Callers : asking'[q] # "idle" => asking[q] # "idle"
<1>1. seen' \in [Processes -> Version]
  <2>1. Defaults \in Version
    BY DEF Defaults, Version
  <2> QED
    BY <2>1 DEF TypeOK, Settle
<1>2. pending' \in [Processes -> {"none", "max", "row", "max known", "row known"}]
  BY DEF TypeOK, Settle
<1>3. pc' \in [Saves -> {"idle", "queued", "locked", "read", "inserted", "audited", "committed",
                         "waiting", "settled", "forcing", "saved", "lost", "failed"}]
  BY DEF TypeOK, Settle
<1>4. /\ asking' \in [Callers -> {"idle", "looking", "looked", "recorded", "looking again", "ready"}]
      /\ \A q \in Callers : asking'[q] # "idle" => asking[q] # "idle"
  BY DEF TypeOK, Settle
<1> QED
  BY <1>1, <1>2, <1>3, <1>4

\* The initial states are typed.
LEMMA TypeInit == Init => TypeOK
<1> SUFFICES ASSUME Init PROVE TypeOK
  OBVIOUS
<1>1. Defaults \in Version
  BY DEF Defaults, Version
<1>2. NoAnswer \in [allow : BOOLEAN, by : Version \cup {Nothing}, first : Version \cup {Nothing}]
  BY DEF NoAnswer
<1>3. failures \in 0 .. MaxFailures
  BY BoundAssumption DEF Init
<1> QED
  BY <1>1, <1>2, <1>3 DEF Init, TypeOK

\* A step of a process's read keeps the types.
LEMMA TypeRead ==
  ASSUME TypeOK, Newest, Copies, NEW p \in Processes, InForce(p)
  PROVE  TypeOK'
<1>1. CASE StartPolicy(p)
  BY <1>1, ReadTyped DEF TypeOK, StartPolicy, table, saving, deciding, Serves
<1>2. CASE RunQuery(p)
  <2>1. Latest \in Version
    BY LatestIs
  <2>2. seen' \in [Processes -> Version] /\ pending' \in [Processes -> {"none", "max", "row", "max known", "row known"}]
    BY <1>2, <2>1 DEF TypeOK, RunQuery
  <2> QED
    BY <1>2, <2>2 DEF TypeOK, RunQuery, table, saving, deciding, Serves
<1>3. CASE CompareVersion(p)
  <2>1. CASE Settle(p)
    BY <1>3, <2>1, SettleTyped DEF TypeOK, CompareVersion, table, saving, deciding, Serves
  <2>2. CASE pending' = [pending EXCEPT ![p] = "row"] /\ UNCHANGED <<seen, pc, asking>>
    BY <1>3, <2>2 DEF TypeOK, CompareVersion, table, saving, deciding, Serves
  <2> QED
    BY <1>3, <2>1, <2>2 DEF CompareVersion
<1>4. CASE LoadVersion(p)
  <2>1. seen[p] \in Version /\ loaded' = [loaded EXCEPT ![p] = seen[p]] /\ fresh' = [fresh EXCEPT ![p] = TRUE]
    BY <1>4 DEF TypeOK, LoadVersion
  <2>2. loaded' \in [Processes -> Version \cup {Nothing}] /\ fresh' \in [Processes -> BOOLEAN]
    BY <2>1 DEF TypeOK
  <2>3. \A q \in Processes : Serves(q) => loaded'[q] # Nothing
    <3>1. seen[p] # Nothing
      <4>1. seen[p] \in versions \cup {Defaults}
        BY DEF Copies
      <4> QED
        BY <4>1, Numbers
    <3> QED
      BY <2>1, <3>1 DEF TypeOK, Serves
  <2> QED
    BY <1>4, <2>2, <2>3, SettleTyped, CallersAssumption DEF TypeOK, LoadVersion, table, saving, deciding, Serves
<1>5. CASE ReadFails(p)
  <2>1. failures' \in 0 .. MaxFailures
    <3>1. failures \in 0 .. MaxFailures
      BY DEF TypeOK
    <3>2. failures < MaxFailures /\ failures' = failures + 1
      BY <1>5 DEF ReadFails
    <3> QED
      BY <3>1, <3>2, BoundAssumption
  <2>2. missed' \subseteq Saves
    BY <1>5 DEF TypeOK, ReadFails, At
  <2> QED
    BY <1>5, <2>1, <2>2, SettleTyped DEF TypeOK, ReadFails, table, saving, deciding, Serves
<1> QED
  BY <1>1, <1>2, <1>3, <1>4, <1>5 DEF InForce, Read

\* So does a step of a save.
LEMMA TypeSave ==
  ASSUME TypeOK, Newest, OnNewest, NEW r \in Saves, SavePolicy(r)
  PROVE  TypeOK'
<1>0. call[r].process \in Processes /\ Latest \in Version
  BY Numbers, LatestIs
<1>1. CASE BeginSave(r)
  BY <1>1 DEF TypeOK, BeginSave, Goto, table, process, saving, deciding, Serves
<1>2. CASE TakeLock(r)
  BY <1>2 DEF TypeOK, TakeLock, Goto, table, process, deciding, Serves
<1>3. CASE ReadLatest(r)
  <2>1. wrote' \in [Saves -> Version]
    BY <1>0, <1>3 DEF TypeOK, ReadLatest
  <2>2. /\ pc' \in [Saves -> {"idle", "queued", "locked", "read", "inserted", "audited", "committed",
                              "waiting", "settled", "forcing", "saved", "lost", "failed"}]
        /\ lock' \in Saves \cup {NoSave}
    BY <1>3 DEF TypeOK, ReadLatest, Rollback, Goto
  <2> QED
    BY <1>3, <2>1, <2>2 DEF TypeOK, ReadLatest, table, process, deciding, Serves
<1>4. CASE InsertVersion(r)
  <2>1. serial' = serial + 1 /\ serial \in Nat
    BY <1>4 DEF TypeOK, InsertVersion
  <2>2. wrote[r] \in Version
    BY Numbers
  <2>3. ApplyChange(wrote[r].state, call[r]) \in SUBSET Settings
    BY <2>2, ChangeTyped
  <2>4. [version |-> serial', state |-> ApplyChange(wrote[r].state, call[r])] \in Version
    BY <2>1, <2>3 DEF Version
  <2>5. wrote' \in [Saves -> Version]
    BY <1>4, <2>4 DEF TypeOK, InsertVersion
  <2>6. /\ versions' = versions /\ audit' = audit /\ serial' \in Nat
        /\ audit' \subseteq 1 .. serial' /\ \A v \in versions' : v.version \in 1 .. serial'
    <3>1. 1 .. serial \subseteq 1 .. serial'
      BY <2>1
    <3>2. audit \subseteq 1 .. serial /\ \A v \in versions : v.version \in 1 .. serial
      BY DEF TypeOK
    <3> QED
      BY <1>4, <2>1, <3>1, <3>2 DEF InsertVersion
  <2> QED
    BY <1>4, <2>5, <2>6 DEF TypeOK, InsertVersion, Goto, process, deciding, Serves
<1>5. CASE AuditVersion(r)
  <2>1. wrote[r].version \in 1 .. serial
    BY <1>5 DEF OnNewest, AuditVersion
  <2> QED
    BY <1>5, <2>1 DEF TypeOK, AuditVersion, Goto, process, saving, deciding, Serves
<1>6. CASE CommitSave(r)
  <2>1. wrote[r].version \in 1 .. serial /\ wrote[r] \in Version
    BY <1>6, Numbers DEF OnNewest, CommitSave
  <2> QED
    BY <1>6, <2>1 DEF TypeOK, CommitSave, Goto, process, deciding, Serves
<1>7. CASE ForceRead(r)
  <2>1. BeginRead(call[r].process) \/ UNCHANGED process
    BY <1>7 DEF ForceRead
  <2>2. pc' \in [Saves -> {"idle", "queued", "locked", "read", "inserted", "audited", "committed",
                           "waiting", "settled", "forcing", "saved", "lost", "failed"}]
    <3>1. Goto(r, "waiting") \/ Goto(r, "forcing")
      BY <1>7 DEF ForceRead
    <3> QED
      BY <3>1 DEF TypeOK, Goto
  <2> QED
    BY <1>0, <1>7, <2>1, <2>2, ReadTyped DEF TypeOK, ForceRead, table, saving, deciding, Serves
<1>8. CASE ForceAgain(r)
  <2>1. BeginRead(call[r].process) \/ UNCHANGED process
    BY <1>8 DEF ForceAgain, JoinRead
  <2> QED
    BY <1>0, <1>8, <2>1, ReadTyped DEF TypeOK, ForceAgain, Goto, table, saving, deciding, Serves
<1>9. CASE LoseAnswer(r)
  BY <1>9 DEF TypeOK, LoseAnswer, Goto, table, process, saving, deciding, Serves
<1>10. CASE Fail(r)
  BY <1>10 DEF TypeOK, Fail, Rollback, Goto, table, process, deciding, Serves
<1> QED
  BY <1>1, <1>2, <1>3, <1>4, <1>5, <1>6, <1>7, <1>8, <1>9, <1>10 DEF SavePolicy

\* And a step of a request.
LEMMA TypeCaller ==
  ASSUME TypeOK, NEW p \in Callers, Expire(p) \/ EnforcePolicy(p)
  PROVE  TypeOK'
<1>0. /\ p \in Processes
      /\ NoAnswer \in [allow : BOOLEAN, by : Version \cup {Nothing}, first : Version \cup {Nothing}]
  BY CallersAssumption DEF NoAnswer
<1>1. CASE Expire(p)
  BY <1>0, <1>1 DEF TypeOK, Expire, table, saving, deciding, Serves
<1>2. CASE LookUp(p)
  <2>1. BeginRead(p) \/ UNCHANGED process
    BY <1>2 DEF LookUp, JoinRead
  <2>2. /\ asking' \in [Callers -> {"idle", "looking", "looked", "recorded", "looking again", "ready"}]
        /\ \A q \in Callers : asking'[q] # "idle" => Serves(q)
    BY <1>2 DEF TypeOK, LookUp
  <2>3. answer' \in [Callers -> [allow : BOOLEAN, by : Version \cup {Nothing}, first : Version \cup {Nothing}]]
    BY <1>0, <1>2 DEF TypeOK, LookUp
  <2> QED
    BY <1>0, <1>2, <2>1, <2>2, <2>3, ReadTyped DEF TypeOK, LookUp, table, saving, Serves
<1>3. CASE RecordToLoad(p)
  <2>1. /\ first' \in [Callers -> Version \cup {Nothing}] /\ record' \in [Callers -> BOOLEAN]
        /\ asking' \in [Callers -> {"idle", "looking", "looked", "recorded", "looking again", "ready"}]
        /\ \A q \in Callers : asking'[q] # "idle" => Serves(q)
    BY <1>0, <1>3 DEF TypeOK, RecordToLoad
  <2> QED
    BY <1>3, <2>1 DEF TypeOK, RecordToLoad, table, process, saving, Serves
<1>4. CASE Decide(p)
  <2>1. [allow |-> record[p] /\ Permits(loaded[p].state), by |-> loaded[p], first |-> first[p]]
          \in [allow : BOOLEAN, by : Version \cup {Nothing}, first : Version \cup {Nothing}]
    BY <1>0 DEF TypeOK
  <2>2. /\ answer' \in [Callers -> [allow : BOOLEAN, by : Version \cup {Nothing}, first : Version \cup {Nothing}]]
        /\ first' \in [Callers -> Version \cup {Nothing}] /\ record' \in [Callers -> BOOLEAN]
        /\ asking' \in [Callers -> {"idle", "looking", "looked", "recorded", "looking again", "ready"}]
        /\ \A q \in Callers : asking'[q] # "idle" => Serves(q)
    BY <1>4, <2>1 DEF TypeOK, Decide
  <2> QED
    BY <1>4, <2>2 DEF TypeOK, Decide, table, process, saving, Serves
<1> QED
  BY <1>1, <1>2, <1>3, <1>4 DEF EnforcePolicy

\* No step changes a type.
LEMMA TypeStep ==
  ASSUME TypeOK, Newest, OnNewest, Copies, [Next]_vars
  PROVE  TypeOK'
<1>1. CASE UNCHANGED vars
  BY <1>1 DEF TypeOK, vars, table, process, saving, deciding, Serves
<1> QED
  BY <1>1, TypeRead, TypeSave, TypeCaller DEF Next
-----------------------------------------------------------------------------
(* Saves *)

\* What the saves have done: the part of the invariant about the table.
Versioned == Newest /\ OnNewest /\ NoChangeLost /\ ChangesAudited

\* No save moves under the lock, and none commits.
Quiet ==
  /\ UNCHANGED <<versions, serial, audit, lock, wrote, call>>
  /\ \A r \in Saves : /\ pc'[r] \in Holding => pc'[r] = pc[r]
                      /\ pc'[r] \in Saved => pc[r] \in Saved

\* Such a step leaves the table and what is to be written to it as they are.
LEMMA QuietKeeps == Versioned /\ Quiet => Versioned'
<1> SUFFICES ASSUME Versioned, Quiet PROVE Versioned'
  OBVIOUS
<1>1. Latest' = Latest /\ \A r \in Saves : Previous(wrote[r])' = Previous(wrote[r])
  BY DEF Quiet, Latest, Previous, Before
<1>2. Newest' /\ ChangesAudited'
  BY DEF Versioned, Quiet, Newest, ChangesAudited
<1>3. OnNewest'
  BY <1>1 DEF Versioned, Quiet, OnNewest, Holding
<1>4. NoChangeLost'
  BY <1>1 DEF Versioned, Quiet, NoChangeLost
<1> QED
  BY <1>2, <1>3, <1>4 DEF Versioned

\* A read that settles moves only saves that have committed.
LEMMA SettleQuiet ==
  ASSUME TypeOK, NEW p \in Processes, Settle(p)
  PROVE  \A r \in Saves : /\ pc'[r] \in Holding => pc'[r] = pc[r]
                          /\ pc'[r] \in Saved => pc[r] \in Saved
BY DEF TypeOK, Settle, Holding, Saved

\* Reads and requests are quiet.
LEMMA OthersQuiet ==
  ASSUME TypeOK,
         (\E p \in Processes : InForce(p)) \/ (\E p \in Callers : Expire(p) \/ EnforcePolicy(p)) \/ UNCHANGED vars
  PROVE  Quiet
<1>1. ASSUME NEW p \in Processes, InForce(p) PROVE Quiet
  <2>1. CASE Settle(p)
    BY <1>1, <2>1, SettleQuiet
       DEF InForce, Read, StartPolicy, RunQuery, CompareVersion, LoadVersion, ReadFails, Quiet, table, saving
  <2>2. CASE UNCHANGED pc
    BY <1>1, <2>2
       DEF InForce, Read, StartPolicy, RunQuery, CompareVersion, LoadVersion, ReadFails, Quiet, table, saving
  <2> QED
    BY <1>1, <2>1, <2>2 DEF InForce, Read, StartPolicy, RunQuery, CompareVersion, LoadVersion, ReadFails
<1>2. ASSUME NEW p \in Callers, Expire(p) \/ EnforcePolicy(p) PROVE Quiet
  BY <1>2 DEF Expire, EnforcePolicy, LookUp, RecordToLoad, Decide, Quiet, table, saving
<1>3. CASE UNCHANGED vars
  BY <1>3 DEF vars, Quiet, table, saving
<1> QED
  BY <1>1, <1>2, <1>3

\* A save that moves without committing loses no change of another.
LEMMA OthersKept ==
  ASSUME NoChangeLost, NEW r \in Saves, UNCHANGED <<versions, call>>, pc'[r] \notin Saved,
         \A q \in Saves \ {r} : pc'[q] = pc[q] /\ wrote'[q] = wrote[q]
  PROVE  NoChangeLost'
<1> SUFFICES ASSUME NEW q \in Saves, pc'[q] \in Saved
             PROVE  /\ wrote'[q] \in versions'
                    /\ wrote'[q].state = ApplyChange(Previous(wrote[q]).state, call[q])'
  BY DEF NoChangeLost
<1>1. pc[q] \in Saved /\ wrote'[q] = wrote[q]
  OBVIOUS
<1>2. Previous(wrote[q])' = Previous(wrote[q])
  BY <1>1 DEF Previous, Before
<1> QED
  BY <1>1, <1>2 DEF NoChangeLost, ApplyChange

\* The steps of a save keep the table in order.
LEMMA SaveKeeps ==
  ASSUME TypeOK, Versioned, NEW r \in Saves, SavePolicy(r)
  PROVE  Versioned'
<1>0. /\ Newest /\ OnNewest /\ NoChangeLost /\ ChangesAudited
      /\ wrote[r].version \in Nat /\ serial \in Nat
  BY Numbers DEF Versioned, TypeOK
<1>1. CASE BeginSave(r) \/ ForceRead(r) \/ ForceAgain(r) \/ LoseAnswer(r)
  <2>1. \/ pc[r] = "idle" /\ pc' = [pc EXCEPT ![r] = "queued"]
        \/ pc[r] \in Saved /\ \E s \in {"waiting", "forcing", "lost"} : pc' = [pc EXCEPT ![r] = s]
    BY <1>1 DEF BeginSave, ForceRead, ForceAgain, LoseAnswer, Goto, Saved
  <2>2. \A q \in Saves : /\ pc'[q] \in Holding => pc'[q] = pc[q]
                         /\ pc'[q] \in Saved => pc[q] \in Saved
    BY <2>1 DEF TypeOK, Holding, Saved
  <2>3. Quiet
    BY <1>1, <2>2 DEF BeginSave, ForceRead, ForceAgain, LoseAnswer, Quiet, table, saving
  <2> QED
    BY <2>3, QuietKeeps
<1>2. CASE TakeLock(r)
  <2>1. /\ UNCHANGED <<versions, serial, audit, wrote, call>>
        /\ lock = NoSave /\ lock' = r /\ pc' = [pc EXCEPT ![r] = "locked"]
    BY <1>2 DEF TakeLock, Goto, table
  <2>2. \A q \in Saves : pc[q] \notin Holding
    BY <1>0, <2>1, NoSaveAssumption DEF OnNewest
  <2>3. \A q \in Saves : /\ pc'[q] \in Holding => q = r /\ pc'[q] = "locked"
                         /\ pc'[q] \in Saved => pc[q] \in Saved
    BY <2>1, <2>2 DEF TypeOK, Holding, Saved
  <2>4. Latest' = Latest /\ \A q \in Saves : Previous(wrote[q])' = Previous(wrote[q])
    BY <2>1 DEF Latest, Previous, Before
  <2>5. OnNewest'
    BY <2>1, <2>3 DEF OnNewest, Holding
  <2>6. NoChangeLost'
    BY <1>0, <2>1, <2>3, <2>4 DEF NoChangeLost
  <2>7. Newest' /\ ChangesAudited'
    BY <1>0, <2>1 DEF Newest, ChangesAudited
  <2> QED
    BY <2>5, <2>6, <2>7 DEF Versioned
<1>3. pc[r] \in Holding => lock = r /\ \A q \in Saves \ {r} : pc[q] \notin Holding
  BY <1>0 DEF OnNewest
<1>4. CASE ReadLatest(r)
  <2>1. /\ UNCHANGED <<versions, serial, audit, call>>
        /\ pc[r] = "locked" /\ wrote' = [wrote EXCEPT ![r] = Latest]
        /\ \/ pc' = [pc EXCEPT ![r] = "read"] /\ lock' = lock
           \/ pc' = [pc EXCEPT ![r] = "failed"]
    BY <1>4 DEF ReadLatest, Rollback, Goto, table
  <2>2. lock = r /\ \A q \in Saves \ {r} : pc[q] \notin Holding
    BY <1>3, <2>1 DEF Holding
  <2>3. /\ \A q \in Saves \ {r} : pc'[q] = pc[q] /\ wrote'[q] = wrote[q]
        /\ wrote'[r] = Latest
        /\ pc'[r] = "failed" \/ (pc'[r] = "read" /\ lock' = r)
    BY <2>1, <2>2 DEF TypeOK
  <2>4. Latest' = Latest
    BY <2>1 DEF Latest
  <2>5. OnNewest'
    BY <2>2, <2>3, <2>4 DEF OnNewest, Holding
  <2>6. NoChangeLost'
    BY <1>0, <2>1, <2>3, OthersKept DEF Saved
  <2>7. Newest' /\ ChangesAudited'
    BY <1>0, <2>1 DEF Newest, ChangesAudited
  <2> QED
    BY <2>5, <2>6, <2>7 DEF Versioned
<1>5. CASE InsertVersion(r)
  <2>1. /\ UNCHANGED <<versions, audit, lock, call>> /\ serial' = serial + 1
        /\ pc[r] = "read" /\ pc' = [pc EXCEPT ![r] = "inserted"]
        /\ wrote' = [wrote EXCEPT ![r] = [version |-> serial', state |-> ApplyChange(@.state, call[r])]]
    BY <1>5 DEF InsertVersion, Goto
  <2>2. /\ lock = r /\ wrote[r] = Latest /\ \A q \in Saves \ {r} : pc[q] \notin Holding
    BY <1>0, <1>3, <2>1 DEF OnNewest, Holding
  <2>3. /\ \A q \in Saves \ {r} : pc'[q] = pc[q] /\ wrote'[q] = wrote[q]
        /\ wrote'[r].version = serial' /\ wrote'[r].state = ApplyChange(Latest.state, call[r])
        /\ pc'[r] = "inserted"
    BY <2>1, <2>2 DEF TypeOK
  <2>4. Latest' = Latest
    BY <2>1 DEF Latest
  <2>5. \A v \in versions : v.version < serial'
    <3>1. \A v \in versions : v.version \in 1 .. serial
      BY DEF TypeOK
    <3> QED
      BY <1>0, <2>1, <3>1
  <2>6. serial' \in 1 .. serial'
    BY <1>0, <2>1
  <2>7. OnNewest'
    BY <2>1, <2>2, <2>3, <2>4, <2>5, <2>6 DEF OnNewest, Holding, ApplyChange
  <2>8. NoChangeLost'
    BY <1>0, <2>1, <2>3, OthersKept DEF Saved
  <2>9. Newest' /\ ChangesAudited'
    BY <1>0, <2>1 DEF Newest, ChangesAudited
  <2> QED
    BY <2>7, <2>8, <2>9 DEF Versioned
<1>6. CASE AuditVersion(r)
  <2>1. /\ UNCHANGED <<versions, serial, lock, call, wrote>> /\ audit' = audit \cup {wrote[r].version}
        /\ pc[r] = "inserted" /\ pc' = [pc EXCEPT ![r] = "audited"]
    BY <1>6 DEF AuditVersion, Goto, saving
  <2>2. /\ lock = r /\ \A q \in Saves \ {r} : pc[q] \notin Holding
    BY <1>3, <2>1 DEF Holding
  <2>3. pc'[r] = "audited" /\ \A q \in Saves \ {r} : pc'[q] = pc[q] /\ wrote'[q] = wrote[q]
    BY <2>1 DEF TypeOK
  <2>4. Latest' = Latest
    BY <2>1 DEF Latest
  <2>5. OnNewest'
    BY <1>0, <2>1, <2>2, <2>3, <2>4 DEF OnNewest, Holding, ApplyChange
  <2>6. NoChangeLost'
    BY <1>0, <2>1, <2>3, OthersKept DEF Saved
  <2>7. Newest' /\ ChangesAudited'
    BY <1>0, <2>1 DEF Newest, ChangesAudited
  <2> QED
    BY <2>5, <2>6, <2>7 DEF Versioned
<1>7. CASE CommitSave(r)
  <2>1. /\ UNCHANGED <<serial, audit, call, wrote>> /\ versions' = versions \cup {wrote[r]}
        /\ pc[r] = "audited" /\ pc' = [pc EXCEPT ![r] = "committed"]
    BY <1>7 DEF CommitSave, Goto
  <2>2. \A q \in Saves \ {r} : pc[q] \notin Holding
    BY <1>3, <2>1 DEF Holding
  <2>3. pc'[r] = "committed" /\ \A q \in Saves \ {r} : pc'[q] = pc[q]
    BY <2>1 DEF TypeOK
  <2>4. /\ \A v \in versions : v.version < wrote[r].version
        /\ wrote[r].state = ApplyChange(Latest.state, call[r])
        /\ wrote[r].version \in audit
    BY <1>0, <2>1 DEF OnNewest
  <2>5. \A v \in versions : v.version \in Nat
    BY Numbers
  <2>6. Newest'
    BY <1>0, <2>1, <2>4, <2>5 DEF Newest
  <2>7. ChangesAudited'
    BY <1>0, <2>1, <2>4 DEF ChangesAudited
  <2>8. OnNewest'
    BY <2>2, <2>3 DEF OnNewest, Holding
  <2>9. NoChangeLost'
    <3>1. Previous(wrote[r])' = Latest
      <4>1. Before(wrote[r])' = versions
        BY <1>0, <2>1, <2>4, <2>5 DEF Before
      <4> QED
        BY <4>1 DEF Previous, Latest
    <3>2. ASSUME NEW q \in Saves \ {r}, pc[q] \in Saved
          PROVE  Previous(wrote[q])' = Previous(wrote[q])
      <4>1. wrote[q] \in versions
        BY <1>0, <3>2 DEF NoChangeLost
      <4>2. Before(wrote[q])' = Before(wrote[q])
        BY <1>0, <2>1, <2>4, <2>5, <4>1 DEF Before
      <4> QED
        BY <4>2 DEF Previous
    <3> QED
      BY <1>0, <2>1, <2>3, <2>4, <3>1, <3>2 DEF NoChangeLost, ApplyChange
  <2> QED
    BY <2>6, <2>7, <2>8, <2>9 DEF Versioned
<1>8. CASE Fail(r)
  <2>1. /\ UNCHANGED <<versions, serial, audit, call, wrote>> /\ pc' = [pc EXCEPT ![r] = "failed"]
        /\ lock' = IF lock = r THEN NoSave ELSE lock
    BY <1>8 DEF Fail, Rollback, Goto, table
  <2>2. pc'[r] = "failed" /\ \A q \in Saves \ {r} : pc'[q] = pc[q] /\ wrote'[q] = wrote[q]
    BY <2>1 DEF TypeOK
  <2>3. Latest' = Latest
    BY <2>1 DEF Latest
  <2>4. OnNewest'
    BY <1>0, <2>1, <2>2, <2>3 DEF OnNewest, Holding, ApplyChange
  <2>5. NoChangeLost'
    BY <1>0, <2>1, <2>2, OthersKept DEF Saved
  <2>6. Newest' /\ ChangesAudited'
    BY <1>0, <2>1 DEF Newest, ChangesAudited
  <2> QED
    BY <2>4, <2>5, <2>6 DEF Versioned
<1> QED
  BY <1>1, <1>2, <1>4, <1>5, <1>6, <1>7, <1>8 DEF SavePolicy
-----------------------------------------------------------------------------
(* Copies *)

\* A read that begins, or is shared, answers nothing yet that it should not.
LEMMA BeginKeeps ==
  ASSUME TypeOK, Copies, NEW p \in Processes, BeginRead(p) \/ UNCHANGED process,
         versions \subseteq versions'
  PROVE  /\ Copies' /\ loaded' = loaded /\ seen' = seen
         /\ \A q \in Processes : /\ pending'[q] \in Known => pending'[q] = pending[q]
                                 /\ pending[q] # "none" => pending'[q] # "none"
<1>1. /\ loaded' = loaded /\ seen' = seen
      /\ \A q \in Processes : \/ pending'[q] = pending[q]
                              \/ q = p /\ pending'[q] = IF Serves(q) THEN "max" ELSE "row"
  BY DEF TypeOK, BeginRead, process
<1> QED
  BY <1>1 DEF Copies, Known, Serves

\* A read that settles leaves no answer behind.
LEMMA SettleKeeps ==
  ASSUME TypeOK, NEW p \in Processes, Settle(p)
  PROVE  /\ pending'[p] = "none" /\ seen'[p] = Defaults
         /\ \A q \in Processes \ {p} : pending'[q] = pending[q] /\ seen'[q] = seen[q]
         /\ \A r \in Saves : \/ pc'[r] = pc[r] /\ ~(call[r].process = p /\ pc[r] \in {"waiting", "forcing"})
                             \/ call[r].process = p /\ pc[r] = "waiting" /\ pc'[r] = "settled"
                             \/ call[r].process = p /\ pc[r] = "forcing" /\ pc'[r] = "saved"
BY DEF TypeOK, Settle, At

\* A settled read keeps the copies, if what is in force came from it or was there.
LEMMA SettleCopies ==
  ASSUME TypeOK, Copies, NEW p \in Processes, Settle(p), UNCHANGED versions,
         loaded'[p] \in {loaded[p], seen[p]}, \A q \in Processes \ {p} : loaded'[q] = loaded[q]
  PROVE  Copies'
<1> SUFFICES ASSUME NEW q \in Processes
             PROVE  /\ loaded'[q] \in versions \cup {Defaults, Nothing}
                    /\ seen'[q] \in versions \cup {Defaults}
                    /\ pending'[q] \in Known => seen'[q].version >= loaded'[q].version
                    /\ pending'[q] \in {"max", "max known"} => loaded'[q] # Nothing
  BY DEF Copies, Serves
<1>1. CASE q = p
  BY <1>1, SettleKeeps DEF Copies, Known
<1>2. CASE q # p
  <2>1. pending'[q] = pending[q] /\ seen'[q] = seen[q] /\ loaded'[q] = loaded[q]
    BY <1>2, SettleKeeps
  <2> QED
    BY <2>1 DEF Copies, Serves
<1> QED
  BY <1>1, <1>2

\* No save waits for a read that has settled.
LEMMA SettleLooked ==
  ASSUME TypeOK, Looked, NEW p \in Processes, Settle(p), UNCHANGED <<call, wrote>>
  PROVE  Looked'
<1> SUFFICES ASSUME NEW r \in Saves
             PROVE  /\ pc'[r] = "forcing" => pending'[call[r].process] # "none"
                    /\ pc'[r] \in {"settled", "forcing"} /\ pending'[call[r].process] \in Known =>
                         seen'[call[r].process].version >= wrote[r].version
  BY DEF Looked
<1>0. call[r].process \in Processes
  BY Numbers
<1>1. CASE call[r].process = p
  <2>1. pending'[p] = "none" /\ pc'[r] # "forcing"
    BY <1>1, SettleKeeps
  <2> QED
    BY <1>1, <2>1 DEF Known
<1>2. CASE call[r].process # p
  <2>1. /\ pc'[r] = pc[r] /\ pending'[call[r].process] = pending[call[r].process]
        /\ seen'[call[r].process] = seen[call[r].process]
    BY <1>0, <1>2, SettleKeeps
  <2> QED
    BY <2>1 DEF Looked
<1> QED
  BY <1>1, <1>2

\* A save is answered with its version in force, if the read it waited for has put it there.
LEMMA SettleApplies ==
  ASSUME TypeOK, AppliesAtOnce, NEW p \in Processes, Settle(p), UNCHANGED <<call, wrote>>,
         \A q \in Processes : loaded'[q].version \in Nat /\ loaded'[q].version >= loaded[q].version,
         missed \subseteq missed',
         \A r \in Saves : call[r].process = p /\ pc[r] = "forcing" /\ r \notin missed' =>
                           loaded'[p].version >= wrote[r].version
  PROVE  AppliesAtOnce'
<1> SUFFICES ASSUME NEW r \in Saves, pc'[r] = "saved", r \notin missed'
             PROVE  loaded'[call[r].process].version >= wrote[r].version
  BY DEF AppliesAtOnce
<1>1. CASE pc[r] = "saved"
  <2>1. loaded[call[r].process].version >= wrote[r].version
    BY <1>1 DEF AppliesAtOnce
  <2> QED
    BY <2>1, Numbers
<1>2. CASE pc[r] # "saved"
  <2>1. call[r].process = p /\ pc[r] = "forcing"
    BY <1>2, SettleKeeps
  <2> QED
    BY <2>1
<1> QED
  BY <1>1, <1>2

\* The steps of a read keep the copies and what the saves wait for.
LEMMA ReadKeeps ==
  ASSUME TypeOK, Newest, Copies, Looked, NoChangeLost, AppliesAtOnce, NEW p \in Processes, InForce(p)
  PROVE  Copies' /\ Looked' /\ AppliesAtOnce'
<1>0. /\ \A q \in Processes : loaded[q].version \in Nat /\ seen[q].version \in Nat
      /\ \A r \in Saves : wrote[r].version \in Nat /\ call[r].process \in Processes
      /\ UNCHANGED <<versions, call, wrote>>
  BY Numbers DEF InForce, Read, StartPolicy, RunQuery, CompareVersion, LoadVersion, ReadFails, table, saving
<1>1. CASE StartPolicy(p)
  <2>1. BeginRead(p) /\ UNCHANGED <<pc, missed>>
    BY <1>1 DEF StartPolicy
  <2> QED
    BY <1>0, <2>1, BeginKeeps DEF Looked, AppliesAtOnce
<1>2. CASE RunQuery(p)
  <2>1. /\ loaded' = loaded /\ UNCHANGED <<pc, missed>>
        /\ seen' = [seen EXCEPT ![p] = Latest] /\ pending[p] \in {"max", "row"}
        /\ pending' = [pending EXCEPT ![p] = IF @ = "max" THEN "max known" ELSE "row known"]
    BY <1>2 DEF RunQuery
  <2>2. /\ Latest \in versions \cup {Defaults} /\ Latest.version \in Nat
        /\ \A v \in versions : v.version <= Latest.version
    BY LatestIs, Numbers
  <2>3. /\ seen'[p] = Latest /\ pending'[p] \in Known /\ (pending'[p] = "max known" => pending[p] = "max")
        /\ \A q \in Processes \ {p} : pending'[q] = pending[q] /\ seen'[q] = seen[q]
    BY <2>1 DEF TypeOK, Known
  <2>4. Latest.version >= loaded[p].version
    <3>1. loaded[p] \in versions \/ loaded[p].version = 0
      BY Numbers DEF Copies
    <3> QED
      BY <2>2, <3>1
  <2>5. Copies'
    BY <1>0, <2>1, <2>2, <2>3, <2>4 DEF Copies, Serves, Known
  <2>6. \A r \in Saves : pc[r] \in {"settled", "forcing"} => Latest.version >= wrote[r].version
    BY <1>0, <2>2 DEF NoChangeLost, Saved
  <2>7. Looked' /\ AppliesAtOnce'
    BY <1>0, <2>1, <2>3, <2>6 DEF Looked, AppliesAtOnce, Known
  <2> QED
    BY <2>5, <2>7
<1>3. CASE CompareVersion(p) /\ seen[p].version = loaded[p].version
  <2>1. loaded' = loaded /\ UNCHANGED missed /\ pending[p] = "max known" /\ Settle(p)
    BY <1>3 DEF CompareVersion
  <2>2. Copies' /\ Looked'
    BY <1>0, <1>3, <2>1, SettleCopies, SettleLooked
  <2>3. \A r \in Saves : call[r].process = p /\ pc[r] = "forcing" => loaded[p].version >= wrote[r].version
    BY <1>3, <2>1 DEF Looked, Known
  <2>4. \A q \in Processes : loaded'[q].version \in Nat /\ loaded'[q].version >= loaded[q].version
    <3>1. \A q \in Processes : loaded'[q].version = loaded[q].version
      BY <2>1
    <3> QED
      BY <1>0, <3>1
  <2>5. AppliesAtOnce'
    BY <1>0, <2>1, <2>3, <2>4, SettleApplies
  <2> QED
    BY <2>2, <2>5
<1>4. CASE CompareVersion(p) /\ seen[p].version # loaded[p].version
  <2>1. /\ UNCHANGED <<loaded, seen, pc, missed>> /\ pending[p] = "max known"
        /\ pending' = [pending EXCEPT ![p] = "row"]
    BY <1>4 DEF CompareVersion
  <2>2. pending'[p] = "row" /\ \A q \in Processes \ {p} : pending'[q] = pending[q]
    BY <2>1 DEF TypeOK
  <2> QED
    BY <1>0, <2>1, <2>2 DEF Copies, Looked, AppliesAtOnce, Serves, Known
<1>5. CASE LoadVersion(p)
  <2>1. /\ loaded' = [loaded EXCEPT ![p] = seen[p]] /\ UNCHANGED missed /\ pending[p] = "row known"
        /\ Settle(p)
    BY <1>5 DEF LoadVersion
  <2>2. /\ loaded'[p] = seen[p] /\ \A q \in Processes \ {p} : loaded'[q] = loaded[q]
        /\ seen[p].version >= loaded[p].version
    BY <2>1 DEF TypeOK, Copies, Known
  <2>3. Copies' /\ Looked'
    BY <1>0, <2>1, <2>2, SettleCopies, SettleLooked
  <2>4. \A r \in Saves : call[r].process = p /\ pc[r] = "forcing" => loaded'[p].version >= wrote[r].version
    BY <2>1, <2>2 DEF Looked, Known
  <2>5. \A q \in Processes : loaded'[q].version \in Nat /\ loaded'[q].version >= loaded[q].version
    BY <1>0, <2>2
  <2>6. AppliesAtOnce'
    BY <1>0, <2>1, <2>4, <2>5, SettleApplies
  <2> QED
    BY <2>3, <2>6
<1>6. CASE ReadFails(p)
  <2>1. /\ loaded' = loaded /\ Settle(p)
        /\ missed' = missed \cup {r \in At(p) : pc[r] = "forcing"}
    BY <1>6 DEF ReadFails
  <2>2. Copies' /\ Looked'
    BY <1>0, <2>1, SettleCopies, SettleLooked
  <2>3. \A q \in Processes : loaded'[q].version \in Nat /\ loaded'[q].version >= loaded[q].version
    BY <1>0, <2>1
  <2>4. AppliesAtOnce'
    BY <1>0, <2>1, <2>3, SettleApplies DEF At
  <2> QED
    BY <2>2, <2>4
<1> QED
  BY <1>1, <1>2, <1>3, <1>4, <1>5, <1>6 DEF InForce, Read

\* So do the steps of the saves.
LEMMA SaveApplies ==
  ASSUME TypeOK, Newest, Copies, Looked, AppliesAtOnce, NEW r \in Saves, SavePolicy(r)
  PROVE  Copies' /\ Looked' /\ AppliesAtOnce'
<1>0. /\ call[r].process \in Processes /\ call' = call /\ missed' = missed
      /\ versions \subseteq versions'
      /\ BeginRead(call[r].process) \/ UNCHANGED process
  BY Numbers DEF SavePolicy, BeginSave, TakeLock, ReadLatest, InsertVersion, AuditVersion, CommitSave,
                 ForceRead, ForceAgain, JoinRead, LoseAnswer, Fail, table, saving
<1>1. /\ Copies' /\ loaded' = loaded /\ seen' = seen
      /\ \A q \in Processes : /\ pending'[q] \in Known => pending'[q] = pending[q]
                              /\ pending[q] # "none" => pending'[q] # "none"
  BY <1>0, BeginKeeps
<1>2. /\ \A q \in Saves \ {r} : pc'[q] = pc[q] /\ wrote'[q] = wrote[q]
      /\ pc'[r] \notin {"settled", "saved"}
      /\ pc'[r] = "forcing" => /\ wrote'[r] = wrote[r] /\ pending'[call[r].process] # "none"
                               /\ pending'[call[r].process] \in Known => pc[r] = "settled"
  <2>1. CASE ForceRead(r)
    <3>1. /\ wrote' = wrote
          /\ \/ pc' = [pc EXCEPT ![r] = "waiting"]
             \/ pc' = [pc EXCEPT ![r] = "forcing"] /\ BeginRead(call[r].process)
      BY <2>1 DEF ForceRead, Goto, saving
    <3>2. BeginRead(call[r].process) => pending'[call[r].process] \in {"max", "row"}
      BY <1>0 DEF TypeOK, BeginRead
    <3> QED
      BY <3>1, <3>2 DEF TypeOK, Known
  <2>2. CASE ForceAgain(r)
    <3>1. /\ wrote' = wrote /\ pc[r] = "settled" /\ pc' = [pc EXCEPT ![r] = "forcing"]
          /\ JoinRead(call[r].process)
      BY <2>2 DEF ForceAgain, Goto, saving
    <3>2. pending'[call[r].process] # "none"
      BY <1>0, <3>1 DEF TypeOK, JoinRead, BeginRead, process
    <3> QED
      BY <3>1, <3>2 DEF TypeOK
  <2>3. CASE ~ForceRead(r) /\ ~ForceAgain(r)
    BY <2>3 DEF TypeOK, SavePolicy, BeginSave, TakeLock, ReadLatest, InsertVersion, AuditVersion,
                CommitSave, LoseAnswer, Fail, Rollback, Goto, saving
  <2> QED
    BY <2>1, <2>2, <2>3
<1>3. Looked'
  <2> SUFFICES ASSUME NEW q \in Saves
               PROVE  /\ pc'[q] = "forcing" => pending'[call[q].process] # "none"
                      /\ pc'[q] \in {"settled", "forcing"} /\ pending'[call[q].process] \in Known =>
                           seen'[call[q].process].version >= wrote'[q].version
    BY <1>0 DEF Looked
  <2>0. call[q].process \in Processes
    BY Numbers
  <2>1. CASE q = r
    BY <1>1, <1>2, <2>0, <2>1 DEF Looked
  <2>2. CASE q # r
    BY <1>1, <1>2, <2>0, <2>2 DEF Looked
  <2> QED
    BY <2>1, <2>2
<1>4. AppliesAtOnce'
  BY <1>0, <1>1, <1>2 DEF AppliesAtOnce
<1> QED
  BY <1>1, <1>3, <1>4

\* And the steps of the requests.
LEMMA CallerApplies ==
  ASSUME TypeOK, Copies, Looked, AppliesAtOnce, NEW p \in Callers, Expire(p) \/ EnforcePolicy(p)
  PROVE  Copies' /\ Looked' /\ AppliesAtOnce'
<1>0. /\ p \in Processes /\ UNCHANGED <<versions, call, wrote, pc, missed>>
  BY CallersAssumption DEF Expire, EnforcePolicy, LookUp, RecordToLoad, Decide, table, saving
<1>1. CASE BeginRead(p) \/ UNCHANGED process
  BY <1>0, <1>1, BeginKeeps, Numbers DEF Looked, AppliesAtOnce
<1>2. CASE Expire(p)
  BY <1>0, <1>2 DEF Expire, Copies, Looked, AppliesAtOnce, Serves
<1> QED
  BY <1>1, <1>2 DEF EnforcePolicy, LookUp, JoinRead, RecordToLoad, Decide
-----------------------------------------------------------------------------
(* Decisions *)

\* The steps of a request keep the record in line with the policy it was looked up under.
LEMMA CallerJustified ==
  ASSUME TypeOK, Recorded, DecisionsJustified, NEW p \in Callers, Expire(p) \/ EnforcePolicy(p)
  PROVE  Recorded' /\ DecisionsJustified'
<1>1. CASE Expire(p)
  BY <1>1 DEF Expire, Recorded, DecisionsJustified, deciding
<1>2. CASE LookUp(p)
  <2>1. /\ UNCHANGED <<record, first>> /\ answer' = [answer EXCEPT ![p] = NoAnswer]
        /\ asking[p] \in {"idle", "recorded"}
        /\ \/ asking' = [asking EXCEPT ![p] = IF @ = "idle" THEN "looked" ELSE "ready"]
           \/ asking' = [asking EXCEPT ![p] = IF @ = "idle" THEN "looking" ELSE "looking again"]
    BY <1>2 DEF LookUp
  <2>2. /\ \A q \in Callers \ {p} : asking'[q] = asking[q] /\ answer'[q] = answer[q]
        /\ answer'[p].by = Nothing
        /\ asking'[p] \in {"looking again", "ready"} => asking[p] = "recorded"
        /\ asking'[p] # "recorded"
    BY <2>1 DEF TypeOK, NoAnswer
  <2>3. Recorded'
    BY <2>1, <2>2 DEF Recorded
  <2>4. DecisionsJustified'
    BY <2>2 DEF DecisionsJustified
  <2> QED
    BY <2>3, <2>4
<1>3. CASE RecordToLoad(p)
  <2>1. /\ UNCHANGED answer /\ first' = [first EXCEPT ![p] = loaded[p]]
        /\ record' = [record EXCEPT ![p] = Closing \notin loaded[p].state]
        /\ asking' = [asking EXCEPT ![p] = "recorded"]
    BY <1>3 DEF RecordToLoad
  <2>2. Recorded'
    BY <2>1 DEF TypeOK, Recorded
  <2>3. DecisionsJustified'
    BY <2>1 DEF DecisionsJustified
  <2> QED
    BY <2>2, <2>3
<1>4. CASE Decide(p)
  <2> DEFINE a == [allow |-> record[p] /\ Permits(loaded[p].state), by |-> loaded[p], first |-> first[p]]
  <2>1. /\ asking[p] = "ready" /\ answer' = [answer EXCEPT ![p] = a]
        /\ asking' = [asking EXCEPT ![p] = "idle"]
        /\ record' = [record EXCEPT ![p] = FALSE] /\ first' = [first EXCEPT ![p] = Nothing]
    BY <1>4 DEF Decide
  <2>2. Recorded'
    BY <2>1 DEF TypeOK, Recorded
  <2>3. record[p] = (Closing \notin first[p].state)
    BY <2>1 DEF Recorded
  <2>4. /\ a.allow = (record[p] /\ Permits(loaded[p].state)) /\ a.by = loaded[p] /\ a.first = first[p]
    OBVIOUS
  <2>5. IF a.allow THEN Permits(a.by.state) ELSE ~Permits(a.by.state) \/ ~Permits(a.first.state)
    BY <2>3, <2>4 DEF Permits
  <2>6. answer'[p] = a /\ \A q \in Callers \ {p} : answer'[q] = answer[q]
    BY <2>1 DEF TypeOK
  <2> HIDE DEF a
  <2>7. DecisionsJustified'
    BY <2>5, <2>6 DEF DecisionsJustified
  <2> QED
    BY <2>2, <2>7
<1> QED
  BY <1>1, <1>2, <1>3, <1>4 DEF EnforcePolicy

\* Saves change no decision, and a read that settles only lets the request go on.
LEMMA OthersJustified ==
  ASSUME TypeOK, Recorded, DecisionsJustified,
         (\E p \in Processes : InForce(p)) \/ (\E r \in Saves : SavePolicy(r)) \/ UNCHANGED vars
  PROVE  Recorded' /\ DecisionsJustified'
<1>1. UNCHANGED <<record, first, answer>>
  BY DEF InForce, Read, StartPolicy, RunQuery, CompareVersion, LoadVersion, ReadFails,
         SavePolicy, BeginSave, TakeLock, ReadLatest, InsertVersion, AuditVersion, CommitSave,
         ForceRead, ForceAgain, LoseAnswer, Fail, vars, deciding
<1>2. DecisionsJustified'
  BY <1>1 DEF DecisionsJustified
<1>3. \A q \in Callers : asking'[q] \in {"recorded", "looking again", "ready"} =>
                         asking[q] \in {"recorded", "looking again", "ready"}
  <2>1. ASSUME NEW p \in Processes, InForce(p)
        PROVE  Settle(p) \/ UNCHANGED asking
    BY <2>1 DEF InForce, Read, StartPolicy, RunQuery, CompareVersion, LoadVersion, ReadFails
  <2>2. ASSUME NEW p \in Processes, Settle(p)
        PROVE  \A q \in Callers : asking'[q] \in {"recorded", "looking again", "ready"} =>
                                  asking[q] \in {"recorded", "looking again", "ready"}
    BY <2>2 DEF TypeOK, Settle
  <2>3. (\E r \in Saves : SavePolicy(r)) \/ UNCHANGED vars => UNCHANGED asking
    BY DEF SavePolicy, BeginSave, TakeLock, ReadLatest, InsertVersion, AuditVersion, CommitSave,
           ForceRead, ForceAgain, LoseAnswer, Fail, vars
  <2> QED
    BY <2>1, <2>2, <2>3
<1>4. Recorded'
  BY <1>1, <1>3 DEF Recorded
<1> QED
  BY <1>2, <1>4
-----------------------------------------------------------------------------
(* The theorems *)

\* The invariant holds of the empty table and of processes that have nothing loaded.
LEMMA IInvInit == Init => IInv
<1> SUFFICES ASSUME Init PROVE IInv
  OBVIOUS
<1>1. TypeOK
  BY TypeInit
<1>2. Newest /\ ChangesAudited
  BY DEF Init, Newest, ChangesAudited
<1>3. OnNewest /\ NoChangeLost /\ AppliesAtOnce
  BY DEF Init, OnNewest, NoChangeLost, AppliesAtOnce, Holding, Saved
<1>4. Copies /\ Looked
  BY <1>1, Numbers DEF Init, Copies, Looked, Known
<1>5. Recorded /\ DecisionsJustified
  BY DEF Init, Recorded, DecisionsJustified, NoAnswer
<1> QED
  BY <1>1, <1>2, <1>3, <1>4, <1>5 DEF IInv

\* Every step keeps it.
LEMMA IInvStep == IInv /\ [Next]_vars => IInv'
<1> SUFFICES ASSUME IInv, [Next]_vars PROVE IInv'
  OBVIOUS
<1>0. /\ TypeOK /\ Newest /\ OnNewest /\ Copies /\ Looked /\ Recorded
      /\ NoChangeLost /\ ChangesAudited /\ AppliesAtOnce /\ DecisionsJustified
  BY DEF IInv
<1>1. TypeOK'
  BY <1>0, TypeStep
<1>2. \/ \E p \in Processes : InForce(p)
      \/ \E p \in Callers : Expire(p) \/ EnforcePolicy(p)
      \/ \E r \in Saves : SavePolicy(r)
      \/ UNCHANGED vars
  BY DEF Next
<1>3. Versioned'
  BY <1>0, <1>2, OthersQuiet, QuietKeeps, SaveKeeps DEF Versioned
<1>4. Copies' /\ Looked' /\ AppliesAtOnce'
  <2>1. UNCHANGED vars => Copies' /\ Looked' /\ AppliesAtOnce'
    BY <1>0 DEF vars, table, process, saving, Copies, Looked, AppliesAtOnce, Serves
  <2> QED
    BY <1>0, <1>2, <2>1, ReadKeeps, SaveApplies, CallerApplies
<1>5. Recorded' /\ DecisionsJustified'
  BY <1>0, <1>2, CallerJustified, OthersJustified
<1> QED
  BY <1>1, <1>3, <1>4, <1>5 DEF IInv, Versioned

\* A process puts nothing older in force than what it has: of a step of Next.
LEMMA Forward ==
  ASSUME IInv, [Next]_vars, NEW p \in Processes
  PROVE  loaded'[p].version >= loaded[p].version
<1>0. TypeOK /\ Copies /\ \A q \in Processes : loaded[q].version \in Nat /\ seen[q].version \in Nat
  BY Numbers DEF IInv
<1>1. ASSUME NEW q \in Processes, LoadVersion(q)
      PROVE  loaded'[p].version >= loaded[p].version
  <2>1. /\ loaded' = [loaded EXCEPT ![q] = seen[q]] /\ seen[q].version >= loaded[q].version
    BY <1>0, <1>1 DEF LoadVersion, Copies, Known
  <2>2. loaded'[p] = IF p = q THEN seen[q] ELSE loaded[p]
    BY <1>0, <2>1 DEF TypeOK
  <2> QED
    BY <1>0, <2>1, <2>2
<1>2. CASE ~\E q \in Processes : LoadVersion(q)
  <2>1. loaded' = loaded
    BY <1>2 DEF Next, InForce, Read, StartPolicy, BeginRead, RunQuery, CompareVersion, ReadFails,
                Expire, EnforcePolicy, LookUp, JoinRead, RecordToLoad, Decide,
                SavePolicy, BeginSave, TakeLock, ReadLatest, InsertVersion, AuditVersion, CommitSave,
                ForceRead, ForceAgain, LoseAnswer, Fail, vars, process
  <2>2. loaded'[p].version = loaded[p].version
    BY <2>1
  <2> QED
    BY <1>0, <2>2
<1> QED
  BY <1>1, <1>2

\* The invariant is an invariant: who holds the lock, what is to be written, what
\* each process has and what each read will answer (savePolicy, current).
THEOREM OneAtATime == Spec => []IInv
BY IInvInit, IInvStep, PTL DEF Spec

\* Every variable keeps its type, for any processes, saves and settings.
THEOREM PolicyTypes == Spec => []TypeOK
<1>1. IInv => TypeOK
  BY DEF IInv
<1> QED
  BY <1>1, OneAtATime, PTL

\* Every saved version is the one before it with one save's change (savePolicy).
THEOREM NoneOverwritten == Spec => []NoChangeLost
<1>1. IInv => NoChangeLost
  BY DEF IInv
<1> QED
  BY <1>1, OneAtATime, PTL

\* No version is committed without its entry (savePolicy).
THEOREM AuditedBefore == Spec => []ChangesAudited
<1>1. IInv => ChangesAudited
  BY DEF IInv
<1> QED
  BY <1>1, OneAtATime, PTL

\* A save that is answered is in force where it was made (savePolicy, current).
THEOREM AppliedHere == Spec => []AppliesAtOnce
<1>1. IInv => AppliesAtOnce
  BY DEF IInv
<1> QED
  BY <1>1, OneAtATime, PTL

\* Each answer follows from the policies it was given under (enforcePolicy, decide).
THEOREM Justified == Spec => []DecisionsJustified
<1>1. IInv => DecisionsJustified
  BY DEF IInv
<1> QED
  BY <1>1, OneAtATime, PTL

\* No process goes back to an older version (current, refresh, load).
THEOREM OnlyForward == Spec => NeverBack
<1>1. IInv /\ [Next]_vars => [\A p \in Processes : Serves(p) => loaded'[p].version >= loaded[p].version]_loaded
  BY Forward
<1> QED
  BY <1>1, OneAtATime, PTL DEF Spec, NeverBack
-----------------------------------------------------------------------------
(* The types of the browser, by what a step changes together *)

AnyToken == Token \cup {NoToken}
Stays == [stage : {"none", "asked", "answered", "refused"}, token : AnyToken,
          sender : {"here", "left", "ended"}]

TimersTyped == /\ page \in [Tabs -> {"closed", "login", "app"}]
               /\ expiresAt \in [Tabs -> Nat \cup {Never}] /\ warned \in [Tabs -> BOOLEAN]
CallsTyped  == /\ stay \in [Tabs -> Stays]
               /\ data \in [Tabs -> AnyToken] /\ leaving \in [Tabs -> AnyToken]
StoreTyped  == token \in AnyToken /\ events \subseteq Tabs
HistoryTyped == /\ lost \subseteq {"timer", "refusal", "person"}
                /\ revived \subseteq {"here", "left", "ended"}
ServerTyped == auth_time \in [SignIns -> Nat \cup {Never}] /\ revoked \subseteq SignIns
CountTyped  == now \in Nat /\ left \in Nat

\* Together they are the type invariant.
LEMMA BrowserTypes ==
  BrowserTypeOK <=> CountTyped /\ StoreTyped /\ ServerTyped /\ TimersTyped /\ CallsTyped /\ HistoryTyped
  BY DEF BrowserTypeOK, CountTyped, StoreTyped, ServerTyped, TimersTyped, CallsTyped, HistoryTyped,
     AnyToken, Stays

\* Where a token is kept, its expiry is a time or none.
LEMMA TokenExpiry ==
  ASSUME NEW k \in AnyToken
  PROVE  k.exp \in Nat \cup {Never} /\ (k # NoToken => k.exp \in Nat /\ k.session \in SignIns)
  BY DEF AnyToken, Token, NoToken, Never

\* What the steps are put together from keeps the types: a token that is stored,
LEMMA StoreKeeps ==
  ASSUME StoreTyped, NEW t \in Tabs, NEW k \in AnyToken, Store(t, k)
  PROVE  StoreTyped'
  BY DEF StoreTyped, Store

\* ... a token that is taken away,
LEMMA TakeAwayKeeps ==
  ASSUME StoreTyped, HistoryTyped, NEW t \in Tabs, NEW cause \in {"refusal", "person", "timer"},
         TakeAway(t, cause)
  PROVE  StoreTyped' /\ lost' \subseteq {"timer", "refusal", "person"}
<1>1. StoreTyped' BY StoreKeeps DEF TakeAway, AnyToken
<1> QED BY <1>1 DEF TakeAway, HistoryTyped

\* ... an expiry that a tab learns of,
LEMMA KnowKeeps ==
  ASSUME TimersTyped, NEW t \in Tabs, NEW e \in Nat \cup {Never}, Know(t, e), UNCHANGED page
  PROVE  TimersTyped'
<1>1. expiresAt' \in [Tabs -> Nat \cup {Never}]  BY DEF TimersTyped, Know
<1>2. warned' \in [Tabs -> BOOLEAN]  BY DEF TimersTyped, Know
<1> QED BY <1>1, <1>2 DEF TimersTyped

\* ... a page that is shown, with a timer of its own,
LEMMA MountKeeps ==
  ASSUME TimersTyped, NEW t \in Tabs, NEW k \in AnyToken, Mount(t, k)
  PROVE  TimersTyped'
  BY TokenExpiry DEF TimersTyped, Mount

\* ... a page that is left,
LEMMA UnmountKeeps ==
  ASSUME TimersTyped, NEW t \in Tabs, NEW to \in {"login", "closed"}, Unmount(t, to)
  PROVE  TimersTyped'
  BY DEF TimersTyped, Unmount, Never

\* ... the calls of a tab that is closed or loads anew,
LEMMA AbortKeeps ==
  ASSUME CallsTyped, NEW t \in Tabs, Abort(t)
  PROVE  CallsTyped'
<1>1. NoStay \in Stays  BY DEF Stays, NoStay, AnyToken
<1>2. NoToken \in AnyToken BY DEF AnyToken
<1> QED BY <1>1, <1>2 DEF CallsTyped, Abort

\* ... a request to stay whose timer is gone,
LEMMA OrphanKeeps ==
  ASSUME CallsTyped, NEW t \in Tabs, NEW fate \in {"left", "ended"}, Orphan(t, fate)
  PROVE  stay' \in [Tabs -> Stays]
  BY DEF CallsTyped, Orphan, Stays

\* ... a refusal, which does all of that,
LEMMA RefusedKeeps ==
  ASSUME StoreTyped, TimersTyped, CallsTyped, HistoryTyped, NEW t \in Tabs, Refused(t)
  PROVE  StoreTyped' /\ TimersTyped' /\ CallsTyped' /\ lost' \subseteq {"timer", "refusal", "person"}
  BY TakeAwayKeeps, UnmountKeeps, AbortKeeps DEF Refused

\* ... and a sign-out by the person.
LEMMA LeaveKeeps ==
  ASSUME StoreTyped, TimersTyped, CallsTyped, HistoryTyped, NEW t \in Tabs, NEW fate \in {"left", "ended"},
         Leave(t, fate), UNCHANGED data
  PROVE  StoreTyped' /\ TimersTyped' /\ CallsTyped' /\ lost' \subseteq {"timer", "refusal", "person"}
<1>1. stay' \in [Tabs -> Stays]  BY OrphanKeeps DEF Leave
<1>2. leaving' \in [Tabs -> AnyToken]  BY DEF Leave, CallsTyped, StoreTyped
<1>3. CallsTyped'  BY <1>1, <1>2 DEF CallsTyped
<1> QED BY <1>3, TakeAwayKeeps, UnmountKeeps DEF Leave

\* The server signs a token, also where less than a second of the session is left.
LEMMA ReplacementKeeps ==
  ASSUME CountTyped, ServerTyped, NEW k \in Token, NEW looked \in now .. now + 1, NEW signed \in now .. now + 1
  PROVE  Replacement(k, looked, signed) \in Token
<1>1. End(k.session) \in Int BY SecondsAssumption DEF End, ServerTyped, Token, Never
<1>2. looked \in Nat /\ signed \in Nat /\ looked + JWT_EXPIRY \in Nat BY SecondsAssumption DEF CountTyped
<1> DEFINE e == IF looked + JWT_EXPIRY <= End(k.session) THEN looked + JWT_EXPIRY
                ELSE signed + (IF End(k.session) - looked >= 1 THEN End(k.session) - looked ELSE 1)
<1>3. e \in Nat BY <1>1, <1>2
<1> QED BY <1>3 DEF Replacement, Token

\* At first nobody has signed in and every tab shows the sign-in page.
LEMMA BrowserTypedInit == BrowserInit => BrowserTypeOK
<1> SUFFICES ASSUME BrowserInit PROVE BrowserTypeOK  OBVIOUS
<1>1. CountTyped BY SecondsAssumption DEF BrowserInit, CountTyped
<1>2. StoreTyped BY DEF BrowserInit, StoreTyped, AnyToken
<1>3. ServerTyped BY DEF BrowserInit, ServerTyped, Never
<1>4. TimersTyped BY DEF BrowserInit, TimersTyped, Never
<1>5. CallsTyped BY DEF BrowserInit, CallsTyped, Stays, NoStay, AnyToken
<1>6. HistoryTyped BY DEF BrowserInit, HistoryTyped
<1> QED BY <1>1, <1>2, <1>3, <1>4, <1>5, <1>6, BrowserTypes

\* The timers, the person and the replies, each with what it changes.
LEMMA BrowserTypedStep == BrowserTypeOK /\ [BrowserNext]_browserVars => BrowserTypeOK'
<1> SUFFICES ASSUME BrowserTypeOK, [BrowserNext]_browserVars PROVE BrowserTypeOK'
  OBVIOUS
<1>1. CountTyped /\ StoreTyped /\ ServerTyped /\ TimersTyped /\ CallsTyped /\ HistoryTyped
  BY BrowserTypes
<1>2. CountTyped'
  <2>1. CASE UNCHANGED browserVars  BY <1>1, <2>1 DEF browserVars, CountTyped
  <2>2. CASE Tick BY <1>1, <2>2 DEF Tick, CountTyped
  <2>3. ASSUME NEW t \in Tabs, Timer(t) \/ Person(t) \/ Reply(t)
        PROVE  now' = now /\ (left' = left \/ Click)
    BY <2>3 DEF Timer, Person, Reply, WarnFires, EndFires, EndSession, Sync, Navigate, CloseTab, WrongPassword,
       Ask, Stay, HandleLogout, SignOut, SignIn, DataAnswered, LogoutAnswered, ServeStay, StayAnswered,
       StayRefused, StayFailed
  <2> QED BY <1>1, <2>1, <2>2, <2>3 DEF BrowserNext, Click, CountTyped
<1>3. ASSUME NEW t \in Tabs, Timer(t)
      PROVE  StoreTyped' /\ ServerTyped' /\ TimersTyped' /\ CallsTyped' /\ HistoryTyped'
  <2> USE <1>1 DEF server, timer, calls
  <2>1. token.exp \in Nat \cup {Never}  BY TokenExpiry DEF StoreTyped
  <2>2. CASE WarnFires(t) 
    <3>1. TimersTyped' BY <2>1, <2>2, KnowKeeps DEF WarnFires, TimersTyped
    <3> QED BY <2>2, <3>1 DEF WarnFires, StoreTyped, ServerTyped, CallsTyped, HistoryTyped
  <2>3. CASE EndFires(t) /\ Changed(t)
    <3>1. TimersTyped' BY <2>1, <2>3, KnowKeeps DEF EndFires
    <3> QED BY <2>3, <3>1 DEF EndFires, StoreTyped, ServerTyped, CallsTyped, HistoryTyped
  <2>4. CASE EndFires(t) /\ ~Changed(t)
    <3>1. EndSession(t) BY <2>4 DEF EndFires
    <3>2. StoreTyped' /\ lost' \subseteq {"timer", "refusal", "person"}
      BY <3>1, TakeAwayKeeps DEF EndSession
    <3>3. TimersTyped' BY <3>1, UnmountKeeps DEF EndSession
    <3>4. CallsTyped' BY <3>1, OrphanKeeps DEF EndSession, CallsTyped
    <3> QED BY <3>1, <3>2, <3>3, <3>4 DEF EndSession, ServerTyped, HistoryTyped
  <2>5. CASE Sync(t)
    <3>1. TimersTyped' BY <2>1, <2>5, KnowKeeps DEF Sync, TimersTyped
    <3> QED BY <2>5, <3>1 DEF Sync, StoreTyped, ServerTyped, CallsTyped, HistoryTyped
  <2> QED BY <1>3, <2>2, <2>3, <2>4, <2>5 DEF Timer
<1>4. ASSUME NEW t \in Tabs, Person(t)
      PROVE  StoreTyped' /\ ServerTyped' /\ TimersTyped' /\ CallsTyped' /\ HistoryTyped'
  <2> USE <1>1 DEF server, timer, calls
  <2>1. CASE Navigate(t)
    <3>1. TimersTyped' BY <2>1, MountKeeps, UnmountKeeps DEF Navigate, StoreTyped
    <3>2. CallsTyped' BY <2>1, OrphanKeeps DEF Navigate, CallsTyped
    <3> QED BY <2>1, <3>1, <3>2 DEF Navigate, StoreTyped, ServerTyped, HistoryTyped
  <2>2. CASE CloseTab(t)
    BY <2>2, UnmountKeeps, AbortKeeps DEF CloseTab, StoreTyped, ServerTyped, HistoryTyped
  <2>3. CASE WrongPassword(t)
    BY <2>3, RefusedKeeps DEF WrongPassword, ServerTyped, HistoryTyped
  <2>4. CASE Ask(t)
    BY <2>4 DEF Ask, StoreTyped, ServerTyped, TimersTyped, CallsTyped, HistoryTyped
  <2>5. CASE Stay(t)
    <3>1. [stage |-> "asked", token |-> token, sender |-> "here"] \in Stays  BY DEF Stays, StoreTyped
    <3>2. CallsTyped' BY <2>5, <3>1 DEF Stay, CallsTyped
    <3> QED BY <2>5, <3>2 DEF Stay, StoreTyped, ServerTyped, TimersTyped, HistoryTyped
  <2>6. CASE HandleLogout(t)
    BY <2>6, LeaveKeeps DEF HandleLogout, ServerTyped, HistoryTyped
  <2>7. CASE SignOut(t)
    BY <2>7, LeaveKeeps DEF SignOut, ServerTyped, HistoryTyped
  <2>8. ASSUME NEW s \in SignIns, SignIn(t, s)
        PROVE  StoreTyped' /\ ServerTyped' /\ TimersTyped' /\ CallsTyped' /\ HistoryTyped'
    <3> DEFINE k == [session |-> s, exp |-> now + JWT_EXPIRY]
    <3>1. k \in AnyToken BY SecondsAssumption DEF AnyToken, Token, CountTyped
    <3>2. Store(t, k) /\ Mount(t, k) BY <2>8 DEF SignIn
    <3> HIDE DEF k
    <3>3. StoreTyped' /\ TimersTyped' BY <3>1, <3>2, StoreKeeps, MountKeeps
    <3>4. ServerTyped' BY <2>8 DEF SignIn, ServerTyped, CountTyped
    <3> QED BY <2>8, <3>3, <3>4 DEF SignIn, CallsTyped, HistoryTyped
  <2> QED BY <1>4, <2>1, <2>2, <2>3, <2>4, <2>5, <2>6, <2>7, <2>8 DEF Person
<1>5. ASSUME NEW t \in Tabs, Reply(t)
      PROVE  StoreTyped' /\ ServerTyped' /\ TimersTyped' /\ CallsTyped' /\ HistoryTyped'
  <2> USE <1>1 DEF server, timer, calls
  <2>0. NoStay \in Stays /\ NoToken \in AnyToken  BY DEF Stays, NoStay, AnyToken
  <2>1. CASE DataAnswered(t) /\ Accepted(data[t])
    <3>1. CallsTyped' BY <2>0, <2>1 DEF DataAnswered, CallsTyped
    <3> QED BY <2>1, <3>1 DEF DataAnswered, StoreTyped, ServerTyped, TimersTyped, HistoryTyped
  <2>2. CASE DataAnswered(t) /\ ~Accepted(data[t])
    BY <2>2, RefusedKeeps DEF DataAnswered, ServerTyped, HistoryTyped
  <2>3. CASE LogoutAnswered(t) /\ Accepted(leaving[t])
    <3>1. CallsTyped' BY <2>0, <2>3 DEF LogoutAnswered, CallsTyped
    <3>2. leaving[t].session \in SignIns BY <2>3, TokenExpiry DEF LogoutAnswered, CallsTyped
    <3>3. ServerTyped' BY <2>3, <3>2 DEF LogoutAnswered, ServerTyped
    <3> QED BY <2>3, <3>1, <3>3 DEF LogoutAnswered, StoreTyped, TimersTyped, HistoryTyped
  <2>4. CASE LogoutAnswered(t) /\ ~Accepted(leaving[t])
    BY <2>4, RefusedKeeps DEF LogoutAnswered, ServerTyped, HistoryTyped
  <2>5. CASE ServeStay(t)
    <3> DEFINE k == stay[t].token
    <3>0. PICK verified \in now .. now + 1, looked \in now .. now + 1, signed \in now .. now + 1 :
            LET good == Accepted(k) /\ verified <= End(k.session)
            IN  stay' = [stay EXCEPT ![t].stage = IF good THEN "answered" ELSE "refused",
                                     ![t].token = IF good THEN Replacement(k, looked, signed) ELSE NoToken]
      BY <2>5 DEF ServeStay
    <3> DEFINE good == Accepted(k) /\ verified <= End(k.session)
               reply == IF good THEN Replacement(k, looked, signed) ELSE NoToken
    <3>1. reply \in AnyToken
      <4>1. CASE good
        <5>1. k \in Token BY <4>1 DEF Accepted, CallsTyped, Stays, AnyToken
        <5> QED BY <4>1, <5>1, ReplacementKeeps DEF AnyToken
      <4> QED BY <2>0, <4>1
    <3>2. PICK done \in {"answered", "refused"} :
            stay' = [stay EXCEPT ![t].stage = done, ![t].token = reply]
      <4>1. CASE good BY <3>0, <4>1
      <4>2. CASE ~good BY <3>0, <4>2
      <4> QED BY <4>1, <4>2
    <3> HIDE DEF reply
    <3>3. stay' \in [Tabs -> Stays] BY <3>1, <3>2 DEF CallsTyped, Stays
    <3> QED BY <2>5, <3>3 DEF ServeStay, StoreTyped, ServerTyped, TimersTyped, CallsTyped, HistoryTyped
  <2>6. CASE StayAnswered(t)
    <3>1. CallsTyped' BY <2>0, <2>6 DEF StayAnswered, CallsTyped
    <3>2. stay[t].token \in AnyToken /\ stay[t].sender \in {"here", "left", "ended"}
      BY DEF CallsTyped, Stays
    <3>3. StoreTyped' BY <2>6, <3>2, StoreKeeps DEF StayAnswered, StoreTyped
    <3>4. TimersTyped' BY <2>6, <3>2, KnowKeeps, TokenExpiry DEF StayAnswered, TimersTyped
    <3>5. HistoryTyped' BY <2>6, <3>2 DEF StayAnswered, HistoryTyped
    <3> QED BY <2>6, <3>1, <3>3, <3>4, <3>5 DEF StayAnswered, ServerTyped
  <2>7. CASE StayRefused(t)
    BY <2>7, RefusedKeeps DEF StayRefused, ServerTyped, HistoryTyped
  <2>8. CASE StayFailed(t)
    <3>1. CallsTyped' BY <2>0, <2>8 DEF StayFailed, CallsTyped
    <3> QED BY <2>8, <3>1 DEF StayFailed, StoreTyped, ServerTyped, TimersTyped, HistoryTyped
  <2> QED BY <1>5, <2>1, <2>2, <2>3, <2>4, <2>5, <2>6, <2>7, <2>8 DEF Reply
<1>6. CASE Tick
  BY <1>1, <1>2, <1>6, BrowserTypes DEF Tick, server, timer, calls, StoreTyped, ServerTyped, TimersTyped, CallsTyped,
     HistoryTyped, BrowserTypeOK, CountTyped, AnyToken, Stays
<1>7. CASE UNCHANGED browserVars
  BY <1>7 DEF browserVars, server, timer, calls, BrowserTypeOK
<1>8. (CountTyped /\ StoreTyped /\ ServerTyped /\ TimersTyped /\ CallsTyped /\ HistoryTyped)' => BrowserTypeOK'
  BY DEF BrowserTypeOK, CountTyped, StoreTyped, ServerTyped, TimersTyped, CallsTyped, HistoryTyped,
     AnyToken, Stays
<1> QED BY <1>2, <1>3, <1>4, <1>5, <1>6, <1>7, <1>8 DEF BrowserNext

\* Every variable of the browser keeps its type.
THEOREM BrowserTyped == BrowserSpec => []BrowserTypeOK
  BY BrowserTypedInit, BrowserTypedStep, PTL DEF BrowserSpec

\* At first no token has been taken away and none has come back.
LEMMA HarmlessInit == BrowserInit => TimersHarmless
  BY DEF BrowserInit, TimersHarmless, TimersSpare, NothingRevived

\* The timer ends a session only when the expiry it knows is that of the stored token, and is past.
LEMMA HarmlessStep ==
  BrowserTypeOK /\ TimersHarmless /\ [BrowserNext]_browserVars => TimersHarmless'
<1> SUFFICES ASSUME BrowserTypeOK, TimersHarmless, [BrowserNext]_browserVars PROVE TimersHarmless'
  OBVIOUS
<1> USE DEF TimersHarmless, TimersSpare, NothingRevived
<1>1. CASE UNCHANGED <<lost, revived>>  BY <1>1
<1>2. ASSUME NEW t \in Tabs, EndDue(t), ~Changed(t), EndSession(t)  PROVE TimersHarmless'
  <2>1. now \in Nat /\ token.exp \in Nat \cup {Never}
    BY TokenExpiry DEF BrowserTypeOK, AnyToken
  <2>2. ~Accepted(token)  BY <1>2, <2>1 DEF Accepted, EndDue, Changed, Never
  <2> QED BY <1>2, <2>2 DEF EndSession, TakeAway
<1>3. ASSUME NEW t \in Tabs, Refused(t), UNCHANGED revived  PROVE TimersHarmless'
  BY <1>3 DEF Refused, TakeAway
<1>4. ASSUME NEW t \in Tabs, NEW fate, Leave(t, fate), UNCHANGED revived  PROVE TimersHarmless'
  BY <1>4 DEF Leave, TakeAway
<1>5. ASSUME NEW t \in Tabs, StayAnswered(t)  PROVE TimersHarmless'
  BY <1>5 DEF StayAnswered, TakeLiveReply
<1>6. ASSUME NEW t \in Tabs, Timer(t)  PROVE TimersHarmless'
  <2>1. CASE WarnFires(t) \/ Sync(t)  BY <1>1, <2>1 DEF WarnFires, Sync
  <2>2. CASE EndFires(t)  BY <1>1, <1>2, <2>2 DEF EndFires
  <2> QED BY <1>6, <2>1, <2>2 DEF Timer
<1>7. ASSUME NEW t \in Tabs, Person(t)  PROVE TimersHarmless'
  <2>1. CASE Navigate(t) \/ CloseTab(t) \/ Ask(t) \/ Stay(t) \/ \E s \in SignIns : SignIn(t, s)
    BY <1>1, <2>1 DEF Navigate, CloseTab, Ask, Stay, SignIn
  <2>2. CASE WrongPassword(t)  BY <1>3, <2>2 DEF WrongPassword
  <2>3. CASE HandleLogout(t) \/ SignOut(t)  BY <1>4, <2>3 DEF HandleLogout, SignOut
  <2> QED BY <1>7, <2>1, <2>2, <2>3 DEF Person
<1>8. ASSUME NEW t \in Tabs, Reply(t)  PROVE TimersHarmless'
  <2>1. CASE ServeStay(t) \/ StayFailed(t)  BY <1>1, <2>1 DEF ServeStay, StayFailed
  <2>2. CASE DataAnswered(t)    BY <1>1, <1>3, <2>2 DEF DataAnswered
  <2>3. CASE LogoutAnswered(t)  BY <1>1, <1>3, <2>3 DEF LogoutAnswered
  <2>4. CASE StayRefused(t)     BY <1>3, <2>4 DEF StayRefused
  <2> QED BY <1>8, <1>5, <2>1, <2>2, <2>3, <2>4 DEF Reply
<1> QED BY <1>1, <1>6, <1>7, <1>8 DEF BrowserNext, Tick, browserVars

\* For any number of tabs, and whatever they extend, sign in or have not heard of: no timer takes
\* away a token that is still good, and none that has signed out brings one back (SessionTimer.jsx).
THEOREM NoHarmByTimers == BrowserSpec => []TimersHarmless
  BY HarmlessInit, HarmlessStep, BrowserTyped, PTL DEF BrowserSpec
-----------------------------------------------------------------------------
(* The warning *)

\* The warning is open only in a tab that shows the application and knows when the token ends:
\* leaving the page takes it along, whichever way it is left (SessionTimer.jsx).
Shown == \A t \in Tabs : warned[t] => page[t] = "app" /\ expiresAt[t] # Never

\* At first no warning is open ...
LEMMA ShownInit == BrowserInit => Shown
  BY DEF BrowserInit, Shown

\* ... one opens where a page is shown, and what leaves the page closes it.
LEMMA ShownStep == BrowserTypeOK /\ Shown /\ [BrowserNext]_browserVars => Shown'
<1> SUFFICES ASSUME BrowserTypeOK, Shown, [BrowserNext]_browserVars PROVE Shown'
  OBVIOUS
<1>0. TimersTyped BY BrowserTypes
<1>1. CASE UNCHANGED <<page, expiresAt, warned>>  BY <1>1 DEF Shown
<1>2. ASSUME NEW t \in Tabs, NEW to, Unmount(t, to)  PROVE Shown'
  BY <1>0, <1>2 DEF Shown, Unmount, TimersTyped
<1>3. ASSUME NEW t \in Tabs, NEW k, Mount(t, k)  PROVE Shown'
  BY <1>0, <1>3 DEF Shown, Mount, TimersTyped
<1>4. ASSUME NEW t \in Tabs, NEW e, Know(t, e), UNCHANGED page  PROVE Shown'
  BY <1>0, <1>4 DEF Shown, Know, TimersTyped
<1>5. ASSUME NEW t \in Tabs, WarnFires(t)  PROVE Shown'
  <2>1. CASE Changed(t)   BY <1>4, <1>5, <2>1 DEF WarnFires
  <2>2. CASE ~Changed(t)  BY <1>0, <1>5, <2>2 DEF WarnFires, WarnDue, Shown, TimersTyped
  <2> QED BY <2>1, <2>2
<1>6. ASSUME NEW t \in Tabs, Timer(t)  PROVE Shown'
  <2>1. CASE EndFires(t)  BY <1>2, <1>4, <2>1 DEF EndFires, EndSession
  <2>2. CASE Sync(t)      BY <1>1, <1>4, <2>2 DEF Sync
  <2> QED BY <1>5, <1>6, <2>1, <2>2 DEF Timer
<1>7. ASSUME NEW t \in Tabs, Person(t)  PROVE Shown'
  <2>1. CASE Ask(t) \/ Stay(t)  BY <1>1, <2>1 DEF Ask, Stay, timer
  <2>2. CASE Navigate(t)        BY <1>2, <1>3, <2>2 DEF Navigate
  <2>3. CASE CloseTab(t)        BY <1>2, <2>3 DEF CloseTab
  <2>4. CASE WrongPassword(t)   BY <1>2, <2>4 DEF WrongPassword, Refused
  <2>5. CASE HandleLogout(t) \/ SignOut(t)  BY <1>2, <2>5 DEF HandleLogout, SignOut, Leave
  <2>6. CASE \E s \in SignIns : SignIn(t, s)  BY <1>3, <2>6 DEF SignIn
  <2> QED BY <1>7, <2>1, <2>2, <2>3, <2>4, <2>5, <2>6 DEF Person
<1>8. ASSUME NEW t \in Tabs, Reply(t)  PROVE Shown'
  <2>1. CASE ServeStay(t) \/ StayFailed(t)  BY <1>1, <2>1 DEF ServeStay, StayFailed, timer
  <2>2. CASE DataAnswered(t)    BY <1>1, <1>2, <2>2 DEF DataAnswered, Refused, timer
  <2>3. CASE LogoutAnswered(t)  BY <1>1, <1>2, <2>3 DEF LogoutAnswered, Refused, timer
  <2>4. CASE StayRefused(t)     BY <1>2, <2>4 DEF StayRefused, Refused
  <2>5. CASE StayAnswered(t)    BY <1>1, <1>4, <2>5 DEF StayAnswered
  <2> QED BY <1>8, <2>1, <2>2, <2>3, <2>4, <2>5 DEF Reply
<1> QED BY <1>1, <1>6, <1>7, <1>8 DEF BrowserNext, Tick, browserVars, timer

\* No reply, refusal, sign-out or storage event leaves a warning over the sign-in page.
THEOREM WarnedOnlyWhereShown == BrowserSpec => []Shown
  BY ShownInit, ShownStep, BrowserTyped, PTL DEF BrowserSpec
-----------------------------------------------------------------------------
(* How long a token can last *)

\* A token that the browser stores, or has sent, is of a session that has begun; it ends no later
\* than JWT_EXPIRY after the sign-in, or two seconds after the session's limit, however often it
\* has been extended and from whichever tab: the second of jwt.ts:63, and the one that may pass
\* between the looks at the clock of POST /auth/refresh and extendToken.
Begun(s) == auth_time[s] # Never
Ends(k) == k # NoToken => /\ Begun(k.session)
                          /\ k.exp <= auth_time[k.session] + JWT_EXPIRY \/ k.exp <= End(k.session) + 2
TokensEnd == Ends(token) /\ \A t \in Tabs : Ends(data[t]) /\ Ends(leaving[t]) /\ Ends(stay[t].token)

\* What has been signed stays signed: the time of a sign-in does not change.
LEMMA EndsKept ==
  ASSUME NEW k \in AnyToken, Ends(k), BrowserTypeOK,
         \A s \in SignIns : Begun(s) => auth_time'[s] = auth_time[s]
  PROVE  Ends(k)'
  BY TokenExpiry DEF Ends, Begun, End

\* No step of the browser signs a session in a second time.
LEMMA BegunKept ==
  ASSUME BrowserTypeOK, [BrowserNext]_browserVars
  PROVE  \A s \in SignIns : Begun(s) => auth_time'[s] = auth_time[s]
<1>1. CASE UNCHANGED auth_time  BY <1>1
<1>2. ASSUME NEW t \in Tabs, NEW s \in SignIns, SignIn(t, s)
      PROVE  \A r \in SignIns : Begun(r) => auth_time'[r] = auth_time[r]
  BY <1>2 DEF SignIn, Begun, BrowserTypeOK
<1>3. ASSUME NEW t \in Tabs, Timer(t) \/ Reply(t)  PROVE UNCHANGED auth_time
  BY <1>3 DEF Timer, Reply, WarnFires, EndFires, EndSession, Sync, DataAnswered, LogoutAnswered, ServeStay,
     StayAnswered, StayRefused, StayFailed, server
<1>4. ASSUME NEW t \in Tabs, Person(t), ~\E s \in SignIns : SignIn(t, s)  PROVE UNCHANGED auth_time
  BY <1>4 DEF Person, Navigate, CloseTab, WrongPassword, Ask, Stay, HandleLogout, SignOut, server
<1> QED BY <1>1, <1>2, <1>3, <1>4 DEF BrowserNext, Tick, browserVars, server

\* The tokens that are anywhere, and those a step can add: of a sign-in or an extension.
Kept == {token, NoToken} \cup {data[t] : t \in Tabs} \cup {leaving[t] : t \in Tabs}
          \cup {stay[t].token : t \in Tabs}
Signed(k) == {Replacement(k, looked, signed) : looked \in now .. now + 1, signed \in now .. now + 1}
New == {[session |-> s, exp |-> now + JWT_EXPIRY] : s \in {s \in SignIns : auth_time'[s] = now}}
         \cup UNION {Signed(k) : k \in {k \in Kept : Accepted(k) /\ now <= End(k.session)}}

\* No other token comes into being: the steps hand on what there is.
LEMMA StepsKeep ==
  ASSUME BrowserTypeOK, [BrowserNext]_browserVars
  PROVE  Kept' \subseteq Kept \cup New
<1>0. StoreTyped /\ TimersTyped /\ CallsTyped  BY BrowserTypes
<1>1. CASE UNCHANGED <<token, calls>>  BY <1>1 DEF Kept, calls
<1>2. ASSUME NEW t \in Tabs, Abort(t), token' \in Kept \cup New  PROVE Kept' \subseteq Kept \cup New
  <2>1. \A u \in Tabs : /\ data'[u] \in {data[u], NoToken} /\ leaving'[u] \in {leaving[u], NoToken}
                        /\ stay'[u].token \in {stay[u].token, NoToken}
    BY <1>0, <1>2 DEF Abort, CallsTyped, NoStay
  <2> QED BY <1>2, <2>1 DEF Kept
<1>3. ASSUME NEW t \in Tabs, NEW fate, Orphan(t, fate)
      PROVE  \A u \in Tabs : stay'[u].token = stay[u].token
  BY <1>0, <1>3 DEF Orphan, CallsTyped, Stays
<1>4. ASSUME NEW t \in Tabs, Refused(t)  PROVE Kept' \subseteq Kept \cup New
  BY <1>2, <1>4 DEF Refused, TakeAway, Store, Kept
<1>5. ASSUME NEW t \in Tabs, NEW fate, Leave(t, fate), UNCHANGED data  PROVE Kept' \subseteq Kept \cup New
  <2>1. \A u \in Tabs : leaving'[u] \in {leaving[u], token}  BY <1>0, <1>5 DEF Leave, CallsTyped
  <2>2. token' = NoToken  BY <1>5 DEF Leave, TakeAway, Store
  <2>3. \A u \in Tabs : stay'[u].token = stay[u].token  BY <1>3, <1>5 DEF Leave
  <2> QED BY <1>5, <2>1, <2>2, <2>3 DEF Kept
<1>6. ASSUME NEW t \in Tabs, Timer(t)  PROVE Kept' \subseteq Kept \cup New
  <2>1. CASE WarnFires(t) \/ Sync(t)  BY <1>1, <2>1 DEF WarnFires, Sync
  <2>2. CASE EndFires(t) /\ Changed(t)  BY <1>1, <2>2 DEF EndFires
  <2>3. CASE EndFires(t) /\ ~Changed(t)
    <3>1. token' = NoToken /\ UNCHANGED <<data, leaving>>
      BY <2>3 DEF EndFires, EndSession, TakeAway, Store
    <3>2. \A u \in Tabs : stay'[u].token = stay[u].token  BY <1>3, <2>3 DEF EndFires, EndSession
    <3> QED BY <3>1, <3>2 DEF Kept
  <2> QED BY <1>6, <2>1, <2>2, <2>3 DEF Timer
<1>7. ASSUME NEW t \in Tabs, Person(t)  PROVE Kept' \subseteq Kept \cup New
  <2>1. CASE Navigate(t)
    <3>1. \A u \in Tabs : stay'[u].token = stay[u].token  BY <1>3, <2>1 DEF Navigate
    <3> QED BY <2>1, <3>1 DEF Navigate, Kept
  <2>2. CASE CloseTab(t)       BY <1>2, <2>2 DEF CloseTab, Kept
  <2>3. CASE WrongPassword(t)  BY <1>4, <2>3 DEF WrongPassword
  <2>4. CASE HandleLogout(t) \/ SignOut(t)  BY <1>5, <2>4 DEF HandleLogout, SignOut
  <2>5. CASE Ask(t)
    <3>1. \A u \in Tabs : data'[u] \in {data[u], token}  BY <1>0, <2>5 DEF Ask, CallsTyped
    <3> QED BY <2>5, <3>1 DEF Ask, Kept
  <2>6. CASE Stay(t)
    <3>1. \A u \in Tabs : stay'[u].token \in {stay[u].token, token}  BY <1>0, <2>6 DEF Stay, CallsTyped
    <3> QED BY <2>6, <3>1 DEF Stay, Kept
  <2>7. ASSUME NEW s \in SignIns, SignIn(t, s)  PROVE Kept' \subseteq Kept \cup New
    <3>1. auth_time'[s] = now  BY <2>7 DEF SignIn, BrowserTypeOK
    <3>2. token' \in New  BY <2>7, <3>1 DEF SignIn, Store, New
    <3> QED BY <2>7, <3>2 DEF SignIn, calls, Kept
  <2> QED BY <1>7, <2>1, <2>2, <2>3, <2>4, <2>5, <2>6, <2>7 DEF Person
<1>8. ASSUME NEW t \in Tabs, Reply(t)  PROVE Kept' \subseteq Kept \cup New
  <2>1. CASE DataAnswered(t)
    <3>1. CASE Accepted(data[t])
      <4>1. \A u \in Tabs : data'[u] \in {data[u], NoToken}  BY <1>0, <2>1, <3>1 DEF DataAnswered, CallsTyped
      <4> QED BY <2>1, <3>1, <4>1 DEF DataAnswered, Kept
    <3> QED BY <1>4, <2>1, <3>1 DEF DataAnswered
  <2>2. CASE LogoutAnswered(t)
    <3>1. CASE Accepted(leaving[t])
      <4>1. \A u \in Tabs : leaving'[u] \in {leaving[u], NoToken}
        BY <1>0, <2>2, <3>1 DEF LogoutAnswered, CallsTyped
      <4> QED BY <2>2, <3>1, <4>1 DEF LogoutAnswered, Kept
    <3> QED BY <1>4, <2>2, <3>1 DEF LogoutAnswered
  <2>3. CASE ServeStay(t)
    <3> DEFINE k == stay[t].token
    <3>0. PICK verified \in now .. now + 1, looked \in now .. now + 1, signed \in now .. now + 1 :
            LET good == Accepted(k) /\ verified <= End(k.session)
            IN  stay' = [stay EXCEPT ![t].stage = IF good THEN "answered" ELSE "refused",
                                     ![t].token = IF good THEN Replacement(k, looked, signed) ELSE NoToken]
      BY <2>3 DEF ServeStay
    <3> DEFINE good == Accepted(k) /\ verified <= End(k.session)
    <3>1. \A u \in Tabs : u # t => stay'[u].token = stay[u].token
      BY <1>0, <2>3 DEF ServeStay, CallsTyped
    <3>2. CASE good
      <4>1. stay'[t].token = Replacement(k, looked, signed)  BY <1>0, <3>0, <3>2 DEF CallsTyped, Stays
      <4>2. now <= End(k.session)
        <5>1. now \in Nat /\ k.session \in SignIns
          BY <3>2, BrowserTypes, TokenExpiry DEF BrowserTypeOK, CallsTyped, Stays, Accepted, AnyToken, Token
        <5>2. End(k.session) \in Int  BY <5>1, SecondsAssumption DEF End, BrowserTypeOK, Never
        <5> QED BY <3>0, <3>2, <5>1, <5>2
      <4>3. Replacement(k, looked, signed) \in New  BY <3>0, <3>2, <4>2 DEF New, Signed, Kept
      <4>4. UNCHANGED <<token, data, leaving>>  BY <2>3 DEF ServeStay
      <4>5. \A u \in Tabs : stay'[u].token \in Kept \cup New  BY <3>1, <4>1, <4>3 DEF Kept
      <4> QED BY <4>4, <4>5 DEF Kept
    <3>3. CASE ~good
      <4>1. stay'[t].token = NoToken  BY <1>0, <3>0, <3>3 DEF CallsTyped, Stays
      <4> QED BY <2>3, <3>1, <4>1 DEF ServeStay, Kept
    <3> QED BY <3>2, <3>3
  <2>4. CASE StayAnswered(t)
    <3>1. \A u \in Tabs : stay'[u].token \in {stay[u].token, NoToken}
      BY <1>0, <2>4 DEF StayAnswered, CallsTyped, NoStay
    <3>2. token' \in {token, stay[t].token}  BY <2>4 DEF StayAnswered, Store
    <3> QED BY <2>4, <3>1, <3>2 DEF StayAnswered, Kept
  <2>5. CASE StayRefused(t)  BY <1>4, <2>5 DEF StayRefused
  <2>6. CASE StayFailed(t)
    <3>1. \A u \in Tabs : stay'[u].token \in {stay[u].token, NoToken}
      BY <1>0, <2>6 DEF StayFailed, CallsTyped, NoStay
    <3> QED BY <2>6, <3>1 DEF StayFailed, Kept
  <2> QED BY <1>8, <2>1, <2>2, <2>3, <2>4, <2>5, <2>6 DEF Reply
<1> QED BY <1>1, <1>6, <1>7, <1>8 DEF BrowserNext, Tick, browserVars

\* The same, of the tokens together instead of by the place they are in.
LEMMA KeptTyped == BrowserTypeOK => Kept \subseteq AnyToken
  BY BrowserTypes DEF Kept, StoreTyped, CallsTyped, Stays, AnyToken

\* What holds of each place holds of each token in one.
LEMMA TokensEndKept == TokensEnd <=> \A k \in Kept : Ends(k)
  BY DEF TokensEnd, Kept, Ends

\* At first there is no token ...
LEMMA TokensEndInit == BrowserInit => TokensEnd
  BY DEF BrowserInit, TokensEnd, Ends, NoStay

\* ... a sign-in signs one for JWT_EXPIRY, and a replacement ends with the session at the latest,
\* or two seconds after it where an accepted request has come within the session's last second.
LEMMA TokensEndStep == BrowserTypeOK /\ TokensEnd /\ [BrowserNext]_browserVars => TokensEnd'
<1> SUFFICES ASSUME BrowserTypeOK, TokensEnd, [BrowserNext]_browserVars, NEW k \in Kept' PROVE Ends(k)'
  BY DEF TokensEnd, Kept, Ends
<1>1. k \in Kept \cup New  BY StepsKeep
<1>2. CASE k \in Kept  BY <1>2, KeptTyped, TokensEndKept, BegunKept, EndsKept
<1>3. ASSUME NEW s \in SignIns, auth_time'[s] = now, k = [session |-> s, exp |-> now + JWT_EXPIRY]
      PROVE  Ends(k)'
  BY <1>3, SecondsAssumption DEF Ends, Begun, Never, BrowserTypeOK
<1>4. ASSUME NEW h \in Kept, Accepted(h), now <= End(h.session),
             NEW looked \in now .. now + 1, NEW signed \in now .. now + 1, k = Replacement(h, looked, signed)
      PROVE  Ends(k)'
  <2>1. h \in Token /\ Ends(h)  BY <1>4, KeptTyped, TokensEndKept DEF Accepted, AnyToken
  <2>2. h.session \in SignIns /\ Begun(h.session)  BY <1>4, <2>1 DEF Ends, Token, Accepted
  <2>3. auth_time'[h.session] = auth_time[h.session]  BY <2>2, BegunKept
  <2>4. k.session = h.session  BY <1>4, <2>1 DEF Replacement, Token
  <2>5. auth_time[h.session] \in Nat /\ now \in Nat  BY <2>2 DEF Begun, BrowserTypeOK
  <2>6. k.exp \in Int /\ k.exp <= End(h.session) + 2
    <3>1. k.exp = IF looked + JWT_EXPIRY <= End(h.session) THEN looked + JWT_EXPIRY
                  ELSE signed + (IF End(h.session) - looked >= 1 THEN End(h.session) - looked ELSE 1)
      BY <1>4, <2>1 DEF Replacement, Token
    <3>2. End(h.session) \in Nat  BY <2>5, SecondsAssumption DEF End
    <3>3. looked \in Nat /\ signed \in Nat /\ now <= looked /\ looked <= now + 1 /\ signed <= now + 1
      BY <2>5
    <3>4. JWT_EXPIRY \in Nat  BY SecondsAssumption
    <3> QED BY <1>4, <2>5, <3>1, <3>2, <3>3, <3>4
  <2> QED BY <2>2, <2>3, <2>4, <2>5, <2>6 DEF Ends, Begun, End
<1> QED BY <1>1, <1>2, <1>3, <1>4 DEF New, Signed

\* No extension, from any tab and in any order of replies, outlasts the session by more than the
\* second that the shortest token lasts.
THEOREM TokensEndWithTheSession == BrowserSpec => []TokensEnd
  BY TokensEndInit, TokensEndStep, BrowserTyped, PTL DEF BrowserSpec
=============================================================================
