--------------------------- MODULE EvalRunsProofs ---------------------------
(***************************************************************************)
(* The properties of EvalRuns for every set of starts and marks and every  *)
(* interval.  A start counts and inserts under the lock, so nothing is     *)
(* inserted in between; the rows it gives up are locked while they are     *)
(* running; and the unique index lets one mark at a time past it.          *)
(***************************************************************************)
EXTENDS EvalRuns, TLAPS

Before == {"idle", "queued", "locked", "marked", "counted", "refused", "error"}

\* A start that has counted is the only one that can insert.
UnderLock ==
  \A r \in Starts :
    /\ pc[r] \in {"locked", "marked", "counted"} => lock = r
    /\ pc[r] = "counted" => \A q \in Starts : ~Recent(q, r)

\* A row is there from the commit on, and one locked by a start is running.
RowsOf ==
  \A r \in Starts :
    /\ pc[r] \in Before <=> status[r] = "none"
    /\ held[r] \in Starts => status[r] = "running"

\* What a mark has found is an evaluation run.
Marked ==
  \A m \in Marks :
    pc[m] \in {"found", "releasing", "released", "set", "committed"} =>
      target[m] \in Starts /\ kind[target[m]] = "eval"

\* One mark at a time is past the index, and it has released every other baseline.
PastIndex ==
  /\ \A m \in Marks : pc[m] = "set" => baseline \subseteq released[m] \cup {target[m]}
  /\ \A m, n \in Marks : pc[m] = "set" /\ pc[n] = "set" => m = n
  /\ \A q, r \in baseline : q = r

IInv == TypeOK /\ UnderLock /\ RowsOf /\ Marked /\ PastIndex /\ OncePerHour
-----------------------------------------------------------------------------
(* Each part is kept by every step *)

\* Types; CommitMark puts an evaluation run in place.
LEMMA TypesKept ==
  ASSUME TypeOK, Marked, [Next]_vars
  PROVE  TypeOK'
<1>1. CASE Tick
  BY <1>1, MinutesAssumption DEF Tick, rows, locals, TypeOK, StartStage, MarkStage, Kinds, Marked, Stale
<1>2. ASSUME NEW r \in Starts, BeginStart(r) PROVE TypeOK'
  BY <1>2, RequestsAssumption, MinutesAssumption DEF BeginStart, Goto, rows, locals, TypeOK, StartStage, MarkStage, Kinds, Marked, Stale
<1>3. ASSUME NEW r \in Starts, TakeLock(r) PROVE TypeOK'
  BY <1>3, RequestsAssumption, MinutesAssumption DEF TakeLock, Goto, rows, locals, TypeOK, StartStage, MarkStage, Kinds, Marked, Stale
<1>4. ASSUME NEW r \in Starts, FailStale(r) PROVE TypeOK'
  BY <1>4, RequestsAssumption, MinutesAssumption DEF FailStale, Goto, Hold, rows, locals, TypeOK, StartStage, MarkStage, Kinds, Marked, Stale
<1>5. ASSUME NEW r \in Starts, CountRuns(r) PROVE TypeOK'
  BY <1>5, RequestsAssumption, MinutesAssumption DEF CountRuns, Goto, Rollback, Free, rows, locals, TypeOK, StartStage, MarkStage, Kinds, Marked, Stale
<1>6. ASSUME NEW r \in Starts, CommitStart(r) PROVE TypeOK'
  BY <1>6, RequestsAssumption, MinutesAssumption DEF CommitStart, Goto, Free, HeldBy, rows, locals, TypeOK, StartStage, MarkStage, Kinds, Marked, Stale
<1>7. ASSUME NEW r \in Starts, LogStart(r) PROVE TypeOK'
  BY <1>7, RequestsAssumption, MinutesAssumption DEF LogStart, Goto, rows, locals, TypeOK, StartStage, MarkStage, Kinds, Marked, Stale
<1>8. ASSUME NEW r \in Starts, Fail(r) PROVE TypeOK'
  BY <1>8, RequestsAssumption, MinutesAssumption DEF Fail, Goto, Rollback, Free, rows, locals, TypeOK, StartStage, MarkStage, Kinds, Marked, Stale
<1>9. ASSUME NEW r \in Starts, StoreRun(r) PROVE TypeOK'
  BY <1>9, RequestsAssumption, MinutesAssumption DEF StoreRun, Goto, WriteStatus, rows, locals, TypeOK, StartStage, MarkStage, Kinds, Marked, Stale
<1>10. ASSUME NEW r \in Starts, LogFinish(r) PROVE TypeOK'
  BY <1>10, RequestsAssumption, MinutesAssumption DEF LogFinish, Goto, rows, locals, TypeOK, StartStage, MarkStage, Kinds, Marked, Stale
<1>11. ASSUME NEW r \in Starts, RunError(r) PROVE TypeOK'
  BY <1>11, RequestsAssumption, MinutesAssumption DEF RunError, Goto, rows, locals, TypeOK, StartStage, MarkStage, Kinds, Marked, Stale
<1>12. ASSUME NEW r \in Starts, MarkFailed(r) PROVE TypeOK'
  BY <1>12, RequestsAssumption, MinutesAssumption DEF MarkFailed, Goto, WriteStatus, rows, locals, TypeOK, StartStage, MarkStage, Kinds, Marked, Stale
<1>13. ASSUME NEW r \in Starts, Abandon(r) PROVE TypeOK'
  BY <1>13, RequestsAssumption, MinutesAssumption DEF Abandon, Goto, rows, locals, TypeOK, StartStage, MarkStage, Kinds, Marked, Stale
<1>14. ASSUME NEW m \in Marks, NEW r \in Starts, FindRun(m, r) PROVE TypeOK'
  BY <1>14, RequestsAssumption, MinutesAssumption DEF FindRun, Goto, Hold, rows, locals, TypeOK, StartStage, MarkStage, Kinds, Marked, Stale
<1>15. ASSUME NEW m \in Marks, FindBaseline(m) PROVE TypeOK'
  BY <1>15, RequestsAssumption, MinutesAssumption DEF FindBaseline, Goto, rows, locals, TypeOK, StartStage, MarkStage, Kinds, Marked, Stale
<1>16. ASSUME NEW m \in Marks, ReleaseBaseline(m) PROVE TypeOK'
  BY <1>16, RequestsAssumption, MinutesAssumption DEF ReleaseBaseline, Goto, Hold, rows, locals, TypeOK, StartStage, MarkStage, Kinds, Marked, Stale
<1>17. ASSUME NEW m \in Marks, SetBaseline(m) PROVE TypeOK'
  BY <1>17, RequestsAssumption, MinutesAssumption DEF SetBaseline, Goto, Rollback, Free, rows, locals, TypeOK, StartStage, MarkStage, Kinds, Marked, Stale
<1>18. ASSUME NEW m \in Marks, CommitMark(m) PROVE TypeOK'
  BY <1>18, RequestsAssumption, MinutesAssumption DEF CommitMark, Goto, Free, rows, locals, TypeOK, StartStage, MarkStage, Kinds, Marked, Stale
<1>19. ASSUME NEW m \in Marks, LogMark(m) PROVE TypeOK'
  BY <1>19, RequestsAssumption, MinutesAssumption DEF LogMark, Goto, rows, locals, TypeOK, StartStage, MarkStage, Kinds, Marked, Stale
<1>20. ASSUME NEW m \in Marks, FailMark(m) PROVE TypeOK'
  BY <1>20, RequestsAssumption, MinutesAssumption DEF FailMark, Goto, Rollback, Free, rows, locals, TypeOK, StartStage, MarkStage, Kinds, Marked, Stale
<1>21. CASE UNCHANGED vars
  BY <1>21 DEF vars, rows, locals, TypeOK, StartStage, MarkStage, Kinds, Marked, Stale
<1> QED
  BY <1>1, <1>2, <1>3, <1>4, <1>5, <1>6, <1>7, <1>8, <1>9, <1>10, <1>11, <1>12, <1>13, <1>14, <1>15, <1>16, <1>17, <1>18, <1>19, <1>20, <1>21
     DEF Next, StartRun, FinishRun, MarkBaseline

\* The lock keeps starts apart.
LEMMA LockKept ==
  ASSUME TypeOK, UnderLock, RowsOf, [Next]_vars
  PROVE  UnderLock'
<1>1. CASE Tick
  BY <1>1, MinutesAssumption DEF Tick, rows, locals, TypeOK, StartStage, MarkStage, UnderLock, Recent, Exists
<1>2. ASSUME NEW r \in Starts, BeginStart(r) PROVE UnderLock'
  BY <1>2, RequestsAssumption, MinutesAssumption DEF BeginStart, Goto, rows, locals, TypeOK, StartStage, MarkStage, UnderLock, Recent, Exists
<1>3. ASSUME NEW r \in Starts, TakeLock(r) PROVE UnderLock'
  BY <1>3, RequestsAssumption, MinutesAssumption DEF TakeLock, Goto, rows, locals, TypeOK, StartStage, MarkStage, UnderLock, Recent, Exists
<1>4. ASSUME NEW r \in Starts, FailStale(r) PROVE UnderLock'
  BY <1>4, RequestsAssumption, MinutesAssumption DEF FailStale, Goto, Hold, Stale, rows, locals, TypeOK, StartStage, MarkStage, UnderLock, Recent, Exists
<1>5. ASSUME NEW r \in Starts, CountRuns(r) PROVE UnderLock'
  BY <1>5, RequestsAssumption, MinutesAssumption DEF CountRuns, Goto, Rollback, Free, rows, locals, TypeOK, StartStage, MarkStage, UnderLock, Recent, Exists
<1>6. ASSUME NEW r \in Starts, CommitStart(r) PROVE UnderLock'
  BY <1>6, RequestsAssumption, MinutesAssumption DEF CommitStart, Goto, Free, HeldBy, rows, locals, TypeOK, StartStage, MarkStage, UnderLock, Recent, Exists, RowsOf, Before
<1>7. ASSUME NEW r \in Starts, LogStart(r) PROVE UnderLock'
  BY <1>7, RequestsAssumption, MinutesAssumption DEF LogStart, Goto, rows, locals, TypeOK, StartStage, MarkStage, UnderLock, Recent, Exists
<1>8. ASSUME NEW r \in Starts, Fail(r) PROVE UnderLock'
  BY <1>8, RequestsAssumption, MinutesAssumption DEF Fail, Goto, Rollback, Free, rows, locals, TypeOK, StartStage, MarkStage, UnderLock, Recent, Exists
<1>9. ASSUME NEW r \in Starts, StoreRun(r) PROVE UnderLock'
  BY <1>9, RequestsAssumption, MinutesAssumption DEF StoreRun, Goto, WriteStatus, rows, locals, TypeOK, StartStage, MarkStage, UnderLock, Recent, Exists, RowsOf, Before
<1>10. ASSUME NEW r \in Starts, LogFinish(r) PROVE UnderLock'
  BY <1>10, RequestsAssumption, MinutesAssumption DEF LogFinish, Goto, rows, locals, TypeOK, StartStage, MarkStage, UnderLock, Recent, Exists
<1>11. ASSUME NEW r \in Starts, RunError(r) PROVE UnderLock'
  BY <1>11, RequestsAssumption, MinutesAssumption DEF RunError, Goto, rows, locals, TypeOK, StartStage, MarkStage, UnderLock, Recent, Exists
<1>12. ASSUME NEW r \in Starts, MarkFailed(r) PROVE UnderLock'
  BY <1>12, RequestsAssumption, MinutesAssumption DEF MarkFailed, Goto, WriteStatus, rows, locals, TypeOK, StartStage, MarkStage, UnderLock, Recent, Exists, RowsOf, Before
<1>13. ASSUME NEW r \in Starts, Abandon(r) PROVE UnderLock'
  BY <1>13, RequestsAssumption, MinutesAssumption DEF Abandon, Goto, rows, locals, TypeOK, StartStage, MarkStage, UnderLock, Recent, Exists
<1>14. ASSUME NEW m \in Marks, NEW r \in Starts, FindRun(m, r) PROVE UnderLock'
  BY <1>14, RequestsAssumption, MinutesAssumption DEF FindRun, Goto, Hold, rows, locals, TypeOK, StartStage, MarkStage, UnderLock, Recent, Exists
<1>15. ASSUME NEW m \in Marks, FindBaseline(m) PROVE UnderLock'
  BY <1>15, RequestsAssumption, MinutesAssumption DEF FindBaseline, Goto, rows, locals, TypeOK, StartStage, MarkStage, UnderLock, Recent, Exists
<1>16. ASSUME NEW m \in Marks, ReleaseBaseline(m) PROVE UnderLock'
  BY <1>16, RequestsAssumption, MinutesAssumption DEF ReleaseBaseline, Goto, Hold, rows, locals, TypeOK, StartStage, MarkStage, UnderLock, Recent, Exists
<1>17. ASSUME NEW m \in Marks, SetBaseline(m) PROVE UnderLock'
  BY <1>17, RequestsAssumption, MinutesAssumption DEF SetBaseline, Goto, Rollback, Free, rows, locals, TypeOK, StartStage, MarkStage, UnderLock, Recent, Exists
<1>18. ASSUME NEW m \in Marks, CommitMark(m) PROVE UnderLock'
  BY <1>18, RequestsAssumption, MinutesAssumption DEF CommitMark, Goto, Free, rows, locals, TypeOK, StartStage, MarkStage, UnderLock, Recent, Exists
<1>19. ASSUME NEW m \in Marks, LogMark(m) PROVE UnderLock'
  BY <1>19, RequestsAssumption, MinutesAssumption DEF LogMark, Goto, rows, locals, TypeOK, StartStage, MarkStage, UnderLock, Recent, Exists
<1>20. ASSUME NEW m \in Marks, FailMark(m) PROVE UnderLock'
  BY <1>20, RequestsAssumption, MinutesAssumption DEF FailMark, Goto, Rollback, Free, rows, locals, TypeOK, StartStage, MarkStage, UnderLock, Recent, Exists
<1>21. CASE UNCHANGED vars
  BY <1>21 DEF vars, rows, locals, TypeOK, StartStage, MarkStage, UnderLock, Recent, Exists
<1> QED
  BY <1>1, <1>2, <1>3, <1>4, <1>5, <1>6, <1>7, <1>8, <1>9, <1>10, <1>11, <1>12, <1>13, <1>14, <1>15, <1>16, <1>17, <1>18, <1>19, <1>20, <1>21
     DEF Next, StartRun, FinishRun, MarkBaseline

\* Rows change as their runs and the locks on them do.
LEMMA RowsKept ==
  ASSUME TypeOK, RowsOf, [Next]_vars
  PROVE  RowsOf'
<1>1. CASE Tick
  BY <1>1, MinutesAssumption DEF Tick, rows, locals, TypeOK, StartStage, MarkStage, RowsOf, Before
<1>2. ASSUME NEW r \in Starts, BeginStart(r) PROVE RowsOf'
  BY <1>2, RequestsAssumption, MinutesAssumption DEF BeginStart, Goto, rows, locals, TypeOK, StartStage, MarkStage, RowsOf, Before
<1>3. ASSUME NEW r \in Starts, TakeLock(r) PROVE RowsOf'
  BY <1>3, RequestsAssumption, MinutesAssumption DEF TakeLock, Goto, rows, locals, TypeOK, StartStage, MarkStage, RowsOf, Before
<1>4. ASSUME NEW r \in Starts, FailStale(r) PROVE RowsOf'
  BY <1>4, RequestsAssumption, MinutesAssumption DEF FailStale, Goto, Hold, Stale, rows, locals, TypeOK, StartStage, MarkStage, RowsOf, Before
<1>5. ASSUME NEW r \in Starts, CountRuns(r) PROVE RowsOf'
  BY <1>5, RequestsAssumption, MinutesAssumption DEF CountRuns, Goto, Rollback, Free, rows, locals, TypeOK, StartStage, MarkStage, RowsOf, Before
<1>6. ASSUME NEW r \in Starts, CommitStart(r) PROVE RowsOf'
  BY <1>6, RequestsAssumption, MinutesAssumption DEF CommitStart, Goto, Free, HeldBy, rows, locals, TypeOK, StartStage, MarkStage, RowsOf, Before
<1>7. ASSUME NEW r \in Starts, LogStart(r) PROVE RowsOf'
  BY <1>7, RequestsAssumption, MinutesAssumption DEF LogStart, Goto, rows, locals, TypeOK, StartStage, MarkStage, RowsOf, Before
<1>8. ASSUME NEW r \in Starts, Fail(r) PROVE RowsOf'
  BY <1>8, RequestsAssumption, MinutesAssumption DEF Fail, Goto, Rollback, Free, rows, locals, TypeOK, StartStage, MarkStage, RowsOf, Before
<1>9. ASSUME NEW r \in Starts, StoreRun(r) PROVE RowsOf'
  BY <1>9, RequestsAssumption, MinutesAssumption DEF StoreRun, Goto, WriteStatus, rows, locals, TypeOK, StartStage, MarkStage, RowsOf, Before
<1>10. ASSUME NEW r \in Starts, LogFinish(r) PROVE RowsOf'
  BY <1>10, RequestsAssumption, MinutesAssumption DEF LogFinish, Goto, rows, locals, TypeOK, StartStage, MarkStage, RowsOf, Before
<1>11. ASSUME NEW r \in Starts, RunError(r) PROVE RowsOf'
  BY <1>11, RequestsAssumption, MinutesAssumption DEF RunError, Goto, rows, locals, TypeOK, StartStage, MarkStage, RowsOf, Before
<1>12. ASSUME NEW r \in Starts, MarkFailed(r) PROVE RowsOf'
  BY <1>12, RequestsAssumption, MinutesAssumption DEF MarkFailed, Goto, WriteStatus, rows, locals, TypeOK, StartStage, MarkStage, RowsOf, Before
<1>13. ASSUME NEW r \in Starts, Abandon(r) PROVE RowsOf'
  BY <1>13, RequestsAssumption, MinutesAssumption DEF Abandon, Goto, rows, locals, TypeOK, StartStage, MarkStage, RowsOf, Before
<1>14. ASSUME NEW m \in Marks, NEW r \in Starts, FindRun(m, r) PROVE RowsOf'
  BY <1>14, RequestsAssumption, MinutesAssumption DEF FindRun, Goto, Hold, rows, locals, TypeOK, StartStage, MarkStage, RowsOf, Before
<1>15. ASSUME NEW m \in Marks, FindBaseline(m) PROVE RowsOf'
  BY <1>15, RequestsAssumption, MinutesAssumption DEF FindBaseline, Goto, rows, locals, TypeOK, StartStage, MarkStage, RowsOf, Before
<1>16. ASSUME NEW m \in Marks, ReleaseBaseline(m) PROVE RowsOf'
  BY <1>16, RequestsAssumption, MinutesAssumption DEF ReleaseBaseline, Goto, Hold, rows, locals, TypeOK, StartStage, MarkStage, RowsOf, Before
<1>17. ASSUME NEW m \in Marks, SetBaseline(m) PROVE RowsOf'
  BY <1>17, RequestsAssumption, MinutesAssumption DEF SetBaseline, Goto, Rollback, Free, rows, locals, TypeOK, StartStage, MarkStage, RowsOf, Before
<1>18. ASSUME NEW m \in Marks, CommitMark(m) PROVE RowsOf'
  BY <1>18, RequestsAssumption, MinutesAssumption DEF CommitMark, Goto, Free, rows, locals, TypeOK, StartStage, MarkStage, RowsOf, Before
<1>19. ASSUME NEW m \in Marks, LogMark(m) PROVE RowsOf'
  BY <1>19, RequestsAssumption, MinutesAssumption DEF LogMark, Goto, rows, locals, TypeOK, StartStage, MarkStage, RowsOf, Before
<1>20. ASSUME NEW m \in Marks, FailMark(m) PROVE RowsOf'
  BY <1>20, RequestsAssumption, MinutesAssumption DEF FailMark, Goto, Rollback, Free, rows, locals, TypeOK, StartStage, MarkStage, RowsOf, Before
<1>21. CASE UNCHANGED vars
  BY <1>21 DEF vars, rows, locals, TypeOK, StartStage, MarkStage, RowsOf, Before
<1> QED
  BY <1>1, <1>2, <1>3, <1>4, <1>5, <1>6, <1>7, <1>8, <1>9, <1>10, <1>11, <1>12, <1>13, <1>14, <1>15, <1>16, <1>17, <1>18, <1>19, <1>20, <1>21
     DEF Next, StartRun, FinishRun, MarkBaseline

\* The target of a mark stays what it was.
LEMMA MarkedKept ==
  ASSUME TypeOK, Marked, [Next]_vars
  PROVE  Marked'
<1>1. ASSUME NEW m \in Marks, NEW r \in Starts, FindRun(m, r) PROVE Marked'
  BY <1>1, RequestsAssumption DEF FindRun, Goto, Hold, rows, locals, TypeOK, StartStage, MarkStage, Marked
<1>2. ASSUME NEW m \in Marks, FindBaseline(m) PROVE Marked'
  BY <1>2, RequestsAssumption DEF FindBaseline, Goto, rows, locals, TypeOK, StartStage, MarkStage, Marked
<1>3. ASSUME NEW m \in Marks, ReleaseBaseline(m) PROVE Marked'
  BY <1>3, RequestsAssumption DEF ReleaseBaseline, Goto, Hold, rows, locals, TypeOK, StartStage, MarkStage, Marked
<1>4. ASSUME NEW m \in Marks, SetBaseline(m) PROVE Marked'
  BY <1>4, RequestsAssumption DEF SetBaseline, Goto, Rollback, Free, rows, locals, TypeOK, StartStage, MarkStage, Marked
<1>5. ASSUME NEW m \in Marks, CommitMark(m) PROVE Marked'
  BY <1>5, RequestsAssumption DEF CommitMark, Goto, Free, rows, locals, TypeOK, StartStage, MarkStage, Marked
<1>6. ASSUME NEW m \in Marks, LogMark(m) PROVE Marked'
  BY <1>6, RequestsAssumption DEF LogMark, Goto, rows, locals, TypeOK, StartStage, MarkStage, Marked
<1>7. ASSUME NEW m \in Marks, FailMark(m) PROVE Marked'
  BY <1>7, RequestsAssumption DEF FailMark, Goto, Rollback, Free, rows, locals, TypeOK, StartStage, MarkStage, Marked
<1>8. CASE UNCHANGED <<kind, target>> /\ \A m \in Marks : pc'[m] = pc[m]
  BY <1>8 DEF Marked
<1>9. ASSUME NEW r \in Starts, StartRun(r) \/ FinishRun(r)
      PROVE  UNCHANGED <<kind, target>> /\ \A m \in Marks : pc'[m] = pc[m]
  BY <1>9, RequestsAssumption
     DEF StartRun, FinishRun, TypeOK, Goto, Rollback, rows, locals, WriteStatus,
         BeginStart, TakeLock, FailStale, CountRuns, CommitStart, LogStart, Fail,
         StoreRun, LogFinish, RunError, MarkFailed, Abandon
<1> QED
  BY <1>1, <1>2, <1>3, <1>4, <1>5, <1>6, <1>7, <1>8, <1>9 DEF Next, MarkBaseline, Tick, vars, rows, locals

\* The index lets one baseline in.
LEMMA IndexKept ==
  ASSUME TypeOK, PastIndex, [Next]_vars
  PROVE  PastIndex'
<1>1. ASSUME NEW m \in Marks, NEW r \in Starts, FindRun(m, r) PROVE PastIndex'
  BY <1>1, RequestsAssumption DEF FindRun, Goto, Hold, rows, locals, TypeOK, StartStage, MarkStage, PastIndex
<1>2. ASSUME NEW m \in Marks, FindBaseline(m) PROVE PastIndex'
  BY <1>2, RequestsAssumption DEF FindBaseline, Goto, rows, locals, TypeOK, StartStage, MarkStage, PastIndex
<1>3. ASSUME NEW m \in Marks, ReleaseBaseline(m) PROVE PastIndex'
  BY <1>3, RequestsAssumption DEF ReleaseBaseline, Goto, Hold, rows, locals, TypeOK, StartStage, MarkStage, PastIndex
<1>4. ASSUME NEW m \in Marks, SetBaseline(m) PROVE PastIndex'
  BY <1>4, RequestsAssumption DEF SetBaseline, Goto, Rollback, Free, rows, locals, TypeOK, StartStage, MarkStage, PastIndex
<1>5. ASSUME NEW m \in Marks, CommitMark(m) PROVE PastIndex'
  BY <1>5, RequestsAssumption DEF CommitMark, Goto, Free, rows, locals, TypeOK, StartStage, MarkStage, PastIndex
<1>6. ASSUME NEW m \in Marks, LogMark(m) PROVE PastIndex'
  BY <1>6, RequestsAssumption DEF LogMark, Goto, rows, locals, TypeOK, StartStage, MarkStage, PastIndex
<1>7. ASSUME NEW m \in Marks, FailMark(m) PROVE PastIndex'
  BY <1>7, RequestsAssumption DEF FailMark, Goto, Rollback, Free, rows, locals, TypeOK, StartStage, MarkStage, PastIndex
<1>8. CASE UNCHANGED <<baseline, released, target>> /\ \A m \in Marks : pc'[m] = pc[m]
  BY <1>8 DEF PastIndex
<1>9. ASSUME NEW r \in Starts, StartRun(r) \/ FinishRun(r)
      PROVE  UNCHANGED <<baseline, released, target>> /\ \A m \in Marks : pc'[m] = pc[m]
  BY <1>9, RequestsAssumption
     DEF StartRun, FinishRun, TypeOK, Goto, Rollback, rows, locals, WriteStatus,
         BeginStart, TakeLock, FailStale, CountRuns, CommitStart, LogStart, Fail,
         StoreRun, LogFinish, RunError, MarkFailed, Abandon
<1> QED
  BY <1>1, <1>2, <1>3, <1>4, <1>5, <1>6, <1>7, <1>8, <1>9 DEF Next, MarkBaseline, Tick, vars, rows, locals

\* A run is inserted an hour after the others of its kind.
LEMMA HourKept ==
  ASSUME TypeOK, UnderLock, RowsOf, OncePerHour, [Next]_vars
  PROVE  OncePerHour'
<1>1. ASSUME NEW r \in Starts, CommitStart(r)
      PROVE  OncePerHour'
  <2>1. /\ status[r] = "none" /\ status'[r] = "running" /\ created'[r] = began[r] /\ kind' = kind
        /\ \A q \in Starts \ {r} : created'[q] = created[q] /\ (Exists(q)' <=> Exists(q))
    BY <1>1 DEF CommitStart, HeldBy, Exists, locals, TypeOK, RowsOf, Before
  <2>2. \A q \in Starts \ {r} : Exists(q) /\ kind[q] = kind[r] =>
          began[r] >= created[q] + RUN_INTERVAL_MINUTES
    BY <1>1, MinutesAssumption DEF CommitStart, UnderLock, Recent, TypeOK
  <2> QED
    BY <2>1, <2>2 DEF OncePerHour
<1>2. ASSUME NEW r \in Starts, StoreRun(r) \/ MarkFailed(r)
      PROVE  OncePerHour'
  <2>1. /\ created' = created /\ kind' = kind
        /\ \A q \in Starts : Exists(q)' <=> Exists(q)
    BY <1>2 DEF StoreRun, MarkFailed, WriteStatus, Exists, rows, locals, TypeOK, RowsOf, Before
  <2> QED
    BY <2>1 DEF OncePerHour
<1>3. CASE UNCHANGED <<status, created, kind>>
  BY <1>3 DEF OncePerHour, Exists
<1> QED
  BY <1>1, <1>2, <1>3
     DEF Next, vars, rows, locals, StartRun, FinishRun, MarkBaseline, Tick, BeginStart, TakeLock, FailStale,
         CountRuns, LogStart, Fail, LogFinish, RunError, Abandon,
         FindRun, FindBaseline, ReleaseBaseline, SetBaseline, CommitMark, LogMark, FailMark

\* The invariant holds at first.
LEMMA IInvInit == Init => IInv
BY RequestsAssumption, MinutesAssumption
   DEF Init, IInv, TypeOK, StartStage, MarkStage, Kinds, UnderLock, RowsOf, Before, Marked, PastIndex, OncePerHour, Exists

\* Every step keeps the invariant.
LEMMA IInvStep == IInv /\ [Next]_vars => IInv'
BY TypesKept, LockKept, RowsKept, MarkedKept, IndexKept, HourKept DEF IInv
-----------------------------------------------------------------------------
(* The theorems *)

\* Starts are kept apart by the lock and marks by the index.
THEOREM KeptApart == Spec => []IInv
BY IInvInit, IInvStep, PTL DEF Spec

\* Every variable keeps its type, and only evaluation runs are baselines.
THEOREM RunTypes == Spec => []TypeOK
<1>1. IInv => TypeOK
  BY DEF IInv
<1> QED
  BY <1>1, KeptApart, PTL

\* At most one run of a kind in any hour (startRun).
THEOREM HourlyLimit == Spec => []OncePerHour
<1>1. IInv => OncePerHour
  BY DEF IInv
<1> QED
  BY <1>1, KeptApart, PTL

\* One baseline at most, and one for ever once there is one (markBaseline).
THEOREM BaselineKept == Spec => OneBaseline
<1>1. IInv => \A q, r \in baseline : q = r
  BY DEF IInv, PastIndex
<1>2. IInv /\ [Next]_vars => [baseline # {} => baseline' # {}]_baseline
  <2> SUFFICES ASSUME IInv, [Next]_vars, baseline # {}, baseline' # baseline PROVE baseline' # {}
    OBVIOUS
  <2>1. \E m \in Marks : CommitMark(m)
    BY DEF Next, vars, rows, StartRun, FinishRun, MarkBaseline, Tick, BeginStart, TakeLock, FailStale, CountRuns,
           CommitStart, LogStart, Fail, StoreRun, LogFinish, RunError, MarkFailed, Abandon, WriteStatus,
           FindRun, FindBaseline, ReleaseBaseline, SetBaseline, LogMark, FailMark
  <2> QED
    BY <2>1 DEF CommitMark
<1> QED
  BY <1>1, <1>2, KeptApart, PTL DEF Spec, OneBaseline

\* No start overwrites a run that has stored its results (startRun, finishRun).
THEOREM ResultsStay == Spec => CompletedStays
<1>1. IInv /\ [Next]_vars =>
        [\A r \in Starts : status[r] = "completed" /\ status'[r] # "completed" => pc[r] = "failing"]_status
  <2> SUFFICES ASSUME IInv, [Next]_vars, status' # status, NEW q \in Starts,
                      status[q] = "completed", status'[q] # "completed"
               PROVE  pc[q] = "failing"
    OBVIOUS
  <2>1. \E r \in Starts : CommitStart(r) \/ StoreRun(r) \/ MarkFailed(r)
    BY DEF Next, vars, rows, StartRun, FinishRun, MarkBaseline, Tick, BeginStart, TakeLock, FailStale, CountRuns,
           LogStart, Fail, LogFinish, RunError, Abandon,
           FindRun, FindBaseline, ReleaseBaseline, SetBaseline, CommitMark, LogMark, FailMark
  <2> QED
    BY <2>1 DEF rows, CommitStart, StoreRun, MarkFailed, WriteStatus, HeldBy, IInv, TypeOK, RowsOf, Before
<1> QED
  BY <1>1, KeptApart, PTL DEF Spec, CompletedStays
=============================================================================
