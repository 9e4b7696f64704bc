-------------------------- MODULE ExecLeaseProofs --------------------------
(***************************************************************************)
(* Proofs about ExecLease, for any set of tokens, any timeouts and any     *)
(* number of writes:                                                       *)
(*   - its types;                                                          *)
(*   - that a fenced write which lands is one of the latest acquisition,   *)
(*     whether or not `flock -s` converts the lock in place;               *)
(*   - with an in-place conversion, that there is one holder, that no      *)
(*     handoff overtakes a checked write, and that the whole protocol      *)
(*     implements FencedLease.                                             *)
(***************************************************************************)
EXTENDS ExecLease, TLAPS

-----------------------------------------------------------------------------
(* Types.                                                                  *)

\* Every step keeps every variable's type.
LEMMA TypeStep == TypeOK /\ [Next]_vars => TypeOK'
<1> SUFFICES ASSUME TypeOK, [Next]_vars PROVE TypeOK'
  OBVIOUS
<1> USE LeaseAssumption
<1>1. CASE Tick
  BY <1>1 DEF Tick, TypeOK
<1>2. ASSUME NEW t \in Token,
             StartUnit(t) \/ HeldScript(t) \/ KillUnit(t)
      PROVE  TypeOK'
  BY <1>2 DEF StartUnit, HeldScript, TryLock, Downgrade, FinishDowngrade,
              PublishOwner, SelfCheck, Expire, KillUnit,
              TypeOK, UnitState, ClientState
<1>3. ASSUME NEW t \in Token,
             \/ PollHeld(t) \/ PollRefused(t)
             \/ SendBeat(t) \/ AssertOwnership(t) \/ BeatError(t)
      PROVE  TypeOK'
  <2>1. CASE PollHeld(t) \/ PollRefused(t)
    BY <2>1 DEF PollHeld, PollRefused, TypeOK, ClientState
  <2>2. CASE SendBeat(t) \/ BeatError(t)
    BY <2>2 DEF SendBeat, BeatError, TypeOK, ClientState, BeatState
  <2>3. CASE VerifyBeat(t)
    BY <2>3 DEF VerifyBeat, TypeOK, ClientState, BeatState
  <2>4. CASE TouchOwner(t)
    BY <2>4 DEF TouchOwner, TypeOK, BeatState
  <2> QED
    BY <1>3, <2>1, <2>2, <2>3, <2>4 DEF AssertOwnership
<1>4. ASSUME NEW t \in Token,
             SendWrite(t) \/ FencedWrite(t) \/ AbortWrite(t)
      PROVE  TypeOK'
  BY <1>4 DEF SendWrite, FencedWrite, GrantShared, CheckFence, LandWrite,
              AbortWrite, TypeOK, WriteState
<1>5. ASSUME NEW t \in Token,
             \/ Release(t) \/ ClearOwner(t) \/ StopUnit(t)
             \/ Vanish(t) \/ Stall(t)
      PROVE  TypeOK'
  BY <1>5 DEF Release, ClearOwner, StopUnit, Vanish, Stall,
              TypeOK, ClientState, UnitState
<1>6. CASE UNCHANGED vars
  BY <1>6 DEF vars, TypeOK
<1> QED
  BY <1>1, <1>2, <1>3, <1>4, <1>5, <1>6 DEF Next

\* Every variable of the lease protocol keeps its type.
THEOREM TypeCorrect == Spec => []TypeOK
<1>1. Init => TypeOK
  BY LeaseAssumption DEF Init, TypeOK, UnitState, ClientState, BeatState, WriteState
<1> QED
  BY <1>1, TypeStep, PTL DEF Spec

-----------------------------------------------------------------------------
(* Fencing.                                                                *)

\* The record never outlives the acquisition that was published last, and a
\* write past its fence check belongs to that acquisition.
FenceInv ==
  /\ owner # None => owner = latest
  /\ \A t \in Token : write[t] = "checked" => latest = t

\* leaseFencingScript(): FenceInv holds, and with it every write that mutates the
\* target carries the most recent token, with or without an atomic downgrade.
THEOREM LatestWriterOnlyHolds == Spec => LatestWriterOnly
<1>1. Init => FenceInv
  BY DEF Init, FenceInv
<1>2. TypeOK /\ FenceInv /\ [Next]_vars => FenceInv'
  <2> SUFFICES ASSUME TypeOK, FenceInv, [Next]_vars PROVE FenceInv'
    OBVIOUS
  <2> USE LeaseAssumption DEF TypeOK, FenceInv
  <2>1. CASE Tick
    BY <2>1 DEF Tick
  <2>2. ASSUME NEW t \in Token, PublishOwner(t) PROVE FenceInv'
    BY <2>2 DEF PublishOwner, GuardFree, GuardHeldBy
  <2>3. ASSUME NEW t \in Token, CheckFence(t) PROVE FenceInv'
    BY <2>3 DEF CheckFence, OwnedAlive
  <2>4. ASSUME NEW t \in Token, ClearOwner(t) \/ Expire(t) PROVE FenceInv'
    BY <2>4 DEF ClearOwner, Expire
  <2>5. ASSUME NEW t \in Token,
               SendWrite(t) \/ GrantShared(t) \/ LandWrite(t) \/ AbortWrite(t)
        PROVE  FenceInv'
    BY <2>5 DEF SendWrite, GrantShared, LandWrite, AbortWrite
  <2>6. ASSUME NEW t \in Token,
               \/ StartUnit(t) \/ TryLock(t) \/ Downgrade(t) \/ FinishDowngrade(t)
               \/ SelfCheck(t) \/ KillUnit(t) \/ StopUnit(t)
        PROVE  FenceInv'
    BY <2>6 DEF StartUnit, TryLock, Downgrade, FinishDowngrade, SelfCheck, KillUnit, StopUnit
  <2>7. ASSUME NEW t \in Token,
               \/ PollHeld(t) \/ PollRefused(t) \/ SendBeat(t) \/ VerifyBeat(t)
               \/ TouchOwner(t) \/ BeatError(t) \/ Release(t) \/ Vanish(t) \/ Stall(t)
        PROVE  FenceInv'
    BY <2>7 DEF PollHeld, PollRefused, SendBeat, VerifyBeat, TouchOwner, BeatError,
                Release, Vanish, Stall
  <2>8. CASE UNCHANGED vars
    BY <2>8 DEF vars
  <2> QED
    BY <2>1, <2>2, <2>3, <2>4, <2>5, <2>6, <2>7, <2>8
    DEF Next, HeldScript, AssertOwnership, FencedWrite
<1>3. TypeOK /\ FenceInv /\ [Next]_vars
        => [\A t \in Token : landed'[t] # landed[t] => latest = t]_vars
  <2> SUFFICES ASSUME TypeOK, FenceInv, Next,
                      NEW t \in Token, landed'[t] # landed[t]
               PROVE  latest = t
    OBVIOUS
  <2>1. PICK u \in Token : LandWrite(u)
    BY DEF Next, Tick, StartUnit, HeldScript, TryLock, Downgrade, FinishDowngrade,
           PublishOwner, SelfCheck, Expire, KillUnit, PollHeld, PollRefused, SendBeat,
           AssertOwnership, VerifyBeat, TouchOwner, BeatError, SendWrite, FencedWrite,
           GrantShared, CheckFence, AbortWrite, Release, ClearOwner, StopUnit, Vanish, Stall
  <2>2. u = t
    BY <2>1 DEF LandWrite, TypeOK
  <2> QED
    BY <2>1, <2>2 DEF LandWrite, FenceInv
<1> QED
  BY <1>1, <1>2, <1>3, TypeCorrect, PTL DEF Spec, LatestWriterOnly

-----------------------------------------------------------------------------
(* One holder, and no handoff under a checked write.  From here on `flock -s` *)
(* converts the exclusive lock in place.                                      *)

\* Where the unit of a token is, as told by the client and by the history.
UnitProgress ==
  \A t \in Token :
    /\ client[t] = "idle" => unit[t] = "none"
    /\ t \in granted => unit[t] \in {"holding", "expiring", "exited", "killed"}
    /\ unit[t] # "converting"

OwnerWasGranted == owner # None => owner \in granted

\* lock.flock is held by one script at a time.
GuardExclusive ==
  /\ \A t, u \in Token : GuardHeldBy(t) /\ GuardHeldBy(u) => t = u
  /\ \A t \in Token :
       /\ ~(unit[t] = "expiring" /\ beat[t] = "verified")
       /\ ~(unit[t] = "expiring" /\ write[t] = "checked")
       /\ ~(beat[t] = "verified" /\ write[t] = "checked")

\* No two units are past the `flock -n -x` probe together.
SingleHolder ==
  \A t, u \in Token : Locked(t) /\ Locked(u) => t = u

LeaseInv ==
  /\ TypeOK
  /\ UnitProgress
  /\ OwnerWasGranted
  /\ GuardExclusive
  /\ SingleHolder
  /\ NoHandoffDuringWrite

\* The held script, the fenced writes and release() keep LeaseInv.
LEMMA LeaseInvInductive ==
  ASSUME AtomicDowngrade
  PROVE  LeaseInv /\ [Next]_vars => LeaseInv'
<1> SUFFICES ASSUME LeaseInv, [Next]_vars PROVE LeaseInv'
  OBVIOUS
<1>1. TypeOK'
  BY TypeStep DEF LeaseInv
<1> USE LeaseAssumption
<1> USE DEF LeaseInv, TypeOK, UnitProgress, OwnerWasGranted, GuardExclusive, GuardHeldBy,
            SingleHolder, NoHandoffDuringWrite, Locked
<1>2. ASSUME NEW t \in Token, StartUnit(t) PROVE LeaseInv'
  BY <1>1, <1>2 DEF StartUnit
<1>3. ASSUME NEW t \in Token, TryLock(t) PROVE LeaseInv'
  BY <1>1, <1>3 DEF TryLock, LeaseFileFree
<1>4. ASSUME NEW t \in Token, Downgrade(t) \/ FinishDowngrade(t) PROVE LeaseInv'
  BY <1>1, <1>4 DEF Downgrade, FinishDowngrade
<1>5. ASSUME NEW t \in Token, PublishOwner(t) PROVE LeaseInv'
  BY <1>1, <1>5 DEF PublishOwner, GuardFree
<1>6. ASSUME NEW t \in Token, SelfCheck(t) PROVE LeaseInv'
  BY <1>1, <1>6 DEF SelfCheck, GuardFree
<1>7. ASSUME NEW t \in Token, Expire(t) PROVE LeaseInv'
  BY <1>1, <1>7 DEF Expire
<1>8. ASSUME NEW t \in Token, KillUnit(t) \/ StopUnit(t) PROVE LeaseInv'
  BY <1>1, <1>8 DEF KillUnit, StopUnit, Running
<1>9. ASSUME NEW t \in Token, VerifyBeat(t) PROVE LeaseInv'
  BY <1>1, <1>9 DEF VerifyBeat, GuardFree
<1>10. ASSUME NEW t \in Token, TouchOwner(t) \/ SendBeat(t) \/ BeatError(t) PROVE LeaseInv'
  BY <1>1, <1>10 DEF TouchOwner, SendBeat, BeatError
<1>11. ASSUME NEW t \in Token, CheckFence(t) PROVE LeaseInv'
  BY <1>1, <1>11 DEF CheckFence, GuardFree, OwnedAlive, Running
<1>12. ASSUME NEW t \in Token,
              SendWrite(t) \/ GrantShared(t) \/ LandWrite(t) \/ AbortWrite(t)
       PROVE  LeaseInv'
  BY <1>1, <1>12 DEF SendWrite, GrantShared, LandWrite, AbortWrite
<1>13. ASSUME NEW t \in Token, ClearOwner(t) PROVE LeaseInv'
  BY <1>1, <1>13 DEF ClearOwner, GuardFree
<1>14. ASSUME NEW t \in Token,
              PollHeld(t) \/ PollRefused(t) \/ Release(t) \/ Vanish(t) \/ Stall(t)
       PROVE  LeaseInv'
  BY <1>1, <1>14 DEF PollHeld, PollRefused, Release, Vanish, Stall
<1>15. CASE Tick
  BY <1>1, <1>15 DEF Tick
<1>16. CASE UNCHANGED vars
  BY <1>1, <1>16 DEF vars
<1> QED
  BY <1>2, <1>3, <1>4, <1>5, <1>6, <1>7, <1>8, <1>9, <1>10, <1>11, <1>12, <1>13,
     <1>14, <1>15, <1>16
  DEF Next, HeldScript, AssertOwnership, FencedWrite

\* A target nobody has leased yet satisfies LeaseInv.
LEMMA LeaseInvInit == Init => LeaseInv
  BY LeaseAssumption
  DEF Init, LeaseInv, TypeOK, UnitState, ClientState, BeatState, WriteState, UnitProgress,
      OwnerWasGranted, GuardExclusive, GuardHeldBy, SingleHolder, NoHandoffDuringWrite, Locked

\* assert-current under the shared lock, with an in-place downgrade: a write whose
\* fence check has passed is never overtaken by another acquisition.
THEOREM NoHandoffDuringWriteHolds ==
  ASSUME AtomicDowngrade
  PROVE  Spec => []NoHandoffDuringWrite
<1>1. LeaseInv => NoHandoffDuringWrite
  BY DEF LeaseInv
<1> QED
  BY <1>1, LeaseInvInit, LeaseInvInductive, PTL DEF Spec

-----------------------------------------------------------------------------
(* A living holder keeps its record.                                       *)

\* A published unit finds its own record or none, and one that began to expire
\* still has its own, too old one.
RecordInv ==
  \A t \in Token :
    /\ unit[t] = "holding" => owner \in {t, None}
    /\ unit[t] = "expiring" => owner = t /\ age > HeartbeatTimeout

\* Whoever has the guard or is past the probe is alone, so no step takes a record
\* away from a unit that holds or expires.
LEMMA RecordInvInductive ==
  ASSUME AtomicDowngrade
  PROVE  LeaseInv /\ RecordInv /\ [Next]_vars => RecordInv'
<1> SUFFICES ASSUME LeaseInv, RecordInv, [Next]_vars PROVE RecordInv'
  OBVIOUS
<1> USE LeaseAssumption
<1> USE DEF RecordInv, LeaseInv, TypeOK
<1>1. ASSUME NEW t \in Token, PublishOwner(t) PROVE RecordInv'
  BY <1>1 DEF PublishOwner, GuardFree, GuardHeldBy, SingleHolder, Locked
<1>2. ASSUME NEW t \in Token, SelfCheck(t) PROVE RecordInv'
  BY <1>2 DEF SelfCheck
<1>3. ASSUME NEW t \in Token, Expire(t) PROVE RecordInv'
  BY <1>3 DEF Expire, SingleHolder, Locked
<1>4. ASSUME NEW t \in Token, ClearOwner(t) PROVE RecordInv'
  BY <1>4 DEF ClearOwner, GuardFree, GuardHeldBy
<1>5. ASSUME NEW t \in Token, TouchOwner(t) PROVE RecordInv'
  BY <1>5 DEF TouchOwner, GuardExclusive, GuardHeldBy
<1>6. ASSUME NEW t \in Token,
             \/ StartUnit(t) \/ TryLock(t) \/ Downgrade(t) \/ FinishDowngrade(t)
             \/ KillUnit(t) \/ StopUnit(t)
      PROVE  RecordInv'
  BY <1>6 DEF StartUnit, TryLock, Downgrade, FinishDowngrade, KillUnit, StopUnit
<1>7. ASSUME NEW t \in Token,
             \/ PollHeld(t) \/ PollRefused(t) \/ SendBeat(t) \/ VerifyBeat(t)
             \/ BeatError(t) \/ Release(t) \/ Vanish(t) \/ Stall(t)
      PROVE  RecordInv'
  BY <1>7 DEF PollHeld, PollRefused, SendBeat, VerifyBeat, BeatError, Release, Vanish, Stall
<1>8. ASSUME NEW t \in Token,
             \/ SendWrite(t) \/ GrantShared(t) \/ CheckFence(t)
             \/ LandWrite(t) \/ AbortWrite(t)
      PROVE  RecordInv'
  BY <1>8 DEF SendWrite, GrantShared, CheckFence, LandWrite, AbortWrite
<1>9. CASE Tick
  BY <1>9 DEF Tick
<1>10. CASE UNCHANGED vars
  BY <1>10 DEF vars
<1> QED
  BY <1>1, <1>2, <1>3, <1>4, <1>5, <1>6, <1>7, <1>8, <1>9, <1>10
  DEF Next, HeldScript, AssertOwnership, FencedWrite

\* heldScript and assertOwnership(), with an in-place downgrade: for any timeout and
\* however late heartbeats and units are, a running unit's record is removed by its
\* own client or by itself, and by itself only while the record is too old.
THEOREM LivingHolderKeepsRecordHolds ==
  ASSUME AtomicDowngrade
  PROVE  Spec => LivingHolderKeepsRecord
<1> DEFINE Given(t) == \/ client[t] = "releasing" /\ client'[t] = "stopping"
                       \/ /\ unit[t] = "expiring" /\ unit'[t] = "exited"
                          /\ age > HeartbeatTimeout
<1>1. Init => RecordInv
  BY DEF Init, RecordInv
<1>2. LeaseInv /\ RecordInv /\ [Next]_vars
        => [owner # None /\ Running(owner) /\ owner' # owner => Given(owner)]_vars
  <2> SUFFICES ASSUME LeaseInv, RecordInv, Next, owner # None, Running(owner), owner' # owner
               PROVE  Given(owner)
    OBVIOUS
  <2> USE DEF LeaseInv, TypeOK
  <2>1. PICK t \in Token : PublishOwner(t) \/ Expire(t) \/ ClearOwner(t)
    BY DEF Next, Tick, StartUnit, HeldScript, TryLock, Downgrade, FinishDowngrade,
           SelfCheck, KillUnit, PollHeld, PollRefused, SendBeat, AssertOwnership,
           VerifyBeat, TouchOwner, BeatError, SendWrite, FencedWrite, GrantShared,
           CheckFence, LandWrite, AbortWrite, Release, StopUnit, Vanish, Stall
  <2>2. ~PublishOwner(t)
    BY DEF PublishOwner, Running, OwnerWasGranted, UnitProgress, SingleHolder, Locked
  <2>3. CASE Expire(t)
    BY <2>3 DEF Expire, RecordInv
  <2>4. CASE ClearOwner(t)
    BY <2>4 DEF ClearOwner
  <2> QED
    BY <2>1, <2>2, <2>3, <2>4
<1> QED
  BY <1>1, <1>2, LeaseInvInit, LeaseInvInductive, RecordInvInductive, PTL
  DEF Spec, LivingHolderKeepsRecord

-----------------------------------------------------------------------------
(* A prompt client keeps its lease.                                        *)

\* While a client is prompt, its record is young enough, its unit has not begun
\* to leave, and a published unit still has its record.
PromptInv ==
  \A t \in Token :
    prompt[t] /\ client[t] \in {"acquiring", "held"} =>
      /\ owner = t => age <= MaxGap
      /\ unit[t] = "holding" => owner = t
      /\ unit[t] \notin {"expiring", "exited"}
      /\ client[t] = "held" => unit[t] \in {"holding", "killed"}

\* LEASE_HEARTBEAT_TIMEOUT_S against the heartbeat interval: for every timeout at
\* least as long as the longest gap, a prompt holder loses its lease only when
\* its unit is killed.
THEOREM PromptHolderSafe ==
  ASSUME AtomicDowngrade
  PROVE  Spec => []PromptHolderKeepsLease
<1>1. Init => PromptInv
  BY DEF Init, PromptInv
<1>2. LeaseInv /\ PromptInv /\ [Next]_vars => PromptInv'
  <2> SUFFICES ASSUME LeaseInv, PromptInv, [Next]_vars PROVE PromptInv'
    OBVIOUS
  <2> USE LeaseAssumption
  <2> USE DEF PromptInv, LeaseInv, TypeOK
  <2>1. ASSUME NEW t \in Token, StartUnit(t) PROVE PromptInv'
    BY <2>1 DEF StartUnit, UnitProgress, OwnerWasGranted
  <2>2. ASSUME NEW t \in Token, TryLock(t) \/ Downgrade(t) \/ FinishDowngrade(t)
        PROVE  PromptInv'
    BY <2>2 DEF TryLock, Downgrade, FinishDowngrade
  <2>3. ASSUME NEW t \in Token, PublishOwner(t) PROVE PromptInv'
    BY <2>3 DEF PublishOwner, SingleHolder, Locked
  <2>4. ASSUME NEW t \in Token, SelfCheck(t) PROVE PromptInv'
    BY <2>4 DEF SelfCheck
  <2>5. ASSUME NEW t \in Token, Expire(t) PROVE PromptInv'
    BY <2>5 DEF Expire, SingleHolder, Locked
  <2>6. ASSUME NEW t \in Token, KillUnit(t) \/ StopUnit(t) PROVE PromptInv'
    BY <2>6 DEF KillUnit, StopUnit
  <2>7. ASSUME NEW t \in Token, PollHeld(t) PROVE PromptInv'
    BY <2>7 DEF PollHeld, OwnedAlive, Running, UnitProgress, OwnerWasGranted
  <2>8. ASSUME NEW t \in Token,
               PollRefused(t) \/ Release(t) \/ Vanish(t) \/ Stall(t) \/ BeatError(t)
        PROVE  PromptInv'
    BY <2>8 DEF PollRefused, Release, Vanish, Stall, BeatError
  <2>9. ASSUME NEW t \in Token, SendBeat(t) \/ VerifyBeat(t) \/ TouchOwner(t)
        PROVE  PromptInv'
    BY <2>9 DEF SendBeat, VerifyBeat, TouchOwner
  <2>10. ASSUME NEW t \in Token,
                \/ SendWrite(t) \/ GrantShared(t) \/ CheckFence(t)
                \/ LandWrite(t) \/ AbortWrite(t)
         PROVE  PromptInv'
    BY <2>10 DEF SendWrite, GrantShared, CheckFence, LandWrite, AbortWrite
  <2>11. ASSUME NEW t \in Token, ClearOwner(t) PROVE PromptInv'
    BY <2>11 DEF ClearOwner
  <2>12. CASE Tick
    BY <2>12 DEF Tick
  <2>13. CASE UNCHANGED vars
    BY <2>13 DEF vars
  <2> QED
    BY <2>1, <2>2, <2>3, <2>4, <2>5, <2>6, <2>7, <2>8, <2>9, <2>10, <2>11, <2>12, <2>13
    DEF Next, HeldScript, AssertOwnership, FencedWrite
<1>3. LeaseInv /\ PromptInv => PromptHolderKeepsLease
  BY DEF PromptInv, PromptHolderKeepsLease
<1> QED
  BY <1>1, <1>2, <1>3, LeaseInvInit, LeaseInvInductive, PTL DEF Spec

-----------------------------------------------------------------------------
(* Refinement.                                                             *)

\* A token whose unit has not published yet is not the recorded owner.
LEMMA UnpublishedIsNotOwner ==
  ASSUME LeaseInv, NEW t \in Token, unit[t] \in {"none", "starting", "exclusive", "shared"}
  PROVE  owner # t
  BY LeaseAssumption DEF LeaseInv, UnitProgress, OwnerWasGranted

\* acquireMutex(), assertOwnership(), release() and the fenced writes together
\* implement FencedLease: grants only when nobody holds, no token twice, and
\* every landed write by the holder.
THEOREM LeaseRefinement ==
  ASSUME AtomicDowngrade
  PROVE  Spec => ImplementsFencedLease
<1>1. Init => Lease!Init
  BY DEF Init, Lease!Init, holder
<1>2. LeaseInv /\ [Next]_vars => [Lease!Next]_(Lease!vars)
  <2> SUFFICES ASSUME LeaseInv, [Next]_vars
               PROVE  Lease!Next \/ UNCHANGED <<holder, granted, landed>>
    BY DEF Lease!vars
  <2> USE LeaseAssumption
  <2>0. TypeOK
    BY DEF LeaseInv
  <2>1. ASSUME NEW t \in Token, PublishOwner(t) PROVE Lease!Grant(t)
    <3>1. t \notin granted
      BY <2>1 DEF PublishOwner, LeaseInv, UnitProgress
    <3>2. holder = None
      BY <2>0, <2>1, <3>1
      DEF PublishOwner, GuardFree, GuardHeldBy, holder, Running, LeaseInv, UnitProgress,
          OwnerWasGranted, SingleHolder, Locked, TypeOK
    <3>3. holder' = t
      BY <2>0, <2>1 DEF PublishOwner, holder, Running, TypeOK
    <3> QED
      BY <2>1, <3>1, <3>2, <3>3 DEF PublishOwner, Lease!Grant
  <2>2. ASSUME NEW t \in Token, LandWrite(t) PROVE Lease!Write(t)
    <3>1. holder = t
      BY <2>2 DEF LandWrite, holder, LeaseInv, NoHandoffDuringWrite
    <3>2. holder' \in {t, None}
      BY <2>2 DEF LandWrite, holder, LeaseInv, NoHandoffDuringWrite
    <3> QED
      BY <2>2, <3>1, <3>2 DEF LandWrite, Lease!Write
  <2>3. ASSUME NEW t \in Token,
               Expire(t) \/ KillUnit(t) \/ StopUnit(t) \/ AbortWrite(t) \/ ClearOwner(t)
        PROVE  Lease!Revoke \/ UNCHANGED <<holder, granted, landed>>
    <3>1. UNCHANGED <<granted, landed>>
      BY <2>3 DEF Expire, KillUnit, StopUnit, AbortWrite, ClearOwner
    <3>2. holder' \in {holder, None}
      BY <2>0, <2>3
      DEF Expire, KillUnit, StopUnit, AbortWrite, ClearOwner, holder, Running, TypeOK
    <3> QED
      BY <3>1, <3>2 DEF Lease!Revoke
  <2>4. ASSUME NEW t \in Token,
               StartUnit(t) \/ TryLock(t) \/ Downgrade(t) \/ FinishDowngrade(t)
        PROVE  UNCHANGED <<holder, granted, landed>>
    <3>1. owner # t
      BY <2>4, UnpublishedIsNotOwner
      DEF StartUnit, TryLock, Downgrade, FinishDowngrade, LeaseInv, UnitProgress
    <3> QED
      BY <2>0, <2>4, <3>1
      DEF StartUnit, TryLock, Downgrade, FinishDowngrade, holder, Running, TypeOK
  <2>5. ASSUME NEW t \in Token, SelfCheck(t)
        PROVE  UNCHANGED <<holder, granted, landed>>
    BY <2>0, <2>5 DEF SelfCheck, holder, Running, TypeOK
  <2>6. ASSUME NEW t \in Token, SendWrite(t) \/ GrantShared(t) \/ CheckFence(t)
        PROVE  UNCHANGED <<holder, granted, landed>>
    BY <2>0, <2>6
    DEF SendWrite, GrantShared, CheckFence, OwnedAlive, holder, Running, TypeOK
  <2>7. ASSUME NEW t \in Token,
               \/ PollHeld(t) \/ PollRefused(t) \/ SendBeat(t) \/ VerifyBeat(t)
               \/ TouchOwner(t) \/ BeatError(t) \/ Release(t) \/ Vanish(t) \/ Stall(t)
        PROVE  UNCHANGED <<holder, granted, landed>>
    BY <2>7
    DEF PollHeld, PollRefused, SendBeat, VerifyBeat, TouchOwner, BeatError, Release,
        Vanish, Stall, holder, Running
  <2>8. CASE Tick \/ UNCHANGED vars
    BY <2>8 DEF Tick, vars, holder, Running
  <2> QED
    BY <2>1, <2>2, <2>3, <2>4, <2>5, <2>6, <2>7, <2>8
    DEF Next, HeldScript, AssertOwnership, FencedWrite, Lease!Next
<1> QED
  BY <1>1, <1>2, LeaseInvInit, LeaseInvInductive, PTL
  DEF Spec, ImplementsFencedLease, Lease!Spec
=============================================================================
