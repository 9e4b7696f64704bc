----------------------------- MODULE ExecLease -----------------------------
(***************************************************************************)
(* The process-lifetime execution mutex of scripts/target-mutate.mjs       *)
(* (acquireMutex, assertOwnership, release, fencedWriteScript).            *)
(*                                                                         *)
(* Each acquisition draws a fresh token and starts one transient systemd   *)
(* unit on the target.  The unit proves with `flock -n -x` that nobody     *)
(* uses exec.lease, downgrades to a shared lock, publishes its token in    *)
(* exec.lease.owner and then watches the age of that file.  The client     *)
(* heartbeats by touching the file; every fenced write takes exec.lease    *)
(* shared, then the lock.flock guard, and checks the owner record before   *)
(* it mutates anything.                                                    *)
(*                                                                         *)
(* Both kernel locks are read off the program counters: a script holds     *)
(* lock.flock exactly in the states GuardFree excludes, and exec.lease in  *)
(* the states ExclusiveHeld and LeaseFileFree name.  A killed process      *)
(* therefore drops its locks at once, as the kernel does.                  *)
(***************************************************************************)
EXTENDS Naturals

CONSTANTS
  Token,            \* one per acquireMutex() call (randomUUID)
  None,
  HeartbeatTimeout, \* LEASE_HEARTBEAT_TIMEOUT_S, in ticks
  MaxGap,           \* longest time a prompt client lets pass between heartbeats
  MaxWrites,        \* bound: fenced writes sent per token
  AtomicDowngrade   \* does `flock -s` convert the exclusive lock in place?

ASSUME LeaseAssumption ==
  /\ None \notin Token
  /\ HeartbeatTimeout \in Nat
  /\ MaxGap \in Nat /\ MaxGap <= HeartbeatTimeout
  /\ MaxWrites \in Nat
  /\ AtomicDowngrade \in BOOLEAN

VARIABLES
  unit,     \* the systemd unit of each token
  owner,    \* the token in exec.lease.owner, or None
  age,      \* ticks since exec.lease.owner was last written or touched
  client,   \* the local side of each acquisition
  prompt,   \* has this client kept its heartbeats on time so far?
  beat,     \* its assertOwnership() script on the target
  write,    \* its fenced write script on the target
  landed,   \* history: fenced writes of each token that mutated the target
  granted,  \* history: tokens that were ever published as owner
  latest    \* history: the token published last

vars == <<unit, owner, age, client, prompt, beat, write, landed, granted, latest>>

UnitState ==
  {"none", "starting", "exclusive", "converting", "shared", "holding",
   "expiring", "exited", "busy", "killed"}
ClientState ==
  {"idle", "acquiring", "held", "lost", "releasing", "stopping", "gone"}
BeatState  == {"idle", "sent", "verified"}
WriteState == {"idle", "waiting", "shared", "checked"}

TypeOK ==
  /\ unit \in [Token -> UnitState]
  /\ owner \in Token \cup {None}
  /\ age \in 0..(HeartbeatTimeout + 1)
  /\ client \in [Token -> ClientState]
  /\ prompt \in [Token -> BOOLEAN]
  /\ beat \in [Token -> BeatState]
  /\ write \in [Token -> WriteState]
  /\ landed \in [Token -> Nat]
  /\ granted \in SUBSET Token
  /\ latest \in Token \cup {None}

-----------------------------------------------------------------------------
(* The two kernel locks and the liveness test on the recorded process.     *)

GuardHeldBy(t) ==
  \/ unit[t] = "expiring"
  \/ beat[t] = "verified"
  \/ write[t] = "checked"

GuardFree == \A t \in Token : ~GuardHeldBy(t)

ExclusiveHeld == \E t \in Token : unit[t] = "exclusive"

\* Mutant: fenced writes take no shared lock on exec.lease.
LeaseFileFreeOfUnits ==
  \A t \in Token : unit[t] \notin {"exclusive", "shared", "holding", "expiring"}

LeaseFileFree ==
  \A t \in Token :
    /\ unit[t] \notin {"exclusive", "shared", "holding", "expiring"}
    /\ write[t] \notin {"shared", "checked"}

Running(t) ==
  unit[t] \in {"starting", "exclusive", "converting", "shared", "holding", "expiring"}

OwnedAlive(t) == owner = t /\ Running(t)

-----------------------------------------------------------------------------
(* acquireMutex(): systemd-run, the held script, the acquire poll.         *)

StartUnit(t) ==
  /\ client[t] = "idle"
  /\ client' = [client EXCEPT ![t] = "acquiring"]
  /\ unit' = [unit EXCEPT ![t] = "starting"]
  /\ UNCHANGED <<owner, age, prompt, beat, write, landed, granted, latest>>

TryLock(t) ==
  /\ unit[t] = "starting"
  /\ unit' = [unit EXCEPT ![t] = IF LeaseFileFree THEN "exclusive" ELSE "busy"]
  /\ UNCHANGED <<owner, age, client, prompt, beat, write, landed, granted, latest>>

Downgrade(t) ==
  /\ unit[t] = "exclusive"
  /\ unit' = [unit EXCEPT ![t] = IF AtomicDowngrade THEN "shared" ELSE "converting"]
  /\ UNCHANGED <<owner, age, client, prompt, beat, write, landed, granted, latest>>

\* Only without an atomic conversion: the blocking half of `flock -s`.
FinishDowngrade(t) ==
  /\ unit[t] = "converting"
  /\ ~ExclusiveHeld
  /\ unit' = [unit EXCEPT ![t] = "shared"]
  /\ UNCHANGED <<owner, age, client, prompt, beat, write, landed, granted, latest>>

PublishOwner(t) ==
  /\ unit[t] = "shared"
  /\ GuardFree
  /\ unit' = [unit EXCEPT ![t] = "holding"]
  /\ owner' = t
  /\ age' = 0
  /\ granted' = granted \cup {t}
  /\ latest' = t
  /\ UNCHANGED <<client, prompt, beat, write, landed>>

\* Mutant: the comparison with the timeout is off by one (-ge for -gt).
SelfCheckEarly(t) ==
  /\ unit[t] = "holding"
  /\ GuardFree
  /\ owner = None \/ age >= HeartbeatTimeout
  /\ unit' = [unit EXCEPT ![t] = IF owner = None THEN "exited" ELSE "expiring"]
  /\ UNCHANGED <<owner, age, client, prompt, beat, write, landed, granted, latest>>

\* Mutant: the unit leaves only when its record was removed, never on age.
SelfCheckNoTimeout(t) ==
  /\ unit[t] = "holding"
  /\ GuardFree
  /\ owner = None
  /\ unit' = [unit EXCEPT ![t] = "exited"]
  /\ UNCHANGED <<owner, age, client, prompt, beat, write, landed, granted, latest>>

\* Mutant: the unit looks at the age of its record before it takes lock.flock.
SelfCheckUnguarded(t) ==
  /\ unit[t] = "holding"
  /\ owner = None \/ age > HeartbeatTimeout
  /\ unit' = [unit EXCEPT ![t] = IF owner = None THEN "exited" ELSE "expiring"]
  /\ UNCHANGED <<owner, age, client, prompt, beat, write, landed, granted, latest>>

\* The loop of the held script.  It looks at the file, never at the token in it.
SelfCheck(t) ==
  /\ unit[t] = "holding"
  /\ GuardFree
  /\ owner = None \/ age > HeartbeatTimeout
  /\ unit' = [unit EXCEPT ![t] = IF owner = None THEN "exited" ELSE "expiring"]
  /\ UNCHANGED <<owner, age, client, prompt, beat, write, landed, granted, latest>>

Expire(t) ==
  /\ unit[t] = "expiring"
  /\ owner' = None
  /\ unit' = [unit EXCEPT ![t] = "exited"]
  /\ UNCHANGED <<age, client, prompt, beat, write, landed, granted, latest>>

\* The unit's process dies without running its cleanup (SIGKILL, OOM).
KillUnit(t) ==
  /\ Running(t)
  /\ unit' = [unit EXCEPT ![t] = "killed"]
  /\ UNCHANGED <<owner, age, client, prompt, beat, write, landed, granted, latest>>

PollHeld(t) ==
  /\ client[t] = "acquiring"
  /\ OwnedAlive(t)
  /\ client' = [client EXCEPT ![t] = "held"]
  /\ UNCHANGED <<unit, owner, age, prompt, beat, write, landed, granted, latest>>

\* HOF_LEASE_BUSY, HOF_LEASE_TIMEOUT and a failed round trip all throw.
PollRefused(t) ==
  /\ client[t] = "acquiring"
  /\ unit[t] \in {"busy", "killed", "exited"} \/ ~prompt[t]
  /\ client' = [client EXCEPT ![t] = "gone"]
  /\ prompt' = [prompt EXCEPT ![t] = FALSE]
  /\ UNCHANGED <<unit, owner, age, beat, write, landed, granted, latest>>

-----------------------------------------------------------------------------
(* assertOwnership(): the heartbeat and the explicit check are one call.   *)

SendBeat(t) ==
  /\ client[t] = "held"
  /\ beat[t] = "idle"
  /\ beat' = [beat EXCEPT ![t] = "sent"]
  /\ UNCHANGED <<unit, owner, age, client, prompt, write, landed, granted, latest>>

VerifyBeat(t) ==
  /\ beat[t] = "sent"
  /\ GuardFree
  /\ IF OwnedAlive(t)
     THEN /\ beat' = [beat EXCEPT ![t] = "verified"]
          /\ UNCHANGED client
     ELSE /\ beat' = [beat EXCEPT ![t] = "idle"]
          /\ client' = [client EXCEPT ![t] = IF @ = "held" THEN "lost" ELSE @]
  /\ UNCHANGED <<unit, owner, age, prompt, write, landed, granted, latest>>

TouchOwner(t) ==
  /\ beat[t] = "verified"
  /\ beat' = [beat EXCEPT ![t] = "idle"]
  /\ age' = 0
  /\ UNCHANGED <<unit, owner, client, prompt, write, landed, granted, latest>>

\* The round trip fails; the script may still be running on the target.
BeatError(t) ==
  /\ client[t] = "held"
  /\ beat[t] # "idle"
  /\ ~prompt[t]
  /\ client' = [client EXCEPT ![t] = "lost"]
  /\ UNCHANGED <<unit, owner, age, prompt, beat, write, landed, granted, latest>>

-----------------------------------------------------------------------------
(* fencedWriteScript(): shared lock, guard, fence, mutation.               *)

SendWrite(t) ==
  /\ client[t] = "held"
  /\ write[t] = "idle"
  /\ landed[t] < MaxWrites
  /\ write' = [write EXCEPT ![t] = "waiting"]
  /\ UNCHANGED <<unit, owner, age, client, prompt, beat, landed, granted, latest>>

GrantShared(t) ==
  /\ write[t] = "waiting"
  /\ ~ExclusiveHeld
  /\ write' = [write EXCEPT ![t] = "shared"]
  /\ UNCHANGED <<unit, owner, age, client, prompt, beat, landed, granted, latest>>

\* Mutant: the write trusts the client's cached isLost() flag.
CheckFenceClientSide(t) ==
  /\ write[t] = "shared"
  /\ GuardFree
  /\ write' = [write EXCEPT ![t] = IF client[t] = "held" THEN "checked" ELSE "idle"]
  /\ UNCHANGED <<unit, owner, age, client, prompt, beat, landed, granted, latest>>

\* Mutant: the fence compares tokens and never looks at the owner's process.
CheckFenceTokenOnly(t) ==
  /\ write[t] = "shared"
  /\ GuardFree
  /\ write' = [write EXCEPT ![t] = IF owner = t THEN "checked" ELSE "idle"]
  /\ UNCHANGED <<unit, owner, age, client, prompt, beat, landed, granted, latest>>

CheckFence(t) ==
  /\ write[t] = "shared"
  /\ GuardFree
  /\ write' = [write EXCEPT ![t] = IF OwnedAlive(t) THEN "checked" ELSE "idle"]
  /\ UNCHANGED <<unit, owner, age, client, prompt, beat, landed, granted, latest>>

LandWrite(t) ==
  /\ write[t] = "checked"
  /\ write' = [write EXCEPT ![t] = "idle"]
  /\ landed' = [landed EXCEPT ![t] = @ + 1]
  /\ UNCHANGED <<unit, owner, age, client, prompt, beat, granted, latest>>

\* The script times out on its shared lock or dies with its connection.
AbortWrite(t) ==
  /\ write[t] # "idle"
  /\ write' = [write EXCEPT ![t] = "idle"]
  /\ UNCHANGED <<unit, owner, age, client, prompt, beat, landed, granted, latest>>

-----------------------------------------------------------------------------
(* release(), and the client going away without it.                        *)

Release(t) ==
  /\ client[t] \in {"held", "lost"}
  /\ client' = [client EXCEPT ![t] = "releasing"]
  /\ UNCHANGED <<unit, owner, age, prompt, beat, write, landed, granted, latest>>

\* Mutant: the owner record is emptied, not removed.
ClearOwnerTruncates(t) ==
  /\ client[t] = "releasing"
  /\ GuardFree
  /\ owner' = IF owner = t THEN "" ELSE owner
  /\ client' = [client EXCEPT ![t] = IF owner = t THEN "stopping" ELSE "gone"]
  /\ UNCHANGED <<unit, age, prompt, beat, write, landed, granted, latest>>

ClearOwner(t) ==
  /\ client[t] = "releasing"
  /\ GuardFree
  /\ owner' = IF owner = t THEN None ELSE owner
  /\ client' = [client EXCEPT ![t] = IF owner = t THEN "stopping" ELSE "gone"]
  /\ UNCHANGED <<unit, age, prompt, beat, write, landed, granted, latest>>

StopUnit(t) ==
  /\ client[t] = "stopping"
  /\ client' = [client EXCEPT ![t] = "gone"]
  /\ unit' = [unit EXCEPT ![t] = IF Running(t) THEN "exited" ELSE @]
  /\ UNCHANGED <<owner, age, prompt, beat, write, landed, granted, latest>>

\* The client crashes, or a step of its release() fails on the wire.
Vanish(t) ==
  /\ client[t] \notin {"idle", "gone"}
  /\ client' = [client EXCEPT ![t] = "gone"]
  /\ prompt' = [prompt EXCEPT ![t] = FALSE]
  /\ UNCHANGED <<unit, owner, age, beat, write, landed, granted, latest>>

\* A suspended laptop or a partition: heartbeats may now be arbitrarily late.
Stall(t) ==
  /\ client[t] \in {"acquiring", "held"}
  /\ prompt[t]
  /\ prompt' = [prompt EXCEPT ![t] = FALSE]
  /\ UNCHANGED <<unit, owner, age, client, beat, write, landed, granted, latest>>

-----------------------------------------------------------------------------
\* Time passes, but never past the heartbeat of a prompt client.
Tick ==
  /\ age <= HeartbeatTimeout
  /\ \A t \in Token :
       prompt[t] /\ owner = t /\ client[t] \in {"acquiring", "held"} => age < MaxGap
  /\ age' = age + 1
  /\ UNCHANGED <<unit, owner, client, prompt, beat, write, landed, granted, latest>>

Init ==
  /\ unit = [t \in Token |-> "none"]
  /\ owner = None
  /\ age = 0
  /\ client = [t \in Token |-> "idle"]
  /\ prompt = [t \in Token |-> TRUE]
  /\ beat = [t \in Token |-> "idle"]
  /\ write = [t \in Token |-> "idle"]
  /\ landed = [t \in Token |-> 0]
  /\ granted = {}
  /\ latest = None

HeldScript(t) ==
  TryLock(t) \/ Downgrade(t) \/ FinishDowngrade(t) \/ PublishOwner(t)
    \/ SelfCheck(t) \/ Expire(t)

AssertOwnership(t) == VerifyBeat(t) \/ TouchOwner(t)

FencedWrite(t) == GrantShared(t) \/ CheckFence(t) \/ LandWrite(t)

Next ==
  \/ Tick
  \/ \E t \in Token :
       \/ StartUnit(t) \/ HeldScript(t) \/ KillUnit(t)
       \/ PollHeld(t) \/ PollRefused(t)
       \/ SendBeat(t) \/ AssertOwnership(t) \/ BeatError(t)
       \/ SendWrite(t) \/ FencedWrite(t) \/ AbortWrite(t)
       \/ Release(t) \/ ClearOwner(t) \/ StopUnit(t)
       \/ Vanish(t) \/ Stall(t)

Spec == Init /\ [][Next]_vars

(* Scripts that run on the target keep running, and its clock advances.    *)
(* Nothing is assumed of the clients.                                      *)
Fairness ==
  /\ WF_vars(Tick)
  /\ \A t \in Token : /\ WF_vars(HeldScript(t))
                      /\ WF_vars(AssertOwnership(t))
                      /\ WF_vars(FencedWrite(t))

FairSpec == Spec /\ Fairness

-----------------------------------------------------------------------------
(* Correctness.                                                            *)

Locked(t) == unit[t] \in {"exclusive", "shared", "holding", "expiring"}

\* fencedWriteScript(): from a passed fence check to the end of the write the
\* owner record keeps the writer's token and no other acquisition gets past
\* its probe, although the writer's own unit may have died meanwhile.
NoHandoffDuringWrite ==
  \A t \in Token :
    write[t] = "checked" =>
      /\ owner = t
      /\ \A u \in Token \ {t} : ~Locked(u)

\* leaseFencingScript(): a write that mutates the target carries the token of
\* the most recent acquisition, however long it was delayed on the way.
LatestWriterOnly ==
  [][\A t \in Token : landed'[t] # landed[t] => latest = t]_vars

\* The held script looks at the record's age and never at the token in it.  Still,
\* while the recorded unit runs, its record goes only with its own client's release
\* or with its own expiry, and then it is too old at the moment it is removed: no
\* heartbeat answered in between is lost, no lingering unit removes the record of a
\* successor, and no acquisition publishes over a living one.
LivingHolderKeepsRecord ==
  [][owner # None /\ Running(owner) /\ owner' # owner =>
       \/ client[owner] = "releasing" /\ client'[owner] = "stopping"
       \/ /\ unit[owner] = "expiring" /\ unit'[owner] = "exited"
          /\ age > HeartbeatTimeout]_vars

\* LEASE_HEARTBEAT_TIMEOUT_S against LEASE_HEARTBEAT_INTERVAL_MS: a client whose
\* heartbeats are on time keeps the lease until its unit is killed.
PromptHolderKeepsLease ==
  \A t \in Token :
    client[t] = "held" /\ prompt[t] /\ unit[t] # "killed" =>
      owner = t /\ unit[t] = "holding"

\* heldScript's self-expiry: once a client is gone, its unit ends and exec.lease
\* is free of it, with no help from anybody else.
GoneClientFreesLease ==
  \A t \in Token : client[t] = "gone" ~> ~Running(t)

\* The abstract lease.  A unit that died during a checked write still counts as
\* the holder until that write is over.
holder ==
  IF owner # None /\ (Running(owner) \/ write[owner] = "checked") THEN owner ELSE None

Lease == INSTANCE FencedLease WITH used <- granted

\* acquireMutex() with the fenced writes implements FencedLease.
ImplementsFencedLease == Lease!Spec
=============================================================================
