------------------------------ MODULE Refresher ------------------------------
(***************************************************************************)
(* The clock, the two overlays and the sleep of the refresher thread       *)
(* (__main__.py, schedule.py).  The refresher plans its sleep, sleeps,     *)
(* takes its turn and plans again.  A pause set while it sleeps does not   *)
(* wake it, and an end that passes between a turn and the next plan is not *)
(* planned for.  Times are in the least sleep, one second.                 *)
(***************************************************************************)
EXTENDS Integers, FiniteSets, FiniteSetsExt

CONSTANTS
  Interval,   \* REFRESH_INTERVAL_S
  MaxLag,     \* bound: ticks a turn takes, with the wait for the thread to run
  MaxTime     \* bound: last tick

ASSUME TimesAssumption ==
  Interval \in Nat \ {0} /\ MaxLag \in Nat /\ MaxTime \in Nat

VARIABLES
  now,        \* the clock; it starts after NoTime
  ends,       \* Overlays: pause_until and adjust_until
  stage,      \* refresher: "planning", "asleep", "turn" or "publishing"
  expiry,     \* refresher: the end it planned for
  wake,       \* refresher: when its sleep ends
  lag         \* ticks since then

clock == <<now, ends, stage, expiry, wake, lag>>

(* Python's None.                                                          *)
NoTime == 0

Overlays == {"pause", "adjust"}

RefresherInit(start) ==
  /\ now = start
  /\ ends = [o \in Overlays |-> NoTime]
  /\ stage = "planning"
  /\ expiry = NoTime /\ wake = NoTime /\ lag = 0

NextExpiry ==
  LET ahead == {ends[o] : o \in {p \in Overlays : ends[p] > now}}
  IN  IF ahead = {} THEN NoTime ELSE Min(ahead)

(* Mutant: a whole interval, whatever ends in it.                          *)
WholeInterval(end) == Interval

Delay(end) ==
  IF end = NoTime THEN Interval ELSE Max({1, Min({Interval, end - now})})

PlanSleep ==
  /\ stage = "planning"
  /\ stage' = "asleep"
  /\ expiry' = NextExpiry
  /\ wake' = now + Delay(expiry')
  /\ lag' = 0
  /\ UNCHANGED <<now, ends>>

Awake == stage # "asleep" \/ now >= wake

WakeUp ==
  /\ stage = "asleep" /\ now >= wake
  /\ stage' = "turn"
  /\ UNCHANGED <<now, ends, expiry, wake, lag>>

Lapsed(o) == ends[o] # NoTime /\ now >= ends[o]

Unlapsed == [o \in Overlays |-> IF Lapsed(o) THEN NoTime ELSE ends[o]]

(* A turn takes its time, but not for ever.                                *)
Tick(running) ==
  /\ now < MaxTime
  /\ IF running /\ Awake
       THEN lag < MaxLag /\ lag' = lag + 1
       ELSE UNCHANGED lag
  /\ now' = now + 1
  /\ UNCHANGED <<ends, stage, expiry, wake>>

RefresherTypeOK ==
  /\ now \in 1 .. MaxTime
  /\ ends \in [Overlays -> Nat]
  /\ stage \in {"planning", "asleep", "turn", "publishing"}
  /\ expiry \in Nat /\ wake \in Nat /\ lag \in 0 .. MaxLag

=============================================================================
