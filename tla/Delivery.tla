------------------------------ MODULE Delivery -------------------------------
(***************************************************************************)
(* What the server promises its users: a hub that takes itself to be up to *)
(* date is, and a command given to it is kept until it has been carried    *)
(* out, another takes its place or the server is restarted.  Nothing here  *)
(* says how; HubDelivers.tla shows that the exchange of numbers and        *)
(* programmes in HubServer.tla keeps the promise.                          *)
(***************************************************************************)
EXTENDS Naturals

VARIABLES
  trusted,   \* no number has been given out while still in use
  synced,    \* the hub holds the number the server announces
  current,   \* the programme it holds is what the server would hand out
  order,     \* the manual command: none, waiting for the hub, or done
  given,     \* commands users have given so far
  starts     \* times the server was started

dvars == <<trusted, synced, current, order, given, starts>>

Init ==
  /\ trusted = TRUE /\ synced = FALSE /\ current \in BOOLEAN
  /\ order = "none" /\ given = 0 /\ starts = 1

(* Something changed, and the hub can tell: an edit, an overlay that       *)
(* lapsed, the sun.  A hub that reboots or gets a late programme can too.  *)
Outdate == ~ synced' /\ current' \in BOOLEAN

Change == Outdate /\ UNCHANGED <<order, given, starts>>

(* A user gives a command.                                                 *)
Order == Outdate /\ order' = "waiting" /\ given' = given + 1 /\ UNCHANGED starts

(* The server restarts and forgets the command.                            *)
Forget == Outdate /\ order' = "none" /\ starts' = starts + 1 /\ UNCHANGED given

(* The hub gets the programme.                                             *)
Sync == synced' /\ current' /\ UNCHANGED <<order, given, starts>>

(* What the hub has stays right: time passes.                              *)
Stay == UNCHANGED <<synced, given, starts>> /\ (current => current')

Age == Stay /\ UNCHANGED order

Obey == order = "waiting" /\ order' = "done" /\ UNCHANGED <<synced, current, given, starts>>

Acknowledge == order = "done" /\ order' = "none" /\ Stay

Step == Change \/ Order \/ Forget \/ Sync \/ Age \/ Obey \/ Acknowledge

Next ==
  \/ trusted' /\ trusted /\ Step
  \/ ~ trusted'

Spec == Init /\ [][Next]_dvars

=============================================================================
