------------------------------- MODULE Ledger -------------------------------
(***************************************************************************)
(* What the telemetry store promises its callers, without transactions,    *)
(* locks or commit races: a message is stored at most once, never beside   *)
(* one with the same key or an overlapping sequence range of the same      *)
(* sensor and boot, never forgotten, and confirmed only when stored.       *)
(***************************************************************************)
EXTENDS Integers

CONSTANTS
    Messages,                   \* validated batches, told apart by content
    KeyOf,                      \* (gateway_id, message_id)
    SensorOf, BootOf,           \* the stream of a batch
    FirstOf, LastOf             \* first_sequence and last_sequence

VARIABLES
    stored,                     \* committed messages
    confirmed                   \* messages whose caller was told so

ledgerVars == <<stored, confirmed>>

SameStream(m, n) == SensorOf[m] = SensorOf[n] /\ BootOf[m] = BootOf[n]
Overlap(m, n) == FirstOf[m] <= LastOf[n] /\ FirstOf[n] <= LastOf[m]

Compatible(m, n) ==
    /\ KeyOf[m] # KeyOf[n]
    /\ SameStream(m, n) => ~Overlap(m, n)

Store(m) ==
    /\ \A n \in stored : Compatible(m, n)
    /\ stored' = stored \cup {m}

Confirm(m) ==
    /\ m \in stored'
    /\ confirmed' = confirmed \cup {m}

LedgerInit == stored = {} /\ confirmed = {}

LedgerNext ==
    \E m \in Messages :
        \/ Store(m) /\ UNCHANGED confirmed
        \/ UNCHANGED stored /\ Confirm(m)
        \/ Store(m) /\ Confirm(m)

LedgerSpec == LedgerInit /\ [][LedgerNext]_ledgerVars
=============================================================================
