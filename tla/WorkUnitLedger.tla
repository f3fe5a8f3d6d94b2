--------------------------- MODULE WorkUnitLedger ---------------------------
(***************************************************************************)
(* What WorkUnitManager promises, as its comments "Lock active work units  *)
(* list" state it: each of its operations happens at once.  The ledger     *)
(* cuts the digits into work units, remembers who owns each one that has   *)
(* no result yet, and hands a unit to another worker when its owner said   *)
(* goodbye, or was lost for longer than WORK_UNIT_ORPHANED_TIMEOUT.        *)
(***************************************************************************)
EXTENDS Integers, FiniteSets

CONSTANTS
    Workers,      \* worker ids
    NoWorker,     \* the empty worker id
    InitialDigit, \* digits there were when the coordinator started
    Quota(_),     \* the size computed for a unit that starts at a digit
    MaxDigit      \* bound: no unit is created at or after this digit

ASSUME NoWorkerAssumption == NoWorker \notin Workers
ASSUME InitialDigitAssumption == InitialDigit \in Nat
ASSUME MaxDigitAssumption == MaxDigit \in Nat
ASSUME QuotaAssumption == \A d \in 0..MaxDigit : Quota(d) \in Int

VARIABLES
    next_digit,         \* next digit from which to dispatch work units
    active_work_units,  \* control blocks of the units without a result
    finished            \* history: units removed because a result came

vars == <<next_digit, active_work_units, finished>>

States == {"OWNED", "ORPHANED", "DISOWNED"}
WorkUnits == [start : Nat, n_digits : Nat \ {0}]

(***************************************************************************)
(* expired stands for orphaned_time: the unit is orphaned for longer than  *)
(* the timeout.                                                            *)
(***************************************************************************)
ControlBlocks ==
    [work_unit : WorkUnits, state : States,
     worker_id : Workers \union {NoWorker}, expired : BOOLEAN]

Init ==
    /\ next_digit = InitialDigit
    /\ active_work_units = {}
    /\ finished = {}

(* Mutant: a unit may have no digits. *)
UnitSizeUnclamped(d) == Quota(d)

(* The number of digits of a unit that starts at d: at least one. *)
UnitSize(d) == IF Quota(d) < 1 THEN 1 ELSE Quota(d)

(* Mutant: an orphaned unit is available at once. *)
AvailableAtOnce(c) == c.state \in {"DISOWNED", "ORPHANED"}

Available(c) ==
    \/ c.state = "DISOWNED"
    \/ c.state = "ORPHANED" /\ c.expired

(***************************************************************************)
(* find_available_work_unit: the first available unit becomes w's.  The    *)
(* clock goes on during the search, so a unit whose timeout has only just  *)
(* passed may be missed; a disowned one is not.                            *)
(***************************************************************************)
NeverMissed(c) == c.state = "DISOWNED"

Claim(w, c) ==
    /\ c \in active_work_units
    /\ Available(c)
    /\ \A o \in active_work_units :
         NeverMissed(o) => c.work_unit.start <= o.work_unit.start
    /\ active_work_units' = (active_work_units \ {c}) \union
         {[c EXCEPT !.state = "OWNED", !.worker_id = w, !.expired = FALSE]}
    /\ UNCHANGED <<next_digit, finished>>

(* Mutant: the digits of a unit are not counted as given away. *)
DispatchNewUncounted(w) ==
    /\ next_digit < MaxDigit
    /\ active_work_units' = active_work_units \union
         {[work_unit |-> [start |-> next_digit, n_digits |-> UnitSize(next_digit)],
           state |-> "OWNED", worker_id |-> w, expired |-> FALSE]}
    /\ next_digit' = next_digit + UnitSize(next_digit) - 1
    /\ UNCHANGED finished

(* dispatch_new_work_unit: the search found nothing, a new unit is cut. *)
DispatchNew(w) ==
    /\ \A c \in active_work_units : ~NeverMissed(c)
    /\ next_digit < MaxDigit
    /\ active_work_units' = active_work_units \union
         {[work_unit |-> [start |-> next_digit, n_digits |-> UnitSize(next_digit)],
           state |-> "OWNED", worker_id |-> w, expired |-> FALSE]}
    /\ next_digit' = next_digit + UnitSize(next_digit)
    /\ UNCHANGED finished

assign_work_unit(w) ==
    (\E c \in active_work_units : Claim(w, c)) \/ DispatchNew(w)

(* Mutant: a disowned unit keeps the worker id it had. *)
MarkedKept(c, s) ==
    [c EXCEPT !.state = s, !.expired = FALSE]

(* What mark_all does to a unit of the worker. *)
Marked(c, s) ==
    [c EXCEPT !.state = s,
              !.expired = FALSE,
              !.worker_id = IF s = "DISOWNED" THEN NoWorker ELSE @]

(***************************************************************************)
(* mark_owned (HELO), mark_orphaned (connection lost) and mark_disowned    *)
(* (goodbye): every unit of the worker changes state.                      *)
(***************************************************************************)
MarkAll(w, s) ==
    /\ active_work_units' =
         {IF c.worker_id = w THEN Marked(c, s) ELSE c : c \in active_work_units}
    /\ UNCHANGED <<next_digit, finished>>

(* An orphaned unit has waited for longer than the timeout. *)
Expire(c) ==
    /\ c \in active_work_units
    /\ c.state = "ORPHANED"
    /\ ~c.expired
    /\ active_work_units' = (active_work_units \ {c}) \union
                              {[c EXCEPT !.expired = TRUE]}
    /\ UNCHANGED <<next_digit, finished>>

(* Mutant: the result removes the units before it too. *)
SubmitEarlier(start) ==
    /\ active_work_units' =
         {c \in active_work_units : c.work_unit.start > start}
    /\ finished' = finished \union
         {c.work_unit : c \in {o \in active_work_units : o.work_unit.start = start}}
    /\ UNCHANGED next_digit

(***************************************************************************)
(* submit_result: the result, whoever computed it, removes the unit with   *)
(* its start; a result of a unit that has one already removes nothing.     *)
(***************************************************************************)
Submit(start) ==
    /\ active_work_units' =
         {c \in active_work_units : c.work_unit.start # start}
    /\ finished' = finished \union
         {c.work_unit : c \in {o \in active_work_units : o.work_unit.start = start}}
    /\ UNCHANGED next_digit

Next ==
    \/ \E w \in Workers : assign_work_unit(w)
    \/ \E w \in Workers, s \in States : MarkAll(w, s)
    \/ \E c \in active_work_units : Expire(c)
    \/ \E start \in 0..next_digit : Submit(start)

Spec == Init /\ [][Next]_vars

-----------------------------------------------------------------------------

TypeOK ==
    /\ next_digit \in Nat
    /\ active_work_units \subseteq ControlBlocks
    /\ finished \subseteq WorkUnits

Units == {c.work_unit : c \in active_work_units} \union finished
Covers(u, d) == u.start <= d /\ d < u.start + u.n_digits

(***************************************************************************)
(* The units cut so far tile the digits given away: each digit from the    *)
(* first one on is in one unit and in one only, whatever happened to the   *)
(* workers.  A gap would stall the combiner for ever, an overlap is work   *)
(* done twice.                                                             *)
(***************************************************************************)
Tiling ==
    \A d \in InitialDigit..(next_digit - 1) :
        /\ \E u \in Units : Covers(u, d)
        /\ \A u, v \in Units : Covers(u, d) /\ Covers(v, d) => u = v

(* No unit reaches outside the digits given away. *)
WithinBounds ==
    /\ InitialDigit <= next_digit
    /\ \A u \in Units :
          InitialDigit <= u.start /\ u.start + u.n_digits <= next_digit

(***************************************************************************)
(* No digit is forgotten: what no result has come for is in the active     *)
(* list, once, so some request will be answered with it.                   *)
(***************************************************************************)
NothingForgotten ==
    \A d \in InitialDigit..(next_digit - 1) :
        (\A u \in finished : ~Covers(u, d)) =>
            \E c \in active_work_units : 
                /\ Covers(c.work_unit, d)
                /\ \A o \in active_work_units :
                      Covers(o.work_unit, d) => o = c

(***************************************************************************)
(* "Worker ID of the worker who owns or has orphaned this work unit": a    *)
(* unit has a worker exactly when it is owned or orphaned, so a unit that  *)
(* loses its worker can always be marked and claimed again.                *)
(***************************************************************************)
OwnerKnown ==
    \A c \in active_work_units : c.state = "DISOWNED" <=> c.worker_id = NoWorker

(***************************************************************************)
(* A unit passes from one worker to another only once it was orphaned for  *)
(* the whole timeout or disowned: a worker that comes back in time finds   *)
(* its units as it left them.                                              *)
(***************************************************************************)
KeptForOwner ==
    [][\A c \in active_work_units, d \in active_work_units' :
         (c.work_unit = d.work_unit /\ c.worker_id # d.worker_id) =>
             \/ c.state = "DISOWNED"
             \/ c.state = "ORPHANED" /\ c.expired
             \/ d.state = "DISOWNED"]_vars
=============================================================================
