-------------------------------- MODULE Uuid --------------------------------
(***************************************************************************)
(* wi_uuid.  Threads make UUIDs from a clock that may go back, with a      *)
(* counter for the calls in one tick of it; the rest of the module is what *)
(* a UUID is as fields, as bytes and as text.                              *)
(***************************************************************************)
EXTENDS Integers, FiniteSets, SequencesExt

CONSTANTS Makers,          \* threads that make UUIDs from the time
          PerTick,         \* times of a UUID in a microsecond: 10
          MaxAdjustment,   \* _WI_UUID_CLOCK_MAX_ADJUSTMENT: 10
          Sequences,       \* number of clock sequences: 0x4000
          MaxTicks,        \* bound of the clock
          MaxMade,         \* bound of the UUIDs made
          MaxBacks         \* bound of the steps back of the clock

ASSUME UuidAssumption == PerTick \in Nat \ {0} /\ MaxAdjustment \in Nat /\ Sequences \in Nat \ {0}

VARIABLES ticks, backs,    \* the clock of the system
          lastRead, adjustment, sequence,   \* the static variables of _wi_uuid_get_clock
          clockLock,       \* who holds _wi_uuid_clock_lock
          maker,           \* of each thread, where it is and its local variables
          made             \* the UUIDs made, in order

uuidVars == <<ticks, backs, lastRead, adjustment, sequence, clockLock, maker, made>>

\* `time' and `sequence' remember what the call itself has made of the clock and its sequence.
AtRest == [at |-> "idle", tv |-> 0, reg |-> 0, time |-> 0, sequence |-> 0]
Nobody == "nobody"

\* The first call sets the last time to a second ago.
UuidInit ==
    /\ ticks = 1 /\ backs = 0
    /\ lastRead = 0 /\ adjustment = 0 /\ sequence = 0
    /\ clockLock = Nobody
    /\ maker = [t \in Makers |-> AtRest]
    /\ made = <<>>

Tick == ticks < MaxTicks /\ ticks' = ticks + 1
        /\ UNCHANGED <<backs, lastRead, adjustment, sequence, clockLock, maker, made>>

TurnBack ==
    /\ backs < MaxBacks /\ ticks > 1
    /\ backs' = backs + 1
    /\ \E to \in 1 .. ticks - 1 : ticks' = to
    /\ UNCHANGED <<lastRead, adjustment, sequence, clockLock, maker, made>>

LockClock(t) ==
    /\ maker[t].at = "idle" /\ clockLock = Nobody
    /\ Len(made) + Cardinality({u \in Makers : maker[u].at # "idle"}) < MaxMade
    /\ clockLock' = t
    /\ maker' = [maker EXCEPT ![t].at = "reads"]
    /\ UNCHANGED <<ticks, backs, lastRead, adjustment, sequence, made>>

\* A bug to find: a clock that went back keeps its sequence.
SameSequence(tv) ==
    CASE tv < lastRead -> [sequence |-> sequence, adjustment |-> 0, lastRead |-> tv]
      [] tv = lastRead -> [sequence |-> sequence, adjustment |-> adjustment + 1, lastRead |-> lastRead]
      [] OTHER -> [sequence |-> sequence, adjustment |-> 0, lastRead |-> tv]

\* What a reading of the clock makes of the static variables; the adjustment of a tick is
\* used up behind its last value, and the loop goes round.
NextClock(tv) ==
    CASE tv < lastRead -> [sequence |-> (sequence + 1) % Sequences, adjustment |-> 0, lastRead |-> tv]
      [] tv = lastRead -> [sequence |-> sequence, adjustment |-> adjustment + 1, lastRead |-> lastRead]
      [] OTHER -> [sequence |-> sequence, adjustment |-> 0, lastRead |-> tv]

UsedUp == ticks = lastRead /\ adjustment >= MaxAdjustment

\* One turn of the loop that leaves it, with the unlock behind it.
ReadClock(t) ==
    LET clock == NextClock(ticks)
    IN  /\ maker[t].at = "reads" /\ ~UsedUp
        /\ lastRead' = clock.lastRead /\ adjustment' = clock.adjustment /\ sequence' = clock.sequence
        /\ clockLock' = Nobody
        /\ maker' = [maker EXCEPT ![t] = [at |-> "adjusts", tv |-> ticks, reg |-> 0,
                                          time |-> ticks * PerTick + clock.adjustment,
                                          sequence |-> clock.sequence]]
        /\ UNCHANGED <<ticks, backs, made>>

\* The static variables are read without the lock, one after the other: another call may have
\* changed them.
ReadAdjustment(t) ==
    /\ maker[t].at = "adjusts"
    /\ maker' = [maker EXCEPT ![t].at = "sequences", ![t].reg = maker[t].tv * PerTick + adjustment]
    /\ UNCHANGED <<ticks, backs, lastRead, adjustment, sequence, clockLock, made>>

ReadSequence(t) ==
    /\ maker[t].at = "sequences"
    /\ made' = Append(made, [time |-> maker[t].reg, sequence |-> sequence,
                             mixed |-> maker[t].reg # maker[t].time \/ sequence # maker[t].sequence,
                             full |-> maker[t].time >= maker[t].tv * PerTick + PerTick])
    /\ maker' = [maker EXCEPT ![t] = AtRest]
    /\ UNCHANGED <<ticks, backs, lastRead, adjustment, sequence, clockLock>>

UuidNext ==
    \/ Tick
    \/ TurnBack
    \/ \E t \in Makers : LockClock(t) \/ ReadClock(t) \/ ReadAdjustment(t) \/ ReadSequence(t)

UuidSpec == UuidInit /\ [][UuidNext]_uuidVars

(***************************************************************************)
(* Two UUIDs made from the time are not the same, whatever the clock does  *)
(* and however the calls interleave, but for two cases: the call of one    *)
(* found an adjustment or a sequence that is not its own, because another  *)
(* call changed it after the unlock; or it used the last adjustment, which *)
(* is the first one of the next microsecond (_wi_uuid_get_clock).          *)
(***************************************************************************)
UuidsDiffer ==
    \A i, j \in DOMAIN made :
        i # j /\ made[i].time = made[j].time /\ made[i].sequence = made[j].sequence
            => \E k \in {i, j} : made[k].mixed \/ made[k].full

(***************************************************************************)
(* A UUID as fields, as its buffer of bytes and as text.                   *)
(***************************************************************************)
CONSTANTS Byte,            \* values of a byte: 256
          VersionTop,      \* what the version counts in time_hi_and_version: 0x1000
          VariantTop       \* what the variant counts in clock_seq: 0x4000

\* How many bytes each field has in the buffer; the text has two digits for each of them.
Widths == <<4, 2, 2, 2, 1, 1, 1, 1, 1, 1>>
Starts == [f \in DOMAIN Widths |-> FoldLeft(+, 1, SubSeq(Widths, 1, f - 1))]

FromBytes(bytes) == FoldLeft(LAMBDA v, b : v * Byte + b, 0, bytes)
ToBytes(v, n) == [i \in 1 .. n |-> (v \div (Byte ^ (n - i))) % Byte]

uuid_init_with_bytes(bytes) ==
    [f \in DOMAIN Widths |-> FromBytes(SubSeq(bytes, Starts[f], Starts[f] + Widths[f] - 1))]

uuid_pack_buffer(uuid) == FlattenSeq([f \in DOMAIN Widths |-> ToBytes(uuid[f], Widths[f])])

uuid_init_from_random_data(bytes) ==
    [uuid_init_with_bytes(bytes) EXCEPT ![3] = (@ % VersionTop) + 4 * VersionTop,
                                        ![4] = (@ % VariantTop) + 2 * VariantTop]

\* The numbers "%08X" and its like print, with clock_seq in two parts; sscanf has to find all of them.
uuid_string(uuid) ==
    SubSeq(uuid, 1, 3) \o <<uuid[4] \div Byte, uuid[4] % Byte>> \o SubSeq(uuid, 5, 10)

uuid_init_with_string(numbers) ==
    IF Len(numbers) # 11 THEN <<>>
    ELSE SubSeq(numbers, 1, 3) \o <<numbers[4] * Byte + numbers[5]>> \o SubSeq(numbers, 6, 11)

=============================================================================
