------------------------------- MODULE Amounts -------------------------------
(***************************************************************************)
(* Arithmetic on byte counts: the sizes of the config and of the panel's   *)
(* store (src/src/config.rs), the split of a bill reported to subscription *)
(* clients (src/src/api.rs), and the sessions of a UDP shard               *)
(* (src/src/udp.rs).                                                       *)
(*                                                                         *)
(* The widths are parameters: u64 is Width = 64, the mantissa of f64 has   *)
(* Bits = 53, and a unit is UnitBits = 10 bits above the one before it.    *)
(***************************************************************************)
EXTENDS Integers, FiniteSets, FiniteSetsExt

CONSTANTS Width, Bits, UnitBits

ASSUME WidthsAssumption ==
    /\ {Width, Bits, UnitBits} \subseteq Nat \ {0}
    /\ Bits <= Width /\ 4 * UnitBits <= Width

\* Division rounding up.
div_ceil(a, b) == (a + b - 1) \div b

-----------------------------------------------------------------------------
(***************************************************************************)
(* ByteSize.  A size in text is a whole count of a unit.                   *)
(***************************************************************************)
\* 0 is bytes, 1 to 4 are KB to TB.
UNITS == 0..4
UnitSize(unit) == 2 ^ (unit * UnitBits)

\* Mutant: the unit is the largest that is not above the size.
serialize_Largest(b) ==
    LET unit == Max({u \in UNITS : UnitSize(u) <= b \/ u = 0})
    IN  [count |-> b \div UnitSize(unit), unit |-> unit]

\* The largest unit that divides the size; a size no unit divides, and zero, is
\* written as a number of bytes.
serialize(b) ==
    LET unit == Max({u \in UNITS : b # 0 /\ b % UnitSize(u) = 0} \cup {0})
    IN  [count |-> b \div UnitSize(unit), unit |-> unit]

\* The integer n as an f64: the nearest number with Bits significant bits, the
\* even one of two.
F64(n) ==
    LET step == 2 ^ Min({k \in 0..Width : n < 2 ^ (Bits + k)})
        low == n \div step
        up == 2 * (n % step) > step \/ (2 * (n % step) = step /\ low % 2 = 1)
    IN  step * (IF up THEN low + 1 ELSE low)

OutOfRange == -1

\* Mutant: the largest size is not accepted back.
parse_size_Strict(size) ==
    LET bytes == F64(size.count) * UnitSize(size.unit)
    IN  IF bytes >= 2 ^ Width - 1 THEN OutOfRange ELSE bytes

\* The bound is u64::MAX as an f64, which is 2^Width; the cast saturates.
parse_size(size) ==
    LET bytes == F64(size.count) * UnitSize(size.unit)
    IN  IF bytes > 2 ^ Width THEN OutOfRange ELSE Min({bytes, 2 ^ Width - 1})

\* Reading a size back: a number is taken as it is, a text is parsed.
deserialize(size) == IF size.unit = 0 THEN size.count ELSE parse_size(size)

-----------------------------------------------------------------------------
\* Mutant: both parts are rounded down.
billed_split_Floor(up, down, bill) ==
    LET total == up + down
        used == Min({bill, total})
    IN  IF total = 0 THEN <<0, 0>> ELSE <<(used * up) \div total, (used * down) \div total>>

\* The bill shared out over the two directions in proportion to their traffic.
billed_split(up, down, bill) ==
    LET total == up + down
        used == Min({bill, total})
        billed_up == (used * up) \div total
    IN  IF total = 0 THEN <<0, 0>> ELSE <<billed_up, used - billed_up>>

\* Mutant: the division rounds down.
per_shard_Floor(max_sessions, shards) == max_sessions \div Max({shards, 1})

\* How many sessions each of the shards of a rule admits.
per_shard(max_sessions, shards) == div_ceil(max_sessions, Max({shards, 1}))
=============================================================================
