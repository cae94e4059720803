----------------------------- MODULE Resources -----------------------------
(***************************************************************************)
(* The limits of a deployment (pkg/server/resources.go).  A quantity is    *)
(* what its text denotes: nothing, something unreadable, or a fraction     *)
(* with a unit.                                                            *)
(***************************************************************************)
EXTENDS Integers

CONSTANTS
  MaxInt,              \* the largest int64
  Kilo, Kibi,          \* 1000 and 1024: what decimal and binary units are powers of
  DefaultNanoCPUs, DefaultMemoryBytes

ASSUME MaxIntAssumption ==
  /\ MaxInt \in Nat \ {0} /\ Kilo \in Nat \ {0} /\ Kibi \in Nat \ {0}
  /\ DefaultNanoCPUs \in 1..MaxInt /\ DefaultMemoryBytes \in 1..MaxInt

Absent == [text |-> "absent"]        \* missing, or blank once trimmed
Malformed == [text |-> "malformed"]

Quantity(num, den, unit) == [text |-> "number", num |-> num, den |-> den, unit |-> unit]

Accepted(n) == [ok |-> TRUE, value |-> n]
Rejected == [ok |-> FALSE, value |-> 0]

CPUUnits == {"", "m"}

CPUFactor(unit) == IF unit = "m" THEN Kilo * Kilo ELSE Kilo * Kilo * Kilo

\* A memory unit is the lower-case form of what was written.
MemoryUnits ==
  {"", "b", "byte", "bytes", "k", "kb", "m", "mb", "g", "gb", "t", "tb",
   "ki", "kib", "mi", "mib", "gi", "gib", "ti", "tib"}

MemoryFactor(unit) ==
  CASE unit \in {"", "b", "byte", "bytes"} -> 1
    [] unit \in {"k", "kb"}   -> Kilo
    [] unit \in {"m", "mb"}   -> Kilo * Kilo
    [] unit \in {"g", "gb"}   -> Kilo * Kilo * Kilo
    [] unit \in {"t", "tb"}   -> Kilo * Kilo * Kilo * Kilo
    [] unit \in {"ki", "kib"} -> Kibi
    [] unit \in {"mi", "mib"} -> Kibi * Kibi
    [] unit \in {"gi", "gib"} -> Kibi * Kibi * Kibi
    [] unit \in {"ti", "tib"} -> Kibi * Kibi * Kibi * Kibi

RoundsUp(whole, part, den, factor) ==
  LET n == (part * factor) \div den + (IF (part * factor) % den = 0 THEN 0 ELSE 1)
  IN  IF whole > MaxInt \div factor \/ whole * factor > MaxInt - n
        THEN Rejected
        ELSE Accepted(whole * factor + n)

\* The rational times its factor, truncated; the whole part and the rest are
\* scaled separately, so that nothing larger than the result is computed.
Scale(whole, part, den, factor) ==
  IF whole > MaxInt \div factor
       \/ whole * factor > MaxInt - (part * factor) \div den
    THEN Rejected
    ELSE Accepted(whole * factor + (part * factor) \div den)

\* ratToInt64 refuses a negative number and one that does not fit.
RatToInt64(q, factor) ==
  IF q.num < 0 THEN Rejected ELSE Scale(q.num \div q.den, q.num % q.den, q.den, factor)

\* A memory size must begin with a digit, so a negative one is malformed.
ParseCPUNano(q) ==
  IF q.text # "number" \/ q.unit \notin CPUUnits THEN Rejected
  ELSE RatToInt64(q, CPUFactor(q.unit))

ParseMemoryBytes(q) ==
  IF q.text # "number" \/ q.num < 0 \/ q.unit \notin MemoryUnits THEN Rejected
  ELSE RatToInt64(q, MemoryFactor(q.unit))

\* A limit that is absent takes its default, one that cannot be read is an error
\* of the request.
EffectiveResourceLimits(cpu, memory) ==
  LET nano == IF cpu = Absent THEN Accepted(DefaultNanoCPUs) ELSE ParseCPUNano(cpu)
      mem  == IF memory = Absent THEN Accepted(DefaultMemoryBytes) ELSE ParseMemoryBytes(memory)
  IN  [ok |-> nano.ok /\ mem.ok,
       limits |-> [nanoCPUs |-> nano.value, memoryBytes |-> mem.value]]
=============================================================================
