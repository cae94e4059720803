--------------------------- MODULE DeploymentProofs --------------------------
(***************************************************************************)
(* Theorems about Deployment, for any archives, quantities, addresses and  *)
(* numbers of replicas, with or without the autoscaler.                    *)
(***************************************************************************)
EXTENDS Deployment, SequenceTheorems, WellFoundedInduction, TLAPS

\* Up to the replacement's handler.
Preparing ==
  {"parts", "download", "refused", "create", "unzip", "limits", "folder", "copy", "image",
   "network", "removeFolder"}

\* The replacement has a handler that is not listed yet.
Replacing == {"drain", "start", "add", "commit"}

\* The folder of the extracted files will be looked after.
Extracted ==
  {"unzip", "limits", "folder", "copy", "image", "network", "removeFolder", "discard",
   "destroyOld", "succeed", "cleanup"} \cup Replacing

Maybe == HandlerState(IPs) \cup {None}

Types ==
  /\ listed \in Maybe /\ new \in Maybe /\ old \in Maybe
  /\ replaced \in BOOLEAN
  /\ DOMAIN content = {"archive", "subfolder", "files", "limits", "asked"}

Fresh ==
  /\ pc \in Preparing \cup {"idle"} =>
       failed = {} /\ answer = 0 /\ new = None /\ ~replaced
  /\ pc = "idle" => disk = {} /\ docker = {} /\ content = NoContent

\* What may be left of a deployment at any point of it.
Leftovers ==
  /\ "archive" \in disk =>
       \/ "removeArchive" \in failed
       \/ "zip" \in parts /\ pc # "answered"
  /\ "tempDir" \in disk =>
       \/ pc \in Extracted
       \/ failed \cap {"unzip", "cleanup"} # {} \/ content.subfolder # << >>
  /\ "buildDir" \in disk =>
       \/ pc \in {"copy", "image", "network", "removeFolder"}
       \/ failed \cap {"folder", "copy", "image", "network", "removeFolder"} # {}
  /\ docker # {} =>
       \/ pc \in {"network", "removeFolder"}
       \/ failed \cap {"image", "network", "removeFolder"} # {}

Gone(h) == h # None => h.phase = "down" /\ ~h.image

\* The listed handler, and the one that is not listed: first the replacement,
\* after the commit the old one.
Handlers ==
  /\ listed # None => listed.image
  /\ pc # "idle" /\ ~replaced =>
       /\ listed = None <=> old = None
       /\ new = None \/ ~AutoscalerEnabled => listed = old
  /\ pc \in Replacing => new # None /\ new.image
  /\ pc = "drain" => listed # None /\ AutoscalerEnabled
  /\ pc \in {"add", "commit"} => new.phase = "up"
  /\ pc = "commit" => new.ips # {}
  /\ pc \in {"discard", "destroyOld"} => new # None
  /\ pc \in Replacing \cup {"discard"} => ~replaced
  /\ pc \in {"destroyOld", "succeed"} => replaced
  /\ replaced => listed # None /\ listed.phase = "up" /\ listed.ips # {}
  /\ pc \notin Replacing \cup {"discard", "destroyOld"} =>
       Gone(new) \/ failed \cap {"discard", "destroyOld"} # {}

\* When a request is answered 200.
Answers ==
  /\ pc \in Replacing \cup {"discard", "destroyOld", "succeed"} => answer = 0
  /\ pc = "succeed" \/ answer = 200 => replaced /\ Gone(new)
  /\ replaced /\ pc \notin {"destroyOld", "succeed"} =>
       answer = 200 \/ "destroyOld" \in failed

Limited ==
  content.asked # None =>
    \E cpu \in CPUs, memory \in Memories :
      LET r == EffectiveResourceLimits(cpu, memory)
      IN  /\ content.asked = [cpu |-> cpu, memory |-> memory]
          /\ "limits" \in failed <=> ~r.ok
          /\ content.limits = r.limits

IInv == Types /\ Fresh /\ Leftovers /\ Handlers /\ Answers /\ Limited

-----------------------------------------------------------------------------
(* What the contract allows an operation to answer. *)

LEMMA StateTyped ==
  ASSUME NEW p \in Phase, NEW image \in BOOLEAN, NEW ips \in SUBSET IPs
  PROVE  [phase |-> p, image |-> image, ips |-> ips] \in HandlerState(IPs)
  BY DEF HandlerState

LEMMA StartAnswers ==
  ASSUME NEW s \in HandlerState(IPs), NEW n,
         NEW r \in StartResults(s, FreeIPs, n)
  PROVE  /\ r.state \in HandlerState(IPs) /\ r.state.image = s.image
         /\ r.ok => r.state.phase = "up"
<1>1. s.image \in BOOLEAN
  BY DEF HandlerState
<1>2. CASE s.phase = "up"
  <2>1. r = [ok |-> TRUE, state |-> s]
    BY <1>2 DEF StartResults, Outcome
  <2> QED BY <1>2, <2>1
<1>3. CASE s.phase # "up"
  <2>1. ASSUME NEW ips \in SUBSET IPs,
               r = [ok |-> TRUE, state |-> [phase |-> "up", image |-> s.image, ips |-> ips]]
        PROVE  /\ r.state \in HandlerState(IPs) /\ r.state.image = s.image
               /\ r.ok => r.state.phase = "up"
    BY <1>1, <2>1, StateTyped DEF Phase
  <2>2. ASSUME NEW p \in Phase,
               r = [ok |-> FALSE, state |-> [phase |-> p, image |-> s.image, ips |-> {}]]
        PROVE  /\ r.state \in HandlerState(IPs) /\ r.state.image = s.image
               /\ r.ok => r.state.phase = "up"
    BY <1>1, <2>2, StateTyped
  <2>3. CASE r \in {Outcome(TRUE, WithRuntime(s, "up", a)) : a \in Placements(s, FreeIPs, n)}
    <3>1. PICK a \in Placements(s, FreeIPs, n) : r = Outcome(TRUE, WithRuntime(s, "up", a))
      BY <2>3
    <3>2. a \in SUBSET IPs
      BY DEF Placements, FreeIPs
    <3> QED BY <2>1, <3>1, <3>2 DEF Outcome, WithRuntime
  <2>4. CASE r \in {Outcome(FALSE, WithRuntime(s, p, {})) : p \in {"down", "partial"}}
    BY <2>2, <2>4 DEF Outcome, WithRuntime, Phase
  <2> QED BY <1>3, <2>3, <2>4 DEF StartResults
<1> QED BY <1>2, <1>3

LEMMA StopAnswers ==
  ASSUME NEW s \in HandlerState(IPs), NEW r \in StopResults(s)
  PROVE  r.state \in HandlerState(IPs) /\ r.state.image = s.image
<1>1. s.image \in BOOLEAN
  BY DEF HandlerState
<1>2. CASE s.phase = "down"
  <2>1. r = [ok |-> TRUE, state |-> s]
    BY <1>2 DEF StopResults, Outcome
  <2> QED BY <2>1
<1>3. CASE s.phase # "down"
  <2>1. PICK ok \in BOOLEAN, p \in Phase :
          r = [ok |-> ok, state |-> [phase |-> p, image |-> s.image, ips |-> {}]]
    BY <1>3 DEF StopResults, Outcome, WithRuntime, Phase
  <2> QED BY <1>1, <2>1, StateTyped
<1> QED BY <1>2, <1>3

LEMMA DestroyAnswers ==
  ASSUME NEW s \in HandlerState(IPs), NEW r \in DestroyResults(s)
  PROVE  /\ r.ok \in BOOLEAN /\ r.state \in HandlerState(IPs) /\ r.state.ips = {}
         /\ r.ok => r.state.phase = "down" /\ ~r.state.image
<1>1. s.image \in BOOLEAN
  BY DEF HandlerState
<1>2. CASE r = [ok |-> TRUE, state |-> [phase |-> "down", image |-> FALSE, ips |-> {}]]
  BY <1>2, StateTyped DEF Phase
<1>3. ASSUME NEW p \in {"partial", "down"}, NEW image \in BOOLEAN,
             r = [ok |-> FALSE, state |-> [phase |-> p, image |-> image, ips |-> {}]]
      PROVE  r.ok \in BOOLEAN /\ ~r.ok /\ r.state \in HandlerState(IPs) /\ r.state.ips = {}
  BY <1>3, StateTyped DEF Phase
<1>4. r \in {Outcome(TRUE, [phase |-> "down", image |-> FALSE, ips |-> {}])} \/
      r \in {Outcome(FALSE, [phase |-> pi[1], image |-> pi[2], ips |-> {}]) :
             pi \in {<<"partial", FALSE>>, <<"partial", s.image>>, <<"down", s.image>>}}
  BY DEF DestroyResults
<1>5. CASE r \in {Outcome(TRUE, [phase |-> "down", image |-> FALSE, ips |-> {}])}
  BY <1>2, <1>5 DEF Outcome
<1>6. CASE r \in {Outcome(FALSE, [phase |-> pi[1], image |-> pi[2], ips |-> {}]) :
             pi \in {<<"partial", FALSE>>, <<"partial", s.image>>, <<"down", s.image>>}}
  <2>1. PICK pi \in {<<"partial", FALSE>>, <<"partial", s.image>>, <<"down", s.image>>} :
          r = [ok |-> FALSE, state |-> [phase |-> pi[1], image |-> pi[2], ips |-> {}]]
    BY <1>6 DEF Outcome
  <2>2. CASE pi = <<"partial", FALSE>>
    BY <1>3, <2>1, <2>2
  <2>3. CASE pi = <<"partial", s.image>>
    BY <1>1, <1>3, <2>1, <2>3
  <2>4. CASE pi = <<"down", s.image>>
    BY <1>1, <1>3, <2>1, <2>4
  <2> QED BY <2>1, <2>2, <2>3, <2>4
<1> QED BY <1>4, <1>5, <1>6

-----------------------------------------------------------------------------
(* Arithmetic of the limits: scaling the whole part of a quantity and the  *)
(* rest of it separately is exact, and refuses exactly what does not fit.  *)

LEMMA Division ==
  ASSUME NEW a \in Int, NEW b \in Nat \ {0}
  PROVE  /\ a \div b \in Int /\ a % b \in 0..(b - 1)
         /\ a = (a \div b) * b + (a % b)
  OBVIOUS

\* A product grows with its factors.
LEMMA Product ==
  ASSUME NEW a \in Int, NEW b \in Nat, a >= 1
  PROVE  a * b >= b
  OBVIOUS

LEMMA QuotientUnique ==
  ASSUME NEW b \in Nat \ {0}, NEW k \in Int, NEW r \in 0..(b - 1)
  PROVE  (k * b + r) \div b = k
<1> DEFINE a == k * b + r
           c == a \div b
           s == a % b
<1>1. a \in Int /\ c \in Int /\ s \in 0..(b - 1) /\ a = c * b + s
  BY Division
<1>2. ~(k - c >= 1)
  <2> SUFFICES ASSUME k - c >= 1 PROVE FALSE
    OBVIOUS
  <2>1. (k - c) * b >= b
    BY <1>1, Product
  <2>2. (k - c) * b = s - r
    BY <1>1
  <2> QED BY <1>1, <2>1, <2>2
<1>3. ~(c - k >= 1)
  <2> SUFFICES ASSUME c - k >= 1 PROVE FALSE
    OBVIOUS
  <2>1. (c - k) * b >= b
    BY <1>1, Product
  <2>2. (c - k) * b = r - s
    BY <1>1
  <2> QED BY <1>1, <2>1, <2>2
<1> QED BY <1>1, <1>2, <1>3

\* Scaling the whole part and the rest separately gives the truncated product.
LEMMA SeparateScaling ==
  ASSUME NEW n \in Nat, NEW d \in Nat \ {0}, NEW f \in Nat \ {0}
  PROVE  (n \div d) * f + (((n % d) * f) \div d) = (n * f) \div d
<1> DEFINE w == n \div d
           p == n % d
           e == (p * f) \div d
           r == (p * f) % d
<1>1. w \in Int /\ p \in 0..(d - 1) /\ n = w * d + p
  BY Division
<1>2. p * f \in Int
  BY <1>1
<1>3. e \in Int /\ r \in 0..(d - 1) /\ p * f = e * d + r
  BY <1>2, Division
<1> HIDE DEF w, p, e, r
<1>4. n * f = (w * d) * f + p * f
  BY <1>1
<1>5. (w * d) * f = (w * f) * d
  BY <1>1
<1>6. n * f = (w * f + e) * d + r
  BY <1>1, <1>3, <1>4, <1>5
<1>7. w * f + e \in Int
  BY <1>1, <1>3
<1>8. (n * f) \div d = w * f + e
  BY <1>3, <1>6, <1>7, QuotientUnique
<1> QED BY <1>8 DEF w, e, p

\* Scale refuses exactly what does not fit, although it never computes it.
LEMMA ScaleExact ==
  ASSUME NEW n \in Nat, NEW d \in Nat \ {0}, NEW f \in Nat \ {0}
  PROVE  Scale(n \div d, n % d, d, f) =
           IF (n * f) \div d <= MaxInt THEN Accepted((n * f) \div d) ELSE Rejected
<1> DEFINE w == n \div d
           e == ((n % d) * f) \div d
           m == MaxInt \div f
<1>1. w \in Int /\ n % d \in 0..(d - 1)
  BY Division
<1>2. (n % d) * f \in Nat
  BY <1>1
<1>3. e \in Int /\ e >= 0
  <2> DEFINE r == ((n % d) * f) % d
  <2>1. e \in Int /\ r \in 0..(d - 1) /\ (n % d) * f = e * d + r
    BY <1>2, Division
  <2> HIDE DEF e, r
  <2>2. CASE e <= -1
    <3>1. (-e) * d >= d
      BY <2>1, <2>2, Product
    <3>2. e * d = -((-e) * d)
      BY <2>1
    <3> QED BY <1>2, <2>1, <3>1, <3>2
  <2> QED BY <2>1, <2>2
<1>4. w * f + e = (n * f) \div d
  BY SeparateScaling
<1>5. MaxInt \in Int /\ m \in Int /\ MaxInt < m * f + f
  BY MaxIntAssumption, Division
<1> HIDE DEF w, e, m
<1>6. w > m => w * f > MaxInt
  <2> SUFFICES ASSUME w > m PROVE w * f > MaxInt
    OBVIOUS
  <2>1. CASE w - m = 1
    BY <1>1, <1>5, <2>1
  <2>2. CASE w - m > 1
    <3>1. (w - m) * f >= f
      BY <1>1, <1>5, <2>2, Product
    <3>2. w * f = (w - m) * f + m * f
      BY <1>1, <1>5
    <3> QED BY <1>1, <1>5, <3>1, <3>2
  <2> QED BY <1>1, <1>5, <2>1, <2>2
<1>7. w > m \/ w * f > MaxInt - e <=> ~(w * f + e <= MaxInt)
  BY <1>1, <1>3, <1>5, <1>6
<1> QED BY <1>4, <1>7 DEF Scale, w, e, m
LEMMA RatToInt64Exact ==
  ASSUME NEW q, q.num \in Int, q.den \in Nat \ {0}, NEW f \in Nat \ {0}
  PROVE  /\ RatToInt64(q, f).ok <=> q.num >= 0 /\ Exact(q, f) <= MaxInt
         /\ RatToInt64(q, f).ok => RatToInt64(q, f).value = Exact(q, f)
<1>1. CASE q.num < 0
  BY <1>1 DEF RatToInt64, Rejected
<1>2. CASE q.num >= 0
  <2>1. RatToInt64(q, f) = Scale(q.num \div q.den, q.num % q.den, q.den, f)
    BY <1>2 DEF RatToInt64
  <2>2. ASSUME NEW n, n = q.num
        PROVE  Scale(n \div q.den, n % q.den, q.den, f) =
                 IF (n * f) \div q.den <= MaxInt THEN Accepted((n * f) \div q.den)
                 ELSE Rejected
    <3>1. n \in Nat
      BY <1>2, <2>2
    <3> QED BY <3>1, ScaleExact
  <2>3. RatToInt64(q, f) =
          IF Exact(q, f) <= MaxInt THEN Accepted(Exact(q, f)) ELSE Rejected
    BY <2>1, <2>2 DEF Exact
  <2> QED BY <1>2, <2>3 DEF Accepted, Rejected
<1> QED BY <1>1, <1>2

Requested(q, default, parsed) == IF q = Absent THEN Accepted(default) ELSE parsed

LEMMA CPUApplied ==
  ASSUME NEW q \in CPUs
  PROVE  LET r == Requested(q, DefaultNanoCPUs, ParseCPUNano(q))
             f == CPUFactor(q.unit)
         IN  /\ r.ok <=> Fits(q, CPUUnits, f)
             /\ r.ok => r.value = IF q = Absent THEN DefaultNanoCPUs ELSE Exact(q, f)
<1>1. CASE q = Absent
  BY <1>1 DEF Requested, Accepted, Fits
<1>2. CASE q = Malformed
  BY <1>2 DEF Requested, Rejected, Fits, Readable, ParseCPUNano, Malformed, Absent
<1>3. CASE q.text = "number" /\ q.num \in Int /\ q.den \in Nat \ {0}
  <2>1. q # Absent
    BY <1>3 DEF Absent
  <2>2. CPUFactor(q.unit) \in Nat \ {0}
    <3>1. Kilo \in Nat \ {0}
      BY MaxIntAssumption
    <3>2. Kilo * Kilo \in Nat \ {0}
      BY <3>1, Product
    <3>3. Kilo * Kilo * Kilo \in Nat \ {0}
      BY <3>1, <3>2, Product
    <3> QED BY <3>2, <3>3 DEF CPUFactor
  <2> QED BY <1>3, <2>1, <2>2, RatToInt64Exact
      DEF Requested, Rejected, Fits, Readable, ParseCPUNano
<1> QED BY <1>1, <1>2, <1>3, QuantitiesAssumption

\* The factor of every unit is positive.
LEMMA FactorTyped ==
  ASSUME NEW u \in MemoryUnits
  PROVE  MemoryFactor(u) \in Nat \ {0}
<1>1. Kilo \in Nat \ {0} /\ Kibi \in Nat \ {0}
  BY MaxIntAssumption
<1>2. ASSUME NEW k \in Nat \ {0}, NEW m \in Nat \ {0} PROVE k * m \in Nat \ {0}
  BY <1>2, Product
<1> DEFINE Factors(k) == {1, k, k * k, k * k * k, k * k * k * k}
<1>3. ASSUME NEW k \in Nat \ {0} PROVE Factors(k) \subseteq Nat \ {0}
  <2>1. k * k \in Nat \ {0}
    BY <1>2
  <2>2. k * k * k \in Nat \ {0}
    BY <1>2, <2>1
  <2>3. k * k * k * k \in Nat \ {0}
    BY <1>2, <2>2
  <2> QED BY <2>1, <2>2, <2>3
<1>4. MemoryFactor(u) \in Factors(Kilo) \cup Factors(Kibi)
  <2>1. CASE u \in {"", "b", "byte", "bytes"}
    BY <2>1 DEF MemoryFactor
  <2>2. CASE u \in {"k", "kb"}
    BY <2>2 DEF MemoryFactor
  <2>3. CASE u \in {"m", "mb"}
    BY <2>3 DEF MemoryFactor
  <2>4. CASE u \in {"g", "gb"}
    BY <2>4 DEF MemoryFactor
  <2>5. CASE u \in {"t", "tb"}
    BY <2>5 DEF MemoryFactor
  <2>6. CASE u \in {"ki", "kib"}
    BY <2>6 DEF MemoryFactor
  <2>7. CASE u \in {"mi", "mib"}
    BY <2>7 DEF MemoryFactor
  <2>8. CASE u \in {"gi", "gib"}
    BY <2>8 DEF MemoryFactor
  <2>9. CASE u \in {"ti", "tib"}
    BY <2>9 DEF MemoryFactor
  <2> QED BY <2>1, <2>2, <2>3, <2>4, <2>5, <2>6, <2>7, <2>8, <2>9 DEF MemoryUnits
<1> HIDE DEF Factors
<1> QED BY <1>1, <1>3, <1>4

LEMMA MemoryApplied ==
  ASSUME NEW q \in Memories
  PROVE  LET r == Requested(q, DefaultMemoryBytes, ParseMemoryBytes(q))
             f == MemoryFactor(q.unit)
         IN  /\ r.ok <=> Fits(q, MemoryUnits, f)
             /\ r.ok => r.value = IF q = Absent THEN DefaultMemoryBytes ELSE Exact(q, f)
<1>1. CASE q = Absent
  BY <1>1 DEF Requested, Accepted, Fits
<1>2. CASE q = Malformed
  BY <1>2 DEF Requested, Rejected, Fits, Readable, ParseMemoryBytes, Malformed, Absent
<1>3. CASE q.text = "number" /\ q.num \in Int /\ q.den \in Nat \ {0}
  <2>1. q # Absent
    BY <1>3 DEF Absent
  <2>2. q.unit \in MemoryUnits => MemoryFactor(q.unit) \in Nat \ {0}
    BY FactorTyped
  <2>3. CASE q.unit \in MemoryUnits
    BY <1>3, <2>1, <2>2, <2>3, RatToInt64Exact
    DEF Requested, Rejected, Fits, Readable, ParseMemoryBytes
  <2>4. CASE q.unit \notin MemoryUnits
    BY <1>3, <2>1, <2>4 DEF Requested, Rejected, Fits, Readable, ParseMemoryBytes
  <2> QED BY <2>3, <2>4
<1> QED BY <1>1, <1>2, <1>3, QuantitiesAssumption

-----------------------------------------------------------------------------
(* Every operation preserves the inductive invariant. *)

LEMMA IdleInv == ASSUME IInv, Idle PROVE IInv'
<1>1. listed \in HandlerState(IPs)
  BY DEF IInv, Types, Maybe, Idle
<1>2. /\ listed' \in HandlerState(IPs) /\ listed'.image = listed.image
      /\ listed' # None
  BY <1>1, DeploymentAssumption, StateTyped DEF Idle, WithRuntime, Phase, HandlerState
<1>3. Types'
  BY <1>2 DEF IInv, Types, Maybe, Idle, artifacts, request
<1>4. Fresh'
  BY DEF IInv, Fresh, Preparing, Idle, At, artifacts, request
<1>5. Leftovers'
  BY DEF IInv, Leftovers, Extracted, Replacing, Idle, At, artifacts, request
<1>6. Handlers'
  BY <1>2 DEF IInv, Handlers, Replacing, Gone, Fresh, Idle, At
<1>7. Answers'
  BY DEF IInv, Answers, Replacing, Gone, Idle, At
<1>8. Limited'
  BY DEF IInv, Limited, Idle, request
<1> QED BY <1>3, <1>4, <1>5, <1>6, <1>7, <1>8 DEF IInv

LEMMA UploadInv == ASSUME IInv, Upload PROVE IInv'
<1>1. Types'
  BY DEF IInv, Types, Maybe, Upload, artifacts, handlers, request
<1>2. Fresh'
  BY DEF IInv, Fresh, Preparing, Upload, At, artifacts, handlers, request
<1>3. Leftovers'
  BY DEF IInv, Leftovers, Extracted, Replacing, Upload, At, artifacts, request
<1>4. Handlers'
  BY DEF IInv, Handlers, Replacing, Gone, Upload, At, handlers
<1>5. Answers'
  BY DEF IInv, Answers, Replacing, Gone, Upload, At, handlers
<1>6. Limited'
  BY DEF IInv, Limited, Upload, request
<1> QED BY <1>1, <1>2, <1>3, <1>4, <1>5, <1>6 DEF IInv

LEMMA UrlUploadInv == ASSUME IInv, UrlUpload PROVE IInv'
<1>1. Types'
  BY DEF IInv, Types, Maybe, NoContent, UrlUpload, artifacts, handlers
<1>2. Fresh'
  BY DEF IInv, Fresh, Preparing, UrlUpload, At, artifacts, handlers
<1>3. Leftovers'
  BY DEF IInv, Leftovers, Extracted, Replacing, Fresh, UrlUpload, At, artifacts
<1>4. Handlers'
  BY DEF IInv, Handlers, Replacing, Gone, UrlUpload, At, handlers
<1>5. Answers'
  BY DEF IInv, Answers, Replacing, Gone, UrlUpload, At, handlers
<1>6. Limited'
  BY DEF IInv, Limited, NoContent, UrlUpload
<1> QED BY <1>1, <1>2, <1>3, <1>4, <1>5, <1>6 DEF IInv

LEMMA RefuseInv == ASSUME IInv, Refuse PROVE IInv'
<1>1. Types'
  BY DEF IInv, Types, Maybe, Refuse, artifacts, handlers, request
<1>2. Fresh'
  BY DEF IInv, Fresh, Preparing, Refuse, At, artifacts, handlers, request
<1>3. Leftovers'
  BY DEF IInv, Leftovers, Extracted, Replacing, Refuse, At, artifacts, request
<1>4. Handlers'
  BY DEF IInv, Handlers, Replacing, Gone, Refuse, At, handlers
<1>5. Answers'
  BY DEF IInv, Answers, Replacing, Gone, Fresh, Preparing, Refuse, At, handlers
<1>6. Limited'
  BY DEF IInv, Limited, Refuse, request
<1> QED BY <1>1, <1>2, <1>3, <1>4, <1>5, <1>6 DEF IInv

LEMMA ReadMetadataInv == ASSUME IInv, ReadMetadata PROVE IInv'
<1>1. Types'
  BY DEF IInv, Types, Maybe, ReadMetadata, artifacts, handlers
<1>2. Fresh'
  BY DEF IInv, Fresh, Preparing, ReadMetadata, At, Step, artifacts, handlers
<1>3. Leftovers'
  BY DEF IInv, Leftovers, Extracted, Replacing, ReadMetadata, At, Step, artifacts
<1>4. Handlers'
  BY DEF IInv, Handlers, Replacing, Gone, ReadMetadata, At, Step, handlers
<1>5. Answers'
  BY DEF IInv, Answers, Replacing, Gone, ReadMetadata, At, Step, handlers
<1>6. Limited'
  BY DEF IInv, Limited, ReadMetadata, Step
<1> QED BY <1>1, <1>2, <1>3, <1>4, <1>5, <1>6 DEF IInv

LEMMA ReadZipInv == ASSUME IInv, ReadZip PROVE IInv'
<1>1. Types'
  BY DEF IInv, Types, Maybe, ReadZip, handlers
<1>2. Fresh'
  BY DEF IInv, Fresh, Preparing, ReadZip, At, Step, Fail, handlers
<1>3. Leftovers'
  BY DEF IInv, Leftovers, Extracted, Replacing, ReadZip, At, Step, Fail
<1>4. Handlers'
  BY DEF IInv, Handlers, Replacing, Gone, ReadZip, At, Step, Fail, handlers
<1>5. Answers'
  BY DEF IInv, Answers, Replacing, Gone, ReadZip, At, Step, Fail, handlers
<1>6. Limited'
  BY DEF IInv, Limited, ReadZip, Step, Fail
<1> QED BY <1>1, <1>2, <1>3, <1>4, <1>5, <1>6 DEF IInv

LEMMA LastPartInv == ASSUME IInv, LastPart PROVE IInv'
<1>1. Types'
  BY DEF IInv, Types, Maybe, LastPart, artifacts, handlers, request
<1>2. Fresh'
  BY DEF IInv, Fresh, Preparing, LastPart, At, Step, artifacts, handlers, request
<1>3. Leftovers'
  BY DEF IInv, Leftovers, Extracted, Replacing, LastPart, At, Step, artifacts, request
<1>4. Handlers'
  BY DEF IInv, Handlers, Replacing, Gone, LastPart, At, Step, handlers
<1>5. Answers'
  BY DEF IInv, Answers, Replacing, Gone, LastPart, At, Step, handlers
<1>6. Limited'
  BY DEF IInv, Limited, LastPart, Step, request
<1> QED BY <1>1, <1>2, <1>3, <1>4, <1>5, <1>6 DEF IInv

LEMMA DownloadInv == ASSUME IInv, Download PROVE IInv'
<1>1. Types'
  BY DEF IInv, Types, Maybe, Download, handlers
<1>2. Fresh'
  BY DEF IInv, Fresh, Preparing, Download, At, Step, Fail, handlers
<1>3. Leftovers'
  BY DEF IInv, Leftovers, Extracted, Replacing, Download, At, Step, Fail
<1>4. Handlers'
  BY DEF IInv, Handlers, Replacing, Gone, Download, At, Step, Fail, handlers
<1>5. Answers'
  BY DEF IInv, Answers, Replacing, Gone, Download, At, Step, Fail, handlers
<1>6. Limited'
  BY DEF IInv, Limited, Download, Step, Fail
<1> QED BY <1>1, <1>2, <1>3, <1>4, <1>5, <1>6 DEF IInv

LEMMA CreateFolderInv == ASSUME IInv, CreateFolder PROVE IInv'
<1>1. Types'
  BY DEF IInv, Types, Maybe, CreateFolder, handlers, request
<1>2. Fresh'
  BY DEF IInv, Fresh, Preparing, CreateFolder, At, Step, Fail, handlers, request
<1>3. Leftovers'
  BY DEF IInv, Leftovers, Extracted, Replacing, CreateFolder, At, Step, Fail, request
<1>4. Handlers'
  BY DEF IInv, Handlers, Replacing, Gone, CreateFolder, At, Step, Fail, handlers
<1>5. Answers'
  BY DEF IInv, Answers, Replacing, Gone, CreateFolder, At, Step, Fail, handlers
<1>6. Limited'
  BY DEF IInv, Limited, CreateFolder, Step, Fail, request
<1> QED BY <1>1, <1>2, <1>3, <1>4, <1>5, <1>6 DEF IInv

LEMMA UnzipArchiveInv == ASSUME IInv, UnzipArchive PROVE IInv'
<1>1. content'.asked = content.asked /\ content'.limits = content.limits
  BY DEF IInv, Types, UnzipArchive
<1>2. Types'
  BY DEF IInv, Types, Maybe, UnzipArchive, artifacts, handlers
<1>3. Fresh'
  BY DEF IInv, Fresh, Preparing, UnzipArchive, At, Step, Fail, artifacts, handlers
<1>4. Leftovers'
  BY DEF IInv, Leftovers, Extracted, Replacing, UnzipArchive, At, Step, Fail, artifacts
<1>5. Handlers'
  BY DEF IInv, Handlers, Replacing, Gone, UnzipArchive, At, Step, Fail, handlers
<1>6. Answers'
  BY DEF IInv, Answers, Replacing, Gone, UnzipArchive, At, Step, Fail, handlers
<1>7. Limited'
  BY <1>1 DEF IInv, Limited, UnzipArchive, Step, Fail
<1> QED BY <1>2, <1>3, <1>4, <1>5, <1>6, <1>7 DEF IInv

LEMMA ResolveLimitsInv == ASSUME IInv, ResolveLimits PROVE IInv'
<1>1. Types'
  BY DEF IInv, Types, Maybe, ResolveLimits, artifacts, handlers
<1>2. Fresh'
  BY DEF IInv, Fresh, Preparing, ResolveLimits, At, Step, Fail, artifacts, handlers
<1>3. Leftovers'
  BY DEF IInv, Leftovers, Extracted, Replacing, ResolveLimits, At, Step, Fail, artifacts
<1>4. Handlers'
  BY DEF IInv, Handlers, Replacing, Gone, ResolveLimits, At, Step, Fail, handlers
<1>5. Answers'
  BY DEF IInv, Answers, Replacing, Gone, ResolveLimits, At, Step, Fail, handlers
<1>6. Limited'
  <2>1. PICK cpu \in CPUs, memory \in Memories :
          LET r == EffectiveResourceLimits(cpu, memory)
          IN  /\ content' = [content EXCEPT !.limits = r.limits,
                                           !.asked = [cpu |-> cpu, memory |-> memory]]
              /\ IF r.ok THEN Step("folder") ELSE Fail("limits", "cleanup")
    BY DEF ResolveLimits
  <2>2. failed = {}
    BY DEF IInv, Fresh, Preparing, ResolveLimits, At
  <2>3. EffectiveResourceLimits(cpu, memory).ok \in BOOLEAN
    BY DEF EffectiveResourceLimits
  <2>4. /\ content'.limits = EffectiveResourceLimits(cpu, memory).limits
        /\ content'.asked = [cpu |-> cpu, memory |-> memory]
    BY <2>1 DEF IInv, Types
  <2> QED BY <2>1, <2>2, <2>3, <2>4 DEF Limited, Step, Fail
<1> QED BY <1>1, <1>2, <1>3, <1>4, <1>5, <1>6 DEF IInv

LEMMA PanicInv == ASSUME IInv, Panic PROVE IInv'
<1>1. Types'
  BY DEF IInv, Types, Maybe, Panic, artifacts, handlers, request
<1>2. Fresh'
  BY DEF IInv, Fresh, Preparing, Panic, At, Fail, artifacts, handlers, request
<1>3. Leftovers'
  BY DEF IInv, Leftovers, Extracted, Replacing, Panic, At, Fail, artifacts, request
<1>4. Handlers'
  BY DEF IInv, Handlers, Replacing, Gone, Panic, At, Fail, handlers
<1>5. Answers'
  BY DEF IInv, Answers, Replacing, Gone, Panic, At, Fail, handlers
<1>6. Limited'
  BY DEF IInv, Limited, Panic, Fail, request
<1> QED BY <1>1, <1>2, <1>3, <1>4, <1>5, <1>6 DEF IInv

LEMMA BuildFolderInv == ASSUME IInv, BuildFolder PROVE IInv'
<1>1. Types'
  BY DEF IInv, Types, Maybe, BuildFolder, handlers, request
<1>2. Fresh'
  BY DEF IInv, Fresh, Preparing, BuildFolder, At, Step, Fail, handlers, request
<1>3. Leftovers'
  BY DEF IInv, Leftovers, Extracted, Replacing, BuildFolder, At, Step, Fail, request
<1>4. Handlers'
  BY DEF IInv, Handlers, Replacing, Gone, BuildFolder, At, Step, Fail, handlers
<1>5. Answers'
  BY DEF IInv, Answers, Replacing, Gone, BuildFolder, At, Step, Fail, handlers
<1>6. Limited'
  BY DEF IInv, Limited, BuildFolder, Step, Fail, request
<1> QED BY <1>1, <1>2, <1>3, <1>4, <1>5, <1>6 DEF IInv

LEMMA CopySourcesInv == ASSUME IInv, CopySources PROVE IInv'
<1>1. content'.asked = content.asked /\ content'.limits = content.limits
  BY DEF IInv, Types, CopySources, Step
<1>2. Types'
  BY DEF IInv, Types, Maybe, CopySources, artifacts, handlers
<1>3. Fresh'
  BY DEF IInv, Fresh, Preparing, CopySources, At, Step, Fail, artifacts, handlers
<1>4. Leftovers'
  BY DEF IInv, Leftovers, Extracted, Replacing, CopySources, At, Step, Fail, artifacts
<1>5. Handlers'
  BY DEF IInv, Handlers, Replacing, Gone, CopySources, At, Step, Fail, handlers
<1>6. Answers'
  BY DEF IInv, Answers, Replacing, Gone, CopySources, At, Step, Fail, handlers
<1>7. Limited'
  BY <1>1 DEF IInv, Limited, CopySources, Step, Fail
<1> QED BY <1>2, <1>3, <1>4, <1>5, <1>6, <1>7 DEF IInv

LEMMA BuildImageInv == ASSUME IInv, BuildImage PROVE IInv'
<1>1. Types'
  BY DEF IInv, Types, Maybe, BuildImage, handlers, request
<1>2. Fresh'
  BY DEF IInv, Fresh, Preparing, BuildImage, At, Step, Fail, handlers, request
<1>3. Leftovers'
  BY DEF IInv, Leftovers, Extracted, Replacing, BuildImage, At, Step, Fail, request
<1>4. Handlers'
  BY DEF IInv, Handlers, Replacing, Gone, BuildImage, At, Step, Fail, handlers
<1>5. Answers'
  BY DEF IInv, Answers, Replacing, Gone, BuildImage, At, Step, Fail, handlers
<1>6. Limited'
  BY DEF IInv, Limited, BuildImage, Step, Fail, request
<1> QED BY <1>1, <1>2, <1>3, <1>4, <1>5, <1>6 DEF IInv

LEMMA CreateNetworkInv == ASSUME IInv, CreateNetwork PROVE IInv'
<1>1. Types'
  BY DEF IInv, Types, Maybe, CreateNetwork, handlers, request
<1>2. Fresh'
  BY DEF IInv, Fresh, Preparing, CreateNetwork, At, Step, Fail, handlers, request
<1>3. Leftovers'
  BY DEF IInv, Leftovers, Extracted, Replacing, CreateNetwork, At, Step, Fail, request
<1>4. Handlers'
  BY DEF IInv, Handlers, Replacing, Gone, CreateNetwork, At, Step, Fail, handlers
<1>5. Answers'
  BY DEF IInv, Answers, Replacing, Gone, CreateNetwork, At, Step, Fail, handlers
<1>6. Limited'
  BY DEF IInv, Limited, CreateNetwork, Step, Fail, request
<1> QED BY <1>1, <1>2, <1>3, <1>4, <1>5, <1>6 DEF IInv

LEMMA RemoveFolderInv == ASSUME IInv, RemoveFolder PROVE IInv'
<1>1. Created \in HandlerState(IPs) /\ Created.image /\ Created # None
  BY DeploymentAssumption, StateTyped DEF Created, Phase
<1>2. Types'
  BY <1>1 DEF IInv, Types, Maybe, RemoveFolder, request
<1>3. Fresh'
  BY DEF IInv, Fresh, Preparing, RemoveFolder, At, Step, Fail, request
<1>4. Leftovers'
  BY DEF IInv, Leftovers, Extracted, Replacing, RemoveFolder, At, Step, Fail, request
<1>5. Handlers'
  BY <1>1 DEF IInv, Handlers, Replacing, Gone, Fresh, Preparing, RemoveFolder, At,
     Step, Fail
<1>6. Answers'
  BY DEF IInv, Answers, Replacing, Gone, Fresh, Preparing, RemoveFolder, At, Step, Fail
<1>7. Limited'
  BY DEF IInv, Limited, RemoveFolder, Step, Fail, request
<1> QED BY <1>2, <1>3, <1>4, <1>5, <1>6, <1>7 DEF IInv

LEMMA DrainInv == ASSUME IInv, Drain PROVE IInv'
<1>1. listed \in HandlerState(IPs)
  BY DEF IInv, Types, Maybe, Handlers, Drain, At
<1>2. /\ listed' \in HandlerState(IPs) /\ listed'.image = listed.image
      /\ listed' # None
  BY <1>1, DeploymentAssumption, StopAnswers DEF Drain
<1>3. Types'
  BY <1>2 DEF IInv, Types, Maybe, Drain, artifacts, request
<1>4. Fresh'
  BY DEF IInv, Fresh, Preparing, Drain, At, Step, Fail, artifacts, request
<1>5. Leftovers'
  BY DEF IInv, Leftovers, Extracted, Replacing, Drain, At, Step, Fail, artifacts,
     request
<1>6. Handlers'
  BY <1>1, <1>2, DeploymentAssumption DEF IInv, Handlers, Replacing, Gone, Drain, At,
     Step, Fail
<1>7. Answers'
  BY DEF IInv, Answers, Replacing, Gone, Drain, At, Step, Fail
<1>8. Limited'
  BY DEF IInv, Limited, Drain, Step, Fail, request
<1> QED BY <1>3, <1>4, <1>5, <1>6, <1>7, <1>8 DEF IInv

LEMMA StartInv == ASSUME IInv, Start PROVE IInv'
<1>1. new \in HandlerState(IPs) /\ new.image
  BY DEF IInv, Types, Maybe, Handlers, Start, At, Replacing
<1>2. PICK n \in replicas \cap Nat : \E r \in StartResults(new, FreeIPs, n) :
        /\ new' = r.state
        /\ IF r.ok THEN Step("add") ELSE Fail("start", "discard")
  BY DEF Start
<1>3. PICK r \in StartResults(new, FreeIPs, n) :
        /\ new' = r.state
        /\ IF r.ok THEN Step("add") ELSE Fail("start", "discard")
  BY <1>2
<1>4. /\ new' \in HandlerState(IPs) /\ new'.image /\ new' # None
      /\ pc' = "add" => new'.phase = "up"
  BY <1>1, <1>3, DeploymentAssumption, StartAnswers DEF Step, Fail
<1>5. Types'
  BY <1>4 DEF IInv, Types, Maybe, Start, artifacts, request
<1>6. Fresh'
  BY DEF IInv, Fresh, Preparing, Start, At, Step, Fail, artifacts, request
<1>7. Leftovers'
  BY DEF IInv, Leftovers, Extracted, Replacing, Start, At, Step, Fail, artifacts,
     request
<1>8. Handlers'
  BY <1>3, <1>4 DEF IInv, Handlers, Replacing, Gone, Start, At, Step, Fail
<1>9. Answers'
  BY DEF IInv, Answers, Replacing, Gone, Start, At, Step, Fail
<1>10. Limited'
  BY DEF IInv, Limited, Start, Step, Fail, request
<1> QED BY <1>5, <1>6, <1>7, <1>8, <1>9, <1>10 DEF IInv

LEMMA AddRouteInv == ASSUME IInv, AddRoute PROVE IInv'
<1>1. Types'
  BY DEF IInv, Types, Maybe, AddRoute, artifacts, handlers, request
<1>2. Fresh'
  BY DEF IInv, Fresh, Preparing, AddRoute, At, Step, Fail, artifacts, handlers, request
<1>3. Leftovers'
  BY DEF IInv, Leftovers, Extracted, Replacing, AddRoute, At, Step, Fail, artifacts,
     request
<1>4. Handlers'
  BY DEF IInv, Handlers, Replacing, Gone, AddRoute, At, Step, Fail, handlers
<1>5. Answers'
  BY DEF IInv, Answers, Replacing, Gone, AddRoute, At, Step, Fail, handlers
<1>6. Limited'
  BY DEF IInv, Limited, AddRoute, Step, Fail, request
<1> QED BY <1>1, <1>2, <1>3, <1>4, <1>5, <1>6 DEF IInv

LEMMA CommitInv == ASSUME IInv, Commit PROVE IInv'
<1>1. Types'
  BY DEF IInv, Types, Maybe, Commit, artifacts, request
<1>2. Fresh'
  BY DEF IInv, Fresh, Preparing, Commit, At, Step, artifacts, request
<1>3. Leftovers'
  BY DEF IInv, Leftovers, Extracted, Replacing, Commit, At, Step, artifacts, request
<1>4. Handlers'
  BY DEF IInv, Handlers, Replacing, Gone, Commit, At, Step
<1>5. Answers'
  BY DEF IInv, Answers, Replacing, Gone, Commit, At, Step
<1>6. Limited'
  BY DEF IInv, Limited, Commit, Step, request
<1> QED BY <1>1, <1>2, <1>3, <1>4, <1>5, <1>6 DEF IInv

LEMMA DestroyOldInv == ASSUME IInv, DestroyOld PROVE IInv'
<1>1. new \in HandlerState(IPs)
  BY DEF IInv, Types, Maybe, Handlers, DestroyOld, At
<1>2. PICK r \in DestroyResults(new) :
        /\ new' = r.state
        /\ IF r.ok THEN Step("succeed") ELSE Fail("destroyOld", "cleanup")
  BY DEF DestroyOld
<1>3. new' \in HandlerState(IPs) /\ new' # None /\ (r.ok => Gone(new'))
  BY <1>1, <1>2, DeploymentAssumption, DestroyAnswers DEF Gone
<1>4. Types'
  BY <1>3 DEF IInv, Types, Maybe, DestroyOld, artifacts, request
<1>5. Fresh'
  BY DEF IInv, Fresh, Preparing, DestroyOld, At, Step, Fail, artifacts, request
<1>6. Leftovers'
  BY DEF IInv, Leftovers, Extracted, Replacing, DestroyOld, At, Step, Fail, artifacts,
     request
<1>7. Handlers'
  BY <1>2, <1>3 DEF IInv, Handlers, Replacing, Gone, DestroyOld, At, Step, Fail
<1>8. Answers'
  BY <1>2, <1>3 DEF IInv, Answers, Replacing, Gone, Handlers, DestroyOld, At, Step, Fail
<1>9. Limited'
  BY DEF IInv, Limited, DestroyOld, Step, Fail, request
<1> QED BY <1>4, <1>5, <1>6, <1>7, <1>8, <1>9 DEF IInv

LEMMA DiscardInv == ASSUME IInv, Discard PROVE IInv'
<1>1. new \in HandlerState(IPs)
  BY DEF IInv, Types, Maybe, Handlers, Discard, At
<1>2. PICK r \in DestroyResults(new) :
        /\ new' = r.state
        /\ IF r.ok THEN Step("cleanup") ELSE Fail("discard", "cleanup")
  BY DEF Discard
<1>3. new' \in HandlerState(IPs) /\ new' # None /\ (r.ok => Gone(new'))
  BY <1>1, <1>2, DeploymentAssumption, DestroyAnswers DEF Gone
<1>4. Types'
  BY <1>3 DEF IInv, Types, Maybe, Discard, artifacts, request
<1>5. Fresh'
  BY DEF IInv, Fresh, Preparing, Discard, At, Step, Fail, artifacts, request
<1>6. Leftovers'
  BY DEF IInv, Leftovers, Extracted, Replacing, Discard, At, Step, Fail, artifacts,
     request
<1>7. Handlers'
  BY <1>2, <1>3 DEF IInv, Handlers, Replacing, Gone, Discard, At, Step, Fail
<1>8. Answers'
  BY <1>2, <1>3 DEF IInv, Answers, Replacing, Gone, Handlers, Discard, At, Step, Fail
<1>9. Limited'
  BY DEF IInv, Limited, Discard, Step, Fail, request
<1> QED BY <1>4, <1>5, <1>6, <1>7, <1>8, <1>9 DEF IInv

LEMMA SucceedInv == ASSUME IInv, Succeed PROVE IInv'
<1>1. Types'
  BY DEF IInv, Types, Maybe, Succeed, artifacts, handlers, request
<1>2. Fresh'
  BY DEF IInv, Fresh, Preparing, Succeed, At, Step, artifacts, handlers, request
<1>3. Leftovers'
  BY DEF IInv, Leftovers, Extracted, Replacing, Succeed, At, Step, artifacts, request
<1>4. Handlers'
  BY DEF IInv, Handlers, Replacing, Gone, Succeed, At, Step, handlers
<1>5. Answers'
  BY DEF IInv, Answers, Replacing, Gone, Succeed, At, Step, handlers
<1>6. Limited'
  BY DEF IInv, Limited, Succeed, Step, request
<1> QED BY <1>1, <1>2, <1>3, <1>4, <1>5, <1>6 DEF IInv

LEMMA CleanupInv == ASSUME IInv, Cleanup PROVE IInv'
<1>1. Types'
  BY DEF IInv, Types, Maybe, Cleanup, handlers, request
<1>2. Fresh'
  BY DEF IInv, Fresh, Preparing, Cleanup, At, Step, Fail, handlers, request
<1>3. Leftovers'
  BY DEF IInv, Leftovers, Extracted, Replacing, Cleanup, At, Step, Fail, request
<1>4. Handlers'
  BY DEF IInv, Handlers, Replacing, Gone, Cleanup, At, Step, Fail, handlers
<1>5. Answers'
  BY DEF IInv, Answers, Replacing, Gone, Cleanup, At, Step, Fail, handlers
<1>6. Limited'
  BY DEF IInv, Limited, Cleanup, Step, Fail, request
<1> QED BY <1>1, <1>2, <1>3, <1>4, <1>5, <1>6 DEF IInv

LEMMA AnswerInv == ASSUME IInv, Answer PROVE IInv'
<1>1. Types'
  BY DEF IInv, Types, Maybe, Answer, artifacts, handlers, request
<1>2. Fresh'
  BY DEF IInv, Fresh, Preparing, Answer, At, Step, artifacts, handlers, request
<1>3. Leftovers'
  BY DEF IInv, Leftovers, Extracted, Replacing, Answer, At, Step, artifacts, request
<1>4. Handlers'
  BY DEF IInv, Handlers, Replacing, Gone, Answer, At, Step, handlers
<1>5. Answers'
  BY DEF IInv, Answers, Replacing, Gone, Answer, At, Step, handlers
<1>6. Limited'
  BY DEF IInv, Limited, Answer, Step, request
<1> QED BY <1>1, <1>2, <1>3, <1>4, <1>5, <1>6 DEF IInv

LEMMA RemoveArchiveInv == ASSUME IInv, RemoveArchive PROVE IInv'
<1>1. Types'
  BY DEF IInv, Types, Maybe, RemoveArchive, handlers, request
<1>2. Fresh'
  BY DEF IInv, Fresh, Preparing, RemoveArchive, At, Step, Fail, handlers, request
<1>3. Leftovers'
  BY DEF IInv, Leftovers, Extracted, Replacing, RemoveArchive, At, Step, Fail, request
<1>4. Handlers'
  BY DEF IInv, Handlers, Replacing, Gone, RemoveArchive, At, Step, Fail, handlers
<1>5. Answers'
  BY DEF IInv, Answers, Replacing, Gone, RemoveArchive, At, Step, Fail, handlers
<1>6. Limited'
  BY DEF IInv, Limited, RemoveArchive, Step, Fail, request
<1> QED BY <1>1, <1>2, <1>3, <1>4, <1>5, <1>6 DEF IInv

LEMMA ReturnInv == ASSUME IInv, Return PROVE IInv'
<1>1. Types'
  BY DEF IInv, Types, Maybe, NoContent, Return
<1>2. Fresh'
  BY DEF IInv, Fresh, Preparing, Return, At
<1>3. Leftovers'
  BY DEF IInv, Leftovers, Extracted, Replacing, Return, At
<1>4. Handlers'
  BY DEF IInv, Handlers, Replacing, Gone, Return, At
<1>5. Answers'
  BY DEF IInv, Answers, Replacing, Gone, Return, At
<1>6. Limited'
  BY DEF IInv, Limited, NoContent, Return
<1> QED BY <1>1, <1>2, <1>3, <1>4, <1>5, <1>6 DEF IInv

-----------------------------------------------------------------------------
(* The inductive invariant. *)

LEMMA InitInv == ASSUME Init PROVE IInv
<1>1. Types
  BY DEF Init, NoContent, Types, Maybe
<1>2. Fresh
  BY DEF Init, Fresh
<1>3. Leftovers
  BY DEF Init, Leftovers
<1>4. Handlers
  BY DEF Init, Handlers, Gone, Replacing
<1>5. Answers
  BY DEF Init, Answers, Replacing
<1>6. Limited
  BY DEF Init, NoContent, Limited
<1> QED BY <1>1, <1>2, <1>3, <1>4, <1>5, <1>6 DEF IInv

LEMMA StutterInv == ASSUME IInv, UNCHANGED vars PROVE IInv'
  BY DEF vars, artifacts, handlers, request, IInv, Types, Maybe, Fresh, Preparing,
         Leftovers, Extracted, Handlers, Gone, Replacing, Answers, Limited

LEMMA StepInv == IInv /\ [Next]_vars => IInv'
  BY IdleInv, UploadInv, UrlUploadInv, RefuseInv, ReadMetadataInv, ReadZipInv,
     LastPartInv,
     DownloadInv, CreateFolderInv, UnzipArchiveInv, ResolveLimitsInv, PanicInv,
     BuildFolderInv, CopySourcesInv, BuildImageInv, CreateNetworkInv, RemoveFolderInv,
     DrainInv, StartInv, AddRouteInv, CommitInv, DestroyOldInv, DiscardInv, SucceedInv,
     CleanupInv, AnswerInv, RemoveArchiveInv, ReturnInv, StutterInv
  DEF Next

LEMMA Invariance == Spec => []IInv
<1>1. Init => IInv
  BY InitInv
<1>2. IInv /\ [Next]_vars => IInv'
  BY StepInv
<1> QED BY <1>1, <1>2, PTL DEF Spec

\* A deployment leaves nothing behind, whichever way it ends, but what the code
\* could not remove or returns without removing (the deferred calls of
\* createFunction and of the two upload handlers).
THEOREM LeftoversAlwaysAccounted == Spec => []LeftoversAccounted
<1>1. IInv => LeftoversAccounted
  BY DEF IInv, Leftovers, Extracted, Replacing, Handlers, Gone, Types, Maybe,
     HandlerState,
         LeftoversAccounted, ArchiveRemoved, FoldersAccounted, DockerAccounted, At
<1> QED BY <1>1, Invariance, PTL

\* A deployment has taken effect when its client was told so, and not otherwise,
\* but for an old handler that cannot be destroyed (createFunction around the
\* commit).
THEOREM AlwaysAllOrNothing == Spec => []AllOrNothing
<1>1. IInv => AllOrNothing
  BY DEF IInv, Handlers, Answers, Gone, Types, Maybe, HandlerState, Replacing,
         AllOrNothing, FailureKeepsOld, SuccessMeansReplaced, At
<1> QED BY <1>1, Invariance, PTL

\* Limits are the largest whole number of nano-CPUs and bytes that is not above
\* what was asked for, and the deployments refused are those that asked for what
\* cannot be read or does not fit (resources.go), whatever the quantities are.
THEOREM LimitsAlwaysApplied == Spec => []LimitsApplied
<1>1. IInv => LimitsApplied
  <2> SUFFICES ASSUME Limited, content.asked # None PROVE LimitsApplied
    BY DEF IInv, LimitsApplied
  <2>1. PICK cpu \in CPUs, memory \in Memories :
          LET r == EffectiveResourceLimits(cpu, memory)
          IN  /\ content.asked = [cpu |-> cpu, memory |-> memory]
              /\ "limits" \in failed <=> ~r.ok
              /\ content.limits = r.limits
    BY DEF Limited
  <2> DEFINE nano == Requested(cpu, DefaultNanoCPUs, ParseCPUNano(cpu))
             mem == Requested(memory, DefaultMemoryBytes, ParseMemoryBytes(memory))
  <2>2. EffectiveResourceLimits(cpu, memory) =
          [ok |-> nano.ok /\ mem.ok,
           limits |-> [nanoCPUs |-> nano.value, memoryBytes |-> mem.value]]
    BY DEF EffectiveResourceLimits, Requested
  <2>3. /\ nano.ok <=> Fits(cpu, CPUUnits, CPUFactor(cpu.unit))
        /\ nano.ok => nano.value = IF cpu = Absent THEN DefaultNanoCPUs
                                  ELSE Exact(cpu, CPUFactor(cpu.unit))
    BY CPUApplied
  <2>4. /\ mem.ok <=> Fits(memory, MemoryUnits, MemoryFactor(memory.unit))
        /\ mem.ok => mem.value = IF memory = Absent THEN DefaultMemoryBytes
                                ELSE Exact(memory, MemoryFactor(memory.unit))
    BY MemoryApplied
  <2> HIDE DEF nano, mem
  <2>5. content.asked.cpu = cpu /\ content.asked.memory = memory
    BY <2>1
  <2>6. /\ "limits" \in failed <=> ~(nano.ok /\ mem.ok)
        /\ content.limits = [nanoCPUs |-> nano.value, memoryBytes |-> mem.value]
    <3> DEFINE r == EffectiveResourceLimits(cpu, memory)
    <3>1. r = [ok |-> nano.ok /\ mem.ok,
               limits |-> [nanoCPUs |-> nano.value, memoryBytes |-> mem.value]]
      BY <2>2
    <3>2. ("limits" \in failed <=> ~r.ok) /\ content.limits = r.limits
      BY <2>1
    <3> HIDE DEF r
    <3>3. r.ok <=> nano.ok /\ mem.ok
      BY <3>1, Zenon
    <3>4. r.limits = [nanoCPUs |-> nano.value, memoryBytes |-> mem.value]
      BY <3>1
    <3> QED BY <3>2, <3>3, <3>4
  <2> QED BY <2>3, <2>4, <2>5, <2>6 DEF LimitsApplied
<1> QED BY <1>1, Invariance, PTL

-----------------------------------------------------------------------------
(* Unzip, entry after entry.  FoldLeft is a function on the sets of positions *)
(* that refers to itself; that there is one is shown by induction, which is    *)
(* the least counterexample of WellFoundedInduction.                           *)

\* A set of naturals that is not empty has a least element.
LEMMA Least ==
  ASSUME NEW T \in SUBSET Nat, T # {}
  PROVE  \E m \in T : \A k \in T : m <= k
<1>1. PICK m \in T : \A k \in T : <<k, m>> \notin OpToRel(<, Nat)
  BY NatLessThanWellFounded, WFMin
<1>2. ASSUME NEW k \in T, ~(m <= k) PROVE FALSE
  <2>1. k < m /\ k \in Nat /\ m \in Nat
    BY <1>2
  <2>2. <<k, m>> \in OpToRel(<, Nat)
    BY <2>1, Zenon DEF OpToRel
  <2> QED BY <1>1, <2>2
<1> QED BY <1>2

Folded(a, h, s) ==
  h[s] = IF s = {} THEN Done(Empty) ELSE Extract(h[s \ {Max(s)}], a[Max(s)])

LEMMA FoldExists ==
  ASSUME NEW a, NEW n \in Nat
  PROVE  \E h : h = [s \in SUBSET (1..n) |->
                       IF s = {} THEN Done(Empty) ELSE Extract(h[s \ {Max(s)}], a[Max(s)])]
<1> DEFINE Subsets == SUBSET (1..n)
           Good(m) == \E h : DOMAIN h = Subsets /\ \A s \in SUBSET (1..m) : Folded(a, h, s)
           Bad == {m \in 0..n : ~Good(m)}
<1>1. Good(0)
  <2> DEFINE h == [s \in Subsets |-> Done(Empty)]
  <2>1. \A s \in SUBSET (1..0) : s = {} /\ s \in Subsets
    OBVIOUS
  <2>2. DOMAIN h = Subsets /\ \A s \in SUBSET (1..0) : Folded(a, h, s)
    BY <2>1 DEF Folded
  <2> QED BY <2>2
<1>2. ASSUME NEW m \in 1..n, Good(m - 1) PROVE Good(m)
  <2>1. PICK h : DOMAIN h = Subsets /\ \A s \in SUBSET (1..(m - 1)) : Folded(a, h, s)
    BY <1>2
  <2> DEFINE g == [s \in Subsets |->
                     IF s \in SUBSET (1..(m - 1)) THEN h[s] ELSE Extract(h[s \ {m}], a[m])]
  <2>2. ASSUME NEW s \in SUBSET (1..m) PROVE Folded(a, g, s)
    <3>1. s \in Subsets /\ s \ {Max(s)} \in Subsets
      <4>1. \A k \in s : k \in 1..n
        OBVIOUS
      <4> QED BY <4>1
    <3>2. CASE s \in SUBSET (1..(m - 1))
      <4>1. s \ {Max(s)} \in SUBSET (1..(m - 1))
        BY <3>2
      <4>2. g[s] = h[s] /\ g[s \ {Max(s)}] = h[s \ {Max(s)}]
        BY <3>1, <3>2, <4>1
      <4> HIDE DEF g
      <4> QED BY <2>1, <3>2, <4>2 DEF Folded
    <3>3. CASE s \notin SUBSET (1..(m - 1))
      <4>1. m \in s /\ \A k \in s : k <= m /\ k \in Nat
        BY <3>3
      <4>2. Max(s) = m
        <5>1. \A x \in s : (\A y \in s : x >= y) => x = m
          BY <4>1
        <5>2. \A y \in s : m >= y
          BY <4>1
        <5>3. \A x \in s : (\A y \in s : x >= y) <=> x = m
          BY <5>1, <5>2
        <5> QED BY <4>1, <5>3 DEF Max
      <4>3. s \ {m} \in SUBSET (1..(m - 1)) /\ s \ {m} \in Subsets
        BY <4>1
      <4>4. g[s] = Extract(h[s \ {m}], a[m]) /\ g[s \ {m}] = h[s \ {m}]
        BY <3>1, <3>3, <4>3
      <4> HIDE DEF g
      <4> QED BY <4>1, <4>2, <4>4 DEF Folded
    <3> QED BY <3>2, <3>3
  <2>3. DOMAIN g = Subsets
    OBVIOUS
  <2> HIDE DEF g
  <2> QED BY <2>2, <2>3
<1>3. Bad = {}
  <2> SUFFICES ASSUME Bad # {} PROVE FALSE
    OBVIOUS
  <2>1. Bad \in SUBSET Nat
    OBVIOUS
  <2> HIDE DEF Good
  <2>2. PICK m \in Bad : \A k \in Bad : m <= k
    BY <2>1, Least
  <2>3. m # 0
    BY <1>1
  <2>4. m \in 1..n /\ m - 1 \in 0..n /\ m - 1 \notin Bad
    BY <2>2, <2>3
  <2> QED BY <1>2, <2>4
<1>4. PICK h : DOMAIN h = Subsets /\ \A s \in Subsets : Folded(a, h, s)
  <2> HIDE DEF Good
  <2>1. Good(n)
    <3>1. n \in 0..n
      OBVIOUS
    <3> QED BY <1>3, <3>1
  <2> QED BY <2>1 DEF Good
<1> DEFINE g == [s \in Subsets |-> h[s]]
<1>5. \A s \in Subsets : s \ {Max(s)} \in Subsets
  OBVIOUS
<1>6. g = [s \in Subsets |->
             IF s = {} THEN Done(Empty) ELSE Extract(g[s \ {Max(s)}], a[Max(s)])]
  BY <1>4, <1>5 DEF Folded
<1> QED BY <1>6

\* Unzip extracts entry after entry.
LEMMA UnzipUnfolds ==
  ASSUME NEW a, IsSeq(a)
  PROVE  \E t : /\ t[0] = Done(Empty)
                /\ \A k \in 1..Len(a) : t[k] = Extract(t[k - 1], a[k])
                /\ Unzip(a) = t[Len(a)]
<1> DEFINE n == Len(a)
           F(h) == [s \in SUBSET (1..n) |->
                      IF s = {} THEN Done(Empty) ELSE Extract(h[s \ {Max(s)}], a[Max(s)])]
           iter == CHOOSE h : h = F(h)
<1>1. n \in Nat /\ DOMAIN a = 1..n
  BY DEF IsSeq
<1>2. iter = F(iter)
  BY <1>1, FoldExists
<1>3. Unzip(a) = iter[1..n]
  BY <1>1 DEF Unzip, FoldLeft, MapThenFoldSet
<1> HIDE DEF iter
<1> DEFINE t == [k \in 0..n |-> iter[1..k]]
<1>4. t[0] = Done(Empty)
  <2>1. 1..0 = {} /\ {} \in SUBSET (1..n) /\ t[0] = iter[1..0]
    BY <1>1
  <2> QED BY <1>2, <2>1
<1>5. ASSUME NEW k \in 1..n PROVE t[k] = Extract(t[k - 1], a[k])
  <2>1. Max(1..k) = k
    <3>1. \A x \in 1..k : (\A y \in 1..k : x >= y) <=> x = k
      BY <1>1
    <3>2. k \in 1..k
      BY <1>1
    <3> QED BY <3>1, <3>2 DEF Max
  <2>2. (1..k) \ {k} = 1..(k - 1)
    BY <1>1
  <2>3. 1..k \in SUBSET (1..n) /\ 1..k # {}
    BY <1>1
  <2>4. iter[1..k] = Extract(iter[1..(k - 1)], a[k])
    <3> HIDE DEF n
    <3> QED BY <1>2, <2>1, <2>2, <2>3
  <2>5. t[k] = iter[1..k] /\ t[k - 1] = iter[1..(k - 1)]
    BY <1>1
  <2> QED BY <2>4, <2>5
<1>6. t[n] = iter[1..n]
  BY <1>1
<1> HIDE DEF t
<1> QED BY <1>3, <1>4, <1>5, <1>6

-----------------------------------------------------------------------------
(* What Unzip leaves of an archive, and CopyAll of that. *)

ArchiveTyped(a) == IsSeq(a) /\ \A i \in DOMAIN a : IsSeq(a[i].path)

\* Of the first k entries the i-th is the last one of its path.
LastOf(a, k, i) == \A j \in 1..k : j > i => a[j].path # a[i].path

\* The files of a tree are those of the first k entries; of entries with the same
\* path the last one counts.
Holds(tree, a, k) ==
  /\ \A q \in DOMAIN tree : IsSeq(q) /\ q # << >>
  /\ \A q \in DOMAIN tree : tree[q] # Folder =>
       \E i \in 1..k : LastOf(a, k, i) /\ a[i].path = q /\ a[i].data = tree[q]
  /\ \A i \in 1..k : LastOf(a, k, i) /\ a[i].data # Folder =>
       a[i].path \in DOMAIN tree /\ tree[a[i].path] = a[i].data

LEMMA WayTyped ==
  ASSUME NEW p, IsSeq(p)
  PROVE  /\ \A q \in Way(p) : IsSeq(q) /\ q # << >>
         /\ p # << >> => p \in Way(p)
<1>1. p \in Seq(Range(p)) /\ Len(p) \in Nat /\ DOMAIN p = 1..Len(p)
  BY DEF IsSeq
<1>2. ASSUME NEW n \in 1..Len(p)
      PROVE  IsSeq(SubSeq(p, 1, n)) /\ SubSeq(p, 1, n) # << >>
  <2> DEFINE q == SubSeq(p, 1, n)
  <2>1. q \in Seq(Range(p)) /\ Len(q) = n /\ \A i \in 1..n : q[i] = p[i]
    <3>1. \A i \in 1..n : p[i] \in Range(p)
      BY <1>1 DEF Range
    <3> QED BY <1>1, <3>1, SubSeqProperties
  <2> HIDE DEF q
  <2>2. q \in Seq(Range(q))
    BY <2>1 DEF Range
  <2>3. q # << >>
    BY <2>1
  <2> QED BY <2>2, <2>3 DEF IsSeq, q
<1>3. ASSUME p # << >> PROVE p \in Way(p)
  <2>1. SubSeq(p, 1, Len(p)) = p /\ Len(p) \in 1..Len(p)
    BY <1>1, <1>3, SubSeqFull
  <2> QED BY <2>1 DEF Way
<1> QED BY <1>2, <1>3 DEF Way

\* A folder leaves the files of the tree alone.
LEMMA FolderHolds ==
  ASSUME NEW a, ArchiveTyped(a), NEW k \in 1..Len(a), NEW tree, Holds(tree, a, k - 1),
         a[k].data = Folder, MkdirAll(tree, a[k].path).ok
  PROVE  Holds(MkdirAll(tree, a[k].path).tree, a, k)
<1> DEFINE p == a[k].path
           after == With(tree, Way(p), Folder)
<1>1. /\ MkdirAll(tree, p).tree = after
      /\ \A q \in Way(p) : q \in DOMAIN tree => tree[q] = Folder
  BY DEF MkdirAll, Done, Failed
<1>2. IsSeq(p) /\ k \in Nat /\ Len(a) \in Nat
  BY DEF ArchiveTyped, IsSeq
<1>3. /\ \A q \in Way(p) : IsSeq(q) /\ q # << >>
      /\ p # << >> => p \in Way(p)
  BY <1>2, WayTyped
<1>4. /\ DOMAIN after = DOMAIN tree \cup Way(p)
      /\ \A q \in Way(p) : after[q] = Folder
      /\ \A q \in DOMAIN tree \ Way(p) : after[q] = tree[q]
  BY DEF With
<1> HIDE DEF after
<1>5. \A q \in DOMAIN after : IsSeq(q) /\ q # << >>
  BY <1>3, <1>4 DEF Holds
<1>6. \A q \in DOMAIN tree : tree[q] # Folder => q \notin Way(p) /\ q # p
  BY <1>1, <1>3 DEF Holds
<1>7. ASSUME NEW q \in DOMAIN after, after[q] # Folder
      PROVE  \E i \in 1..k : LastOf(a, k, i) /\ a[i].path = q /\ a[i].data = after[q]
  <2>1. q \in DOMAIN tree /\ after[q] = tree[q] /\ tree[q] # Folder /\ q # p
    BY <1>4, <1>6, <1>7
  <2>2. PICK i \in 1..(k - 1) :
          LastOf(a, k - 1, i) /\ a[i].path = q /\ a[i].data = tree[q]
    BY <2>1 DEF Holds
  <2>3. LastOf(a, k, i)
    BY <1>2, <2>1, <2>2 DEF LastOf
  <2> QED BY <1>2, <2>1, <2>2, <2>3
<1>8. ASSUME NEW i \in 1..k, LastOf(a, k, i), a[i].data # Folder
      PROVE  a[i].path \in DOMAIN after /\ after[a[i].path] = a[i].data
  <2>1. i \in 1..(k - 1) /\ LastOf(a, k - 1, i)
    BY <1>2, <1>8 DEF LastOf
  <2>2. a[i].path \in DOMAIN tree /\ tree[a[i].path] = a[i].data
    BY <1>8, <2>1 DEF Holds
  <2> QED BY <1>4, <1>6, <1>8, <2>2
<1> QED BY <1>1, <1>5, <1>7, <1>8 DEF Holds

\* A file replaces what its path had, and nothing else.
LEMMA FileHolds ==
  ASSUME NEW a, ArchiveTyped(a), NEW k \in 1..Len(a), NEW tree, Holds(tree, a, k - 1),
         a[k].data # Folder, Create(tree, a[k].path, a[k].data).ok
  PROVE  Holds(Create(tree, a[k].path, a[k].data).tree, a, k)
<1> DEFINE p == a[k].path
           after == With(tree, {p}, a[k].data)
<1>1. Create(tree, p, a[k].data).tree = after /\ p # << >>
  BY DEF Create, Done, Failed, IsFolder
<1>2. IsSeq(p) /\ k \in Nat /\ Len(a) \in Nat
  BY DEF ArchiveTyped, IsSeq
<1>3. /\ DOMAIN after = DOMAIN tree \cup {p}
      /\ after[p] = a[k].data
      /\ \A q \in DOMAIN tree : q # p => after[q] = tree[q]
  BY DEF With
<1> HIDE DEF after
<1>4. \A q \in DOMAIN after : IsSeq(q) /\ q # << >>
  BY <1>1, <1>2, <1>3 DEF Holds
<1>5. LastOf(a, k, k)
  BY <1>2 DEF LastOf
<1>6. ASSUME NEW q \in DOMAIN after, after[q] # Folder
      PROVE  \E i \in 1..k : LastOf(a, k, i) /\ a[i].path = q /\ a[i].data = after[q]
  <2>1. CASE q = p
    <3>1. k \in 1..k
      BY <1>2
    <3> QED BY <1>3, <1>5, <2>1, <3>1
  <2>2. CASE q # p
    <3>1. q \in DOMAIN tree /\ after[q] = tree[q] /\ tree[q] # Folder
      BY <1>3, <1>6, <2>2
    <3>2. PICK i \in 1..(k - 1) :
            LastOf(a, k - 1, i) /\ a[i].path = q /\ a[i].data = tree[q]
      BY <3>1 DEF Holds
    <3>3. LastOf(a, k, i)
      BY <1>2, <2>2, <3>2 DEF LastOf
    <3> QED BY <1>2, <3>1, <3>2, <3>3
  <2> QED BY <2>1, <2>2
<1>7. ASSUME NEW i \in 1..k, LastOf(a, k, i), a[i].data # Folder
      PROVE  a[i].path \in DOMAIN after /\ after[a[i].path] = a[i].data
  <2>1. CASE i = k
    BY <1>3, <2>1
  <2>2. CASE i # k
    <3>1. i \in 1..(k - 1) /\ LastOf(a, k - 1, i) /\ a[i].path # p
      BY <1>2, <1>7, <2>2 DEF LastOf
    <3>2. a[i].path \in DOMAIN tree /\ tree[a[i].path] = a[i].data
      BY <1>7, <3>1 DEF Holds
    <3> QED BY <1>3, <3>1, <3>2
  <2> QED BY <2>1, <2>2
<1> QED BY <1>1, <1>4, <1>6, <1>7 DEF Holds

\* Unzip makes the files of the whole archive, or fails.
LEMMA UnzipHolds ==
  ASSUME NEW a, ArchiveTyped(a), Unzip(a).ok
  PROVE  Holds(Unzip(a).tree, a, Len(a))
<1> DEFINE n == Len(a)
<1>1. n \in Nat
  BY DEF ArchiveTyped, IsSeq
<1>2. PICK t : /\ t[0] = Done(Empty)
               /\ \A k \in 1..n : t[k] = Extract(t[k - 1], a[k])
               /\ Unzip(a) = t[n]
  BY UnzipUnfolds DEF ArchiveTyped
<1> DEFINE Good(k) == t[k].ok => Holds(t[k].tree, a, k)
           Bad == {k \in 0..n : ~Good(k)}
<1>3. Good(0)
  <2>1. DOMAIN Empty = {} /\ t[0].tree = Empty
    BY <1>2 DEF Empty, Done
  <2> QED BY <2>1 DEF Holds
<1>4. ASSUME NEW k \in 1..n, Good(k - 1) PROVE Good(k)
  <2> DEFINE s == t[k - 1]
  <2>1. t[k] = Extract(s, a[k])
    BY <1>2
  <2> HIDE DEF s
  <2> SUFFICES ASSUME Extract(s, a[k]).ok PROVE Holds(Extract(s, a[k]).tree, a, k)
    BY <2>1
  <2>2. s.ok
    BY DEF Extract
  <2>3. Holds(s.tree, a, k - 1)
    BY <1>4, <2>2 DEF s
  <2>4. CASE a[k].data = Folder
    <3>1. Extract(s, a[k]) = MkdirAll(s.tree, a[k].path)
      BY <2>2, <2>4 DEF Extract
    <3> QED BY <2>3, <2>4, <3>1, FolderHolds
  <2>5. CASE a[k].data # Folder
    <3>1. Extract(s, a[k]) = Create(s.tree, a[k].path, a[k].data)
      BY <2>2, <2>5 DEF Extract
    <3> QED BY <2>3, <2>5, <3>1, FileHolds
  <2> QED BY <2>4, <2>5
<1>5. Bad = {}
  <2> SUFFICES ASSUME Bad # {} PROVE FALSE
    OBVIOUS
  <2>1. Bad \in SUBSET Nat
    OBVIOUS
  <2> HIDE DEF Good
  <2>2. PICK k \in Bad : \A m \in Bad : k <= m
    BY <2>1, Least
  <2>3. k # 0
    BY <1>3
  <2>4. k \in 1..n /\ k - 1 \in 0..n /\ k - 1 \notin Bad
    BY <1>1, <2>2, <2>3
  <2> QED BY <1>4, <2>4
<1> HIDE DEF Good
<1>6. Good(n)
  <2>1. n \in 0..n
    BY <1>1
  <2> QED BY <1>5, <2>1
<1> QED BY <1>2, <1>6 DEF Good

\* A path is a folder and what comes below it.
LEMMA PrefixAndRest ==
  ASSUME NEW p, NEW q, IsSeq(p), IsSeq(q), IsPrefix(p, q)
  PROVE  p \o SubSeq(q, Len(p) + 1, Len(q)) = q
<1> DEFINE S == Range(p) \cup Range(q)
           r == SubSeq(q, Len(p) + 1, Len(q))
<1>1. p \in Seq(S) /\ q \in Seq(S)
  BY DEF IsSeq
<1> HIDE DEF S
<1>2. Len(p) \in Nat /\ Len(q) \in Nat /\ Len(p) <= Len(q)
  BY <1>1 DEF IsPrefix
<1>3. p = SubSeq(q, 1, Len(p))
  BY <1>1, SubSeqFull DEF IsPrefix
<1>4. SubSeq(q, 1, Len(p)) \o r = SubSeq(q, 1, Len(q))
  <2>1. 1 \in 1..(Len(q) + 1) /\ Len(p) \in (1 - 1)..Len(q) /\ Len(q) \in Len(p)..Len(q)
    BY <1>2
  <2> QED BY <1>1, <2>1, ConcatAdjacentSubSeq
<1>5. SubSeq(q, 1, Len(q)) = q
  BY <1>1, SubSeqFull
<1> HIDE DEF r
<1>6. p \o r = q
  BY <1>3, <1>4, <1>5
<1> QED BY <1>6 DEF r

Files(tree) == {Entry(p, tree[p]) : p \in {p \in DOMAIN tree : tree[p] # Folder}}

\* What is copied from an extracted archive is what the archive holds.
LEMMA CopiedExactly ==
  ASSUME NEW a, ArchiveTyped(a), Unzip(a).ok, NEW sub, IsSeq(sub),
         NEW r, r = CopyAll(Unzip(a).tree, sub, Empty), r.ok
  PROVE  Files(r.tree) = Wanted(a, sub)
<1> DEFINE tree == Unzip(a).tree
           Rest(q) == SubSeq(q, Len(sub) + 1, Len(q))
           paths == {q \in DOMAIN tree : IsStrictPrefix(sub, q)}
           n == Len(a)
<1>1. Holds(tree, a, n) /\ n \in Nat /\ DOMAIN a = 1..n
  BY UnzipHolds DEF ArchiveTyped, IsSeq
<1>2. r.tree = [p \in {Rest(q) : q \in paths} |-> tree[sub \o p]]
  <2>1. r.tree = CopyFiles(Below(tree, sub), Empty)
    BY DEF CopyAll, Done, Failed
  <2>2. DOMAIN Below(tree, sub) = {Rest(q) : q \in paths}
    BY DEF Below
  <2> QED BY <2>1, <2>2 DEF CopyFiles, Below, Empty
<1>3. ASSUME NEW q \in paths PROVE sub \o Rest(q) = q
  <2>1. IsSeq(q) /\ IsPrefix(sub, q)
    BY <1>1 DEF Holds, IsStrictPrefix
  <2> QED BY <2>1, PrefixAndRest
<1> HIDE DEF tree, Rest, n
<1>4. /\ DOMAIN r.tree = {Rest(q) : q \in paths}
      /\ \A q \in paths : r.tree[Rest(q)] = tree[q]
  BY <1>2, <1>3
<1> HIDE DEF paths
<1>5. Files(r.tree) = {Entry(Rest(q), tree[q]) : q \in {q \in paths : tree[q] # Folder}}
  BY <1>4 DEF Files
<1> DEFINE last == {i \in DOMAIN a : /\ a[i].data # Folder
                                     /\ IsStrictPrefix(sub, a[i].path)
                                     /\ \A j \in DOMAIN a : j > i => a[j].path # a[i].path}
<1>6. Wanted(a, sub) = {Entry(Rest(a[i].path), a[i].data) : i \in last}
  BY DEF Wanted, Rest
<1>7. \A i \in last : LastOf(a, n, i) /\ i \in 1..n
  BY <1>1 DEF LastOf
<1>8. ASSUME NEW i \in last
      PROVE  a[i].path \in paths /\ tree[a[i].path] = a[i].data /\ a[i].data # Folder
  BY <1>1, <1>7 DEF Holds, paths
<1>9. ASSUME NEW q \in paths, tree[q] # Folder
      PROVE  \E i \in last : a[i].path = q /\ a[i].data = tree[q]
  <2>1. q \in DOMAIN tree /\ IsStrictPrefix(sub, q)
    BY DEF paths
  <2>2. PICK i \in 1..n : LastOf(a, n, i) /\ a[i].path = q /\ a[i].data = tree[q]
    BY <1>1, <1>9, <2>1 DEF Holds
  <2>3. i \in last
    BY <1>1, <1>9, <2>1, <2>2 DEF LastOf
  <2> QED BY <2>2, <2>3
<1> HIDE DEF last
<1> QED BY <1>5, <1>6, <1>8, <1>9

-----------------------------------------------------------------------------
(* What the image is built from. *)

Copied == {"image", "network", "removeFolder"} \cup Replacing

Sourced ==
  /\ content.subfolder \in Subfolders
  /\ pc \in {"limits", "folder", "copy"} =>
       content.archive \in Archives /\ Unzip(content.archive).ok
  /\ pc \in Copied \/ replaced =>
       Files(content.files) = Wanted(content.archive, content.subfolder)

LEMMA ContentKept ==
  ASSUME Sourced, UNCHANGED content,
         pc' \in {"limits", "folder", "copy"} => pc \in {"limits", "folder", "copy"},
         pc' \in Copied \/ replaced' => pc \in Copied \/ replaced
  PROVE  Sourced'
  BY DEF Sourced

LEMMA SourcedStep == IInv /\ Sourced /\ [Next]_vars => Sourced'
<1> SUFFICES ASSUME IInv, Sourced, [Next]_vars PROVE Sourced'
  OBVIOUS
<1>1. /\ DOMAIN content = {"archive", "subfolder", "files", "limits", "asked"}
      /\ pc \in Preparing \cup {"idle"} => ~replaced
  BY DEF IInv, Types, Fresh
<1>2. CASE Idle \/ Upload \/ Refuse \/ ReadMetadata \/ ReadZip \/ LastPart \/ Download
  BY <1>2, ContentKept
  DEF Idle, Upload, Refuse, ReadMetadata, ReadZip, LastPart, Download, At, Step, Fail,
      Copied, Replacing, request, handlers
<1>3. CASE CreateFolder \/ Panic \/ BuildFolder
  BY <1>3, ContentKept
  DEF CreateFolder, Panic, BuildFolder, At, Step, Fail, Copied, Replacing, request, handlers
<1>4. CASE BuildImage \/ CreateNetwork
  BY <1>4, ContentKept
  DEF BuildImage, CreateNetwork, At, Step, Fail, Copied, Replacing, request, handlers
<1>5. CASE RemoveFolder \/ Drain \/ Start \/ AddRoute
  BY <1>5, ContentKept
  DEF RemoveFolder, Drain, Start, AddRoute, At, Step, Fail, Copied, Replacing, request,
      handlers
<1>6. CASE Commit \/ DestroyOld \/ Discard \/ Succeed
  BY <1>6, ContentKept
  DEF Commit, DestroyOld, Discard, Succeed, At, Step, Fail, Copied, Replacing, request,
      handlers
<1>7. CASE Cleanup \/ Answer \/ RemoveArchive
  BY <1>7, ContentKept
  DEF Cleanup, Answer, RemoveArchive, At, Step, Fail, Copied, Replacing, request, handlers
<1>8. CASE UrlUpload
  <2>1. PICK sub \in Subfolders : content' = [NoContent EXCEPT !.subfolder = sub]
    BY <1>8 DEF UrlUpload
  <2>2. content'.subfolder = sub
    BY <2>1 DEF NoContent
  <2> QED BY <1>1, <1>8, <2>2 DEF Sourced, UrlUpload, At, Copied, Replacing, handlers
<1>9. CASE Return
  BY <1>9, DeploymentAssumption DEF Sourced, Return, NoContent, Copied, Replacing
<1>10. CASE UnzipArchive
  <2>1. ~replaced /\ ~replaced'
    BY <1>1, <1>10 DEF UnzipArchive, At, Preparing, handlers
  <2>2. CASE Fail("unzip", "fail") /\ UNCHANGED content
    BY <2>1, <2>2, ContentKept DEF Fail, Copied, Replacing
  <2>3. ASSUME NEW a \in Archives, Unzip(a).ok,
               content' = [content EXCEPT !.archive = a], Step("limits")
        PROVE  Sourced'
    <3>1. content'.archive = a /\ content'.subfolder = content.subfolder
      BY <1>1, <2>3
    <3> QED BY <2>1, <2>3, <3>1 DEF Sourced, Step, Copied, Replacing
  <2> QED BY <1>10, <2>2, <2>3 DEF UnzipArchive
<1>11. CASE ResolveLimits
  <2>1. pc = "limits" /\ ~replaced' /\ pc' \in {"folder", "cleanup"}
    BY <1>1, <1>11 DEF ResolveLimits, At, Preparing, handlers, Step, Fail
  <2>2. content'.archive = content.archive /\ content'.subfolder = content.subfolder
    BY <1>1, <1>11 DEF ResolveLimits
  <2> QED BY <2>1, <2>2 DEF Sourced, Copied, Replacing
<1>12. CASE CopySources
  <2> DEFINE r == CopyAll(Unzip(content.archive).tree, content.subfolder, Empty)
  <2>1. pc = "copy" /\ ~replaced /\ ~replaced'
    BY <1>1, <1>12 DEF CopySources, At, Preparing, handlers
  <2>2. content.archive \in Archives /\ Unzip(content.archive).ok
        /\ content.subfolder \in Subfolders
    BY <2>1 DEF Sourced
  <2>3. CASE Fail("copy", "cleanup") /\ UNCHANGED content
    BY <2>1, <2>3, ContentKept DEF Fail, Copied, Replacing
  <2>4. CASE r.ok /\ Step("image") /\ content' = [content EXCEPT !.files = r.tree]
    <3>1. Files(r.tree) = Wanted(content.archive, content.subfolder)
      BY <2>2, <2>4, CopiedExactly, ArchivesAssumption, DeploymentAssumption
      DEF ArchiveTyped, IsPath
    <3> HIDE DEF r
    <3>2. /\ content'.archive = content.archive /\ content'.subfolder = content.subfolder
          /\ content'.files = r.tree
      BY <1>1, <2>4
    <3> QED BY <2>2, <2>4, <3>1, <3>2 DEF Sourced, Step
  <2> QED BY <1>12, <2>3, <2>4 DEF CopySources
<1>13. CASE UNCHANGED vars
  BY <1>13, ContentKept DEF vars, request, handlers
<1> QED
  BY <1>2, <1>3, <1>4, <1>5, <1>6, <1>7, <1>8, <1>9, <1>10, <1>11, <1>12, <1>13 DEF Next

LEMMA SourcedStart == Init => Sourced
  BY DeploymentAssumption DEF Init, Sourced, NoContent, Copied, Replacing

\* The image is built from the files of the folder that the request names, no more
\* and no less, for any archive that Unzip extracts (createFunction, Backend.Create)
\* and whose names, like the folder's, do not lead out of their folder (IsPath).
THEOREM AlwaysDeployedExactly == Spec => []DeployedExactly
<1>1. Sourced => DeployedExactly
  BY DEF Sourced, DeployedExactly, Files
<1> QED BY <1>1, Invariance, SourcedStart, SourcedStep, PTL DEF Spec
=============================================================================
