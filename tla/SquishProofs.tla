---------------------------- MODULE SquishProofs ----------------------------
(***************************************************************************)
(* What a sweep gives, for every width of the DAC, of the delta and of the *)
(* iteration count, every range of voltages and every file: the assembler  *)
(* and the core together climb from one voltage to the other.              *)
(*                                                                         *)
(* The division that picks the codes per step, and the one that pulls them *)
(* back into the range, give bounds of the last code; codes in between are *)
(* between them, so that the modulus of the accumulator is undone by the   *)
(* sign (UnrolledCode).                                                    *)
(*                                                                         *)
(* And every instruction of every file comes back from the word that is    *)
(* stored of it, as the word has the fields of the instruction as digits   *)
(* of mixed places (EncodedDigits).  The line that is printed of it        *)
(* assembles to it again: a voltage that has been printed once comes back, *)
(* as the next rounding undoes the one before (CodeComesBack), and for one *)
(* that is finer all roundings together have a bound (CodeNear,            *)
(* StepRounded).                                                           *)
(*                                                                         *)
(* Of a session it is proved that every command leads from the group it is *)
(* in to the same or the next one (SessionOK of SquishInvariant).          *)
(*                                                                         *)
(* What a file says is defined of the whole file, and the parser sees a    *)
(* line at a time: every part of the definition is followed over a file    *)
(* that is a line longer (FileOK of SquishInvariant).                      *)
(***************************************************************************)
EXTENDS SquishInvariant, SequenceTheorems, FiniteSetTheorems, TLAPS

\* The quotient rounded up (Ceil, math.ceil() of parse_swp()) covers the dividend, by
\* less than the divisor.
LEMMA CeilBounds ==
    ASSUME NEW a \in Int, NEW d \in Nat \ {0}
    PROVE  /\ Ceil(a, d) \in Int
           /\ a <= Ceil(a, d) * d
           /\ Ceil(a, d) * d < a + d
BY DEF Ceil

\* No smaller number covers the dividend.
LEMMA CeilLeast ==
    ASSUME NEW a \in Int, NEW d \in Nat \ {0}, NEW m \in Int, a <= m * d
    PROVE  Ceil(a, d) <= m
<1> DEFINE c == Ceil(a, d)
<1>1. c \in Int /\ c * d < a + d
  BY CeilBounds
<1>2. SUFFICES ASSUME c >= m + 1 PROVE FALSE
  BY <1>1
<1>3. PICK e \in Nat : c = m + 1 + e
  <2>1. c - (m + 1) \in Nat
    BY <1>1, <1>2
  <2> QED BY <1>1, <2>1
<1>4. c * d = m * d + d + e * d /\ e * d >= 0
  BY <1>3
<1> QED BY <1>1, <1>4

\* The quotient rounded down, which pulls a step back (//, parse_swp()).
LEMMA DivBounds ==
    ASSUME NEW a \in Int, NEW d \in Nat \ {0}
    PROVE  /\ a \div d \in Int
           /\ (a \div d) * d <= a
           /\ a < (a \div d) * d + d
OBVIOUS

\* The remainder is what is left of a multiple.
LEMMA ModUnique ==
    ASSUME NEW m \in Nat \ {0}, NEW q \in Int, NEW r \in 0 .. m - 1
    PROVE  (m * q + r) % m = r
OBVIOUS

\* The codes of the DAC and the deltas, with their signs, fit their fields.
LEMMA Ranges ==
    /\ KMin \in Int /\ KMax \in Int /\ KMin <= 0 /\ KMax >= 0 /\ KMax - KMin < DacMod
    /\ DeltaMax \in Nat \ {0} /\ 2 * DeltaMax + 1 < DeltaMod /\ DeltaMod <= DacMod
    /\ DacHalf \in Nat /\ KMax = DacHalf - 1 /\ DacMod + KMin >= DacHalf /\ DacMod \in Nat /\ DeltaMod \in Nat
BY DecodeAssumption, InsnAssumption DEF KMin, KMax, DacHalf, DeltaMax

\* A voltage gives a code of the DAC (volt_to_signed()).
LEMMA VoltToSignedType ==
    ASSUME NEW v \in Int
    PROVE  VoltToSigned(v) \in KMin .. KMax
BY Ranges, DecodeAssumption, InsnAssumption DEF VoltToSigned, Clamp, Round

\* What lies between two codes in even steps is a code.
LEMMA Between ==
    ASSUME NEW k1 \in KMin .. KMax, NEW dv \in Int, NEW steps \in Nat, NEW k \in 0 .. steps,
           k1 + dv * steps \in KMin .. KMax
    PROVE  k1 + dv * k \in KMin .. KMax
<1>1. CASE dv >= 0
  <2>1. 0 <= dv * k /\ dv * k <= dv * steps
    BY <1>1
  <2> QED BY <2>1, Ranges
<1>2. CASE dv < 0
  <2>1. dv * k <= 0 /\ dv * steps <= dv * k
    BY <1>2
  <2> QED BY <2>1, Ranges
<1> QED BY <1>1, <1>2

\* A modulus takes a number with a sign to its field.
LEMMA ModSteps ==
    ASSUME NEW m \in Nat \ {0}, NEW y \in -m .. m - 1, NEW j \in Int
    PROVE  (y + m * j) % m = IF y < 0 THEN y + m ELSE y
<1>1. CASE y < 0
  <2> DEFINE q == j - 1  r == y + m
  <2>0. q \in Int /\ r \in 0 .. m - 1
    BY <1>1
  <2> HIDE DEF q, r
  <2>1. (m * q + r) % m = r
    BY <2>0, ModUnique
  <2>2. m * q + r = y + m * j /\ r = y + m
    BY DEF q, r
  <2> QED BY <1>1, <2>1, <2>2
<1>2. CASE y >= 0
  BY <1>2, ModUnique
<1> QED BY <1>1, <1>2

\* The sign brings a code back from its field, whatever has wrapped around it.
LEMMA CodeSignedInverse ==
    ASSUME NEW y \in KMin .. KMax, NEW j \in Int
    PROVE  CodeSigned((y + DacMod * j) % DacMod) = y
<1>1. y \in -DacMod .. DacMod - 1 /\ DacMod \in Nat \ {0}
  BY Ranges
<1>2. (y + DacMod * j) % DacMod = IF y < 0 THEN y + DacMod ELSE y
  BY <1>1, ModSteps
<1>3. y \in Int /\ DacHalf \in Int /\ y < DacHalf /\ (y < 0 => y + DacMod >= DacHalf)
  BY Ranges
<1> QED BY <1>1, <1>2, <1>3 DEF CodeSigned

LEMMA CodeItself ==
    ASSUME NEW k \in KMin .. KMax
    PROVE  CodeSigned(k % DacMod) = k
<1>1. CodeSigned((k + DacMod * 0) % DacMod) = k
  BY CodeSignedInverse
<1>2. k + DacMod * 0 = k
  BY Ranges
<1> QED BY <1>1, <1>2

\* The core takes from the delta field what the assembler put there, with its sign
\* (to_bits() and dc_decode.sv).
LEMMA SignExtended ==
    ASSUME NEW dv \in -DeltaMax .. DeltaMax
    PROVE  SignExtend(ToBits(dv)) = IF dv < 0 THEN dv + DacMod ELSE dv
<1>1. ToBits(dv) = IF dv < 0 THEN dv + DeltaMod ELSE dv
  <2>1. dv \in -DeltaMod .. DeltaMod - 1
    BY Ranges
  <2>2. Clamp(dv, -DeltaMax - 1, DeltaMax) = dv
    BY Ranges DEF Clamp
  <2>3. DeltaMod \in Nat \ {0} /\ dv \in Int
    BY Ranges, <2>1
  <2>4. (dv + DeltaMod * 0) % DeltaMod = IF dv < 0 THEN dv + DeltaMod ELSE dv
    BY <2>1, <2>3, ModSteps
  <2>5. dv + DeltaMod * 0 = dv
    BY <2>3
  <2> QED BY <2>2, <2>4, <2>5 DEF ToBits
<1> QED BY <1>1, Ranges DEF SignExtend

\* The core's accumulator after k deltas is the code that lies k steps from the first.
LEMMA UnrolledCode ==
    ASSUME NEW k1 \in KMin .. KMax, NEW dv \in -DeltaMax .. DeltaMax, NEW k \in Nat,
           k1 + dv * k \in KMin .. KMax
    PROVE  CodeSigned(((k1 % DacMod) + k * SignExtend(ToBits(dv))) % DacMod) = k1 + dv * k
<1>1. k1 % DacMod = IF k1 < 0 THEN k1 + DacMod ELSE k1
  <2>1. k1 \in -DacMod .. DacMod - 1 /\ DacMod \in Nat \ {0} /\ k1 \in Int
    BY Ranges
  <2>2. (k1 + DacMod * 0) % DacMod = IF k1 < 0 THEN k1 + DacMod ELSE k1
    BY <2>1, ModSteps
  <2>3. k1 + DacMod * 0 = k1
    BY <2>1
  <2> QED BY <2>2, <2>3
<1> DEFINE j == (IF k1 < 0 THEN 1 ELSE 0) + (IF dv < 0 THEN k ELSE 0)
<1>2. (k1 % DacMod) + k * SignExtend(ToBits(dv)) = (k1 + dv * k) + DacMod * j
  <2>1. CASE dv < 0
    <3>1. k * (dv + DacMod) = dv * k + DacMod * k
      BY Ranges
    <3> QED BY <1>1, <2>1, <3>1, SignExtended, Ranges
  <2>2. CASE dv >= 0
    <3>1. k * dv = dv * k
      BY Ranges
    <3> QED BY <1>1, <2>2, <3>1, SignExtended, Ranges
  <2> QED BY <2>1, <2>2, Ranges
<1>3. j \in Int
  OBVIOUS
<1> QED BY <1>2, <1>3, CodeSignedInverse

\* Upwards, the step that parse_swp() picks fits the delta field, keeps the last code in
\* the range and is the largest that does not pass the second voltage by a step.
LEMMA PulledBackUp ==
    ASSUME NEW k1 \in KMin .. KMax, NEW k2 \in KMin .. KMax, NEW steps \in Nat \ {0}, k2 >= k1,
           DeltaTo(k1, k2, steps) \in -DeltaMax .. DeltaMax
    PROVE  LET dv == PulledBack(k1, DeltaTo(k1, k2, steps), steps)
               last == k1 + dv * steps
           IN  /\ dv \in 0 .. DeltaMax /\ last \in KMin .. KMax
               /\ last >= k2 \/ k1 + (dv + 1) * steps > KMax
               /\ last - k2 < steps
<1> DEFINE d0 == DeltaTo(k1, k2, steps)
           dv == PulledBack(k1, d0, steps)
           top == (KMax - k1) \div steps
<1>1. k1 \in Int /\ k2 \in Int /\ k2 - k1 \in Int /\ KMax - k1 \in Nat /\ KMax \in Int /\ KMin \in Int
  BY Ranges
<1>2. /\ d0 \in Int
      /\ k2 - k1 <= d0 * steps
      /\ d0 * steps < k2 - k1 + steps
  BY <1>1, CeilBounds DEF DeltaTo
<1>3. d0 >= 0
  <2>1. 0 <= d0 * steps
    BY <1>1, <1>2
  <2> QED BY <1>2, <2>1
<1>4. d0 * steps >= 0
  BY <1>2, <1>3
<1>5. CASE k1 + d0 * steps <= KMax
  <2>1. dv = d0
    BY <1>1, <1>2, <1>4, <1>5 DEF PulledBack
  <2> QED BY <2>1, <1>1, <1>2, <1>3, <1>4, <1>5, Ranges
<1>6. CASE k1 + d0 * steps > KMax
  <2>1. dv = top
    BY <1>1, <1>2, <1>6 DEF PulledBack
  <2>2. top \in Int /\ top * steps <= KMax - k1 /\ KMax - k1 < top * steps + steps
    BY <1>1, DivBounds
  <2>3. top >= 0
    <3>1. 0 < (top + 1) * steps
      BY <1>1, <2>2
    <3> QED BY <2>2, <3>1
  <2>4. top <= d0
    <3>1. top * steps < d0 * steps
      BY <1>1, <1>2, <1>6, <2>2
    <3> QED BY <1>2, <2>2, <3>1
  <2>5. top * steps >= 0
    BY <2>2, <2>3
  <2>6. (top + 1) * steps = top * steps + steps
    BY <2>2
  <2> QED BY <1>1, <1>2, <1>6, <2>1, <2>2, <2>3, <2>4, <2>5, <2>6, Ranges
<1> QED BY <1>1, <1>2, <1>5, <1>6

\* Downwards likewise.
LEMMA PulledBackDown ==
    ASSUME NEW k1 \in KMin .. KMax, NEW k2 \in KMin .. KMax, NEW steps \in Nat \ {0}, k2 < k1,
           DeltaTo(k1, k2, steps) \in -DeltaMax .. DeltaMax
    PROVE  LET dv == PulledBack(k1, DeltaTo(k1, k2, steps), steps)
               last == k1 + dv * steps
           IN  /\ dv \in -DeltaMax .. 0 /\ last \in KMin .. KMax
               /\ last <= k2 \/ k1 + (dv - 1) * steps < KMin
               /\ k2 - last < steps
<1> DEFINE d0 == Ceil(k1 - k2, steps)
           dv == PulledBack(k1, DeltaTo(k1, k2, steps), steps)
           low == (k1 - KMin) \div steps
<1>1. k1 \in Int /\ k2 \in Int /\ k1 - k2 \in Int /\ k1 - KMin \in Nat /\ KMax \in Int /\ KMin \in Int
  BY Ranges
<1>2. /\ d0 \in Int
      /\ k1 - k2 <= d0 * steps
      /\ d0 * steps < k1 - k2 + steps
  BY <1>1, CeilBounds
<1>3. DeltaTo(k1, k2, steps) = -d0
  <2>1. -(k2 - k1) = k1 - k2 /\ ~(k2 - k1 >= 0)
    BY <1>1
  <2> QED BY <2>1 DEF DeltaTo
<1>4. d0 >= 0
  <2>1. 0 <= d0 * steps
    BY <1>1, <1>2
  <2> QED BY <1>2, <2>1
<1>5. d0 * steps >= 0 /\ (-d0) * steps = -(d0 * steps)
  BY <1>2, <1>4
<1>6. CASE k1 - d0 * steps >= KMin
  <2>1. dv = -d0
    BY <1>1, <1>2, <1>3, <1>5, <1>6, Ranges DEF PulledBack
  <2> QED BY <2>1, <1>1, <1>2, <1>3, <1>4, <1>5, <1>6, Ranges
<1>7. CASE k1 - d0 * steps < KMin
  <2>1. dv = -low
    BY <1>1, <1>2, <1>3, <1>5, <1>7, Ranges DEF PulledBack
  <2>2. low \in Int /\ low * steps <= k1 - KMin /\ k1 - KMin < low * steps + steps
    BY <1>1, DivBounds
  <2>3. low >= 0
    <3>1. 0 < (low + 1) * steps
      BY <1>1, <2>2
    <3> QED BY <2>2, <3>1
  <2>4. low <= d0
    <3>1. low * steps < d0 * steps
      BY <1>1, <1>2, <1>7, <2>2
    <3> QED BY <1>2, <2>2, <3>1
  <2>5. low * steps >= 0 /\ (-low) * steps = -(low * steps)
    BY <2>2, <2>3
  <2>6. (-low - 1) * steps = -(low * steps) - steps
    BY <2>2
  <2> QED BY <1>1, <1>2, <1>3, <1>7, <2>1, <2>2, <2>3, <2>4, <2>5, <2>6, Ranges
<1> QED BY <1>1, <1>2, <1>6, <1>7

\* The codes that the core makes of an assembled sweep are even steps from the first
\* voltage (parse_swp(), dc_decode.sv, dc_core.sv).
LEMMA SwpCodes ==
    ASSUME NEW l \in SwpLine, SwpInRange(l), NEW dv \in -DeltaMax .. DeltaMax,
           dv = PulledBack(VoltToSigned(l.v1), SwpDelta(l), l.n - 1),
           VoltToSigned(l.v1) + dv * (l.n - 1) \in KMin .. KMax
    PROVE  Codes(ParseSwp(l)) = [n \in 1 .. l.n |-> VoltToSigned(l.v1) + dv * (n - 1)]
<1> DEFINE k1 == VoltToSigned(l.v1)
           word == DacRegMap.dr * DacMod + VoltToCode(l.v1)
           insn == [ParseSwp(l) EXCEPT !.spi_din = @ % DacMod]
<1>1. k1 \in KMin .. KMax /\ k1 \in Int
  BY VoltToSignedType, Ranges DEF SwpLine
<1>2. /\ insn.iters = l.n - 1 /\ insn.idle = FALSE /\ insn.delta = ToBits(dv)
      /\ insn.spi_din = word % DacMod
  BY DEF ParseSwp, Common, NoInsn
<1>3. word % DacMod = k1 % DacMod
  <2>1. DacMod \in Nat \ {0} /\ k1 % DacMod \in 0 .. DacMod - 1
    BY <1>1, Ranges
  <2>2. (DacMod * 1 + (k1 % DacMod)) % DacMod = k1 % DacMod
    BY <2>1, ModUnique
  <2>3. word = DacMod * 1 + (k1 % DacMod)
    BY <2>1 DEF DacRegMap, VoltToCode
  <2> QED BY <2>2, <2>3
<1>4. l.n \in Nat /\ l.n - 1 \in Nat /\ (l.n - 1) + 1 = l.n
  BY DEF SwpLine, SwpInRange
<1> DEFINE steps == Steps(0, Decode(insn))
<1>5. /\ DOMAIN steps = 1 .. l.n
      /\ \A n \in 1 .. l.n :
            steps[n].spi_din = ((k1 % DacMod) + (n - 1) * SignExtend(ToBits(dv))) % DacMod
  <2> HIDE DEF insn, k1, word
  <2> QED BY <1>2, <1>3, <1>4 DEF Steps, Decode
<1>6. ASSUME NEW n \in 1 .. l.n
      PROVE  CodeSigned(steps[n].spi_din) = k1 + dv * (n - 1)
  <2>1. n - 1 \in 0 .. l.n - 1 /\ n - 1 \in Nat
    BY <1>4
  <2>2. k1 + dv * (n - 1) \in KMin .. KMax
    BY <1>1, <1>4, <2>1, Between, Ranges
  <2>3. CodeSigned(((k1 % DacMod) + (n - 1) * SignExtend(ToBits(dv))) % DacMod) = k1 + dv * (n - 1)
    BY <1>1, <2>1, <2>2, UnrolledCode
  <2> QED BY <1>5, <2>3
<1>7. Codes(ParseSwp(l)) = [n \in DOMAIN steps |-> CodeSigned(steps[n].spi_din)]
  BY DEF Codes
<1> HIDE DEF steps, k1
<1>8. [n \in DOMAIN steps |-> CodeSigned(steps[n].spi_din)] = [n \in 1 .. l.n |-> k1 + dv * (n - 1)]
  BY <1>5, <1>6
<1> QED BY <1>7, <1>8 DEF k1

\* A sweep that is accepted climbs to its second voltage.
LEMMA AcceptedClimbs ==
    ASSUME NEW l \in SwpLine, SwpAccepted(l)
    PROVE  ClimbsTo(l, Codes(ParseSwp(l)))
<1> DEFINE k1 == VoltToSigned(l.v1)
           k2 == VoltToSigned(l.v2)
           steps == l.n - 1
           dv == PulledBack(k1, SwpDelta(l), steps)
           codes == Codes(ParseSwp(l))
<1>1. /\ k1 \in KMin .. KMax /\ k2 \in KMin .. KMax /\ k1 \in Int /\ k2 \in Int
      /\ l.n \in Nat /\ steps \in Nat \ {0} /\ KMin \in Int /\ KMax \in Int
  <2>1. l.v1 \in Int /\ l.v2 \in Int /\ l.n \in Nat
    BY DEF SwpLine
  <2>2. l.n \in 2 .. IterMax + 1 /\ IterMax \in Nat
    BY DecodeAssumption DEF SwpAccepted, SwpInRange
  <2>3. k1 \in KMin .. KMax /\ k2 \in KMin .. KMax
    BY <2>1, VoltToSignedType
  <2> QED BY <2>1, <2>2, <2>3, Ranges
<1>2. SwpInRange(l) /\ SwpDelta(l) = DeltaTo(k1, k2, steps) /\ SwpDelta(l) \in -DeltaMax .. DeltaMax
  BY DEF SwpAccepted, SwpDelta
<1> HIDE DEF k1, k2, steps
<1>3. /\ dv \in -DeltaMax .. DeltaMax /\ dv \in Int
      /\ k1 + dv * steps \in KMin .. KMax
      /\ IF k2 >= k1
         THEN /\ dv >= 0 /\ (k1 + dv * steps >= k2 \/ k1 + (dv + 1) * steps > KMax)
              /\ k1 + dv * steps - k2 < steps
         ELSE /\ dv <= 0 /\ (k1 + dv * steps <= k2 \/ k1 + (dv - 1) * steps < KMin)
              /\ k2 - (k1 + dv * steps) < steps
  <2>1. CASE k2 >= k1
    BY <1>1, <1>2, <2>1, PulledBackUp, Ranges
  <2>2. CASE k2 < k1
    BY <1>1, <1>2, <2>2, PulledBackDown, Ranges
  <2> QED BY <1>1, <2>1, <2>2
<1>4. codes = [n \in 1 .. l.n |-> k1 + dv * (n - 1)]
  BY <1>1, <1>2, <1>3, SwpCodes DEF k1, steps
<1> HIDE DEF dv, codes
<1>5. /\ codes \in [1 .. l.n -> Int] /\ Len(codes) = l.n
      /\ codes[1] = k1 /\ codes[2] = k1 + dv /\ codes[l.n] = k1 + dv * steps
  <2>1. l.n = steps + 1
    BY <1>1 DEF steps
  <2> QED BY <1>1, <1>3, <1>4, <2>1
<1>6. ASSUME NEW n \in 1 .. steps PROVE codes[n + 1] = codes[n] + dv
  <2>1. n \in 1 .. l.n /\ n + 1 \in 1 .. l.n /\ dv * ((n + 1) - 1) = dv * (n - 1) + dv
    BY <1>1, <1>3 DEF steps
  <2> QED BY <1>1, <1>3, <1>4, <2>1
<1>7. codes[2] - codes[1] = dv
  BY <1>1, <1>3, <1>5
<1> DEFINE step == codes[2] - codes[1]
           last == codes[l.n]
<1>8. /\ Len(codes) = l.n /\ codes[1] = k1
      /\ \A n \in 1 .. steps : codes[n + 1] = codes[n] + step
  BY <1>5, <1>6, <1>7
<1>9. step = dv /\ last = k1 + dv * steps
  BY <1>5, <1>7
<1> HIDE DEF step, last
<1>10. IF k2 >= k1 THEN step >= 0 /\ (last >= k2 \/ k1 + (step + 1) * steps > KMax) /\ last - k2 < steps
       ELSE step <= 0 /\ (last <= k2 \/ k1 + (step - 1) * steps < KMin) /\ k2 - last < steps
  BY <1>1, <1>3, <1>9
<1>11. ClimbsTo(l, codes)
  BY <1>8, <1>10, Zenon DEF ClimbsTo, k1, k2, steps, step, last
<1> QED BY <1>11 DEF codes

\* For a sweep that is too steep, the number of levels in the error message is the least
\* that is accepted (parse_swp()).
LEMMA AdviceIsLeast ==
    ASSUME NEW l \in SwpLine, SwpInRange(l), HoldAccepted(l.t), ~SwpAccepted(l)
    PROVE  /\ ~SwpAccepted([l EXCEPT !.n = SwpAdvice(l) - 1])
           /\ SwpAdvice(l) <= IterMax + 1 => SwpAccepted([l EXCEPT !.n = SwpAdvice(l)])
<1> DEFINE k1 == VoltToSigned(l.v1)
           k2 == VoltToSigned(l.v2)
           size == IF k2 - k1 >= 0 THEN k2 - k1 ELSE -(k2 - k1)
           A == Ceil(size, DeltaMax)
           Of(n) == [l EXCEPT !.n = n]
<1>1. /\ k1 \in Int /\ k2 \in Int /\ size \in Nat /\ DeltaMax \in Nat \ {0}
      /\ l.v1 \in Int /\ l.v2 \in Int /\ l.n \in 2 .. IterMax + 1 /\ IterMax \in Nat
  <2>1. l.v1 \in Int /\ l.v2 \in Int
    BY DEF SwpLine
  <2>2. k1 \in KMin .. KMax /\ k2 \in KMin .. KMax
    BY <2>1, VoltToSignedType
  <2> QED BY <2>1, <2>2, Ranges, DecodeAssumption DEF SwpInRange
<1>2. SwpAdvice(l) = A + 1 /\ size \in Int
  BY <1>1 DEF SwpAdvice
<1> HIDE DEF size
<1>3. /\ A \in Int
      /\ size <= A * DeltaMax
  BY <1>1, <1>2, CeilBounds
<1>4. ASSUME NEW n \in Int
      PROVE  SwpAccepted(Of(n)) <=> n \in 2 .. IterMax + 1 /\ DeltaTo(k1, k2, n - 1) \in -DeltaMax .. DeltaMax
  <2>1. Of(n).v1 = l.v1 /\ Of(n).v2 = l.v2 /\ Of(n).t = l.t /\ Of(n).n = n
    BY DEF SwpLine
  <2> HIDE DEF Of, k1, k2
  <2> QED BY <2>1 DEF SwpAccepted, SwpInRange, SwpDelta, k1, k2
<1>5. ASSUME NEW d \in Nat \ {0}
      PROVE  DeltaTo(k1, k2, d) \in -DeltaMax .. DeltaMax <=> Ceil(size, d) <= DeltaMax
  <2> HIDE DEF k1, k2
  <2>1. Ceil(size, d) \in Int /\ 0 <= Ceil(size, d) * d
    <3>1. Ceil(size, d) \in Int /\ size <= Ceil(size, d) * d
      BY <1>2, CeilBounds
    <3> QED BY <1>1, <3>1
  <2>2. Ceil(size, d) >= 0
    <3>1. SUFFICES ASSUME Ceil(size, d) < 0 PROVE FALSE
      BY <2>1
    <3> QED BY <2>1, <3>1
  <2>3. DeltaTo(k1, k2, d) = IF k2 - k1 >= 0 THEN Ceil(size, d) ELSE -Ceil(size, d)
    BY DEF DeltaTo, size
  <2> QED BY <1>1, <2>1, <2>2, <2>3
<1> HIDE DEF Of, k1, k2, A
<1>6. ~SwpAccepted(Of(A))
  <2>1. SUFFICES ASSUME A >= 2, Ceil(size, A - 1) <= DeltaMax PROVE FALSE
    <3>1. SwpAccepted(Of(A)) => A \in 2 .. IterMax + 1 /\ DeltaTo(k1, k2, A - 1) \in -DeltaMax .. DeltaMax
      BY <1>3, <1>4
    <3>2. A >= 2 => A - 1 \in Nat \ {0}
      BY <1>3
    <3> QED BY <1>1, <1>3, <1>5, <3>1, <3>2
  <2>2. A - 1 \in Nat \ {0}
    BY <1>3, <2>1
  <2> DEFINE c == Ceil(size, A - 1)
  <2>3. c \in Int /\ size <= c * (A - 1)
    BY <1>2, <2>2, CeilBounds
  <2>4. c * (A - 1) <= DeltaMax * (A - 1)
    <3>1. (DeltaMax - c) * (A - 1) >= 0
      BY <1>1, <2>1, <2>2, <2>3
    <3>2. (DeltaMax - c) * (A - 1) = DeltaMax * (A - 1) - c * (A - 1)
      BY <1>1, <2>2, <2>3
    <3> QED BY <1>1, <2>2, <2>3, <3>1, <3>2
  <2>5. size <= (A - 1) * DeltaMax
    BY <1>1, <2>2, <2>3, <2>4
  <2>6. A <= A - 1
    BY <1>1, <1>2, <2>2, <2>5, CeilLeast DEF A
  <2> QED BY <1>3, <2>6
<1>7. A + 1 <= IterMax + 1 => SwpAccepted(Of(A + 1))
  <2>1. size > 0
    <3>1. l.n - 1 \in Nat \ {0}
      BY <1>1
    <3>2. ~(DeltaTo(k1, k2, l.n - 1) \in -DeltaMax .. DeltaMax)
      BY DEF SwpAccepted, SwpDelta, k1, k2
    <3>3. Ceil(size, l.n - 1) \in Int /\ Ceil(size, l.n - 1) > DeltaMax
      <4>1. Ceil(size, l.n - 1) \in Int
        BY <1>2, <3>1, CeilBounds
      <4> QED BY <1>1, <1>5, <3>1, <3>2, <4>1
    <3>4. size <= 0 => Ceil(size, l.n - 1) <= 0
      <4>1. PICK m \in Int : m = 0
        OBVIOUS
      <4>2. m * (l.n - 1) = 0
        BY <3>1, <4>1
      <4> QED BY <1>2, <3>1, <4>1, <4>2, CeilLeast
    <3> QED BY <1>1, <1>2, <3>3, <3>4
  <2>2. A >= 1
    <3>1. SUFFICES ASSUME A <= 0 PROVE FALSE
      BY <1>3
    <3>2. A * DeltaMax <= 0
      BY <1>1, <1>3, <3>1
    <3> QED BY <1>1, <1>3, <2>1, <3>2
  <2>3. A \in Nat \ {0} /\ (A + 1) - 1 = A /\ A + 1 \in Int
    BY <1>3, <2>2
  <2>4. Ceil(size, A) <= DeltaMax
    <3>1. size <= DeltaMax * A
      BY <1>1, <1>3
    <3> QED BY <1>1, <1>2, <2>3, <3>1, CeilLeast
  <2> QED BY <1>1, <1>4, <1>5, <2>2, <2>3, <2>4
<1>8. (A + 1) - 1 = A
  BY <1>3
<1> QED BY <1>2, <1>6, <1>7, <1>8 DEF Of

-----------------------------------------------------------------------------

\* An instruction that the parser looks at is one that a line can hold.
LEMMA InsnOfLine ==
    ASSUME LineOK, line # <<>>, line[1].kind = "insn"
    PROVE  line[1].insn \in InsnLine
<1>1. PICK l \in ShortLines \cup InsnLines \cup {EndOfFile} : line = <<l>>
  BY DEF LineOK
<1>2. line[1] = l /\ l.kind = "insn"
  BY <1>1
<1>3. l \in Line
  BY <1>2, LinesAssumption DEF EndOfFile
<1> QED BY <1>2, <1>3 DEF Line

\* The parser looks at one of the lines that it was offered, or at none (parse_asm()).
LEMMA LineAlwaysOK == Spec => []LineOK
<1>1. Init => LineOK
  BY DEF Init, AsmInit, LineOK
<1>2. LineOK /\ [Next]_vars => LineOK'
  <2> SUFFICES ASSUME LineOK, [Next]_vars PROVE LineOK'
    OBVIOUS
  <2>1. CASE line' = line \/ line' = <<>>
    BY <2>1 DEF LineOK
  <2>2. CASE ReadLine
    BY <2>2 DEF ReadLine, LineOK
  <2>3. CASE ParseStep /\ ~ReadLine
    BY <2>1, <2>3 DEF ParseStep, SkipEmpty, OpenProgram, SetCtrl, SetRepeat, AddInsn, CloseProgram,
       SetLaunch, SetMask, SetMarkers, Finish, Reject, Fail, Taken
  <2>4. CASE Invoke \/ ExitFailed \/ Connect \/ Disconnect \/ OpenReading
    BY <2>1, <2>4 DEF Invoke, ExitFailed, Connect, Disconnect, OpenReading
  <2>5. CASE SendNext \/ AskDepth \/ ReadNext
    BY <2>1, <2>5 DEF SendNext, AskDepth, ReadNext, parsing
  <2>6. CASE UNCHANGED vars
    BY <2>1, <2>6 DEF vars, parsing
  <2> QED BY <2>2, <2>3, <2>4, <2>5, <2>6 DEF Next, Parse
<1> QED BY <1>1, <1>2, PTL DEF Spec

\* Every sweep of every file climbs from one voltage to the other in even steps, without
\* a wrap of the accumulator, and every sweep that is too steep is rejected with the least
\* number of levels that would do (parse_swp(), the iterate stage of dc_core.sv).
THEOREM SweepClimbsAlways == Spec => []SweepClimbs
<1>1. LineOK => SweepClimbs
  <2> SUFFICES ASSUME LineOK, ParsingInsn({"swp"}),
                      SwpInRange(line[1].insn), HoldAccepted(line[1].insn.t)
               PROVE  LET l == line[1].insn
                          with(n) == SwpAccepted([l EXCEPT !.n = n])
                      IN  IF SwpAccepted(l) THEN ClimbsTo(l, Codes(ParseSwp(l)))
                          ELSE /\ ~with(SwpAdvice(l) - 1)
                               /\ SwpAdvice(l) <= IterMax + 1 => with(SwpAdvice(l))
    BY DEF SweepClimbs
  <2> DEFINE l == line[1].insn
  <2>1. l \in SwpLine
    <3>1. line # <<>> /\ line[1].kind = "insn" /\ line[1].insn.op = "swp"
      BY DEF ParsingInsn, Is
    <3>4. line[1].insn \in InsnLine
      BY <3>1, InsnOfLine
    <3> QED BY <3>1, <3>4 DEF InsnLine, SwpLine, LvlLine, SetLine, GetLine, NopLine, FulLine
  <2> HIDE DEF l
  <2>2. SwpInRange(l) /\ HoldAccepted(l.t)
    BY DEF l
  <2>3. IF SwpAccepted(l) THEN ClimbsTo(l, Codes(ParseSwp(l)))
        ELSE /\ ~SwpAccepted([l EXCEPT !.n = SwpAdvice(l) - 1])
             /\ SwpAdvice(l) <= IterMax + 1 => SwpAccepted([l EXCEPT !.n = SwpAdvice(l)])
    BY <2>1, <2>2, AcceptedClimbs, AdviceIsLeast
  <2> QED BY <2>3 DEF l
<1> QED BY <1>1, LineAlwaysOK, PTL

-----------------------------------------------------------------------------

\* A digit above a smaller number is a number of its place.
LEMMA DigitBound ==
    ASSUME NEW m \in Nat \ {0}, NEW w \in Nat \ {0}, NEW x \in 0 .. m - 1, NEW lo \in 0 .. w - 1
    PROVE  x * w + lo \in 0 .. m * w - 1
<1>1. (m - 1 - x) * w >= 0 /\ x * w >= 0
  OBVIOUS
<1>2. (m - 1 - x) * w = (m - 1) * w - x * w /\ (m - 1) * w = m * w - w
  OBVIOUS
<1> QED BY <1>1, <1>2

\* A quotient is what the multiple of a number with a rest says.
LEMMA DivUnique ==
    ASSUME NEW v \in Int, NEW q \in Int, NEW w \in Nat \ {0}, NEW lo \in 0 .. w - 1,
           v = q * w + lo
    PROVE  v \div w = q
OBVIOUS

\* The three registers hold a word whole (to_regs(), the 70 bits of ist_in).
LEMMA WordWhole ==
    ASSUME NEW v \in Nat, v \div (RegMod * RegMod) \in 0 .. IterMax
    PROVE  FromRegs(WordParts(v)) = v
<1> DEFINE a == v \div RegMod
           b == v % RegMod
           c == a \div RegMod
           d == a % RegMod
<1>1. RegMod \in Nat \ {0} /\ IterMax \in Nat
  BY InsnAssumption, DecodeAssumption
<1>2. a \in Int /\ b \in 0 .. RegMod - 1 /\ v = a * RegMod + b
  BY <1>1
<1>3. c \in Int /\ d \in 0 .. RegMod - 1 /\ a = c * RegMod + d
  BY <1>1, <1>2
<1>4. v \div (RegMod * RegMod) = c
  <2> HIDE DEF a, b, c, d
  <2>1. v = c * (RegMod * RegMod) + (d * RegMod + b)
    <3>1. a * RegMod = c * (RegMod * RegMod) + d * RegMod
      BY <1>1, <1>3
    <3> QED BY <1>1, <1>2, <1>3, <3>1
  <2>2. d * RegMod + b \in 0 .. RegMod * RegMod - 1
    BY <1>1, <1>2, <1>3, DigitBound
  <2>3. RegMod * RegMod \in Nat \ {0} /\ c \in Int
    BY <1>1, <1>3
  <2> DEFINE rr == RegMod * RegMod  lo == d * RegMod + b
  <2>4. rr \in Nat \ {0} /\ lo \in 0 .. rr - 1 /\ v = c * rr + lo
    BY <2>1, <2>2, <2>3
  <2> HIDE DEF rr, lo
  <2>5. v \div rr = c
    BY <1>3, <2>4
  <2> QED BY <2>5 DEF rr
<1>5. c % (IterMax + 1) = c
  <2>1. c \in 0 .. IterMax
    BY <1>4
  <2> HIDE DEF c
  <2> QED BY <1>1, <2>1
<1>6. WordParts(v) = <<c, d, b>>
  BY <1>4, <1>5 DEF WordParts
<1>7. c * RegMod * RegMod + d * RegMod = a * RegMod
  <2> HIDE DEF a, b, c, d
  <2> QED BY <1>1, <1>3
<1> HIDE DEF a, b, c, d
<1> QED BY <1>1, <1>2, <1>3, <1>6, <1>7 DEF FromRegs

\* A flag is a digit.
LEMMA BitDigit ==
    ASSUME NEW b \in BOOLEAN
    PROVE  Bit(b) \in 0 .. 1 /\ (Bit(b) = 1) = b
BY DEF Bit

\* The digit d of base B between u above it and the rest r below.
IsDigit(v, u, B, w, d, r) ==
    (v \div w) % B = d /\ v = (u * B + d) * w + r /\ u * B + d \in Int

\* A number that is put together of the three has the digit.
LEMMA NextDigit ==
    ASSUME NEW u \in Int, NEW B \in Nat \ {0}, NEW w \in Nat \ {0},
           NEW d \in 0 .. B - 1, NEW r \in 0 .. w - 1
    PROVE  IsDigit(u * (B * w) + (d * w + r), u, B, w, d, r)
<1> DEFINE v == u * (B * w) + (d * w + r)
           t == u * B + d
<1>1. v = t * w + r /\ t = B * u + d /\ t \in Int
  <2>1. u * (B * w) = (u * B) * w /\ u * B \in Int
    OBVIOUS
  <2>2. (u * B + d) * w = (u * B) * w + d * w
    BY <2>1
  <2>3. B * u = u * B
    OBVIOUS
  <2> QED BY <2>1, <2>2, <2>3
<1> HIDE DEF v, t
<1>2. v \div w = t
  <2>1. v \in Int
    BY <1>1
  <2> QED BY <1>1, <2>1, DivUnique
<1>3. t % B = d
  BY <1>1, ModUnique
<1>4. IsDigit(v, u, B, w, d, r)
  BY <1>1, <1>2, <1>3 DEF IsDigit, t
<1> QED BY <1>4 DEF v

\* The word that encode() makes has the fields of the instruction as its digits.
LEMMA EncodedDigits ==
    ASSUME NEW insn \in DcInsn
    PROVE  LET v == Encode(insn)
           IN  /\ v \in Nat /\ v \div (64 * CycleMod * DeltaMod * SpiMod) = insn.iters
               /\ (v \div (64 * CycleMod * DeltaMod)) % SpiMod = insn.spi_din
               /\ (v \div (64 * CycleMod)) % DeltaMod = insn.delta
               /\ (v \div (32 * CycleMod)) % 2 = Bit(insn.strb_ldac)
               /\ (v \div 32) % CycleMod = insn.hold_cycles
               /\ (v \div 16) % 2 = Bit(insn.modify) /\ (v \div 8) % 2 = Bit(insn.arm)
               /\ (v \div 4) % 2 = Bit(insn.sticky_arm)
               /\ (v \div 2) % 2 = Bit(insn.idle) /\ v % 2 = Bit(insn.marker)
<1> DEFINE v == Encode(insn)
           i == insn.iters  s == insn.spi_din  d == insn.delta  h == insn.hold_cycles
           st == Bit(insn.strb_ldac)  mo == Bit(insn.modify)  ar == Bit(insn.arm)
           sa == Bit(insn.sticky_arm)  id == Bit(insn.idle)  mk == Bit(insn.marker)
<1>a. /\ i \in 0 .. IterMax /\ s \in 0 .. SpiMod - 1 /\ d \in 0 .. DeltaMod - 1
      /\ h \in 0 .. CycleMod - 1
      /\ st \in 0 .. 1 /\ mo \in 0 .. 1 /\ ar \in 0 .. 1
      /\ sa \in 0 .. 1 /\ id \in 0 .. 1 /\ mk \in 0 .. 1
  BY BitDigit DEF DcInsn, MaxHold
<1>b. v = i * 64 * CycleMod * DeltaMod * SpiMod + s * 64 * CycleMod * DeltaMod
          + d * 64 * CycleMod + st * 32 * CycleMod
          + h * 32 + mo * 16 + ar * 8 + sa * 4 + id * 2 + mk
  BY DEF Encode
<1> HIDE DEF v, i, s, d, h, st, mo, ar, sa, id, mk
<1> DEFINE C == CycleMod  D == DeltaMod  S == SpiMod
           w6 == 32 * C
           w7 == 64 * C
           w8 == 64 * C * D
           w9 == 64 * C * D * S
           r2 == id * 2 + mk
           r3 == sa * 4 + r2
           r4 == ar * 8 + r3
           r5 == mo * 16 + r4
           r6 == h * 32 + r5
           r7 == st * w6 + r6
           r8 == d * w7 + r7
           r9 == s * w8 + r8
           u8 == i * S + s
           u7 == u8 * D + d
           u6 == u7 * 2 + st
           u5 == u6 * C + h
           u4 == u5 * 2 + mo
           u3 == u4 * 2 + ar
           u2 == u3 * 2 + sa
           u1 == u2 * 2 + id
<1>1. C \in Nat \ {0} /\ D \in Nat \ {0} /\ S \in Nat \ {0} /\ IterMax \in Nat
  BY DecodeAssumption, InsnAssumption DEF SpiMod
<1>2. /\ w6 \in Nat \ {0} /\ w7 \in Nat \ {0} /\ w8 \in Nat \ {0} /\ w9 \in Nat \ {0}
      /\ w6 = C * 32 /\ w7 = 2 * w6 /\ w8 = D * w7 /\ w9 = S * w8
  BY <1>1
<1>3. r5 \in 0 .. 31 /\ r4 \in 0 .. 15 /\ r3 \in 0 .. 7 /\ r2 \in 0 .. 3
  BY <1>a
<1>4. v = i * w9 + r9 /\ i \in Nat
  BY <1>1, <1>a, <1>b
<1> HIDE DEF C, D, S, w6, w7, w8, w9
<1>5. r6 \in 0 .. w6 - 1
  <2>1. h \in 0 .. C - 1 /\ r6 \in Int
    BY <1>a, <1>3 DEF C
  <2>2. (C - 1 - h) * 32 >= 0 /\ h * 32 >= 0
    BY <1>1, <2>1
  <2> QED BY <1>1, <1>2, <1>3, <2>1, <2>2
<1> HIDE DEF r6
<1>6. r7 \in 0 .. w7 - 1
  BY <1>a, <1>2, <1>5
<1> HIDE DEF r7
<1>7. r8 \in 0 .. w8 - 1
  <2>1. d \in 0 .. D - 1 /\ r8 \in Int
    BY <1>a, <1>2, <1>6 DEF D
  <2>2. d * w7 + r7 \in 0 .. D * w7 - 1
    BY <1>1, <1>2, <1>6, <2>1, DigitBound
  <2> QED BY <1>2, <2>2
<1> HIDE DEF r8
<1>8. r9 \in 0 .. w9 - 1
  <2>1. s \in 0 .. S - 1
    BY <1>a DEF S
  <2>2. s * w8 + r8 \in 0 .. S * w8 - 1
    BY <1>1, <1>2, <1>7, <2>1, DigitBound
  <2> QED BY <1>2, <2>2
<1> HIDE DEF r9
<1>9. v \in Nat /\ v \div w9 = i
  <2>1. i * w9 >= 0 /\ i * w9 \in Int
    BY <1>2, <1>4
  <2>2. v \in Nat
    BY <1>4, <1>8, <2>1
  <2>3. v \in Int /\ i \in Int
    BY <1>4, <2>2
  <2>4. w9 \in Nat \ {0}
    BY <1>2
  <2>5. r9 \in 0 .. w9 - 1
    BY <1>8
  <2>6. v = i * w9 + r9
    BY <1>4
  <2>7. v \div w9 = i
    BY <2>3, <2>4, <2>5, <2>6, DivUnique
  <2> QED BY <2>2, <2>7
<1>10. (v \div w8) % S = s /\ v = u8 * w8 + r8 /\ u8 \in Int
  <2>1. s \in 0 .. S - 1
    BY <1>a DEF S
  <2>2. v = i * (S * w8) + (s * w8 + r8)
    BY <1>2, <1>4 DEF r9
  <2>3. v \in Int /\ i \in Int
    BY <1>4, <1>9
  <2>4. S \in Nat \ {0} /\ w8 \in Nat \ {0}
    BY <1>1, <1>2
  <2>5. IsDigit(i * (S * w8) + (s * w8 + r8), i, S, w8, s, r8)
    BY <1>7, <2>1, <2>3, <2>4, NextDigit, Zenon
  <2> QED BY <2>2, <2>5, Zenon DEF IsDigit
<1> HIDE DEF u8
<1>11. (v \div w7) % D = d /\ v = u7 * w7 + r7 /\ u7 \in Int
  <2>1. d \in 0 .. D - 1
    BY <1>a DEF D
  <2>2. v = u8 * (D * w7) + (d * w7 + r7)
    BY <1>2, <1>10 DEF r8
  <2>3. v \in Int /\ u8 \in Int
    BY <1>9, <1>10
  <2>4. D \in Nat \ {0} /\ w7 \in Nat \ {0}
    BY <1>1, <1>2
  <2>5. IsDigit(u8 * (D * w7) + (d * w7 + r7), u8, D, w7, d, r7)
    BY <1>6, <2>1, <2>3, <2>4, NextDigit, Zenon
  <2> QED BY <2>2, <2>5, Zenon DEF IsDigit
<1> HIDE DEF u7
<1>12. (v \div w6) % 2 = st /\ v = u6 * w6 + r6 /\ u6 \in Int
  <2>1. st \in 0 .. 2 - 1 /\ 2 \in Nat \ {0}
    BY <1>a
  <2>2. v = u7 * (2 * w6) + (st * w6 + r6)
    BY <1>2, <1>11 DEF r7
  <2>3. v \in Int /\ u7 \in Int
    BY <1>9, <1>11
  <2>4. 2 \in Nat \ {0} /\ w6 \in Nat \ {0}
    BY <1>2
  <2>5. IsDigit(u7 * (2 * w6) + (st * w6 + r6), u7, 2, w6, st, r6)
    BY <1>5, <2>1, <2>3, <2>4, NextDigit, Zenon
  <2> QED BY <2>2, <2>5, Zenon DEF IsDigit
<1> HIDE DEF u6
<1>13. (v \div 32) % C = h /\ v = u5 * 32 + r5 /\ u5 \in Int
  <2>1. h \in 0 .. C - 1
    BY <1>a DEF C
  <2>2. v = u6 * (C * 32) + (h * 32 + r5)
    BY <1>2, <1>12 DEF r6
  <2>3. v \in Int /\ u6 \in Int /\ 32 \in Nat \ {0} /\ r5 \in 0 .. 32 - 1
    BY <1>3, <1>9, <1>12
  <2>4. C \in Nat \ {0} /\ 32 \in Nat \ {0}
    BY <1>1
  <2>5. IsDigit(u6 * (C * 32) + (h * 32 + r5), u6, C, 32, h, r5)
    BY <2>1, <2>3, <2>4, NextDigit, Zenon
  <2> QED BY <2>2, <2>5, Zenon DEF IsDigit
<1> HIDE DEF u5
<1>14. /\ (v \div 16) % 2 = mo /\ (v \div 8) % 2 = ar /\ (v \div 4) % 2 = sa
       /\ (v \div 2) % 2 = id /\ v % 2 = mk
  BY <1>a, <1>13, SMTT(30)
<1> QED BY <1>9, <1>10, <1>11, <1>12, <1>13, <1>14 DEF w6, w7, w8, w9, C, D, S,
       v, i, s, d, h, st, mo, ar, sa, id, mk

\* The registers carry the word whole (WordParts, the three writes of a word).
LEMMA WordStored ==
    ASSUME NEW insn \in DcInsn
    PROVE  FromRegs(ToRegs(insn)) = Encode(insn)
<1> DEFINE v == Encode(insn)
<1>1. insn.iters \in 0 .. IterMax
  BY DEF DcInsn
<1>2. v \in Nat /\ v \div (64 * CycleMod * DeltaMod * SpiMod) = insn.iters
  BY EncodedDigits
<1>3. v \div (RegMod * RegMod) \in 0 .. IterMax
  BY <1>1, <1>2, InsnAssumption
<1> QED BY <1>2, <1>3, WordWhole DEF ToRegs

\* Every instruction comes back from its word (encode(), decode_insn()).
LEMMA RoundTrip ==
    ASSUME NEW insn \in DcInsn
    PROVE  DecodeInsn(FromRegs(ToRegs(insn))) = insn
<1> DEFINE v == Encode(insn)
<1>1. /\ insn.iters \in 0 .. IterMax /\ insn.spi_din \in 0 .. SpiMod - 1
      /\ insn.delta \in 0 .. DeltaMod - 1 /\ insn.hold_cycles \in 0 .. CycleMod - 1
      /\ insn.strb_ldac \in BOOLEAN /\ insn.modify \in BOOLEAN /\ insn.arm \in BOOLEAN
      /\ insn.sticky_arm \in BOOLEAN /\ insn.idle \in BOOLEAN /\ insn.marker \in BOOLEAN
  BY DEF DcInsn, MaxHold
<1>2. /\ v \in Nat /\ v \div (64 * CycleMod * DeltaMod * SpiMod) = insn.iters
      /\ (v \div (64 * CycleMod * DeltaMod)) % SpiMod = insn.spi_din
      /\ (v \div (64 * CycleMod)) % DeltaMod = insn.delta
      /\ (v \div (32 * CycleMod)) % 2 = Bit(insn.strb_ldac)
      /\ (v \div 32) % CycleMod = insn.hold_cycles
      /\ (v \div 16) % 2 = Bit(insn.modify) /\ (v \div 8) % 2 = Bit(insn.arm)
      /\ (v \div 4) % 2 = Bit(insn.sticky_arm)
      /\ (v \div 2) % 2 = Bit(insn.idle) /\ v % 2 = Bit(insn.marker)
  BY EncodedDigits
<1> HIDE DEF v
<1>3. FromRegs(ToRegs(insn)) = v
  BY WordStored DEF v
<1>4. (v \div (64 * CycleMod * DeltaMod * SpiMod)) % (IterMax + 1) = insn.iters
  BY <1>1, <1>2, DecodeAssumption
<1>5. /\ (Bit(insn.strb_ldac) = 1) = insn.strb_ldac /\ (Bit(insn.modify) = 1) = insn.modify
      /\ (Bit(insn.arm) = 1) = insn.arm /\ (Bit(insn.sticky_arm) = 1) = insn.sticky_arm
      /\ (Bit(insn.idle) = 1) = insn.idle /\ (Bit(insn.marker) = 1) = insn.marker
  BY <1>1, BitDigit
<1>6. DecodeInsn(v) =
         [iters |-> insn.iters, spi_din |-> insn.spi_din, delta |-> insn.delta,
          strb_ldac |-> insn.strb_ldac, hold_cycles |-> insn.hold_cycles,
          modify |-> insn.modify, arm |-> insn.arm, sticky_arm |-> insn.sticky_arm,
          idle |-> insn.idle, marker |-> insn.marker]
  BY <1>2, <1>4, <1>5, ZenonT(30) DEF DecodeInsn
<1>7. DecodeInsn(v) = insn
  BY <1>6 DEF DcInsn
<1> QED BY <1>3, <1>7

\* The places of the fields, from the sizes of those below (dc_insn_t).
LEMMA PlacesOfFields ==
    /\ Place[1] = 64 * CycleMod * DeltaMod * SpiMod /\ Place[2] = 64 * CycleMod * DeltaMod
    /\ Place[3] = 64 * CycleMod /\ Place[4] = 32 * CycleMod /\ Place[5] = 32
    /\ Place[6] = 16 /\ Place[7] = 8 /\ Place[8] = 4 /\ Place[9] = 2 /\ Place[10] = 1
<1> DEFINE C == CycleMod  D == DeltaMod  S == SpiMod
           size(k) == PackedFields[k].size
           G(f) == [k \in DOMAIN PackedFields |->
                       IF k = Len(PackedFields) THEN 1 ELSE f[k + 1] * PackedFields[k + 1].size]
           Known == <<64 * C * D * S, 64 * C * D, 64 * C, 32 * C, 32, 16, 8, 4, 2, 1>>
<1>1. C \in Nat /\ D \in Nat /\ S \in Nat
  BY DecodeAssumption, InsnAssumption, Ranges DEF SpiMod
<1>2. DOMAIN PackedFields = 1 .. 10 /\ Len(PackedFields) = 10
  BY DEF PackedFields
<1>3. /\ size(2) = S /\ size(3) = D /\ size(4) = 2 /\ size(5) = C
      /\ size(6) = 2 /\ size(7) = 2 /\ size(8) = 2 /\ size(9) = 2 /\ size(10) = 2
  BY DEF PackedFields
<1>4. Place = CHOOSE f : f = G(f)
  BY DEF Place
<1>a. \A f : G(f) = [k \in 1 .. 10 |-> IF k = 10 THEN 1 ELSE f[k + 1] * size(k + 1)]
  BY <1>2, Zenon DEF size
<1> HIDE DEF C, D, S, size
<1>5. Known = G(Known)
  <2>1. Known = [k \in 1 .. 10 |-> Known[k]]
    OBVIOUS
  <2>2. ASSUME NEW k \in 1 .. 10
        PROVE  Known[k] = (IF k = 10 THEN 1 ELSE Known[k + 1] * size(k + 1))
    <3>1. (64 * C * D) * S = 64 * C * D * S /\ (64 * C) * D = 64 * C * D
          /\ (32 * C) * 2 = 64 * C /\ 32 * C = 32 * C
      BY <1>1
    <3>2. k \in {1, 2, 3, 4, 5, 6, 7, 8, 9, 10}
      OBVIOUS
    <3> QED BY <1>1, <1>3, <3>1, <3>2
  <2>3. [k \in 1 .. 10 |-> Known[k]] = [k \in 1 .. 10 |-> IF k = 10 THEN 1 ELSE Known[k + 1] * size(k + 1)]
    BY <2>2, ZenonT(90)
  <2> HIDE DEF Known, G
  <2> QED BY <2>1, <2>3, <1>a, Zenon
<1> HIDE DEF Known
<1>6. Place = G(Place)
  BY <1>4, <1>5, Zenon
<1>7. Place[10] = 1 /\ \A k \in 1 .. 9 : Place[k] = Place[k + 1] * size(k + 1)
  <2>1. \A k \in 1 .. 10 : Place[k] = IF k = 10 THEN 1 ELSE Place[k + 1] * size(k + 1)
    <3> HIDE DEF G
    <3> QED BY <1>6, <1>a, Zenon
  <2> QED BY <2>1
<1>8. Place[9] = 2 /\ Place[8] = 4 /\ Place[7] = 8 /\ Place[6] = 16 /\ Place[5] = 32
  BY <1>3, <1>7
<1>9. Place[4] = 32 * C
  BY <1>1, <1>3, <1>7, <1>8
<1>10. Place[3] = 64 * C
  BY <1>1, <1>3, <1>7, <1>9
<1>11. Place[2] = 64 * C * D /\ Place[1] = 64 * C * D * S
  BY <1>1, <1>3, <1>7, <1>10
<1> QED BY <1>7, <1>8, <1>9, <1>10, <1>11 DEF C, D, S

\* Every field of an instruction lies in its word where the core takes it from
\* (encode(), dc_insn_t).
LEMMA FieldsCarried ==
    ASSUME NEW insn \in DcInsn, NEW f \in DOMAIN PackedFields
    PROVE  PackedField(FromRegs(ToRegs(insn)), f) = Number(insn, PackedFields[f].name)
<1> DEFINE v == Encode(insn)
<1>1. f \in {1, 2, 3, 4, 5, 6, 7, 8, 9, 10}
  BY DEF PackedFields
<1>2. FromRegs(ToRegs(insn)) = v
  BY WordStored
<1>3. /\ v \in Nat /\ v \div (64 * CycleMod * DeltaMod * SpiMod) = insn.iters
      /\ (v \div (64 * CycleMod * DeltaMod)) % SpiMod = insn.spi_din
      /\ (v \div (64 * CycleMod)) % DeltaMod = insn.delta
      /\ (v \div (32 * CycleMod)) % 2 = Bit(insn.strb_ldac)
      /\ (v \div 32) % CycleMod = insn.hold_cycles
      /\ (v \div 16) % 2 = Bit(insn.modify) /\ (v \div 8) % 2 = Bit(insn.arm)
      /\ (v \div 4) % 2 = Bit(insn.sticky_arm)
      /\ (v \div 2) % 2 = Bit(insn.idle) /\ v % 2 = Bit(insn.marker)
  BY EncodedDigits
<1> HIDE DEF v
<1>4. (v \div (64 * CycleMod * DeltaMod * SpiMod)) % (IterMax + 1) = insn.iters
  BY <1>3, DecodeAssumption DEF DcInsn
<1>5. v \div 1 = v
  BY <1>3
<1>7. /\ PackedFields[1].name = "iters" /\ PackedFields[1].size = IterMax + 1
      /\ PackedFields[2].name = "spi_din" /\ PackedFields[2].size = SpiMod
      /\ PackedFields[3].name = "delta" /\ PackedFields[3].size = DeltaMod
      /\ PackedFields[4].name = "strb_ldac" /\ PackedFields[4].size = 2
      /\ PackedFields[5].name = "hold_cycles" /\ PackedFields[5].size = CycleMod
      /\ PackedFields[6].name = "modify" /\ PackedFields[6].size = 2
      /\ PackedFields[7].name = "arm" /\ PackedFields[7].size = 2
      /\ PackedFields[8].name = "sticky_arm" /\ PackedFields[8].size = 2
      /\ PackedFields[9].name = "idle" /\ PackedFields[9].size = 2
      /\ PackedFields[10].name = "marker" /\ PackedFields[10].size = 2
  BY DEF PackedFields
<1>8. /\ Number(insn, "iters") = insn.iters
      /\ Number(insn, "spi_din") = insn.spi_din
      /\ Number(insn, "delta") = insn.delta
      /\ Number(insn, "strb_ldac") = Bit(insn.strb_ldac)
      /\ Number(insn, "hold_cycles") = insn.hold_cycles
      /\ Number(insn, "modify") = Bit(insn.modify)
      /\ Number(insn, "arm") = Bit(insn.arm)
      /\ Number(insn, "sticky_arm") = Bit(insn.sticky_arm)
      /\ Number(insn, "idle") = Bit(insn.idle)
      /\ Number(insn, "marker") = Bit(insn.marker)
  BY DEF Number
<1>9. /\ PackedField(v, 1) = Number(insn, PackedFields[1].name)
      /\ PackedField(v, 2) = Number(insn, PackedFields[2].name)
      /\ PackedField(v, 3) = Number(insn, PackedFields[3].name)
      /\ PackedField(v, 4) = Number(insn, PackedFields[4].name)
      /\ PackedField(v, 5) = Number(insn, PackedFields[5].name)
      /\ PackedField(v, 6) = Number(insn, PackedFields[6].name)
      /\ PackedField(v, 7) = Number(insn, PackedFields[7].name)
      /\ PackedField(v, 8) = Number(insn, PackedFields[8].name)
      /\ PackedField(v, 9) = Number(insn, PackedFields[9].name)
      /\ PackedField(v, 10) = Number(insn, PackedFields[10].name)
  <2>1. PackedField(v, 1) = Number(insn, PackedFields[1].name)
    BY <1>4, <1>7, <1>8, PlacesOfFields, SMT DEF PackedField
  <2>2. PackedField(v, 2) = Number(insn, PackedFields[2].name)
    BY <1>3, <1>7, <1>8, PlacesOfFields, SMT DEF PackedField
  <2>3. PackedField(v, 3) = Number(insn, PackedFields[3].name)
    BY <1>3, <1>7, <1>8, PlacesOfFields, SMT DEF PackedField
  <2>4. PackedField(v, 4) = Number(insn, PackedFields[4].name)
    BY <1>3, <1>7, <1>8, PlacesOfFields, SMT DEF PackedField
  <2>5. PackedField(v, 5) = Number(insn, PackedFields[5].name)
    BY <1>3, <1>7, <1>8, PlacesOfFields, SMT DEF PackedField
  <2>6. PackedField(v, 6) = Number(insn, PackedFields[6].name)
    BY <1>3, <1>7, <1>8, PlacesOfFields, SMT DEF PackedField
  <2>7. PackedField(v, 7) = Number(insn, PackedFields[7].name)
    BY <1>3, <1>7, <1>8, PlacesOfFields, SMT DEF PackedField
  <2>8. PackedField(v, 8) = Number(insn, PackedFields[8].name)
    BY <1>3, <1>7, <1>8, PlacesOfFields, SMT DEF PackedField
  <2>9. PackedField(v, 9) = Number(insn, PackedFields[9].name)
    BY <1>3, <1>7, <1>8, PlacesOfFields, SMT DEF PackedField
  <2>10. PackedField(v, 10) = Number(insn, PackedFields[10].name)
    BY <1>3, <1>5, <1>7, <1>8, PlacesOfFields, SMT DEF PackedField
  <2> QED BY <2>1, <2>2, <2>3, <2>4, <2>5, <2>6, <2>7, <2>8, <2>9, <2>10
<1> QED BY <1>1, <1>2, <1>9

\* A hold that is accepted fits its field (parse_hold()).
LEMMA HoldType ==
    ASSUME NEW t \in LineTime, HoldAccepted(t)
    PROVE  TimeToCycles(ParseTime(t)) \in 0 .. MaxHold
<1>1. MaxHold \in Int /\ NsPerCycle \in Nat \ {0} /\ TimeBase \in Nat \ {0}
  BY DecodeAssumption, InsnAssumption DEF MaxHold
<1>2. t.num \in Nat /\ Scale[t.unit] \in Nat
  BY <1>1 DEF LineTime, Scale
<1>3. ParseTime(t) \in Int
  BY <1>2 DEF ParseTime
<1>4. Round(ParseTime(t), NsPerCycle) \in Int
  BY <1>1, <1>3 DEF Round
<1>5. TimeToCycles(ParseTime(t)) \in Nat \ {0}
  BY <1>4 DEF TimeToCycles
<1> QED BY <1>1, <1>5 DEF HoldAccepted

\* Deltas and codes fit their fields, whatever their voltages (to_bits(), volt_to_code()).
LEMMA FieldTypes ==
    /\ \A k \in Int : ToBits(k) \in 0 .. DeltaMod - 1
    /\ \A v \in Int : VoltToCode(v) \in 0 .. DacMod - 1
    /\ SpiMod \in Nat /\ SpiMod = 16 * DacMod /\ MaxHold \in Nat /\ DeltaMod \in Nat \ {0}
<1>1. DeltaMod \in Nat \ {0} /\ DacMod \in Nat \ {0} /\ DeltaMax \in Nat /\ CycleMod \in Nat \ {0}
  BY Ranges, DecodeAssumption
<1>2. ASSUME NEW k \in Int PROVE ToBits(k) \in 0 .. DeltaMod - 1
  <2>1. Clamp(k, -DeltaMax - 1, DeltaMax) \in Int
    BY <1>1 DEF Clamp
  <2> QED BY <1>1, <2>1 DEF ToBits
<1>3. ASSUME NEW v \in Int PROVE VoltToCode(v) \in 0 .. DacMod - 1
  <2>1. VoltToSigned(v) \in Int
    BY VoltToSignedType, Ranges
  <2> QED BY <1>1, <2>1 DEF VoltToCode
<1> QED BY <1>1, <1>2, <1>3 DEF SpiMod, MaxHold

\* Options do not change the type of an instruction.
LEMMA FlagsType ==
    ASSUME NEW insn \in DcInsn, NEW arm \in BOOLEAN, NEW srm \in BOOLEAN, NEW mk \in BOOLEAN
    PROVE  [insn EXCEPT !.arm = arm, !.sticky_arm = srm, !.marker = mk] \in DcInsn
BY DEF DcInsn

\* Nor does the strobe.
LEMMA StrobeType ==
    ASSUME NEW insn \in DcInsn, NEW ldc \in BOOLEAN
    PROVE  [insn EXCEPT !.strb_ldac = ldc] \in DcInsn
BY DEF DcInsn

\* The voltages of "v+".
LEMMA VPlusType ==
    ASSUME NEW opts \in LineOpts
    PROVE  opts.vplus \in Seq(Int)
BY DEF LineOpts

\* What options alone make of an instruction is one (apply_opts()).
LEMMA SteppedType ==
    ASSUME NEW opts, opts.vplus \in Seq(Int)
    PROVE  Common(opts) \in DcInsn /\ Stepped(opts) \in DcInsn
<1>1. Common(opts) \in DcInsn
  <2>1. NoInsn \in DcInsn
    BY FieldTypes, DecodeAssumption DEF NoInsn, DcInsn
  <2>2. /\ ("arm" \in opts.flags) \in BOOLEAN /\ ("srm" \in opts.flags) \in BOOLEAN
        /\ ("mk" \in opts.flags) \in BOOLEAN
    OBVIOUS
  <2> QED BY <2>1, <2>2, FlagsType, Zenon DEF Common
<1>2. opts.vplus # <<>> => ToBits(VoltToSigned(opts.vplus[1])) \in 0 .. DeltaMod - 1
  <2>1. opts.vplus # <<>> => opts.vplus[1] \in Int
    OBVIOUS
  <2>2. \A v \in Int : VoltToSigned(v) \in Int
    BY VoltToSignedType, Ranges
  <2> QED BY <2>1, <2>2, FieldTypes
<1> QED BY <1>1, <1>2 DEF Stepped, DcInsn

\* What is assembled of a line that is accepted fits the fields of a word, for every
\* mnemonic and all operands (INSN_PARSERS).
LEMMA AssembleType ==
    ASSUME NEW l \in InsnLine, Accepted(l)
    PROVE  Assemble(l) \in DcInsn
<1>1. l.opts \in LineOpts /\ Common(l.opts) \in DcInsn /\ Stepped(l.opts) \in DcInsn
  <2>1. l.opts \in LineOpts
    BY DEF InsnLine, SwpLine, LvlLine, SetLine, GetLine, NopLine, FulLine
  <2> QED BY <2>1, SteppedType, VPlusType
<1>2. DacMod \in Nat \ {0} /\ IterMax \in Nat /\ ("ldc" \in l.opts.flags) \in BOOLEAN
  BY Ranges, DecodeAssumption
<1>3. CASE l \in SwpLine
  <2>1. l.op = "swp" /\ SwpAccepted(l) /\ l.v1 \in Int /\ l.v2 \in Int /\ l.n \in Nat /\ l.t \in LineTime
    BY <1>3 DEF SwpLine, Accepted
  <2>2. l.n - 1 \in 0 .. IterMax /\ l.n - 1 \in Nat \ {0} /\ TimeToCycles(ParseTime(l.t)) \in 0 .. MaxHold
    BY <1>2, <2>1, HoldType DEF SwpAccepted, SwpInRange
  <2>3. VoltToCode(l.v1) \in 0 .. DacMod - 1 /\ DacRegMap.dr * DacMod + VoltToCode(l.v1) \in 0 .. SpiMod - 1
    BY <1>2, <2>1, FieldTypes DEF DacRegMap
  <2>4. ToBits(PulledBack(VoltToSigned(l.v1), SwpDelta(l), l.n - 1)) \in 0 .. DeltaMod - 1
    <3>1. VoltToSigned(l.v1) \in Int /\ SwpDelta(l) \in Int
      BY <2>1, VoltToSignedType, Ranges DEF SwpAccepted
    <3>2. (KMax - VoltToSigned(l.v1)) \div (l.n - 1) \in Int /\ (VoltToSigned(l.v1) - KMin) \div (l.n - 1) \in Int
      <4> DEFINE steps == l.n - 1
      <4>1. steps \in Nat \ {0} /\ KMax - VoltToSigned(l.v1) \in Int /\ VoltToSigned(l.v1) - KMin \in Int
        BY <2>2, <3>1, Ranges
      <4> HIDE DEF steps
      <4>2. (KMax - VoltToSigned(l.v1)) \div steps \in Int /\ (VoltToSigned(l.v1) - KMin) \div steps \in Int
        BY <4>1
      <4> QED BY <4>2 DEF steps
    <3>3. PulledBack(VoltToSigned(l.v1), SwpDelta(l), l.n - 1) \in Int
      BY <3>1, <3>2 DEF PulledBack
    <3> QED BY <3>3, FieldTypes
  <2>5. ParseSwp(l) \in DcInsn
    BY <1>1, <2>2, <2>3, <2>4 DEF ParseSwp, DcInsn
  <2> QED BY <2>1, <2>5 DEF Assemble
<1>4. CASE l \in LvlLine
  <2>1. l.op = "lvl" /\ LvlAccepted(l) /\ l.v \in Int /\ l.t \in LineTime
    BY <1>4 DEF LvlLine, Accepted
  <2>2. TimeToCycles(ParseTime(l.t)) \in 0 .. MaxHold
    BY <2>1, HoldType DEF LvlAccepted
  <2>3. DacRegMap.dr * DacMod + VoltToCode(l.v) \in 0 .. SpiMod - 1
    <3>1. VoltToCode(l.v) \in 0 .. DacMod - 1
      BY <2>1, FieldTypes
    <3> QED BY <1>2, <3>1, FieldTypes DEF DacRegMap
  <2>4. ParseLvl(l) \in DcInsn
    BY <1>1, <2>2, <2>3 DEF ParseLvl, DcInsn
  <2> QED BY <2>1, <2>4 DEF Assemble
<1>5. CASE l \in SetLine
  <2>1. l.op = "set" /\ SetAccepted(l) /\ l.din \in Nat
    BY <1>5 DEF SetLine, Accepted
  <2>2. DacRegMap[l.reg] \in 1 .. 4 /\ l.din \in 0 .. DacMod - 1
    BY <1>2, <2>1 DEF SetAccepted, DacRegMap
  <2>3. DacRegMap[l.reg] * DacMod + l.din \in 0 .. SpiMod - 1
    BY <1>2, <2>2, FieldTypes
  <2>4. ParseSet(l) \in DcInsn
    <3>1. [Stepped(l.opts) EXCEPT !.spi_din = DacRegMap[l.reg] * DacMod + l.din] \in DcInsn
      BY <1>1, <2>3 DEF DcInsn
    <3> QED BY <1>2, <3>1, StrobeType, Zenon DEF ParseSet
  <2> QED BY <2>1, <2>4 DEF Assemble
<1>6. CASE l \in GetLine
  <2>1. l.op = "get" /\ GetAccepted(l)
    BY <1>6 DEF GetLine, Accepted
  <2>2. DacRegMap[l.reg] \in 1 .. 4
    BY <2>1 DEF GetAccepted, DacRegMap
  <2>3. (8 + DacRegMap[l.reg]) * DacMod \in 0 .. SpiMod - 1
    BY <1>2, <2>2, FieldTypes
  <2>4. ParseGet(l) \in DcInsn
    <3>1. [Common(l.opts) EXCEPT !.spi_din = (8 + DacRegMap[l.reg]) * DacMod] \in DcInsn
      BY <1>1, <2>3 DEF DcInsn
    <3> QED BY <1>2, <3>1, StrobeType, Zenon DEF ParseGet
  <2> QED BY <2>1, <2>4 DEF Assemble
<1>7. CASE l \in NopLine
  <2>1. l.op = "nop"
    BY <1>7 DEF NopLine
  <2>2. ParseNop(l) \in DcInsn
    <3>1. [Stepped(l.opts) EXCEPT !.idle = TRUE] \in DcInsn
      BY <1>1 DEF DcInsn
    <3> QED BY <1>2, <3>1, StrobeType, Zenon DEF ParseNop
  <2> QED BY <2>1, <2>2 DEF Assemble
<1>8. CASE l \in FulLine
  <2>1. l.op = "ful" /\ FulAccepted(l) /\ l.its \in Nat /\ l.din \in Nat /\ l.cyc \in Nat
    BY <1>8 DEF FulLine, Accepted
  <2>2. l.its \in 0 .. IterMax /\ l.din \in 0 .. SpiMod - 1 /\ l.cyc \in 0 .. MaxHold
    BY <1>2, <2>1, FieldTypes DEF FulAccepted
  <2>3. ParseFul(l) \in DcInsn
    <3>1. [Stepped(l.opts) EXCEPT !.iters = l.its, !.spi_din = l.din, !.hold_cycles = l.cyc] \in DcInsn
      BY <1>1, <2>2 DEF DcInsn
    <3> QED BY <1>2, <3>1, StrobeType, Zenon DEF ParseFul
  <2> QED BY <2>1, <2>3 DEF Assemble
<1> QED BY <1>3, <1>4, <1>5, <1>6, <1>7, <1>8 DEF InsnLine

\* The strengthening: instructions have the widths of their fields.
InsnsOK == "insns" \in DOMAIN prog /\ prog.insns \in Seq(DcInsn)

\* A program that is being read holds instructions that fit their words (parse_asm()).
LEMMA InsnsAlwaysOK == Spec => []InsnsOK
<1>1. Init => InsnsOK
  BY DEF Init, AsmInit, NewProgram, InsnsOK
<1>2. LineOK /\ InsnsOK /\ [Next]_vars => InsnsOK'
  <2> SUFFICES ASSUME LineOK, InsnsOK, [Next]_vars PROVE InsnsOK'
    OBVIOUS
  <2>1. CASE prog' = prog
    BY <2>1 DEF InsnsOK
  <2>2. CASE \E c : prog' = NewProgram(c)
    BY <2>2 DEF InsnsOK, NewProgram
  <2>3. CASE AddInsn
    <3>1. line[1].insn \in InsnLine /\ Accepted(line[1].insn)
      BY <2>3, InsnOfLine DEF AddInsn, Is
    <3>2. Assemble(line[1].insn) \in DcInsn
      BY <3>1, AssembleType
    <3> QED BY <2>3, <3>2 DEF AddInsn, InsnsOK
  <2>4. CASE SetCtrl \/ SetRepeat
    BY <2>4 DEF SetCtrl, SetRepeat, InsnsOK
  <2>5. CASE OpenProgram
    BY <2>2, <2>5 DEF OpenProgram
  <2>6. CASE ReadLine \/ SkipEmpty \/ CloseProgram \/ SetLaunch \/ SetMask \/ SetMarkers \/ Finish \/ Reject
    BY <2>1, <2>6 DEF ReadLine, SkipEmpty, CloseProgram, SetLaunch, SetMask, SetMarkers, Finish, Reject, Fail
  <2>7. CASE ExitFailed \/ Connect
    BY <2>2, <2>7 DEF ExitFailed, Connect
  <2>8. CASE Invoke \/ OpenReading \/ Disconnect
    BY <2>1, <2>8 DEF Invoke, OpenReading, Disconnect
  <2>9. CASE SendNext \/ AskDepth \/ ReadNext
    BY <2>1, <2>9 DEF SendNext, AskDepth, ReadNext, parsing
  <2>10. CASE UNCHANGED vars
    BY <2>1, <2>10 DEF vars, parsing
  <2> QED BY <2>3, <2>4, <2>5, <2>6, <2>7, <2>8, <2>9, <2>10 DEF Next, Parse, ParseStep
<1> QED BY <1>1, <1>2, LineAlwaysOK, PTL DEF Spec

\* Whatever the widths of the fields and of the registers, the word stored of an
\* instruction of any file is that instruction, for the tool that decodes it and
\* for the core that takes its fields (encode(), decode_insn(), dc_insn_t).
THEOREM WordsAlwaysCarry == Spec => []WordsCarryInstruction
<1>1. InsnsOK => WordsReadBack
  BY RoundTrip DEF InsnsOK, WordsReadBack
<1>2. InsnsOK => FieldsInPlace
  BY FieldsCarried DEF InsnsOK, FieldsInPlace
<1> QED BY <1>1, <1>2, InsnsAlwaysOK, PTL DEF WordsCarryInstruction

-----------------------------------------------------------------------------
(* Instructions as lines, and back. *)

\* A rounded quotient is off by half a divisor at most (round()).
LEMMA RoundBounds ==
    ASSUME NEW p \in Int, NEW q \in Nat \ {0}
    PROVE  /\ Round(p, q) \in Int
           /\ 2 * p - q <= 2 * (q * Round(p, q)) /\ 2 * (q * Round(p, q)) <= 2 * p + q
<1> DEFINE floor == p \div q
           rest == p % q
<1>1. floor \in Int /\ rest \in 0 .. q - 1 /\ p = q * floor + rest
  OBVIOUS
<1>2. Round(p, q) = floor \/ (Round(p, q) = floor + 1 /\ 2 * rest >= q)
  BY <1>1 DEF Round
<1>3. Round(p, q) = floor => 2 * rest <= q
  BY <1>1 DEF Round
<1>4. q * (floor + 1) = q * floor + q /\ q * floor \in Int
  BY <1>1
<1> HIDE DEF floor, rest
<1>5. CASE Round(p, q) = floor
  BY <1>1, <1>3, <1>4, <1>5
<1>6. CASE Round(p, q) = floor + 1 /\ 2 * rest >= q
  BY <1>1, <1>4, <1>6
<1> QED BY <1>2, <1>5, <1>6

\* The voltages and the codes, counted from the lowest one, in each other's units; Wide is
\* a digit in those of Span.
Span   == 2 * VMax
Steep  == DacMod - 1
Wide   == Digit * Steep
Digits == VMax \div Digit

LEMMA Spans ==
    /\ Span \in Nat \ {0} /\ Steep \in Nat \ {0} /\ Wide \in Nat \ {0} /\ Span # Wide
    /\ VMax \in Nat \ {0} /\ Digit \in Nat \ {0} /\ Digits \in Nat /\ VMax = Digit * Digits
    /\ KMax = KMin + Steep /\ KMin \in Int /\ KMax \in Int
<1>1. DacMod \in Nat /\ DacMod > 1 /\ DacMod % 2 = 0
  BY Ranges, PrintAssumption
<1>2. DacMod = 2 * DacHalf /\ DacHalf \in Nat
  BY <1>1 DEF DacHalf
<1>3. Span \in Nat \ {0} /\ Steep \in Nat \ {0} /\ KMax = KMin + Steep /\ KMin \in Int /\ KMax \in Int
  BY <1>1, <1>2, InsnAssumption, Ranges DEF Span, Steep, KMin, KMax
<1>4. VMax \in Nat \ {0} /\ Digit \in Nat \ {0} /\ VMax % Digit = 0
  BY InsnAssumption
<1>5. Digits \in Nat /\ VMax = Digit * Digits
  BY <1>4 DEF Digits
<1>6. Wide \in Nat \ {0}
  <2> HIDE DEF Steep
  <2> QED BY <1>3, <1>4 DEF Wide
<1>7. Span # Wide
  <2>1. Span = Digit * (2 * Digits)
    BY <1>4, <1>5 DEF Span
  <2>2. Steep # 2 * Digits
    BY <1>2, <1>5 DEF Steep
  <2> DEFINE e == 2 * Digits - Steep
  <2>4. e \in Int /\ e # 0
    BY <1>3, <1>5, <2>2
  <2>5. Digit * e = Span - Wide
    BY <1>3, <1>4, <1>5, <2>1 DEF Wide
  <2> HIDE DEF e
  <2>6. Digit * e # 0
    <3>1. CASE e > 0
      BY <1>4, <2>4, <3>1
    <3>2. CASE e < 0
      <4>1. Digit * (-e) > 0 /\ Digit * (-e) = -(Digit * e)
        BY <1>4, <2>4, <3>2
      <4> QED BY <1>4, <2>4, <4>1
    <3> QED BY <2>4, <3>1, <3>2
  <2> QED BY <1>3, <1>6, <2>5, <2>6
<1> QED BY <1>3, <1>4, <1>5, <1>6, <1>7

\* The products that the comparisons of voltages with codes need.
LEMMA Products ==
    ASSUME NEW m \in Nat \ {0}, NEW a \in Int, NEW b \in Int
    PROVE  /\ m * a \in Int /\ m * (a - b) = m * a - m * b /\ m * (a + b) = m * a + m * b
           /\ a >= b + 1 => m * a >= m * b + m
           /\ a <= b - 1 => m * a <= m * b - m
<1>1. m * a \in Int /\ m * b \in Int /\ m * (a - b) = m * a - m * b /\ m * (a + b) = m * a + m * b
  OBVIOUS
<1>2. ASSUME a >= b + 1 PROVE m * a >= m * b + m
  <2>1. PICK e \in Nat : a = b + 1 + e
    <3>1. a - (b + 1) \in Nat
      BY <1>2
    <3> QED BY <3>1
  <2>2. m * a = m * b + m + m * e /\ m * e >= 0
    BY <2>1
  <2> QED BY <1>1, <2>2
<1>3. ASSUME a <= b - 1 PROVE m * a <= m * b - m
  <2>1. PICK e \in Nat : a = b - 1 - e
    <3>1. (b - 1) - a \in Nat
      BY <1>3
    <3> QED BY <3>1
  <2>2. m * a = m * b - m - m * e /\ m * e >= 0
    BY <2>1
  <2> QED BY <1>1, <2>2
<1> QED BY <1>1, <1>2, <1>3

\* The code of a voltage is one of the closest (volt_to_signed()).
LEMMA CodeClose ==
    ASSUME NEW v \in -VMax .. VMax
    PROVE  /\ VoltToSigned(v) - KMin \in 0 .. Steep
           /\ Span * (VoltToSigned(v) - KMin) \in Int /\ Steep * (v + VMax) \in Int
           /\ 2 * (Steep * (v + VMax)) - Span <= 2 * (Span * (VoltToSigned(v) - KMin))
           /\ 2 * (Span * (VoltToSigned(v) - KMin)) <= 2 * (Steep * (v + VMax)) + Span
<1> DEFINE k == Round(2 * VMax * KMin + (v + VMax) * (DacMod - 1), 2 * VMax)
           u == v + VMax
<1>1. u \in 0 .. Span /\ u \in Int /\ v \in Int
  BY Spans DEF Span
<1>2. Steep * u \in Int /\ Steep * u >= 0 /\ Steep * u <= Steep * Span /\ Span * Steep = Steep * Span
  <2>1. Steep * (Span - u) >= 0 /\ Steep * (Span - u) = Steep * Span - Steep * u
    BY <1>1, Spans
  <2> QED BY <1>1, <2>1, Spans
<1>3. CASE v >= VMax
  <2>1. VoltToSigned(v) = KMax /\ u = Span
    BY <1>1, <1>3, Spans DEF VoltToSigned, Span
  <2>2. VoltToSigned(v) - KMin = Steep
    BY <2>1, Spans
  <2> QED BY <1>2, <2>1, <2>2, Spans
<1>4. CASE v < VMax
  <2>1. 2 * VMax * KMin + (v + VMax) * (DacMod - 1) = Span * KMin + Steep * u
    BY <1>1, Spans, Ranges DEF Span, Steep
  <2>2. Span * KMin + Steep * u \in Int /\ Span * KMin \in Int
    BY <1>2, Spans
  <2>3. k = Round(Span * KMin + Steep * u, Span)
    BY <2>1 DEF Span
  <2>4. /\ k \in Int
        /\ 2 * (Span * KMin + Steep * u) - Span <= 2 * (Span * k)
        /\ 2 * (Span * k) <= 2 * (Span * KMin + Steep * u) + Span
    BY <2>2, <2>3, RoundBounds, Spans
  <2> HIDE DEF k, u
  <2>5. Span * (k - KMin) = Span * k - Span * KMin /\ Span * k \in Int
    BY <2>4, Spans, Products
  <2>6. k - KMin >= 0
    <3>1. k - KMin <= 0 - 1 => Span * (k - KMin) <= Span * 0 - Span
      BY <2>4, Spans, Products
    <3>2. Span * 0 = 0
      BY Spans
    <3> QED BY <1>2, <2>2, <2>4, <2>5, <3>1, <3>2, Spans
  <2>7. k - KMin <= Steep
    <3>1. k - KMin >= Steep + 1 => Span * (k - KMin) >= Span * Steep + Span
      BY <2>4, Spans, Products
    <3> QED BY <1>2, <2>2, <2>4, <2>5, <3>1, Spans
  <2>8. k >= KMin /\ k <= KMax
    BY <2>4, <2>6, <2>7, Spans
  <2>9. VoltToSigned(v) = k
    BY <1>1, <1>4, <2>4, <2>8, Spans DEF VoltToSigned, Clamp, k
  <2>10. k - KMin \in 0 .. Steep
    BY <2>4, <2>6, <2>7, Spans
  <2>11. /\ 2 * (Steep * u) - Span <= 2 * (Span * (k - KMin))
         /\ 2 * (Span * (k - KMin)) <= 2 * (Steep * u) + Span
         /\ Span * (k - KMin) \in Int
    BY <1>2, <2>2, <2>4, <2>5, Spans
  <2> QED BY <1>2, <2>9, <2>10, <2>11 DEF u
<1> QED BY <1>1, <1>3, <1>4, Spans

\* A code that is closer to a voltage than half a voltage is its code.
LEMMA ClosestCode ==
    ASSUME NEW v \in -VMax .. VMax, NEW k \in Int,
           2 * (Steep * (v + VMax)) - Span < 2 * (Span * (k - KMin)),
           2 * (Span * (k - KMin)) < 2 * (Steep * (v + VMax)) + Span
    PROVE  VoltToSigned(v) = k
<1> DEFINE x == VoltToSigned(v) - KMin
           y == k - KMin
           a == Steep * (v + VMax)
<1>1. x \in Int /\ y \in Int /\ a \in Int /\ Span * x \in Int /\ Span * y \in Int /\ VoltToSigned(v) \in Int
  <2>1. VoltToSigned(v) \in Int
    BY Spans, VoltToSignedType
  <2> QED BY <2>1, CodeClose, Spans, Products
<1>2. /\ 2 * a - Span <= 2 * (Span * x) /\ 2 * (Span * x) <= 2 * a + Span
      /\ 2 * a - Span < 2 * (Span * y) /\ 2 * (Span * y) < 2 * a + Span
  BY CodeClose
<1> HIDE DEF x, y, a
<1>3. (x >= y + 1 => Span * x >= Span * y + Span) /\ (x <= y - 1 => Span * x <= Span * y - Span)
  BY <1>1, Spans, Products
<1>4. x = y
  BY <1>1, <1>2, <1>3, Spans
<1> QED BY <1>1, <1>4, Spans DEF x, y

\* The voltage that is printed of a code is one of the closest of those that can be
\* printed (code_to_volt(), format_insn()).
LEMMA VoltClose ==
    ASSUME NEW k \in KMin .. KMax
    PROVE  /\ CodeToVolt(k) \in -VMax .. VMax /\ CodeToVolt(k % DacMod) = CodeToVolt(k)
           /\ Printable(CodeToVolt(k))
           /\ Steep * (CodeToVolt(k) + VMax) \in Int /\ Span * (k - KMin) \in Int
           /\ 2 * (Span * (k - KMin)) - Wide <= 2 * (Steep * (CodeToVolt(k) + VMax))
           /\ 2 * (Steep * (CodeToVolt(k) + VMax)) <= 2 * (Span * (k - KMin)) + Wide
<1> DEFINE r == Round((CodeSigned(k) - KMin) * 2 * VMax - VMax * (DacMod - 1), Digit * (DacMod - 1))
           w == CodeToVolt(k)
           y == k - KMin
           q == r + Digits
<1>1. k \in Int /\ y \in 0 .. Steep /\ y \in Int /\ CodeSigned(k) = k
  BY Spans, Ranges DEF CodeSigned
<1>2. CodeSigned(k % DacMod) = k
  BY CodeItself
<1>3. CodeToVolt(k % DacMod) = w /\ w = Digit * r
  BY <1>1, <1>2 DEF CodeToVolt
<1>4. (CodeSigned(k) - KMin) * 2 * VMax - VMax * (DacMod - 1) = Span * y - Wide * Digits
  <2>1. VMax * (DacMod - 1) = Wide * Digits
    BY Spans, Ranges DEF Wide, Steep
  <2>2. (CodeSigned(k) - KMin) * 2 * VMax = Span * y
    BY <1>1, Spans DEF Span
  <2> QED BY <2>1, <2>2
<1>5. r = Round(Span * y - Wide * Digits, Wide)
  BY <1>4 DEF Wide, Steep
<1>6. Span * y \in Int /\ Wide * Digits \in Int /\ Span * y >= 0 /\ Span * y <= Wide * (2 * Digits)
  <2>1. Span * (Steep - y) >= 0 /\ Span * (Steep - y) = Span * Steep - Span * y
    BY <1>1, Spans
  <2>2. Span * Steep = Wide * (2 * Digits)
    BY Spans DEF Span, Wide
  <2> QED BY <1>1, <2>1, <2>2, Spans
<1>7. /\ r \in Int
      /\ 2 * (Span * y - Wide * Digits) - Wide <= 2 * (Wide * r)
      /\ 2 * (Wide * r) <= 2 * (Span * y - Wide * Digits) + Wide
  BY <1>5, <1>6, RoundBounds, Spans
<1> HIDE DEF w, y, r
<1>8. Wide * q = Wide * r + Wide * Digits /\ Wide * r \in Int /\ q \in Int /\ w + VMax = Digit * q
  <2>1. w + VMax = Digit * q
    BY <1>3, <1>7, Spans
  <2> QED BY <1>7, <2>1, Spans, Products
<1>9. Steep * (w + VMax) = Wide * q
  <2> HIDE DEF q
  <2>1. Steep * (Digit * q) = Wide * q
    BY <1>8, Spans DEF Wide
  <2> QED BY <1>8, <2>1
<1> HIDE DEF q
<1>10. q >= 0
  <2>1. q <= 0 - 1 => Wide * q <= Wide * 0 - Wide
    BY <1>8, Spans, Products
  <2>2. Wide * 0 = 0
    BY Spans
  <2> QED BY <1>6, <1>7, <1>8, <2>1, <2>2, Spans
<1>11. q <= 2 * Digits
  <2>1. q >= 2 * Digits + 1 => Wide * q >= Wide * (2 * Digits) + Wide
    BY <1>8, Spans, Products
  <2> QED BY <1>6, <1>7, <1>8, <2>1, Spans
<1>12. w \in -VMax .. VMax
  <2>1. Digit * q >= 0 /\ Digit * (2 * Digits - q) >= 0
    BY <1>8, <1>10, <1>11, Spans
  <2>2. Digit * (2 * Digits - q) = 2 * VMax - Digit * q
    BY <1>8, Spans
  <2>3. w \in Int
    BY <1>3, <1>7, Spans
  <2> QED BY <1>8, <2>1, <2>2, <2>3, Spans
<1>13. w % Digit = 0
  <2>1. (Digit * r + 0) % Digit = 0
    BY <1>7, Spans, ModUnique
  <2>2. Digit * r + 0 = w
    BY <1>3, <1>7, Spans
  <2> QED BY <2>1, <2>2
<1>14. /\ Steep * (w + VMax) \in Int
       /\ 2 * (Span * y) - Wide <= 2 * (Steep * (w + VMax))
       /\ 2 * (Steep * (w + VMax)) <= 2 * (Span * y) + Wide
  BY <1>6, <1>7, <1>8, <1>9, Spans
<1> QED BY <1>3, <1>6, <1>12, <1>13, <1>14 DEF w, y, Printable

\* Counted from the lowest one, a voltage that can be printed is a number of digits.
LEMMA PrintableDigits ==
    ASSUME NEW v \in -VMax .. VMax, Printable(v)
    PROVE  \E b \in Int : v + VMax = Digit * b /\ Steep * (v + VMax) = Wide * b
<1> DEFINE e == v \div Digit
           b == e + Digits
<1>1. v \in Int /\ Digit \in Nat \ {0}
  BY Spans
<1>2. e \in Int /\ v = Digit * e
  BY <1>1 DEF Printable
<1> HIDE DEF e
<1>3. v + VMax = Digit * b /\ b \in Int
  BY <1>2, Spans
<1> HIDE DEF b
<1>4. Steep * (Digit * b) = Wide * b
  BY <1>3, Spans DEF Wide
<1> QED BY <1>3, <1>4

\* The code of a voltage that can be printed comes back from the voltage that is printed of
\* it, whichever of both is coarser (volt_to_signed(), code_to_volt()).
LEMMA CodeComesBack ==
    ASSUME NEW v \in -VMax .. VMax, Printable(v)
    PROVE  VoltToSigned(CodeToVolt(VoltToSigned(v))) = VoltToSigned(v)
<1> DEFINE k == VoltToSigned(v)
           w == CodeToVolt(k)
<1>1. k \in KMin .. KMax /\ k \in Int /\ v \in Int /\ VMax \in Nat
  BY Spans, VoltToSignedType
<1>2. /\ w \in -VMax .. VMax /\ w \in Int /\ Printable(w)
      /\ Steep * (w + VMax) \in Int /\ Span * (k - KMin) \in Int
      /\ 2 * (Span * (k - KMin)) - Wide <= 2 * (Steep * (w + VMax))
      /\ 2 * (Steep * (w + VMax)) <= 2 * (Span * (k - KMin)) + Wide
  BY <1>1, VoltClose
<1>3. CASE Wide < Span
  <2> HIDE DEF w, k
  <2>1. /\ 2 * (Steep * (w + VMax)) - Span < 2 * (Span * (k - KMin))
        /\ 2 * (Span * (k - KMin)) < 2 * (Steep * (w + VMax)) + Span
    BY <1>2, <1>3, Spans
  <2>2. VoltToSigned(w) = k
    BY <1>1, <1>2, <2>1, ClosestCode
  <2> QED BY <2>2 DEF w, k
<1>4. CASE Wide > Span
  <2>1. /\ Steep * (v + VMax) \in Int
        /\ 2 * (Steep * (v + VMax)) - Span <= 2 * (Span * (k - KMin))
        /\ 2 * (Span * (k - KMin)) <= 2 * (Steep * (v + VMax)) + Span
    BY CodeClose
  <2> HIDE DEF w, k
  <2>2. PICK a \in Int : w + VMax = Digit * a /\ Steep * (w + VMax) = Wide * a
    BY <1>2, PrintableDigits
  <2>3. PICK b \in Int : v + VMax = Digit * b /\ Steep * (v + VMax) = Wide * b
    BY PrintableDigits
  <2>4. /\ (a >= b + 1 => Wide * a >= Wide * b + Wide)
        /\ (a <= b - 1 => Wide * a <= Wide * b - Wide)
    BY Spans, Products
  <2>5. ~(a >= b + 1)
    BY <1>2, <1>4, <2>1, <2>2, <2>3, <2>4, Spans
  <2>6. ~(a <= b - 1)
    BY <1>2, <1>4, <2>1, <2>2, <2>3, <2>4, Spans
  <2>7. a = b
    BY <2>5, <2>6
  <2>8. w = v
    BY <1>1, <1>2, <2>2, <2>3, <2>7
  <2> QED BY <2>8 DEF w, k
<1> QED BY <1>3, <1>4, Spans

\* What is less than a number of codes by this comparison is within the rounding.
LEMMA RoundingBounds ==
    /\ Rounding \in Nat
    /\ \A e \in Int : 2 * (Span * e) <= Wide + Span => e <= Rounding
<1>1. Wide + Span \in Nat /\ 2 * Span \in Nat \ {0} /\ Rounding = (Wide + Span) \div (2 * Span)
  <2>1. Digit * (DacMod - 1) + 2 * VMax = Wide + Span /\ 4 * VMax = 2 * Span
    BY Spans DEF Wide, Span, Steep
  <2> QED BY <2>1, Spans DEF Rounding
<1> DEFINE x == Wide + Span
           m == 2 * Span
<1> HIDE DEF x, m
<1>2. x \in Nat /\ m \in Nat \ {0} /\ Rounding = x \div m
  BY <1>1 DEF x, m
<1>3. Rounding \in Nat /\ x < Rounding * m + m
  BY <1>2
<1>4. ASSUME NEW e \in Int, 2 * (Span * e) <= x, e >= Rounding + 1
      PROVE  FALSE
  <2>1. 2 * (Span * e) = m * e
    BY Spans DEF m
  <2>2. m * e >= m * Rounding + m
    BY <1>2, <1>3, <1>4, Products
  <2>3. m * Rounding = Rounding * m /\ m * Rounding \in Int /\ m * e \in Int
    BY <1>2, <1>3, <1>4
  <2> QED BY <1>2, <1>3, <1>4, <2>1, <2>2, <2>3
<1> QED BY <1>3, <1>4 DEF x

\* The code of the voltage that is printed of any code is within the rounding of it
\* (code_to_volt(), volt_to_signed()).
LEMMA CodeNear ==
    ASSUME NEW k \in KMin .. KMax
    PROVE  VoltToSigned(CodeToVolt(k)) - k \in -Rounding .. Rounding
<1> DEFINE w == CodeToVolt(k)
           y == k - KMin
           z == VoltToSigned(w) - KMin
<1>1. w \in -VMax .. VMax /\ w \in Int /\ k \in Int /\ KMin \in Int
  BY Spans, VoltClose
<1>2. VoltToSigned(w) \in Int
  BY <1>1, Spans, VoltToSignedType
<1>3. y \in Int /\ z \in Int /\ VoltToSigned(w) - k = z - y
  BY <1>1, <1>2
<1>4. /\ Steep * (w + VMax) \in Int
      /\ 2 * (Span * y) - Wide <= 2 * (Steep * (w + VMax))
      /\ 2 * (Steep * (w + VMax)) <= 2 * (Span * y) + Wide
  BY VoltClose
<1>5. /\ 2 * (Steep * (w + VMax)) - Span <= 2 * (Span * z)
      /\ 2 * (Span * z) <= 2 * (Steep * (w + VMax)) + Span
  BY <1>1, CodeClose
<1> HIDE DEF w, y, z
<1>6. /\ Span * (z - y) = Span * z - Span * y /\ Span * (y - z) = Span * y - Span * z
      /\ Span * z \in Int /\ Span * y \in Int
  BY <1>3, Spans, Products
<1>7. 2 * (Span * (z - y)) <= Wide + Span /\ 2 * (Span * (y - z)) <= Wide + Span
  BY <1>4, <1>5, <1>6, Spans
<1>8. z - y <= Rounding /\ y - z <= Rounding
  BY <1>3, <1>7, RoundingBounds
<1> QED BY <1>3, <1>8, RoundingBounds DEF w

\* A voltage outside of the range has the code of the nearest one in it.
LEMMA CodeOfSomeVolt ==
    ASSUME NEW v \in Int
    PROVE  \E u \in -VMax .. VMax : VoltToSigned(u) = VoltToSigned(v) /\ (Printable(v) => Printable(u))
<1>1. /\ VMax \in Int /\ VMax \in -VMax .. VMax /\ -VMax \in -VMax .. VMax
      /\ Printable(VMax) /\ Printable(-VMax)
  <2>1. Digit \in Nat \ {0} /\ VMax = Digit * Digits + 0 /\ -VMax = Digit * (-Digits) + 0 /\ Digits \in Int
    BY Spans
  <2>2. (Digit * Digits + 0) % Digit = 0 /\ (Digit * (-Digits) + 0) % Digit = 0
    BY <2>1, ModUnique
  <2> QED BY <2>1, <2>2, Spans DEF Printable
<1>2. CASE v >= VMax
  <2>1. VoltToSigned(v) = KMax /\ VoltToSigned(VMax) = KMax
    BY <1>1, <1>2 DEF VoltToSigned
  <2> QED BY <1>1, <2>1
<1>3. CASE v < -VMax
  <2> DEFINE u == v + VMax
             k == Round(2 * VMax * KMin + (v + VMax) * (DacMod - 1), 2 * VMax)
  <2>1. 2 * VMax * KMin + (v + VMax) * (DacMod - 1) = Span * KMin + Steep * u
    BY <1>1, Spans, Ranges DEF Span, Steep
  <2>2. u \in Int /\ u <= 0 - 1 /\ Steep * 0 = 0 /\ Steep * u \in Int
    BY <1>1, <1>3, Spans
  <2>3. Steep * u <= Steep * 0 - Steep
    BY <2>2, Spans, Products
  <2>4. k = Round(Span * KMin + Steep * u, Span) /\ Span * KMin + Steep * u \in Int /\ Span * KMin \in Int
    BY <2>1, <2>2, Spans DEF Span
  <2>5. k \in Int /\ 2 * (Span * k) <= 2 * (Span * KMin + Steep * u) + Span
    BY <2>4, RoundBounds, Spans
  <2> HIDE DEF k, u
  <2>6. k <= KMin
    <3>1. Span * k \in Int /\ (k >= KMin + 1 => Span * k >= Span * KMin + Span)
      BY <2>5, Spans, Products
    <3> QED BY <2>2, <2>3, <2>4, <2>5, <3>1, Spans
  <2>7. VoltToSigned(v) = KMin
    <3>1. Clamp(k, KMin, KMax) = KMin
      BY <2>5, <2>6, Spans DEF Clamp
    <3>2. ~(v >= VMax)
      BY <1>1, <1>3, Spans
    <3> QED BY <3>1, <3>2 DEF VoltToSigned, k
  <2>8. VoltToSigned(-VMax) = KMin
    <3>1. (-VMax) + VMax = 0 /\ KMin - KMin = 0 /\ Steep * 0 = 0 /\ Span * 0 = 0 /\ KMin \in Int
      BY <1>1, Spans
    <3>2. /\ 2 * (Steep * ((-VMax) + VMax)) - Span < 2 * (Span * (KMin - KMin))
          /\ 2 * (Span * (KMin - KMin)) < 2 * (Steep * ((-VMax) + VMax)) + Span
      BY <3>1, Spans
    <3> QED BY <1>1, <3>1, <3>2, ClosestCode
  <2> QED BY <1>1, <2>7, <2>8
<1>4. CASE v \in -VMax .. VMax
  BY <1>4
<1> QED BY <1>1, <1>2, <1>3, <1>4

\* The sign brings a delta back from its field (to_bits(), _delta_signed()).
LEMMA DeltaComesBack ==
    ASSUME NEW k \in -DeltaMax - 1 .. DeltaMax
    PROVE  ToBits(k) \in 0 .. DeltaMod - 1 /\ DeltaSigned(ToBits(k)) = k
<1>1. k \in -DeltaMod .. DeltaMod - 1 /\ DeltaMod \in Nat \ {0} /\ k \in Int /\ DeltaMax \in Nat
  BY Ranges
<1>2. (k + DeltaMod * 0) % DeltaMod = IF k < 0 THEN k + DeltaMod ELSE k
  BY <1>1, ModSteps
<1>3. k + DeltaMod * 0 = k /\ Clamp(k, -DeltaMax - 1, DeltaMax) = k
  BY <1>1 DEF Clamp
<1>4. ToBits(k) = IF k < 0 THEN k + DeltaMod ELSE k
  BY <1>2, <1>3 DEF ToBits
<1>5. DeltaMod - DeltaMax - 1 > DeltaMax
  BY Ranges
<1> QED BY <1>1, <1>4, <1>5 DEF DeltaSigned

\* The delta of "v+" comes back from the voltage that is printed of it if that could be
\* printed as it was written, and within the rounding if not (parse_opts(), opts_str()).
LEMMA VPlusComesBack ==
    ASSUME NEW v \in Int
    PROVE  LET delta == ToBits(VoltToSigned(v))
               again == ToBits(VoltToSigned(CodeToVolt(DeltaSigned(delta))))
           IN  DeltaSigned(again) - DeltaSigned(delta) \in Slack({v})
<1> DEFINE k == VoltToSigned(v)
           z == VoltToSigned(CodeToVolt(k))
<1>1. PICK u \in -VMax .. VMax : VoltToSigned(u) = k /\ (Printable(v) => Printable(u))
  BY CodeOfSomeVolt
<1>2. k \in Int /\ DeltaMax \in Nat /\ k \in KMin .. KMax
  BY VoltToSignedType, Ranges
<1>3. Slack({v}) = IF Printable(v) THEN {0} ELSE -Rounding .. Rounding
  BY DEF Slack
<1>4. Rounding \in Nat
  BY RoundingBounds
<1>5. ASSUME NEW a \in Int, NEW b \in Int, a = b PROVE a - b \in Slack({v})
  <2>1. a - b = 0
    BY <1>5
  <2> QED BY <1>3, <1>4, <2>1
<1>6. CASE k \in -DeltaMax - 1 .. DeltaMax
  <2>1. DeltaSigned(ToBits(k)) = k
    BY <1>6, DeltaComesBack
  <2>2. z \in Int /\ z - k \in -Rounding .. Rounding
    <3>1. CodeToVolt(k) \in Int
      BY <1>2, VoltClose, Spans
    <3>2. VoltToSigned(CodeToVolt(k)) \in Int
      BY <3>1, VoltToSignedType, Spans
    <3> QED BY <1>2, <3>2, CodeNear
  <2>3. Printable(v) => z = k
    <3> SUFFICES ASSUME Printable(v) PROVE z = k
      OBVIOUS
    <3>1. VoltToSigned(CodeToVolt(VoltToSigned(u))) = VoltToSigned(u)
      BY <1>1, CodeComesBack
    <3> QED BY <1>1, <3>1
  <2> HIDE DEF k, z
  <2> DEFINE c == Clamp(z, -DeltaMax - 1, DeltaMax)
  <2>4. c \in -DeltaMax - 1 .. DeltaMax /\ c \in Int /\ c - k \in -Rounding .. Rounding /\ (z = k => c = k)
    BY <1>2, <1>4, <1>6, <2>2 DEF Clamp
  <2> HIDE DEF c
  <2>5. Clamp(c, -DeltaMax - 1, DeltaMax) = c
    BY <1>2, <2>4 DEF Clamp
  <2>6. ToBits(z) = ToBits(c)
    BY <2>5 DEF ToBits, c
  <2>7. DeltaSigned(ToBits(z)) = c
    BY <2>4, <2>6, DeltaComesBack
  <2>8. c - k \in Slack({v})
    BY <1>2, <1>3, <1>5, <2>3, <2>4
  <2> QED BY <2>1, <2>7, <2>8 DEF z, k
<1>7. ASSUME NEW c \in {-DeltaMax - 1, DeltaMax}, Clamp(k, -DeltaMax - 1, DeltaMax) = c
      PROVE  DeltaSigned(ToBits(VoltToSigned(CodeToVolt(DeltaSigned(ToBits(k)))))) - DeltaSigned(ToBits(k))
               \in Slack({v})
  <2> HIDE DEF k
  <2>1. c \in -DeltaMax - 1 .. DeltaMax
    BY <1>2
  <2>2. Clamp(c, -DeltaMax - 1, DeltaMax) = c
    BY <1>2, <2>1 DEF Clamp
  <2>3. ToBits(k) = ToBits(c)
    BY <1>7, <2>2 DEF ToBits
  <2>4. DeltaSigned(ToBits(c)) = c
    BY <2>1, DeltaComesBack
  <2>5. ToBits(VoltToSigned(CodeToVolt(c))) = ToBits(c)
    BY PrintAssumption
  <2>6. c - c \in Slack({v})
    BY <1>2, <1>5, <2>1
  <2> QED BY <2>3, <2>4, <2>5, <2>6
<1>8. CASE k < -DeltaMax - 1
  <2>1. Clamp(k, -DeltaMax - 1, DeltaMax) = -DeltaMax - 1
    BY <1>2, <1>8 DEF Clamp
  <2> QED BY <1>7, <2>1
<1>9. CASE k > DeltaMax
  <2>1. Clamp(k, -DeltaMax - 1, DeltaMax) = DeltaMax
    BY <1>2, <1>9 DEF Clamp
  <2> QED BY <1>7, <2>1
<1> QED BY <1>2, <1>6, <1>8, <1>9

\* The unit that is printed is one of those that leave no fraction (format_time()).
LEMMA TimeComesBack ==
    ASSUME NEW ns \in Nat
    PROVE  FormatTime(ns) \in LineTime /\ ParseTime(FormatTime(ns)) = ns
<1> DEFINE fits == {u \in DOMAIN Scale : ns >= Scale[u] /\ ns % Scale[u] = 0} \cup {"ns"}
           unit == CHOOSE u \in fits : \A w \in fits : Scale[w] <= Scale[u]
<1>1. TimeBase \in Nat /\ TimeBase >= 1
  BY InsnAssumption
<1>2. /\ TimeBase * TimeBase \in Nat /\ TimeBase * TimeBase >= TimeBase
      /\ TimeBase * TimeBase * TimeBase \in Nat /\ TimeBase * TimeBase * TimeBase >= TimeBase * TimeBase
  <2>1. ASSUME NEW m \in Nat, m >= 1 PROVE m * TimeBase \in Nat /\ m * TimeBase >= m
    <3>1. m * (TimeBase - 1) >= 0 /\ m * (TimeBase - 1) = m * TimeBase - m
      BY <1>1, <2>1
    <3> QED BY <1>1, <2>1, <3>1
  <2> QED BY <1>1, <2>1
<1>3. /\ DOMAIN Scale = {"ns", "us", "ms", "s"} /\ Scale["ns"] = 1 /\ Scale["us"] = TimeBase
      /\ Scale["ms"] = TimeBase * TimeBase /\ Scale["s"] = TimeBase * TimeBase * TimeBase
  BY DEF Scale
<1>4. fits \subseteq {"ns", "us", "ms", "s"} /\ "ns" \in fits
  BY <1>3
<1>5. \E u \in fits : \A w \in fits : Scale[w] <= Scale[u]
  <2> HIDE DEF fits
  <2> QED BY <1>1, <1>2, <1>3, <1>4
<1>6. unit \in fits
  BY <1>5
<1>7. unit \in DOMAIN Scale /\ Scale[unit] \in Nat \ {0} /\ ns % Scale[unit] = 0
  <2>1. ns % 1 = 0
    OBVIOUS
  <2>2. unit = "ns" \/ (unit \in DOMAIN Scale /\ ns % Scale[unit] = 0)
    BY <1>6
  <2>3. unit \in DOMAIN Scale
    BY <1>3, <2>2
  <2> HIDE DEF unit
  <2>4. Scale[unit] \in Nat \ {0}
    BY <1>1, <1>2, <1>3, <2>3
  <2> QED BY <1>3, <2>1, <2>2, <2>3, <2>4
<1>8. FormatTime(ns) = [num |-> ns \div Scale[unit], unit |-> unit]
  BY DEF FormatTime
<1> DEFINE m == Scale[unit]
<1> HIDE DEF fits, unit
<1>9. ns \div m \in Nat /\ (ns \div m) * m = ns
  <2> HIDE DEF m
  <2>1. m \in Nat \ {0} /\ ns % m = 0
    BY <1>7 DEF m
  <2> QED BY <2>1
<1> QED BY <1>7, <1>8, <1>9 DEF LineTime, ParseTime

\* A hold comes back from the time that is printed of it (parse_hold()).
LEMMA HoldComesBack ==
    ASSUME NEW h \in Nat, h >= 1
    PROVE  /\ FormatTime(h * NsPerCycle) \in LineTime
           /\ TimeToCycles(ParseTime(FormatTime(h * NsPerCycle))) = h
<1>1. NsPerCycle \in Nat \ {0} /\ h * NsPerCycle \in Nat
  BY InsnAssumption
<1>2. (h * NsPerCycle) \div NsPerCycle = h /\ (h * NsPerCycle) % NsPerCycle = 0
  <2> DEFINE n == h * NsPerCycle
  <2>1. n \in Nat /\ n = NsPerCycle * h + 0
    BY <1>1
  <2> HIDE DEF n
  <2>2. n % NsPerCycle = 0
    BY <1>1, <2>1, ModUnique
  <2>3. n = NsPerCycle * (n \div NsPerCycle) + (n % NsPerCycle) /\ n \div NsPerCycle \in Int
    BY <1>1, <2>1
  <2>4. NsPerCycle * (n \div NsPerCycle) = NsPerCycle * h
    BY <1>1, <2>1, <2>2, <2>3
  <2>5. n \div NsPerCycle = h
    BY <1>1, <2>3, <2>4, Products
  <2> QED BY <2>2, <2>5 DEF n
<1>3. Round(h * NsPerCycle, NsPerCycle) = h
  BY <1>1, <1>2 DEF Round
<1> QED BY <1>1, <1>3, TimeComesBack DEF TimeToCycles

\* No voltage that can be printed has a code closer to the last code of a sweep than the
\* voltage printed of it, but for the rounding of the code (code_to_volt(), volt_to_signed()).
LEMMA NearestVolt ==
    ASSUME NEW v \in -VMax .. VMax, Printable(v), NEW last \in KMin .. KMax, NEW n \in Nat,
           VoltToSigned(v) - last \in -n .. n
    PROVE  VoltToSigned(CodeToVolt(last)) - last \in -n - 1 .. n + 1
<1> DEFINE x == VoltToSigned(v) - KMin
           y == last - KMin
           w == CodeToVolt(last)
           z == VoltToSigned(w) - KMin
           ta == Steep * (v + VMax)
           tb == Steep * (w + VMax)
<1>1. w \in -VMax .. VMax /\ w \in Int /\ last \in Int /\ KMin \in Int /\ VMax \in Int /\ v \in Int /\ Printable(w)
  BY Spans, VoltClose
<1>2. VoltToSigned(v) \in Int /\ VoltToSigned(w) \in Int
  BY <1>1, Spans, VoltToSignedType
<1>3. x \in Int /\ y \in Int /\ z \in Int /\ ta \in Int /\ tb \in Int /\ x - y \in -n .. n
  BY <1>1, <1>2, Spans
<1>4. 2 * ta - Span <= 2 * (Span * x) /\ 2 * (Span * x) <= 2 * ta + Span
  BY CodeClose
<1>5. 2 * tb - Span <= 2 * (Span * z) /\ 2 * (Span * z) <= 2 * tb + Span
  BY <1>1, CodeClose
<1>6. 2 * (Span * y) - Wide <= 2 * tb /\ 2 * tb <= 2 * (Span * y) + Wide
  BY VoltClose
<1>7. VoltToSigned(v) - last = x - y /\ VoltToSigned(w) - last = z - y
  BY <1>1, <1>2
<1> HIDE DEF w
<1>8. PICK a \in Int : v + VMax = Digit * a /\ ta = Wide * a
  BY PrintableDigits
<1>9. PICK b \in Int : w + VMax = Digit * b /\ tb = Wide * b
  BY <1>1, PrintableDigits
<1> HIDE DEF x, y, z, ta, tb
<1> DEFINE sx == Span * x
           sy == Span * y
           sz == Span * z
           sn == Span * n
<1>10. sx \in Int /\ sy \in Int /\ sz \in Int /\ ta \in Int /\ tb \in Int /\ sn \in Int
  BY <1>3, Spans
<1>11. /\ a >= b + 1 => ta >= tb + Wide
       /\ a <= b - 1 => ta <= tb - Wide
       /\ a = b => ta = tb
  BY <1>3, <1>8, <1>9, Spans, Products
<1>12. sx - sy <= sn /\ sx - sy >= -sn
  <2>1. Span * (n - (x - y)) >= 0 /\ Span * (n + (x - y)) >= 0
    <3>1. n - (x - y) \in Nat /\ n + (x - y) \in Nat
      BY <1>3
    <3> QED BY <3>1, Spans
  <2>2. Span * (n - (x - y)) = sn - (sx - sy) /\ Span * (n + (x - y)) = sn + (sx - sy)
    BY <1>3, Spans
  <2> QED BY <1>10, <2>1, <2>2
<1>13. /\ z - y >= n + 2 => sz >= sy + sn + 2 * Span
       /\ z - y <= -n - 2 => sz <= sy - sn - 2 * Span
  <2>1. ASSUME z - y >= n + 2 PROVE sz >= sy + sn + 2 * Span
    <3>1. z - y - n - 2 \in Nat
      BY <1>3, <2>1
    <3>2. Span * (z - y - n - 2) >= 0
      BY <3>1, Spans
    <3>3. Span * (z - y - n - 2) = sz - sy - sn - 2 * Span
      BY <1>3, Spans
    <3> QED BY <1>10, <3>2, <3>3, Spans
  <2>2. ASSUME z - y <= -n - 2 PROVE sz <= sy - sn - 2 * Span
    <3>1. y - z - n - 2 \in Nat
      BY <1>3, <2>2
    <3>2. Span * (y - z - n - 2) >= 0
      BY <3>1, Spans
    <3>3. Span * (y - z - n - 2) = sy - sz - sn - 2 * Span
      BY <1>3, Spans
    <3> QED BY <1>10, <3>2, <3>3, Spans
  <2> QED BY <2>1, <2>2
<1>14. 2 * tb - 2 * sy <= 2 * sn + Span /\ 2 * tb - 2 * sy >= -(2 * sn) - Span
  <2> HIDE DEF sx, sy, sz, sn
  <2>1. 2 * ta - 2 * sy <= 2 * sn + Span /\ 2 * ta - 2 * sy >= -(2 * sn) - Span
    BY <1>4, <1>10, <1>12, Spans DEF sx
  <2>2. 2 * sy - Wide <= 2 * tb /\ 2 * tb <= 2 * sy + Wide
    BY <1>6 DEF sy
  <2>3. CASE a = b
    BY <1>11, <2>1, <2>3
  <2>4. CASE a >= b + 1
    BY <1>10, <1>11, <2>1, <2>2, <2>4, Spans
  <2>5. CASE a <= b - 1
    BY <1>10, <1>11, <2>1, <2>2, <2>5, Spans
  <2> QED BY <1>3, <2>3, <2>4, <2>5
<1>15. 2 * sz - 2 * sy <= 2 * sn + 2 * Span /\ 2 * sz - 2 * sy >= -(2 * sn) - 2 * Span
  BY <1>5, <1>10, <1>14, Spans
<1>16. ~(z - y >= n + 2) /\ ~(z - y <= -n - 2)
  <2>1. Span \in Nat \ {0} /\ n \in Nat
    BY Spans
  <2> HIDE DEF sx, sy, sz, sn
  <2>3. ~(z - y >= n + 2)
    BY <1>10, <1>13, <1>15, <2>1
  <2>4. ~(z - y <= -n - 2)
    BY <1>10, <1>13, <1>15, <2>1
  <2> QED BY <2>3, <2>4
<1> QED BY <1>3, <1>7, <1>16 DEF w

\* The steps to a code reach it or exceed it by less than one code each (parse_swp()).
LEMMA StepBounds ==
    ASSUME NEW k1 \in Int, NEW k2 \in Int, NEW steps \in Nat \ {0}
    PROVE  LET d == DeltaTo(k1, k2, steps)
           IN  /\ d \in Int /\ d * steps \in Int
               /\ d * steps < k2 - k1 + steps /\ d * steps > k2 - k1 - steps
<1> DEFINE d == DeltaTo(k1, k2, steps)
<1>1. CASE k2 - k1 >= 0
  <2>1. d = Ceil(k2 - k1, steps)
    BY <1>1 DEF DeltaTo
  <2>2. d \in Int /\ k2 - k1 <= d * steps /\ d * steps < k2 - k1 + steps
    BY <2>1, CeilBounds
  <2> QED BY <2>2
<1>2. CASE ~(k2 - k1 >= 0)
  <2> DEFINE c == Ceil(-(k2 - k1), steps)
  <2>1. d = -c
    BY <1>2 DEF DeltaTo
  <2>2. c \in Int /\ -(k2 - k1) <= c * steps /\ c * steps < -(k2 - k1) + steps
    <3>1. -(k2 - k1) \in Int
      OBVIOUS
    <3> QED BY <3>1, CeilBounds
  <2> HIDE DEF c
  <2>3. d * steps = -(c * steps)
    BY <2>1, <2>2
  <2> HIDE DEF d
  <2>4. d \in Int /\ d * steps \in Int /\ d * steps < k2 - k1 + steps /\ d * steps > k2 - k1 - steps
    BY <2>1, <2>2, <2>3
  <2> QED BY <2>4 DEF d
<1> QED BY <1>1, <1>2

\* The step to a code that is off by a number of steps or less is off by one at most, and
\* one that would leave the range is pulled back to the same step.
LEMMA StepNear ==
    ASSUME NEW k1 \in KMin .. KMax, NEW k2 \in KMin .. KMax, NEW dv \in Int, NEW steps \in Nat \ {0},
           k1 + dv * steps \in KMin .. KMax,
           k2 - (k1 + dv * steps) \in -steps .. steps
    PROVE  LET d == DeltaTo(k1, k2, steps)
           IN  /\ d \in dv - 1 .. dv + 1
               /\ PulledBack(k1, d, steps) \in {d, dv}
<1> DEFINE d == DeltaTo(k1, k2, steps)
           p == dv * steps
<1>1. k1 \in Int /\ k2 \in Int /\ p \in Int /\ KMin \in Int /\ KMax \in Int
  BY Spans
<1>2. d \in Int /\ d * steps \in Int /\ d * steps < k2 - k1 + steps /\ d * steps > k2 - k1 - steps
  BY <1>1, StepBounds
<1> HIDE DEF d
<1>3. /\ \A i \in Int : i >= dv + 1 => i * steps >= p + steps
      /\ \A i \in Int : i <= dv - 1 => i * steps <= p - steps
  <2>1. ASSUME NEW i \in Int PROVE i * steps = steps * i /\ p = steps * dv
    OBVIOUS
  <2> HIDE DEF p
  <2> QED BY <2>1, Products
<1>4. d <= dv + 1
  <2>1. d - 1 >= dv + 1 => (d - 1) * steps >= p + steps
    BY <1>2, <1>3
  <2>2. (d - 1) * steps = d * steps - steps
    BY <1>2
  <2> HIDE DEF p
  <2>3. k2 - k1 - p <= steps
    BY <1>1 DEF p
  <2> QED BY <1>1, <1>2, <2>1, <2>2, <2>3
<1>5. d >= dv - 1
  <2>1. d + 1 <= dv - 1 => (d + 1) * steps <= p - steps
    BY <1>2, <1>3
  <2>2. (d + 1) * steps = d * steps + steps
    BY <1>2
  <2> HIDE DEF p
  <2>3. k2 - k1 - p >= -steps
    BY <1>1 DEF p
  <2> QED BY <1>1, <1>2, <2>1, <2>2, <2>3
<1>6. d \in {dv - 1, dv, dv + 1}
  BY <1>2, <1>4, <1>5
<1>7. k1 + p >= KMin /\ k1 + p <= KMax
  BY <1>1
<1> HIDE DEF p
<1>8. CASE k1 + d * steps > KMax
  <2> DEFINE top == (KMax - k1) \div steps
  <2>1. top \in Int /\ top * steps <= KMax - k1 /\ KMax - k1 < top * steps + steps
    BY <1>1, DivBounds
  <2> HIDE DEF top
  <2>2. d = dv + 1
    <3>1. ~(d <= dv - 1)
      BY <1>1, <1>2, <1>3, <1>7, <1>8
    <3>2. d # dv
      BY <1>1, <1>7, <1>8 DEF p
    <3> QED BY <1>6, <3>1, <3>2
  <2>3. top <= dv
    <3>1. top >= d => top * steps >= d * steps
      <4>1. top >= d => top = d \/ top >= d + 1
        BY <1>2, <2>1
      <4>2. top >= d + 1 => steps * top >= steps * d + steps
        BY <1>2, <2>1, Products
      <4>3. steps * top = top * steps /\ steps * d = d * steps
        BY <1>2, <2>1
      <4>4. steps * top \in Int /\ steps * d \in Int
        BY <1>2, <2>1
      <4> QED BY <1>2, <2>1, <4>1, <4>2, <4>3, <4>4
    <3> QED BY <1>1, <1>2, <1>8, <2>1, <2>2, <3>1
  <2>4. top >= dv
    <3>1. top <= dv - 1 => top * steps <= p - steps
      BY <1>3, <2>1
    <3>2. top * steps \in Int
      BY <2>1
    <3> QED BY <1>1, <1>7, <2>1, <3>1, <3>2
  <2>5. PulledBack(k1, d, steps) = top
    BY <1>1, <1>2, <1>8 DEF PulledBack, top
  <2> QED BY <1>6, <2>1, <2>3, <2>4, <2>5 DEF d
<1>9. CASE k1 + d * steps < KMin
  <2> DEFINE low == (k1 - KMin) \div steps
  <2>1. low \in Int /\ low * steps <= k1 - KMin /\ k1 - KMin < low * steps + steps
    BY <1>1, DivBounds
  <2> HIDE DEF low
  <2>2. d = dv - 1
    <3>1. ~(d >= dv + 1)
      BY <1>1, <1>2, <1>3, <1>7, <1>9
    <3>2. d # dv
      BY <1>1, <1>7, <1>9 DEF p
    <3> QED BY <1>6, <3>1, <3>2
  <2>3. (-low) * steps = -(low * steps) /\ low * steps \in Int
    BY <2>1
  <2>4. -low >= dv
    <3>1. -low <= d => (-low) * steps <= d * steps
      <4>1. -low <= d => -low = d \/ -low <= d - 1
        BY <1>2, <2>1
      <4>2. -low <= d - 1 => steps * (-low) <= steps * d - steps
        BY <1>2, <2>1, Products
      <4>3. steps * (-low) = (-low) * steps /\ steps * d = d * steps
        BY <1>2, <2>1
      <4> QED BY <1>2, <2>3, <4>1, <4>2, <4>3
    <3> QED BY <1>1, <1>2, <1>9, <2>1, <2>2, <2>3, <3>1
  <2>5. -low <= dv
    <3>1. -low >= dv + 1 => (-low) * steps >= p + steps
      <4>1. -low \in Int
        BY <2>1
      <4> QED BY <1>3, <4>1
    <3> QED BY <1>1, <1>7, <2>1, <2>3, <3>1
  <2>6. PulledBack(k1, d, steps) = -low
    <3>1. ~(k1 + d * steps > KMax)
      BY <1>1, <1>2, <1>9, Ranges
    <3> QED BY <1>9, <3>1 DEF PulledBack, low
  <2> QED BY <1>6, <2>1, <2>4, <2>5, <2>6 DEF d
<1>10. CASE ~(k1 + d * steps > KMax) /\ ~(k1 + d * steps < KMin)
  <2>1. PulledBack(k1, d, steps) = d
    BY <1>10 DEF PulledBack
  <2> QED BY <1>6, <2>1 DEF d
<1> QED BY <1>8, <1>9, <1>10

\* From and to codes that are off by a rounding, all steps together are off by twice that
\* and by the rounding up to a whole step, pulled back or not.
LEMMA StepRounded ==
    ASSUME NEW k1 \in KMin .. KMax, NEW j1 \in KMin .. KMax, NEW j2 \in KMin .. KMax,
           NEW dv \in Int, NEW steps \in Nat \ {0}, NEW r \in Nat,
           k1 + dv * steps \in KMin .. KMax,
           j1 - k1 \in -r .. r, j2 - (k1 + dv * steps) \in -r .. r
    PROVE  LET dw   == PulledBack(j1, DeltaTo(j1, j2, steps), steps)
               most == steps + 2 * r - 1
           IN  (dw - dv) * steps \in -most .. most
<1> DEFINE d == DeltaTo(j1, j2, steps)
           dw == PulledBack(j1, d, steps)
           p == dv * steps
           q == d * steps
           most == steps + 2 * r - 1
<1>1. k1 \in Int /\ j1 \in Int /\ j2 \in Int /\ p \in Int /\ KMin \in Int /\ KMax \in Int
  BY Spans
<1>2. d \in Int /\ q \in Int /\ q < j2 - j1 + steps /\ q > j2 - j1 - steps
  BY <1>1, StepBounds
<1>3. j2 - j1 - p \in -(2 * r) .. 2 * r
  <2> HIDE DEF p
  <2>1. j2 - (k1 + p) \in -r .. r
    BY DEF p
  <2> QED BY <1>1, <2>1
<1>4. k1 + p >= KMin /\ k1 + p <= KMax
  BY <1>1
<1> HIDE DEF d
<1>5. dw \in Int /\ dw * steps \in -most + p .. most + p
  <2>1. CASE j1 + q > KMax
    <3> DEFINE top == (KMax - j1) \div steps
    <3>1. top \in Int /\ top * steps \in Int /\ top * steps <= KMax - j1 /\ KMax - j1 < top * steps + steps
      BY <1>1, DivBounds
    <3>2. dw = top
      <4>1. ~(j1 + q < KMin)
        BY <1>1, <1>2, <2>1, Ranges
      <4> QED BY <2>1, <4>1, Zenon DEF PulledBack
    <3> HIDE DEF top, dw, p, q
    <3>3. top * steps \in -most + p .. most + p
      <4> DEFINE t == top * steps
      <4>1. t \in Int /\ t <= KMax - j1 /\ KMax - j1 < t + steps
        BY <3>1
      <4> HIDE DEF t
      <4>2. t \in -most + p .. most + p
        BY <1>1, <1>2, <1>3, <1>4, <2>1, <4>1
      <4> QED BY <4>2 DEF t
    <3> QED BY <3>1, <3>2, <3>3
  <2>2. CASE j1 + q < KMin
    <3> DEFINE low == (j1 - KMin) \div steps
    <3>1. low \in Int /\ low * steps \in Int /\ low * steps <= j1 - KMin /\ j1 - KMin < low * steps + steps
      BY <1>1, DivBounds
    <3>2. dw = -low
      <4>1. ~(j1 + q > KMax)
        BY <1>1, <1>2, <2>2, Ranges
      <4> QED BY <2>2, <4>1, Zenon DEF PulledBack
    <3> HIDE DEF low, dw, p, q
    <3>3. (-low) * steps = -(low * steps)
      BY <3>1
    <3>4. -(low * steps) \in -most + p .. most + p
      <4> DEFINE t == low * steps
      <4>1. t \in Int /\ t <= j1 - KMin /\ j1 - KMin < t + steps
        BY <3>1
      <4> HIDE DEF t
      <4>2. -t \in -most + p .. most + p
        BY <1>1, <1>2, <1>3, <1>4, <2>2, <4>1
      <4> QED BY <4>2 DEF t
    <3> QED BY <3>1, <3>2, <3>3, <3>4
  <2>3. CASE ~(j1 + q > KMax) /\ ~(j1 + q < KMin)
    <3>1. dw = d
      BY <2>3 DEF PulledBack
    <3>2. q \in -most + p .. most + p
      <4> HIDE DEF p, q
      <4> QED BY <1>1, <1>2, <1>3
    <3> HIDE DEF dw, p
    <3> QED BY <1>2, <3>1, <3>2
  <2> QED BY <2>1, <2>2, <2>3
<1>6. (dw - dv) * steps = dw * steps - p
  <2> HIDE DEF dw
  <2> QED BY <1>5
<1> HIDE DEF dw, p
<1>7. (dw - dv) * steps \in -most .. most
  <2> DEFINE t == dw * steps
  <2>1. t \in -most + p .. most + p /\ (dw - dv) * steps = t - p
    BY <1>5, <1>6
  <2> HIDE DEF t
  <2>2. t - p \in -most .. most
    BY <1>1, <2>1
  <2> QED BY <2>1, <2>2
<1> QED BY <1>7 DEF dw, d

\* A step between such codes that the field does not hold comes of one that was at the
\* largest or near to it.
LEMMA TooSteep ==
    ASSUME NEW k1 \in KMin .. KMax, NEW j1 \in KMin .. KMax, NEW j2 \in KMin .. KMax,
           NEW dv \in -DeltaMax .. DeltaMax, NEW steps \in Nat \ {0}, NEW r \in Nat,
           j1 - k1 \in -r .. r, j2 - (k1 + dv * steps) \in -r .. r,
           DeltaTo(j1, j2, steps) \notin -DeltaMax .. DeltaMax
    PROVE  \E largest \in {-DeltaMax, DeltaMax} :
               /\ LET most == 2 * r - 1
                  IN  (dv - largest) * steps \in -most .. most
               /\ DeltaTo(j1, j2, steps) \in dv - 1 .. dv + 1 => dv = largest
<1> DEFINE d == DeltaTo(j1, j2, steps)
           p == dv * steps
           q == d * steps
           m == DeltaMax
           g == m * steps
<1>1. k1 \in Int /\ j1 \in Int /\ j2 \in Int /\ p \in Int /\ dv \in Int /\ m \in Nat /\ g \in Int
  BY Spans, Ranges
<1>2. d \in Int /\ q \in Int /\ q < j2 - j1 + steps /\ q > j2 - j1 - steps
  BY <1>1, StepBounds
<1>3. j2 - j1 - p \in -(2 * r) .. 2 * r
  <2> HIDE DEF p
  <2>1. j2 - (k1 + p) \in -r .. r
    BY DEF p
  <2> QED BY <1>1, <2>1
<1> HIDE DEF d, m
<1>4. /\ d >= m + 1 => q >= g + steps
      /\ d <= -m - 1 => q <= -g - steps
  <2>1. /\ steps * d = q /\ steps * m = g /\ steps * (-m) = -g
    BY <1>1, <1>2
  <2>2. d >= m + 1 => steps * d >= steps * m + steps
    BY <1>1, <1>2, Products
  <2>3. d <= -m - 1 => steps * d <= steps * (-m) - steps
    <3>1. -m \in Int
      BY <1>1
    <3> HIDE DEF q
    <3> QED BY <1>1, <1>2, <3>1, Products
  <2> HIDE DEF q, g
  <2> QED BY <2>1, <2>2, <2>3
<1>5. dv <= m /\ dv >= -m /\ (d > m \/ d < -m)
  BY <1>1, <1>2 DEF d, m
<1>6. (m - dv) * steps = g - p /\ (m - dv) * steps >= 0 /\ (dv - m) * steps = p - g
  BY <1>1, <1>5
<1>7. (m + dv) * steps = g + p /\ (m + dv) * steps >= 0 /\ (dv - (-m)) * steps = p + g
  BY <1>1, <1>5
<1> DEFINE most == 2 * r - 1
<1>8. CASE d > m
  <2>1. (dv - m) * steps \in -most .. most
    <3> HIDE DEF p, q, g
    <3>1. p - g <= 0 /\ p - g > -(2 * r)
      BY <1>1, <1>2, <1>3, <1>4, <1>6, <1>8
    <3> QED BY <1>1, <1>6, <3>1
  <2>2. d \in dv - 1 .. dv + 1 => dv = m
    BY <1>1, <1>2, <1>5, <1>8
  <2> QED BY <2>1, <2>2 DEF m, d
<1>9. CASE d < -m
  <2>1. (dv - (-m)) * steps \in -most .. most
    <3> HIDE DEF p, q, g
    <3>1. p + g >= 0 /\ p + g < 2 * r
      BY <1>1, <1>2, <1>3, <1>4, <1>7, <1>9
    <3> QED BY <1>1, <1>7, <3>1
  <2>2. d \in dv - 1 .. dv + 1 => dv = -m
    BY <1>1, <1>2, <1>5, <1>9
  <2> QED BY <2>1, <2>2 DEF m, d
<1> QED BY <1>5, <1>8, <1>9

\* What the options of a line make of an instruction.
HasOpts(insn, opts) ==
    /\ insn.arm = ("arm" \in opts.flags) /\ insn.sticky_arm = ("srm" \in opts.flags)
    /\ insn.marker = ("mk" \in opts.flags)

HasStep(insn, opts) ==
    /\ insn.modify = (opts.vplus # <<>>)
    /\ opts.vplus # <<>> => insn.delta = ToBits(VoltToSigned(opts.vplus[1]))

\* The fields of what the options alone make.
LEMMA OptFields ==
    ASSUME NEW opts, opts.vplus \in Seq(Int)
    PROVE  /\ HasOpts(Common(opts), opts)
           /\ HasOpts(Stepped(opts), opts) /\ HasStep(Stepped(opts), opts)
           /\ \A insn \in {Common(opts), Stepped(opts)} :
                 insn.iters = 0 /\ insn.spi_din = 0 /\ insn.strb_ldac = FALSE /\ insn.hold_cycles = 0
                 /\ insn.idle = FALSE
           /\ Common(opts).modify = FALSE
           /\ opts.vplus = <<>> => Stepped(opts).delta = 0
<1>1. Common(opts) \in DcInsn /\ Stepped(opts) \in DcInsn
  BY SteppedType
<1>2. /\ HasOpts(Common(opts), opts) /\ Common(opts).modify = FALSE
      /\ Common(opts).iters = 0 /\ Common(opts).spi_din = 0 /\ Common(opts).strb_ldac = FALSE
      /\ Common(opts).hold_cycles = 0 /\ Common(opts).idle = FALSE /\ Common(opts).delta = 0
  BY DEF HasOpts, Common, NoInsn
<1>3. CASE opts.vplus = <<>>
  BY <1>2, <1>3 DEF Stepped, HasOpts, HasStep
<1>4. CASE opts.vplus # <<>>
  <2> DEFINE d == ToBits(VoltToSigned(opts.vplus[1]))
             c == Common(opts)
  <2>1. Stepped(opts) = [c EXCEPT !.modify = TRUE, !.delta = d]
    BY <1>4 DEF Stepped
  <2> HIDE DEF d, c
  <2>2. c \in DcInsn
    BY <1>1 DEF c
  <2>3. /\ Stepped(opts).modify = TRUE /\ Stepped(opts).delta = d
        /\ Stepped(opts).arm = c.arm /\ Stepped(opts).sticky_arm = c.sticky_arm /\ Stepped(opts).marker = c.marker
        /\ Stepped(opts).iters = c.iters /\ Stepped(opts).spi_din = c.spi_din
        /\ Stepped(opts).strb_ldac = c.strb_ldac /\ Stepped(opts).hold_cycles = c.hold_cycles
        /\ Stepped(opts).idle = c.idle
    BY <2>1, <2>2 DEF DcInsn
  <2>4. HasOpts(Stepped(opts), opts)
    BY <1>2, <2>3 DEF HasOpts, c
  <2>5. HasStep(Stepped(opts), opts)
    BY <1>4, <2>3 DEF HasStep, d
  <2> QED BY <1>2, <1>4, <2>3, <2>4, <2>5 DEF c
<1> QED BY <1>2, <1>3, <1>4

\* Two instructions have the same fields but for the word and the delta.
SameFields(a, b) ==
    /\ b.iters = a.iters /\ b.strb_ldac = a.strb_ldac /\ b.hold_cycles = a.hold_cycles
    /\ b.modify = a.modify /\ b.arm = a.arm /\ b.sticky_arm = a.sticky_arm /\ b.idle = a.idle
    /\ b.marker = a.marker

LEMMA FieldsSame ==
    ASSUME NEW a \in DcInsn, NEW b \in DcInsn, SameFields(a, b),
           b.spi_din \div DacMod = a.spi_din \div DacMod
    PROVE  SameButVolts(a, b)
<1>1. [b EXCEPT !.spi_din = a.spi_din, !.delta = a.delta] = a
  BY DEF SameFields, DcInsn
<1> QED BY <1>1 DEF SameButVolts

\* Nothing is always within the slack, and that of one voltage within that of more.
LEMMA Slacks ==
    ASSUME NEW voltages, NEW v \in voltages
    PROVE  0 \in Slack({}) /\ 0 \in Slack(voltages) /\ Slack({v}) \subseteq Slack(voltages)
<1>1. Rounding \in Nat /\ 0 \in -Rounding .. Rounding
  BY RoundingBounds
<1> QED BY <1>1 DEF Slack

\* The options that are printed of an instruction make the same of it again, but for the
\* rounding of the step (opts_str()).
LEMMA OptsComeBack ==
    ASSUME NEW insn, NEW opts \in LineOpts, HasOpts(insn, opts), NEW ldc \in BOOLEAN, NEW vplus \in BOOLEAN,
           vplus => HasStep(insn, opts)
    PROVE  LET printed_opts == OptsStr(insn, ldc, vplus)
               a == Stepped(opts)
               b == Stepped(printed_opts)
           IN  /\ OptsAccepted(printed_opts) /\ printed_opts.vplus \in Seq(Int)
               /\ Common(printed_opts) = Common(opts)
               /\ vplus => SameFields(a, b) /\ StepOf(b) - StepOf(a) \in Slack(Range(opts.vplus))
               /\ "ldc" \in printed_opts.flags <=> (ldc /\ insn.strb_ldac)
<1> DEFINE o == OptsStr(insn, ldc, vplus)
           a == Stepped(opts)
           b == Stepped(o)
<1>1. /\ "arm" \in o.flags <=> insn.arm
      /\ "srm" \in o.flags <=> insn.sticky_arm
      /\ "mk" \in o.flags <=> insn.marker
      /\ "ldc" \in o.flags <=> (ldc /\ insn.strb_ldac)
      /\ o.flags \subseteq Flags
  BY DEF OptsStr, Flags
<1>2. /\ ("arm" \in o.flags) = ("arm" \in opts.flags)
      /\ ("srm" \in o.flags) = ("srm" \in opts.flags)
      /\ ("mk" \in o.flags) = ("mk" \in opts.flags)
  <2>1. /\ ("arm" \in o.flags) \in BOOLEAN /\ ("arm" \in opts.flags) \in BOOLEAN
        /\ ("srm" \in o.flags) \in BOOLEAN /\ ("srm" \in opts.flags) \in BOOLEAN
        /\ ("mk" \in o.flags) \in BOOLEAN /\ ("mk" \in opts.flags) \in BOOLEAN
    OBVIOUS
  <2> HIDE DEF o
  <2> QED BY <1>1, <2>1 DEF HasOpts
<1>3. Common(o) = Common(opts)
  <2> HIDE DEF o
  <2> QED BY <1>2, Zenon DEF Common
<1>4. ASSUME vplus, opts.vplus # <<>>
      PROVE  /\ opts.vplus[1] \in Int /\ insn.delta = ToBits(VoltToSigned(opts.vplus[1]))
             /\ o.vplus = <<CodeToVolt(DeltaSigned(insn.delta))>>
             /\ CodeToVolt(DeltaSigned(insn.delta)) \in Int
  <2>1. insn.modify = (opts.vplus # <<>>) /\ insn.delta = ToBits(VoltToSigned(opts.vplus[1]))
    BY <1>4 DEF HasStep
  <2>2. insn.modify
    BY <1>4, <2>1, Zenon
  <2>3. opts.vplus[1] \in Int
    BY <1>4 DEF LineOpts
  <2>4. o.vplus = <<CodeToVolt(DeltaSigned(insn.delta))>>
    BY <1>4, <2>2 DEF OptsStr
  <2>5. CodeToVolt(DeltaSigned(insn.delta)) \in Int
    <3>1. VoltToSigned(opts.vplus[1]) \in Int
      BY <2>3, VoltToSignedType, Ranges
    <3>2. insn.delta \in 0 .. DeltaMod - 1
      BY <2>1, <3>1, FieldTypes
    <3>3. DeltaSigned(insn.delta) \in Int
      BY <3>2, Ranges DEF DeltaSigned
    <3> DEFINE k == DeltaSigned(insn.delta)
               x == (CodeSigned(k) - KMin) * 2 * VMax - VMax * (DacMod - 1)
    <3>4. x \in Int /\ Digit * (DacMod - 1) \in Nat \ {0}
      <4>1. CodeSigned(k) \in Int
        BY <3>3, Ranges DEF CodeSigned
      <4> HIDE DEF k
      <4> QED BY <4>1, Spans, Ranges DEF Wide, Steep
    <3> HIDE DEF k, x
    <3>5. Round(x, Digit * (DacMod - 1)) \in Int
      BY <3>4, RoundBounds
    <3> QED BY <3>5, Spans DEF CodeToVolt, k, x
  <2> QED BY <2>1, <2>3, <2>4, <2>5
<1>5. ASSUME ~(vplus /\ opts.vplus # <<>>)
      PROVE  o.vplus = <<>>
  <2>1. CASE ~vplus
    BY <2>1 DEF OptsStr
  <2>2. CASE vplus /\ opts.vplus = <<>>
    <3>1. ~insn.modify
      BY <2>2, Zenon DEF HasStep
    <3> QED BY <3>1 DEF OptsStr
  <2> QED BY <1>5, <2>1, <2>2
<1> HIDE DEF o
<1>6. o.vplus \in Seq(Int)
  <2> DEFINE z == CodeToVolt(DeltaSigned(insn.delta))
  <2> HIDE DEF z
  <2>1. CASE vplus /\ opts.vplus # <<>>
    <3>1. o.vplus = <<z>> /\ z \in Int
      BY <1>4, <2>1 DEF z
    <3> QED BY <3>1
  <2>2. CASE ~(vplus /\ opts.vplus # <<>>)
    <3>1. o.vplus = <<>>
      BY <1>5, <2>2
    <3> QED BY <3>1
  <2> QED BY <2>1, <2>2
<1>7. /\ HasOpts(a, opts) /\ HasStep(a, opts) /\ HasOpts(b, o) /\ HasStep(b, o)
      /\ a.iters = 0 /\ a.strb_ldac = FALSE /\ a.hold_cycles = 0 /\ a.idle = FALSE
      /\ b.iters = 0 /\ b.strb_ldac = FALSE /\ b.hold_cycles = 0 /\ b.idle = FALSE
      /\ opts.vplus = <<>> => a.delta = 0
      /\ o.vplus = <<>> => b.delta = 0
  BY <1>6, OptFields, VPlusType
<1>8. ASSUME vplus PROVE SameFields(a, b)
  <2>1. b.arm = a.arm /\ b.sticky_arm = a.sticky_arm /\ b.marker = a.marker
    <3> HIDE DEF a, b
    <3> QED BY <1>2, <1>7, Zenon DEF HasOpts
  <2>2. b.modify = a.modify
    <3>1. a.modify = (opts.vplus # <<>>) /\ b.modify = (o.vplus # <<>>)
      BY <1>7 DEF HasStep
    <3>2. (opts.vplus # <<>>) = (o.vplus # <<>>)
      <4>1. CASE opts.vplus # <<>>
        <5>1. o.vplus = <<CodeToVolt(DeltaSigned(insn.delta))>>
          BY <1>4, <1>8, <4>1
        <5>2. o.vplus # <<>>
          BY <5>1
        <5> QED BY <4>1, <5>2
      <4>2. CASE opts.vplus = <<>>
        BY <1>5, <4>2
      <4> QED BY <4>1, <4>2
    <3> HIDE DEF a, b, o
    <3>3. CASE opts.vplus # <<>>
      <4>1. a.modify = TRUE /\ b.modify = TRUE
        BY <3>1, <3>2, <3>3
      <4> QED BY <4>1, Zenon
    <3>4. CASE opts.vplus = <<>>
      <4>1. a.modify = FALSE /\ b.modify = FALSE
        BY <3>1, <3>2, <3>4
      <4> QED BY <4>1, Zenon
    <3> QED BY <3>3, <3>4
  <2> HIDE DEF a, b
  <2> QED BY <1>7, <2>1, <2>2 DEF SameFields
<1>9. ASSUME vplus PROVE StepOf(b) - StepOf(a) \in Slack(Range(opts.vplus))
  <2>1. CASE opts.vplus = <<>>
    <3>1. a.delta = 0 /\ b.delta = 0
      BY <1>5, <1>7, <2>1
    <3>2. DeltaSigned(0) \in Int
      BY Ranges DEF DeltaSigned
    <3>3. StepOf(b) - StepOf(a) = 0
      <4> HIDE DEF a, b
      <4> QED BY <3>1, <3>2 DEF StepOf
    <3>4. 0 \in Slack(Range(opts.vplus))
      BY RoundingBounds DEF Slack
    <3> QED BY <3>3, <3>4
  <2>2. CASE opts.vplus # <<>>
    <3> DEFINE v == opts.vplus[1]
               delta == ToBits(VoltToSigned(v))
    <3>1. v \in Int /\ insn.delta = delta /\ o.vplus = <<CodeToVolt(DeltaSigned(insn.delta))>>
      BY <1>4, <1>9, <2>2
    <3>2. o.vplus # <<>> /\ o.vplus[1] = CodeToVolt(DeltaSigned(delta))
      BY <3>1
    <3>3. a.delta = delta /\ b.delta = ToBits(VoltToSigned(CodeToVolt(DeltaSigned(delta))))
      <4>1. b.delta = ToBits(VoltToSigned(o.vplus[1]))
        BY <1>7, <3>2 DEF HasStep
      <4>2. a.delta = delta
        BY <1>7, <2>2 DEF HasStep
      <4> HIDE DEF a, b, delta
      <4> QED BY <3>2, <4>1, <4>2
    <3>4. v \in Range(opts.vplus)
      <4>1. opts.vplus \in Seq(Int)
        BY DEF LineOpts
      <4>2. 1 \in DOMAIN opts.vplus
        BY <2>2, <4>1
      <4> QED BY <4>2 DEF Range
    <3> HIDE DEF v, a, b
    <3>5. StepOf(b) - StepOf(a) \in Slack({v})
      BY <3>1, <3>3, VPlusComesBack DEF StepOf
    <3> QED BY <3>4, <3>5, Slacks
  <2> QED BY <2>1, <2>2
<1>10. OptsAccepted(o)
  BY <1>1 DEF OptsAccepted
<1> QED BY <1>1, <1>3, <1>6, <1>8, <1>9, <1>10 DEF o

\* The registers have names of their own (_REG_CODE_TO_NAME).
LEMMA NameComesBack ==
    ASSUME NEW reg \in DOMAIN DacRegMap
    PROVE  RegName(DacRegMap[reg]) = reg /\ DacRegMap[reg] \in 1 .. 4 /\ (DacRegMap[reg] = 1 <=> reg = "dr")
<1> DEFINE known == {r \in DOMAIN DacRegMap : DacRegMap[r] = DacRegMap[reg]}
<1>1. reg \in {"dr", "cr", "clr", "scr"} /\ DOMAIN DacRegMap = {"dr", "cr", "clr", "scr"}
  BY DEF DacRegMap
<1>2. DacRegMap["dr"] = 1 /\ DacRegMap["cr"] = 2 /\ DacRegMap["clr"] = 3 /\ DacRegMap["scr"] = 4
  BY DEF DacRegMap
<1>3. known = {reg}
  BY <1>1, <1>2
<1>4. RegName(DacRegMap[reg]) = IF known = {} THEN "r" ELSE CHOOSE r \in known : TRUE
  BY DEF RegName
<1> HIDE DEF known
<1>5. known # {} /\ (CHOOSE r \in known : TRUE) = reg
  BY <1>3
<1> QED BY <1>1, <1>2, <1>4, <1>5

\* The register and the code of a word for the DAC.
LEMMA SpiFields ==
    ASSUME NEW reg \in 0 .. 15, NEW code \in 0 .. DacMod - 1
    PROVE  LET din == reg * DacMod + code
           IN  /\ din \div (8 * DacMod) = (IF reg >= 8 THEN 1 ELSE 0) /\ din \div DacMod = reg
               /\ (din \div DacMod) % 8 = (IF reg >= 8 THEN reg - 8 ELSE reg)
               /\ din % DacMod = code
<1> DEFINE din == reg * DacMod + code
<1>1. DacMod \in Nat \ {0} /\ code \in Nat /\ reg \in Nat /\ 8 * DacMod \in Nat \ {0}
  BY Ranges
<1>2. din % DacMod = code
  <2>1. din = DacMod * reg + code
    BY <1>1
  <2> QED BY <1>1, <2>1, ModUnique
<1>3. din \div DacMod = reg
  BY <1>1, DivUnique
<1>4. reg % 8 = IF reg >= 8 THEN reg - 8 ELSE reg
  OBVIOUS
<1>5. din \div (8 * DacMod) = IF reg >= 8 THEN 1 ELSE 0
  <2> DEFINE m == 8 * DacMod
             q == IF reg >= 8 THEN 1 ELSE 0
             r == (reg - 8 * q) * DacMod + code
  <2>1. reg - 8 * q \in 0 .. 7
    OBVIOUS
  <2>2. r \in 0 .. m - 1
    <3> DEFINE j == reg - 8 * q
    <3>1. j \in 0 .. 7
      BY <2>1
    <3> HIDE DEF j
    <3>2. j * DacMod + code \in 0 .. 8 * DacMod - 1
      BY <1>1, <3>1
    <3> QED BY <3>2 DEF j
  <2>3. din = q * m + r
    BY <1>1
  <2> QED BY <1>1, <2>2, <2>3, DivUnique
<1> QED BY <1>2, <1>3, <1>4, <1>5

\* The line that is printed of what a line assembles to assembles to the same, but for the
\* rounding of these voltages and of "v+".
Returns(l, voltages) ==
    LET insn == Assemble(l)  again == FormatInsn(insn)  back == Assemble(again)
    IN  /\ Accepted(again) /\ SameButVolts(insn, back)
        /\ CodeOf(back) - CodeOf(insn) \in Slack(voltages)
        /\ StepOf(back) - StepOf(insn) \in Slack(Range(l.opts.vplus))

\* What has the same word has the same code.
LEMMA WordSame ==
    ASSUME NEW a \in DcInsn, NEW b \in DcInsn, SameFields(a, b), b.spi_din = a.spi_din
    PROVE  SameButVolts(a, b) /\ CodeOf(b) - CodeOf(a) \in Slack({})
<1>1. SameButVolts(a, b)
  BY FieldsSame
<1>2. a.spi_din \in Int /\ DacMod \in Nat \ {0}
  BY Ranges, FieldTypes DEF DcInsn
<1>3. CodeOf(a) \in Int /\ CodeOf(b) = CodeOf(a)
  BY <1>2, Ranges DEF CodeOf, CodeSigned
<1>4. 0 \in Slack({})
  BY RoundingBounds DEF Slack
<1>5. CodeOf(b) - CodeOf(a) = 0
  BY <1>3
<1> QED BY <1>1, <1>4, <1>5

\* The code of any voltage in the range comes back, or one within the rounding.
LEMMA CodeReturns ==
    ASSUME NEW v \in -VMax .. VMax
    PROVE  VoltToSigned(CodeToVolt(VoltToSigned(v))) - VoltToSigned(v) \in Slack({v})
<1> DEFINE k == VoltToSigned(v)
<1>1. k \in KMin .. KMax /\ k \in Int
  BY Spans, VoltToSignedType
<1>2. CASE Printable(v)
  <2>1. VoltToSigned(CodeToVolt(k)) = k
    BY <1>2, CodeComesBack
  <2> HIDE DEF k
  <2>2. VoltToSigned(CodeToVolt(k)) - k = 0
    BY <1>1, <2>1
  <2> QED BY <1>2, <2>2 DEF Slack, k
<1>3. CASE ~Printable(v)
  BY <1>1, <1>3, CodeNear DEF Slack
<1> QED BY <1>2, <1>3

\* What both assemble to is an instruction.
LEMMA LineTypes ==
    /\ SwpLine \subseteq InsnLine /\ LvlLine \subseteq InsnLine /\ SetLine \subseteq InsnLine
    /\ GetLine \subseteq InsnLine /\ NopLine \subseteq InsnLine
BY DEF InsnLine

\* A hold that is accepted is accepted again.
LEMMA HoldReprinted ==
    ASSUME NEW t \in LineTime, HoldAccepted(t)
    PROVE  LET h == TimeToCycles(ParseTime(t))
               again == FormatTime(h * NsPerCycle)
           IN  again \in LineTime /\ TimeToCycles(ParseTime(again)) = h /\ HoldAccepted(again)
<1> DEFINE h == TimeToCycles(ParseTime(t))
<1>1. h \in 0 .. MaxHold /\ MaxHold \in Int /\ h <= MaxHold
  BY HoldType, FieldTypes DEF HoldAccepted
<1>2. h # 0
  <2>1. t.num \in Nat /\ Scale[t.unit] \in Nat
    BY InsnAssumption DEF LineTime, Scale
  <2>2. ParseTime(t) \in Int
    BY <2>1 DEF ParseTime
  <2>3. Round(ParseTime(t), NsPerCycle) \in Int
    BY <2>2, RoundBounds, InsnAssumption
  <2> QED BY <2>3 DEF TimeToCycles
<1> HIDE DEF h
<1>3. FormatTime(h * NsPerCycle) \in LineTime /\ TimeToCycles(ParseTime(FormatTime(h * NsPerCycle))) = h
  BY <1>1, <1>2, HoldComesBack
<1> QED BY <1>1, <1>3 DEF HoldAccepted, h

\* The word for the DAC register that a voltage gives.
LEMMA DacWord ==
    ASSUME NEW v \in Int
    PROVE  LET din == DacRegMap.dr * DacMod + VoltToCode(v)
               k == VoltToSigned(v)
           IN  /\ din \div (8 * DacMod) = 0 /\ din \div DacMod = 1 /\ (din \div DacMod) % 8 = DacRegMap.dr
               /\ din % DacMod = k % DacMod /\ CodeSigned(din % DacMod) = k /\ din \in 0 .. SpiMod - 1
<1>1. VoltToCode(v) \in 0 .. DacMod - 1 /\ VoltToCode(v) = VoltToSigned(v) % DacMod
  BY FieldTypes DEF VoltToCode
<1>2. DacRegMap.dr = 1
  BY DEF DacRegMap
<1>3. CodeSigned(VoltToSigned(v) % DacMod) = VoltToSigned(v)
  <2> DEFINE k == VoltToSigned(v)
  <2>1. k \in KMin .. KMax
    BY VoltToSignedType
  <2> HIDE DEF k
  <2>2. CodeSigned(k % DacMod) = k
    BY <2>1, CodeItself
  <2> QED BY <2>2 DEF k
<1>4. 1 * DacMod + VoltToCode(v) \in 0 .. SpiMod - 1
  BY <1>1, FieldTypes, Ranges
<1> DEFINE c == VoltToCode(v)
<1> HIDE DEF c
<1>5. LET din == 1 * DacMod + c
      IN  /\ din \div (8 * DacMod) = 0 /\ din \div DacMod = 1 /\ (din \div DacMod) % 8 = 1
          /\ din % DacMod = c
  BY <1>1, SpiFields DEF c
<1> QED BY <1>1, <1>2, <1>3, <1>4, <1>5 DEF c

\* A level comes back, in a code within the rounding (parse_lvl(), format_insn()).
LEMMA LvlComesBack ==
    ASSUME NEW l \in LvlLine, Accepted(l)
    PROVE  Returns(l, {l.v})
<1> DEFINE insn == Assemble(l)
           k == VoltToSigned(l.v)
           h == TimeToCycles(ParseTime(l.t))
           o == OptsStr(insn, FALSE, TRUE)
           again == [op |-> "lvl", v |-> CodeToVolt(k), t |-> FormatTime(h * NsPerCycle), opts |-> o]
           s == Stepped(l.opts)
           din == DacRegMap.dr * DacMod + VoltToCode(l.v)
<1>1. l.op = "lvl" /\ l.v \in -VMax .. VMax /\ l.t \in LineTime /\ HoldAccepted(l.t) /\ l.opts \in LineOpts
  <2>1. l.op = "lvl" /\ l.v \in Int /\ InRange(l.v) /\ l.t \in LineTime /\ HoldAccepted(l.t) /\ l.opts \in LineOpts
    BY DEF LvlLine, Accepted, LvlAccepted
  <2> QED BY <2>1, Spans DEF InRange
<1>2. insn = [s EXCEPT !.spi_din = din, !.strb_ldac = TRUE, !.hold_cycles = h]
  BY <1>1 DEF Assemble, ParseLvl
<1>3. s \in DcInsn
  BY <1>1, SteppedType, VPlusType
<1>4. /\ insn.spi_din = din /\ insn.strb_ldac = TRUE /\ insn.hold_cycles = h
      /\ insn.iters = s.iters /\ insn.idle = s.idle /\ insn.arm = s.arm /\ insn.sticky_arm = s.sticky_arm
      /\ insn.marker = s.marker /\ insn.modify = s.modify /\ insn.delta = s.delta
  <2> HIDE DEF insn, s, din, h
  <2> QED BY <1>2, <1>3 DEF DcInsn
<1>5. s.iters = 0 /\ s.idle = FALSE /\ HasOpts(s, l.opts) /\ HasStep(s, l.opts)
  BY <1>1, OptFields, VPlusType
<1>6. HasOpts(insn, l.opts) /\ HasStep(insn, l.opts)
  <2> HIDE DEF insn, s
  <2> QED BY <1>4, <1>5 DEF HasOpts, HasStep
<1>7. /\ din \div (8 * DacMod) = 0 /\ (din \div DacMod) % 8 = DacRegMap.dr /\ din % DacMod = k % DacMod
      /\ din \div DacMod = 1 /\ CodeSigned(din % DacMod) = k
  <2>1. l.v \in Int
    BY <1>1, Spans
  <2> QED BY <2>1, DacWord
<1>8. k \in KMin .. KMax /\ CodeToVolt(k % DacMod) = CodeToVolt(k) /\ CodeToVolt(k) \in -VMax .. VMax
  <2>1. k \in KMin .. KMax
    BY <1>1, VoltToSignedType, Spans
  <2> HIDE DEF k
  <2> QED BY <2>1, VoltClose
<1>9. FormatInsn(insn) = again
  <2>1. /\ insn.spi_din \div (8 * DacMod) # 1 /\ (insn.spi_din \div DacMod) % 8 = DacRegMap.dr
        /\ CodeToVolt(insn.spi_din % DacMod) = CodeToVolt(k)
    <3> HIDE DEF insn, din, k
    <3> QED BY <1>4, <1>7, <1>8
  <2>2. insn.iters = 0 /\ ~insn.idle /\ insn.strb_ldac /\ insn.hold_cycles = h
    BY <1>4, <1>5
  <2> HIDE DEF insn, h, k
  <2> QED BY <2>1, <2>2, Zenon DEF FormatInsn
<1>10. /\ FormatTime(h * NsPerCycle) \in LineTime /\ HoldAccepted(FormatTime(h * NsPerCycle))
       /\ TimeToCycles(ParseTime(FormatTime(h * NsPerCycle))) = h
  BY <1>1, HoldReprinted
<1> DEFINE z == VoltToSigned(CodeToVolt(k))
           s2 == Stepped(o)
           din2 == DacRegMap.dr * DacMod + VoltToCode(CodeToVolt(k))
           back == [s2 EXCEPT !.spi_din = din2, !.strb_ldac = TRUE, !.hold_cycles = h]
<1>11. /\ OptsAccepted(o) /\ SameFields(s, s2) /\ StepOf(s2) - StepOf(s) \in Slack(Range(l.opts.vplus))
       /\ s2 \in DcInsn
  <2> HIDE DEF insn
  <2>1. /\ OptsAccepted(o) /\ SameFields(s, s2) /\ StepOf(s2) - StepOf(s) \in Slack(Range(l.opts.vplus))
        /\ o.vplus \in Seq(Int)
    BY <1>1, <1>6, OptsComeBack
  <2> HIDE DEF o
  <2> QED BY <2>1, SteppedType
<1>12. z - k \in Slack({l.v}) /\ z \in KMin .. KMax /\ CodeToVolt(k) \in Int
  <2>1. CodeToVolt(k) \in Int
    BY <1>8, Spans
  <2>2. z \in KMin .. KMax
    <3> HIDE DEF k
    <3> QED BY <2>1, VoltToSignedType
  <2> QED BY <1>1, <2>1, <2>2, CodeReturns
<1>13. again.op = "lvl" /\ again.v = CodeToVolt(k) /\ again.t = FormatTime(h * NsPerCycle) /\ again.opts = o
  <2> HIDE DEF insn, s, din, h, k, o
  <2> QED OBVIOUS
<1> HIDE DEF again
<1>14. Accepted(again)
  <2>1. HoldAccepted(again.t)
    <3> HIDE DEF h
    <3> QED BY <1>10, <1>13
  <2>2. InRange(again.v)
    <3> HIDE DEF k
    <3> QED BY <1>8, <1>13, Spans DEF InRange
  <2> HIDE DEF o
  <2> QED BY <1>11, <1>13, <2>1, <2>2 DEF Accepted, LvlAccepted
<1>15. Assemble(again) = back
  <2> HIDE DEF s2, h, k, o
  <2> QED BY <1>10, <1>13, Zenon DEF Assemble, ParseLvl, din2, s2
<1>16. din2 \div DacMod = 1 /\ CodeSigned(din2 % DacMod) = z /\ din2 \in 0 .. SpiMod - 1
  <2> HIDE DEF k
  <2> QED BY <1>12, DacWord
<1>17. insn \in DcInsn /\ h \in 0 .. MaxHold
  BY <1>1, AssembleType, LineTypes, HoldType
<1> HIDE DEF insn, s, s2, din, din2, h, k, z, o
<1>18. /\ back \in DcInsn /\ back.spi_din = din2 /\ back.strb_ldac = TRUE /\ back.hold_cycles = h
       /\ back.iters = s2.iters /\ back.idle = s2.idle /\ back.arm = s2.arm /\ back.sticky_arm = s2.sticky_arm
       /\ back.marker = s2.marker /\ back.modify = s2.modify /\ back.delta = s2.delta
  BY <1>11, <1>16, <1>17 DEF DcInsn
<1> HIDE DEF back
<1>19. SameButVolts(insn, back)
  <2>1. SameFields(insn, back)
    BY <1>4, <1>11, <1>18 DEF SameFields
  <2>2. back.spi_din \div DacMod = insn.spi_din \div DacMod
    BY <1>4, <1>7, <1>16, <1>18
  <2> QED BY <1>17, <1>18, <2>1, <2>2, FieldsSame
<1>20. CodeOf(insn) = k /\ CodeOf(back) = z
  BY <1>4, <1>7, <1>16, <1>18 DEF CodeOf
<1>21. StepOf(back) - StepOf(insn) \in Slack(Range(l.opts.vplus))
  BY <1>4, <1>11, <1>18 DEF StepOf
<1>22. CodeOf(back) - CodeOf(insn) \in Slack({l.v})
  BY <1>12, <1>20
<1> QED BY <1>9, <1>14, <1>15, <1>19, <1>21, <1>22 DEF Returns, insn, back

\* A flag that is printed of a field of the instruction is the flag of the line.
LEMMA SameFlag ==
    ASSUME NEW f, NEW g, NEW x, NEW b, (x \in f) <=> b, b = (x \in g)
    PROVE  (x \in f) = (x \in g)
<1>1. (x \in f) \in BOOLEAN /\ (x \in g) \in BOOLEAN
  OBVIOUS
<1> QED BY <1>1

\* A register write comes back, but for one that strobes the DAC register (parse_set(),
\* format_insn()).
LEMMA SetComesBack ==
    ASSUME NEW l \in SetLine, Accepted(l), ~(l.reg = "dr" /\ "ldc" \in l.opts.flags)
    PROVE  Returns(l, {})
<1> DEFINE insn == Assemble(l)
           ldc == "ldc" \in l.opts.flags
           o == OptsStr(insn, TRUE, TRUE)
           s == Stepped(l.opts)
           din == DacRegMap[l.reg] * DacMod + l.din
<1>1. l.op = "set" /\ l.reg \in DOMAIN DacRegMap /\ l.din \in 0 .. DacMod - 1 /\ l.opts \in LineOpts
  <2>1. l.op = "set" /\ l.din \in Nat /\ l.opts \in LineOpts
    BY DEF SetLine
  <2>2. l.reg \in DOMAIN DacRegMap /\ l.din < DacMod
    BY <2>1 DEF Accepted, SetAccepted
  <2> QED BY <2>1, <2>2, Ranges
<1>2. insn = [s EXCEPT !.spi_din = din, !.strb_ldac = ldc]
  BY <1>1, Zenon DEF Assemble, ParseSet
<1>3. s \in DcInsn
  BY <1>1, SteppedType, VPlusType
<1>4. /\ insn.spi_din = din /\ insn.strb_ldac = ldc /\ insn.hold_cycles = s.hold_cycles
      /\ insn.iters = s.iters /\ insn.idle = s.idle /\ insn.arm = s.arm /\ insn.sticky_arm = s.sticky_arm
      /\ insn.marker = s.marker /\ insn.modify = s.modify /\ insn.delta = s.delta
  <2> HIDE DEF insn, s, din, ldc
  <2> QED BY <1>2, <1>3 DEF DcInsn
<1>5. /\ s.iters = 0 /\ s.idle = FALSE /\ s.hold_cycles = 0 /\ s.strb_ldac = FALSE
      /\ HasOpts(s, l.opts) /\ HasStep(s, l.opts)
  BY <1>1, OptFields, VPlusType
<1>6. HasOpts(insn, l.opts) /\ HasStep(insn, l.opts)
  <2> HIDE DEF insn, s
  <2> QED BY <1>4, <1>5 DEF HasOpts, HasStep
<1>7. DacRegMap[l.reg] \in 1 .. 4 /\ RegName(DacRegMap[l.reg]) = l.reg /\ (DacRegMap[l.reg] = 1 <=> l.reg = "dr")
  BY <1>1, NameComesBack
<1>8. din \div (8 * DacMod) = 0 /\ (din \div DacMod) % 8 = DacRegMap[l.reg] /\ din % DacMod = l.din
  <2>1. DacRegMap[l.reg] \in 0 .. 15 /\ ~(DacRegMap[l.reg] >= 8)
    BY <1>7
  <2> QED BY <1>1, <2>1, SpiFields
<1> DEFINE s2 == Stepped(o)
           back == [s2 EXCEPT !.spi_din = din, !.strb_ldac = ldc]
<1>9. /\ OptsAccepted(o) /\ SameFields(s, s2) /\ StepOf(s2) - StepOf(s) \in Slack(Range(l.opts.vplus))
      /\ ("ldc" \in o.flags <=> insn.strb_ldac) /\ s2 \in DcInsn /\ s2.iters = 0 /\ s2.hold_cycles = 0
  <2> HIDE DEF insn
  <2>1. /\ OptsAccepted(o) /\ SameFields(s, s2) /\ StepOf(s2) - StepOf(s) \in Slack(Range(l.opts.vplus))
        /\ ("ldc" \in o.flags <=> insn.strb_ldac) /\ o.vplus \in Seq(Int)
    BY <1>1, <1>6, OptsComeBack
  <2> HIDE DEF o
  <2> QED BY <2>1, SteppedType, OptFields
<1>10. ("ldc" \in o.flags) = ldc
  <2> HIDE DEF o, insn
  <2> QED BY <1>4, <1>9, SameFlag
<1>11. DacRegMap.dr = 1
  BY DEF DacRegMap
<1>12. ASSUME l.reg # "dr"
       PROVE  Accepted(FormatInsn(insn)) /\ Assemble(FormatInsn(insn)) = back
  <2> DEFINE again == [op |-> "set", reg |-> l.reg, din |-> l.din, opts |-> o]
  <2>1. DacRegMap[l.reg] # 1
    BY <1>7, <1>12
  <2>2. FormatInsn(insn) = again
    <3> DEFINE reg == (insn.spi_din \div DacMod) % 8
    <3>1. insn.spi_din \div (8 * DacMod) # 1 /\ reg # DacRegMap.dr /\ reg = DacRegMap[l.reg]
      <4> HIDE DEF insn, din
      <4> QED BY <1>4, <1>8, <1>11, <2>1
    <3>2. ~insn.idle /\ insn.spi_din % DacMod = l.din
      <4> HIDE DEF insn, din, s
      <4> QED BY <1>4, <1>5, <1>8
    <3> HIDE DEF insn
    <3>3. FormatInsn(insn) = [op |-> "set", reg |-> RegName(reg), din |-> insn.spi_din % DacMod,
                              opts |-> OptsStr(insn, TRUE, TRUE)]
      BY <3>1, <3>2, Zenon DEF FormatInsn
    <3> HIDE DEF reg
    <3> QED BY <1>7, <3>1, <3>2, <3>3
  <2>3. again.op = "set" /\ again.reg = l.reg /\ again.din = l.din /\ again.opts = o
    <3> HIDE DEF o
    <3> QED OBVIOUS
  <2> HIDE DEF again
  <2>4. Accepted(again)
    <3>1. l.din < DacMod
      BY <1>1, Ranges
    <3> HIDE DEF o
    <3> QED BY <1>1, <1>9, <2>3, <3>1 DEF Accepted, SetAccepted
  <2>5. Assemble(again) = back
    <3> HIDE DEF s2, o, ldc
    <3> QED BY <1>10, <2>3, Zenon DEF Assemble, ParseSet, din, s2
  <2> HIDE DEF insn, back
  <2> QED BY <2>2, <2>4, <2>5
<1>13. ASSUME l.reg = "dr"
       PROVE  Accepted(FormatInsn(insn)) /\ Assemble(FormatInsn(insn)) = back
  <2> DEFINE again == [op |-> "ful", its |-> 0, din |-> din, cyc |-> 0, opts |-> o]
  <2>1. ~ldc /\ DacRegMap[l.reg] = 1
    BY <1>7, <1>13
  <2>2. ~insn.strb_ldac
    <3> HIDE DEF insn, ldc
    <3> QED BY <1>4, <2>1
  <2>3. FormatInsn(insn) = again
    <3>1. /\ insn.spi_din \div (8 * DacMod) # 1 /\ (insn.spi_din \div DacMod) % 8 = DacRegMap.dr
          /\ insn.spi_din = din
      <4> HIDE DEF insn, din
      <4> QED BY <1>4, <1>8, <1>11, <2>1
    <3>2. insn.iters = 0 /\ insn.hold_cycles = 0 /\ ~insn.idle
      BY <1>4, <1>5
    <3> HIDE DEF insn, din
    <3>3. FormatInsn(insn) = [op |-> "ful", its |-> insn.iters, din |-> insn.spi_din,
                              cyc |-> insn.hold_cycles, opts |-> OptsStr(insn, TRUE, TRUE)]
      BY <2>2, <3>1, <3>2, Zenon DEF FormatInsn
    <3> QED BY <3>1, <3>2, <3>3
  <2>4. again.op = "ful" /\ again.its = 0 /\ again.din = din /\ again.cyc = 0 /\ again.opts = o
    <3> HIDE DEF o, din
    <3> QED OBVIOUS
  <2> HIDE DEF again
  <2>5. Accepted(again)
    <3>1. din < SpiMod /\ 0 <= IterMax /\ 0 <= MaxHold
      BY <1>1, <1>11, <2>1, FieldTypes, DecodeAssumption
    <3> HIDE DEF o, din
    <3> QED BY <1>9, <2>4, <3>1 DEF Accepted, FulAccepted
  <2>6. Assemble(again) = [s2 EXCEPT !.iters = 0, !.spi_din = din, !.hold_cycles = 0, !.strb_ldac = ldc]
    <3> HIDE DEF s2, o, ldc, din
    <3> QED BY <1>10, <2>4, Zenon DEF Assemble, ParseFul, s2
  <2>7. [s2 EXCEPT !.iters = 0, !.spi_din = din, !.hold_cycles = 0, !.strb_ldac = ldc] = back
    <3> HIDE DEF s2, ldc, din
    <3> QED BY <1>9 DEF DcInsn
  <2> HIDE DEF insn, back
  <2> QED BY <2>3, <2>5, <2>6, <2>7
<1>14. Accepted(FormatInsn(insn)) /\ Assemble(FormatInsn(insn)) = back
  <2> HIDE DEF insn, back
  <2> QED BY <1>12, <1>13
<1>15. insn \in DcInsn
  BY AssembleType, LineTypes
<1> HIDE DEF insn, s, s2, din, ldc, o
<1>16. /\ back \in DcInsn /\ back.spi_din = din /\ back.strb_ldac = ldc /\ back.hold_cycles = s2.hold_cycles
       /\ back.iters = s2.iters /\ back.idle = s2.idle /\ back.arm = s2.arm /\ back.sticky_arm = s2.sticky_arm
       /\ back.marker = s2.marker /\ back.modify = s2.modify /\ back.delta = s2.delta
  BY <1>4, <1>9, <1>15 DEF DcInsn
<1> HIDE DEF back
<1>17. SameFields(insn, back) /\ back.spi_din = insn.spi_din
  BY <1>4, <1>9, <1>16 DEF SameFields
<1>18. StepOf(back) - StepOf(insn) \in Slack(Range(l.opts.vplus))
  BY <1>4, <1>9, <1>16 DEF StepOf
<1>19. SameButVolts(insn, back) /\ CodeOf(back) - CodeOf(insn) \in Slack({})
  BY <1>15, <1>16, <1>17, WordSame
<1> QED BY <1>14, <1>18, <1>19 DEF Returns, insn

\* A register read comes back (parse_get(), format_insn()).
LEMMA GetComesBack ==
    ASSUME NEW l \in GetLine, Accepted(l)
    PROVE  Returns(l, {})
<1> DEFINE insn == Assemble(l)
           ldc == "ldc" \in l.opts.flags
           o == OptsStr(insn, TRUE, FALSE)
           s == Common(l.opts)
           din == (8 + DacRegMap[l.reg]) * DacMod
           again == [op |-> "get", reg |-> l.reg, opts |-> o]
<1>1. l.op = "get" /\ l.reg \in DOMAIN DacRegMap /\ l.opts \in LineOpts
  BY DEF GetLine, Accepted, GetAccepted
<1>2. insn = [s EXCEPT !.spi_din = din, !.strb_ldac = ldc]
  BY <1>1, Zenon DEF Assemble, ParseGet
<1>3. s \in DcInsn
  BY <1>1, SteppedType, VPlusType
<1>4. /\ insn.spi_din = din /\ insn.strb_ldac = ldc /\ insn.idle = s.idle /\ insn.arm = s.arm
      /\ insn.sticky_arm = s.sticky_arm /\ insn.marker = s.marker
  <2> HIDE DEF insn, s, din, ldc
  <2> QED BY <1>2, <1>3 DEF DcInsn
<1>5. s.idle = FALSE /\ HasOpts(s, l.opts)
  BY <1>1, OptFields, VPlusType
<1>6. HasOpts(insn, l.opts)
  <2> HIDE DEF insn, s
  <2> QED BY <1>4, <1>5 DEF HasOpts
<1>7. DacRegMap[l.reg] \in 1 .. 4 /\ RegName(DacRegMap[l.reg]) = l.reg
  BY <1>1, NameComesBack
<1>8. din \div (8 * DacMod) = 1 /\ (din \div DacMod) % 8 = DacRegMap[l.reg]
  <2> DEFINE r == 8 + DacRegMap[l.reg]
  <2>1. r \in 0 .. 15 /\ r >= 8 /\ r - 8 = DacRegMap[l.reg] /\ 0 \in 0 .. DacMod - 1
    BY <1>7, Ranges
  <2>2. din = r * DacMod + 0
    <3>1. r * DacMod \in Int
      BY <2>1, Ranges
    <3> QED BY <3>1
  <2> HIDE DEF r, din
  <2> QED BY <2>1, <2>2, SpiFields
<1>9. OptsAccepted(o) /\ Common(o) = s /\ ("ldc" \in o.flags <=> insn.strb_ldac)
  <2> HIDE DEF insn
  <2> QED BY <1>1, <1>6, OptsComeBack
<1>10. ("ldc" \in o.flags) = ldc
  <2> HIDE DEF o, insn
  <2> QED BY <1>4, <1>9, SameFlag
<1>11. FormatInsn(insn) = again
  <2> HIDE DEF insn, s, din, o, ldc
  <2> QED BY <1>4, <1>5, <1>7, <1>8 DEF FormatInsn, o
<1>12. again.op = "get" /\ again.reg = l.reg /\ again.opts = o
  <2> HIDE DEF o
  <2> QED OBVIOUS
<1> HIDE DEF again
<1>13. Accepted(again)
  <2> HIDE DEF o
  <2> QED BY <1>1, <1>9, <1>12 DEF Accepted, GetAccepted
<1>14. Assemble(again) = [s EXCEPT !.spi_din = din, !.strb_ldac = ldc]
  <2> HIDE DEF s, o, ldc
  <2> QED BY <1>9, <1>10, <1>12, Zenon DEF Assemble, ParseGet, din
<1>15. insn \in DcInsn
  BY AssembleType, LineTypes
<1>16. Assemble(FormatInsn(insn)) = insn /\ Accepted(FormatInsn(insn))
  <2> HIDE DEF s, din, ldc
  <2> QED BY <1>2, <1>11, <1>13, <1>14
<1> HIDE DEF insn
<1>17. SameButVolts(insn, insn) /\ CodeOf(insn) - CodeOf(insn) \in Slack({})
  <2>1. SameFields(insn, insn)
    BY DEF SameFields
  <2> QED BY <1>15, <2>1, WordSame
<1>18. StepOf(insn) - StepOf(insn) \in Slack(Range(l.opts.vplus))
  <2>1. StepOf(insn) \in Int
    BY <1>15, Ranges DEF StepOf, DeltaSigned, DcInsn
  <2>2. 0 \in Slack(Range(l.opts.vplus))
    BY RoundingBounds DEF Slack
  <2>3. StepOf(insn) - StepOf(insn) = 0
    BY <2>1
  <2> QED BY <2>2, <2>3
<1> QED BY <1>16, <1>17, <1>18 DEF Returns, insn

\* An idle instruction comes back (parse_nop(), format_insn()).
LEMMA NopComesBack ==
    ASSUME NEW l \in NopLine, Accepted(l)
    PROVE  Returns(l, {})
<1> DEFINE insn == Assemble(l)
           ldc == "ldc" \in l.opts.flags
           o == OptsStr(insn, TRUE, TRUE)
           s == Stepped(l.opts)
           again == [op |-> "nop", opts |-> o]
<1>1. l.op = "nop" /\ l.opts \in LineOpts
  BY DEF NopLine
<1>2. insn = [s EXCEPT !.idle = TRUE, !.strb_ldac = ldc]
  BY <1>1, Zenon DEF Assemble, ParseNop
<1>3. s \in DcInsn
  BY <1>1, SteppedType, VPlusType
<1>4. /\ insn.strb_ldac = ldc /\ insn.idle = TRUE /\ insn.arm = s.arm /\ insn.sticky_arm = s.sticky_arm
      /\ insn.marker = s.marker /\ insn.modify = s.modify /\ insn.delta = s.delta
      /\ insn.iters = s.iters /\ insn.spi_din = s.spi_din /\ insn.hold_cycles = s.hold_cycles
  <2> HIDE DEF insn, s, ldc
  <2> QED BY <1>2, <1>3 DEF DcInsn
<1>5. HasOpts(s, l.opts) /\ HasStep(s, l.opts) /\ s.spi_din = 0
  BY <1>1, OptFields, VPlusType
<1>6. HasOpts(insn, l.opts) /\ HasStep(insn, l.opts)
  <2> HIDE DEF insn, s
  <2> QED BY <1>4, <1>5 DEF HasOpts, HasStep
<1> DEFINE s2 == Stepped(o)
           back == [s2 EXCEPT !.idle = TRUE, !.strb_ldac = ldc]
<1>7. /\ OptsAccepted(o) /\ SameFields(s, s2) /\ StepOf(s2) - StepOf(s) \in Slack(Range(l.opts.vplus))
      /\ ("ldc" \in o.flags <=> insn.strb_ldac) /\ s2 \in DcInsn /\ s2.spi_din = 0
  <2> HIDE DEF insn
  <2>1. /\ OptsAccepted(o) /\ SameFields(s, s2) /\ StepOf(s2) - StepOf(s) \in Slack(Range(l.opts.vplus))
        /\ ("ldc" \in o.flags <=> insn.strb_ldac) /\ o.vplus \in Seq(Int)
    BY <1>1, <1>6, OptsComeBack
  <2> HIDE DEF o
  <2> QED BY <2>1, SteppedType, OptFields
<1>8. ("ldc" \in o.flags) = ldc
  <2> HIDE DEF o, insn
  <2> QED BY <1>4, <1>7, SameFlag
<1>9. FormatInsn(insn) = again
  <2> HIDE DEF insn, s, o, ldc
  <2> QED BY <1>4 DEF FormatInsn, FormatIdle, o
<1>10. again.op = "nop" /\ again.opts = o
  <2> HIDE DEF o
  <2> QED OBVIOUS
<1> HIDE DEF again
<1>11. Accepted(again)
  <2> HIDE DEF o
  <2> QED BY <1>7, <1>10 DEF Accepted
<1>12. Assemble(again) = back
  <2> HIDE DEF o, ldc
  <2> QED BY <1>8, <1>10, Zenon DEF Assemble, ParseNop
<1>13. insn \in DcInsn
  BY AssembleType, LineTypes
<1> HIDE DEF insn, s, s2, ldc, o
<1>14. /\ back \in DcInsn /\ back.spi_din = s2.spi_din /\ back.strb_ldac = ldc
       /\ back.hold_cycles = s2.hold_cycles /\ back.iters = s2.iters /\ back.idle = TRUE
       /\ back.arm = s2.arm /\ back.sticky_arm = s2.sticky_arm
       /\ back.marker = s2.marker /\ back.modify = s2.modify /\ back.delta = s2.delta
  BY <1>4, <1>7, <1>13 DEF DcInsn
<1> HIDE DEF back
<1>15. SameFields(insn, back) /\ back.spi_din = insn.spi_din
  BY <1>4, <1>5, <1>7, <1>14 DEF SameFields
<1>16. StepOf(back) - StepOf(insn) \in Slack(Range(l.opts.vplus))
  BY <1>4, <1>7, <1>14 DEF StepOf
<1>17. SameButVolts(insn, back) /\ CodeOf(back) - CodeOf(insn) \in Slack({})
  BY <1>13, <1>14, <1>15, WordSame
<1> QED BY <1>9, <1>11, <1>12, <1>16, <1>17 DEF Returns, insn

\* A sweep comes back with the number of levels and the hold, with the first code of its
\* voltage or one within the rounding, and with a step that the same rounding of both codes
\* explains; of voltages that can be printed, with a step that is off by one code at most, as
\* no code is closer to the last one than that of the second voltage, but for the rounding.
\* It is rejected only if its step was near the largest (parse_swp(), format_insn()).
LEMMA SwpComesBack ==
    ASSUME NEW l \in SwpLine, Accepted(l)
    PROVE  LET insn  == Assemble(l)
               again == FormatInsn(insn)
           IN  IF Accepted(again) THEN SweepNear(l, insn, Assemble(again)) ELSE NearlyTooSteep(l, insn)
<1> DEFINE insn == Assemble(l)
           k1 == VoltToSigned(l.v1)
           k2 == VoltToSigned(l.v2)
           steps == l.n - 1
           dv == PulledBack(k1, DeltaTo(k1, k2, steps), steps)
           last == k1 + dv * steps
           h == TimeToCycles(ParseTime(l.t))
           o == OptsStr(insn, FALSE, TRUE)
           s == Common(l.opts)
           din == DacRegMap.dr * DacMod + VoltToCode(l.v1)
           again == [op |-> "swp", v1 |-> CodeToVolt(k1), v2 |-> CodeToVolt(last), n |-> l.n,
                     t |-> FormatTime(h * NsPerCycle), opts |-> o]
<1>1. /\ l.op = "swp" /\ l.v1 \in -VMax .. VMax /\ l.v2 \in -VMax .. VMax /\ l.n \in Nat
      /\ steps \in Nat \ {0} /\ l.n - 1 = steps /\ l.n = steps + 1
      /\ DeltaTo(k1, k2, steps) \in -DeltaMax .. DeltaMax
      /\ l.t \in LineTime /\ HoldAccepted(l.t) /\ l.opts \in LineOpts
  <2>1. /\ l.op = "swp" /\ l.v1 \in Int /\ l.v2 \in Int /\ l.n \in Nat /\ l.t \in LineTime /\ l.opts \in LineOpts
    BY DEF SwpLine
  <2>2. SwpAccepted(l)
    BY <2>1 DEF Accepted
  <2>3. InRange(l.v1) /\ InRange(l.v2) /\ l.n \in 2 .. IterMax + 1 /\ HoldAccepted(l.t)
    BY <2>2 DEF SwpAccepted, SwpInRange
  <2>4. DeltaTo(k1, k2, steps) \in -DeltaMax .. DeltaMax
    BY <2>2 DEF SwpAccepted, SwpDelta
  <2>5. l.v1 \in -VMax .. VMax /\ l.v2 \in -VMax .. VMax
    BY <2>1, <2>3, Spans DEF InRange
  <2>6. steps \in Nat \ {0} /\ l.n = steps + 1
    BY <2>1, <2>3, DecodeAssumption
  <2> QED BY <2>1, <2>3, <2>4, <2>5, <2>6
<1>2. /\ k1 \in KMin .. KMax /\ k2 \in KMin .. KMax /\ k1 \in Int /\ k2 \in Int
  <2>1. l.v1 \in Int /\ l.v2 \in Int
    BY <1>1, Spans
  <2> QED BY <2>1, VoltToSignedType, Spans
<1>3. insn = [s EXCEPT !.iters = steps, !.delta = ToBits(dv), !.strb_ldac = TRUE, !.spi_din = din,
                       !.hold_cycles = h]
  BY <1>1 DEF Assemble, ParseSwp, SwpDelta
<1>4. s \in DcInsn
  BY <1>1, SteppedType, VPlusType
<1>5. /\ insn.spi_din = din /\ insn.strb_ldac = TRUE /\ insn.hold_cycles = h /\ insn.iters = steps
      /\ insn.delta = ToBits(dv) /\ insn.idle = s.idle /\ insn.arm = s.arm
      /\ insn.sticky_arm = s.sticky_arm /\ insn.marker = s.marker /\ insn.modify = s.modify
  <2> HIDE DEF insn, s, din, h, steps, dv
  <2> QED BY <1>3, <1>4 DEF DcInsn
<1>6. s.idle = FALSE /\ HasOpts(s, l.opts) /\ s.modify = FALSE
  BY <1>1, OptFields, VPlusType
<1>7. HasOpts(insn, l.opts)
  <2> HIDE DEF insn, s
  <2> QED BY <1>5, <1>6 DEF HasOpts
<1>8. OptsAccepted(o) /\ Common(o) = s
  <2> DEFINE plain == [flags |-> l.opts.flags, vplus |-> <<>>]
  <2>1. plain \in LineOpts
    <3>1. <<>> \in Seq(Int) /\ l.opts.flags \in SUBSET STRING
      BY <1>1 DEF LineOpts
    <3> QED BY <3>1, Zenon DEF LineOpts
  <2>2. plain.flags = l.opts.flags /\ plain.vplus = <<>>
    OBVIOUS
  <2>3. Common(plain) = s
    <3> HIDE DEF plain
    <3> QED BY <2>2 DEF Common
  <2>4. HasOpts(insn, plain)
    <3> HIDE DEF insn, plain
    <3> QED BY <1>7, <2>2 DEF HasOpts
  <2>5. HasStep(insn, plain)
    <3>1. insn.modify = FALSE
      <4> HIDE DEF insn, s
      <4> QED BY <1>5, <1>6
    <3> HIDE DEF insn, plain
    <3> QED BY <2>2, <3>1 DEF HasStep
  <2> HIDE DEF plain, insn
  <2>6. OptsAccepted(o) /\ Common(o) = Common(plain)
    BY <2>1, <2>4, <2>5, OptsComeBack
  <2> QED BY <2>3, <2>6
<1>9. /\ dv \in -DeltaMax .. DeltaMax /\ dv \in Int /\ last \in KMin .. KMax
      /\ k2 - last \in -(steps - 1) .. steps - 1
  <2> DEFINE d0 == DeltaTo(k1, k2, steps)
  <2>1. CASE k2 >= k1
    <3> HIDE DEF k1, k2, steps
    <3>1. /\ dv \in 0 .. DeltaMax /\ last \in KMin .. KMax
          /\ last >= k2 \/ k1 + (dv + 1) * steps > KMax
          /\ last - k2 < steps
      BY <1>1, <1>2, <2>1, PulledBackUp
    <3>2. k2 - last < steps
      <4> HIDE DEF dv
      <4>1. (dv + 1) * steps = dv * steps + steps /\ dv * steps \in Int
        BY <1>1, <3>1, Ranges
      <4> QED BY <1>1, <1>2, <3>1, <4>1, Spans
    <3> HIDE DEF dv, last
    <3> QED BY <1>1, <1>2, <3>1, <3>2, Ranges
  <2>2. CASE k2 < k1
    <3> HIDE DEF k1, k2, steps
    <3>1. /\ dv \in -DeltaMax .. 0 /\ last \in KMin .. KMax
          /\ last <= k2 \/ k1 + (dv - 1) * steps < KMin
          /\ k2 - last < steps
      BY <1>1, <1>2, <2>2, PulledBackDown
    <3>2. last - k2 < steps
      <4> HIDE DEF dv
      <4>1. (dv - 1) * steps = dv * steps - steps /\ dv * steps \in Int
        BY <1>1, <3>1, Ranges
      <4> QED BY <1>1, <1>2, <3>1, <4>1, Spans
    <3> HIDE DEF dv, last
    <3> QED BY <1>1, <1>2, <3>1, <3>2, Ranges
  <2> QED BY <1>2, <2>1, <2>2
<1>10. /\ din \div (8 * DacMod) = 0 /\ (din \div DacMod) % 8 = DacRegMap.dr /\ din % DacMod = k1 % DacMod
       /\ din \div DacMod = 1
  <2>1. l.v1 \in Int
    BY <1>1, Spans
  <2> QED BY <2>1, DacWord
<1>11. CodeToVolt(k1 % DacMod) = CodeToVolt(k1) /\ CodeSigned(k1 % DacMod) = k1
  <2> HIDE DEF k1
  <2> QED BY <1>2, CodeItself, VoltClose
<1>12. DeltaSigned(ToBits(dv)) = dv
  <2>1. dv \in -DeltaMax - 1 .. DeltaMax
    <3> HIDE DEF dv
    <3> QED BY <1>9, Ranges
  <2> QED BY <2>1, DeltaComesBack
<1>13. FormatInsn(insn) = again
  <2>1. /\ insn.spi_din \div (8 * DacMod) # 1 /\ (insn.spi_din \div DacMod) % 8 = DacRegMap.dr
        /\ insn.spi_din % DacMod = k1 % DacMod
    <3> HIDE DEF insn, din, k1
    <3> QED BY <1>5, <1>10
  <2>2. insn.iters # 0 /\ ~insn.idle /\ insn.iters = steps /\ insn.strb_ldac /\ insn.hold_cycles = h
    <3> HIDE DEF insn, steps, s, h
    <3> QED BY <1>1, <1>5, <1>6
  <2>3. insn.delta = ToBits(dv)
    BY <1>5
  <2>4. FormatInsn(insn) =
          [op |-> "swp", v1 |-> CodeToVolt(insn.spi_din % DacMod),
           v2 |-> CodeToVolt((CodeSigned(insn.spi_din % DacMod) + DeltaSigned(insn.delta) * insn.iters) % DacMod),
           n |-> insn.iters + 1, t |-> FormatTime(insn.hold_cycles * NsPerCycle),
           opts |-> OptsStr(insn, FALSE, TRUE)]
    <3> HIDE DEF insn
    <3> QED BY <2>1, <2>2, Zenon DEF FormatInsn
  <2>5. CodeToVolt(last % DacMod) = CodeToVolt(last)
    BY <1>9, VoltClose
  <2>6. /\ CodeToVolt(insn.spi_din % DacMod) = CodeToVolt(k1)
        /\ (CodeSigned(insn.spi_din % DacMod) + DeltaSigned(insn.delta) * insn.iters) % DacMod = last % DacMod
        /\ insn.iters + 1 = l.n
    <3>1. last = k1 + dv * steps
      OBVIOUS
    <3> HIDE DEF insn, k1, dv, steps, last
    <3> QED BY <1>1, <1>11, <1>12, <2>1, <2>2, <2>3, <3>1
  <2> HIDE DEF insn, k1, dv, steps, last, h
  <2> QED BY <2>2, <2>4, <2>5, <2>6, Zenon
<1>14. /\ TimeToCycles(ParseTime(FormatTime(h * NsPerCycle))) = h
       /\ HoldAccepted(FormatTime(h * NsPerCycle))
  BY <1>1, HoldReprinted
<1>15. /\ again.op = "swp" /\ again.v1 = CodeToVolt(k1) /\ again.v2 = CodeToVolt(last) /\ again.n = l.n
       /\ again.t = FormatTime(h * NsPerCycle) /\ again.opts = o
  <2> HIDE DEF o, k1, last, h
  <2> QED OBVIOUS
<1> HIDE DEF again
<1> DEFINE j1 == VoltToSigned(CodeToVolt(k1))
           e2 == VoltToSigned(CodeToVolt(last))
           d == DeltaTo(j1, e2, steps)
           dw == PulledBack(j1, d, steps)
           R == Rounding
           din2 == DacRegMap.dr * DacMod + VoltToCode(CodeToVolt(k1))
           back == [s EXCEPT !.iters = steps, !.delta = ToBits(dw), !.strb_ldac = TRUE,
                             !.spi_din = din2, !.hold_cycles = h]
<1>16. /\ j1 \in KMin .. KMax /\ e2 \in KMin .. KMax
       /\ CodeToVolt(k1) \in -VMax .. VMax /\ CodeToVolt(last) \in -VMax .. VMax
       /\ CodeToVolt(k1) \in Int /\ CodeToVolt(last) \in Int
  <2>1. /\ CodeToVolt(k1) \in -VMax .. VMax /\ CodeToVolt(last) \in -VMax .. VMax
        /\ CodeToVolt(k1) \in Int /\ CodeToVolt(last) \in Int
    <3> HIDE DEF k1, last
    <3> QED BY <1>2, <1>9, VoltClose, Spans
  <2> HIDE DEF k1, last
  <2> QED BY <2>1, VoltToSignedType
<1>17. /\ j1 - k1 \in Slack({l.v1}) /\ R \in Nat
       /\ j1 - k1 \in -R .. R /\ e2 - last \in -R .. R
  <2>1. j1 - k1 \in Slack({l.v1})
    BY <1>1, CodeReturns
  <2> HIDE DEF k1, last
  <2>2. j1 - k1 \in -R .. R /\ e2 - last \in -R .. R
    BY <1>2, <1>9, CodeNear
  <2> QED BY <2>1, <2>2, RoundingBounds
<1>18. Printable(l.v1) /\ Printable(l.v2) => d \in dv - 1 .. dv + 1 /\ dw \in {d, dv}
  <2> SUFFICES ASSUME Printable(l.v1), Printable(l.v2) PROVE d \in dv - 1 .. dv + 1 /\ dw \in {d, dv}
    OBVIOUS
  <2>1. j1 = k1
    BY <1>1, CodeComesBack
  <2>2. e2 - last \in -steps .. steps
    <3> DEFINE n == steps - 1
    <3>1. n \in Nat /\ -n - 1 = -steps /\ n + 1 = steps
      BY <1>1
    <3>2. VoltToSigned(l.v2) - last \in -n .. n
      BY <1>9
    <3> HIDE DEF n, steps, last
    <3>3. VoltToSigned(CodeToVolt(last)) - last \in -n - 1 .. n + 1
      BY <1>1, <1>9, <3>1, <3>2, NearestVolt
    <3> QED BY <3>1, <3>3
  <2> HIDE DEF e2, j1, k1, dv, steps
  <2> QED BY <1>1, <1>2, <1>9, <1>16, <2>1, <2>2, StepNear
<1>19. VoltToSigned(again.v1) = j1 /\ VoltToSigned(again.v2) = e2 /\ SwpDelta(again) = d
  <2>1. again.n - 1 = steps
    BY <1>15
  <2> HIDE DEF k1, last, steps
  <2> QED BY <1>15, <2>1 DEF SwpDelta
<1>20. Accepted(again) <=> d \in -DeltaMax .. DeltaMax
  <2>1. HoldAccepted(again.t)
    <3> HIDE DEF h
    <3> QED BY <1>14, <1>15
  <2>2. SwpInRange(again)
    <3>1. l.n \in 2 .. IterMax + 1
      BY <1>1 DEF Accepted, SwpAccepted, SwpInRange
    <3> HIDE DEF k1, last
    <3> QED BY <1>15, <1>16, <3>1, Spans DEF SwpInRange, InRange
  <2>3. OptsAccepted(again.opts)
    <3> HIDE DEF o
    <3> QED BY <1>8, <1>15
  <2>4. again.op = "swp"
    BY <1>15
  <2> HIDE DEF d
  <2>5. Accepted(again) <=> SwpAccepted(again)
    BY <2>3, <2>4 DEF Accepted
  <2> QED BY <1>19, <2>1, <2>2, <2>5 DEF SwpAccepted
<1>21. StepOf(insn) = dv /\ insn.iters = steps /\ CodeOf(insn) = k1 /\ insn \in DcInsn
  <2>1. insn \in DcInsn
    BY AssembleType, LineTypes
  <2>2. insn.delta = ToBits(dv) /\ insn.iters = steps /\ insn.spi_din = din
    BY <1>5
  <2> HIDE DEF insn, dv, steps, k1, din
  <2> QED BY <1>10, <1>11, <1>12, <2>1, <2>2 DEF StepOf, CodeOf
<1>22. CASE ~Accepted(again)
  <2>1. d \notin -DeltaMax .. DeltaMax
    BY <1>20, <1>22
  <2>2. e2 - (k1 + dv * steps) \in -R .. R
    BY <1>17
  <2> HIDE DEF k1, j1, e2, dv, steps, R
  <2>3. \E largest \in {-DeltaMax, DeltaMax} :
            /\ LET most == 2 * R - 1
               IN  (dv - largest) * steps \in -most .. most
            /\ d \in dv - 1 .. dv + 1 => dv = largest
    <3>1. /\ k1 \in KMin .. KMax /\ j1 \in KMin .. KMax /\ e2 \in KMin .. KMax
          /\ dv \in -DeltaMax .. DeltaMax /\ steps \in Nat \ {0} /\ R \in Nat
          /\ j1 - k1 \in -R .. R /\ e2 - (k1 + dv * steps) \in -R .. R
          /\ DeltaTo(j1, e2, steps) \notin -DeltaMax .. DeltaMax
      BY <1>1, <1>2, <1>9, <1>16, <1>17, <2>1, <2>2
    <3> QED BY <3>1, TooSteep
  <2> HIDE DEF d, dw, insn
  <2>4. NearlyTooSteep(l, insn)
    BY <1>18, <1>21, <2>3 DEF NearlyTooSteep, R
  <2> QED BY <1>13, <1>22, <2>4 DEF insn
<1>23. CASE Accepted(again)
  <2>1. d \in -DeltaMax .. DeltaMax
    BY <1>20, <1>23
  <2>2. dw \in -DeltaMax .. DeltaMax /\ dw \in Int
    <3> HIDE DEF j1, e2, steps
    <3>1. j1 \in Int /\ e2 \in Int /\ DeltaMax \in Nat
      BY <1>16, Spans, Ranges
    <3>2. CASE e2 >= j1
      <4>1. dw \in 0 .. DeltaMax
        BY <1>1, <1>16, <2>1, <3>2, PulledBackUp
      <4> HIDE DEF dw
      <4> QED BY <3>1, <4>1
    <3>3. CASE e2 < j1
      <4>1. dw \in -DeltaMax .. 0
        BY <1>1, <1>16, <2>1, <3>3, PulledBackDown
      <4> HIDE DEF dw
      <4> QED BY <3>1, <4>1
    <3> QED BY <3>1, <3>2, <3>3
  <2>3. DeltaSigned(ToBits(dw)) = dw /\ ToBits(dw) \in 0 .. DeltaMod - 1
    <3> HIDE DEF dw
    <3>1. dw \in -DeltaMax - 1 .. DeltaMax
      BY <2>2, Ranges
    <3> QED BY <3>1, DeltaComesBack
  <2>4. Assemble(again) = back
    <3>1. again.n - 1 = steps
      BY <1>15
    <3>2. TimeToCycles(ParseTime(again.t)) = h
      <4> HIDE DEF h
      <4> QED BY <1>14, <1>15
    <3>3. PulledBack(VoltToSigned(again.v1), SwpDelta(again), again.n - 1) = dw
      <4> HIDE DEF j1, d, steps
      <4> QED BY <1>19, <3>1
    <3>4. Common(again.opts) = s
      <4> HIDE DEF s, o
      <4> QED BY <1>8, <1>15
    <3>5. Assemble(again) = ParseSwp(again)
      BY <1>15 DEF Assemble
    <3>6. VoltToCode(again.v1) = VoltToCode(CodeToVolt(k1))
      <4> HIDE DEF k1
      <4> QED BY <1>15
    <3> HIDE DEF s, steps, dw, h, k1
    <3> QED BY <3>1, <3>2, <3>3, <3>4, <3>5, <3>6, Zenon DEF ParseSwp, din2
  <2>5. din2 \div DacMod = 1 /\ CodeSigned(din2 % DacMod) = j1 /\ din2 \in 0 .. SpiMod - 1
    <3> HIDE DEF k1
    <3> QED BY <1>16, DacWord
  <2>6. h \in 0 .. MaxHold
    BY <1>1, HoldType
  <2>7. steps \in 0 .. IterMax
    BY <1>21 DEF DcInsn
  <2> HIDE DEF s, steps, dw, dv, din, din2, h, insn, k1, j1, e2, d, last
  <2>8. /\ back \in DcInsn /\ back.spi_din = din2 /\ back.strb_ldac = TRUE /\ back.hold_cycles = h
        /\ back.iters = steps /\ back.idle = s.idle /\ back.arm = s.arm /\ back.sticky_arm = s.sticky_arm
        /\ back.marker = s.marker /\ back.modify = s.modify /\ back.delta = ToBits(dw)
    BY <1>4, <2>3, <2>5, <2>6, <2>7 DEF DcInsn
  <2> HIDE DEF back
  <2>9. SameButVolts(insn, back)
    <3>1. SameFields(insn, back)
      BY <1>5, <2>8 DEF SameFields
    <3>2. back.spi_din \div DacMod = insn.spi_din \div DacMod
      BY <1>5, <1>10, <2>5, <2>8
    <3> QED BY <1>21, <2>8, <3>1, <3>2, FieldsSame
  <2>10. CodeOf(back) = j1 /\ StepOf(back) = dw
    BY <2>3, <2>5, <2>8 DEF CodeOf, StepOf
  <2>11. LET most == steps + 2 * R - 1
         IN  (dw - dv) * steps \in -most .. most
    <3>1. e2 - (k1 + dv * steps) \in -R .. R
      BY <1>17 DEF last
    <3>2. k1 + dv * steps \in KMin .. KMax
      BY <1>9 DEF last
    <3> HIDE DEF R
    <3> QED BY <1>1, <1>2, <1>9, <1>16, <1>17, <3>1, <3>2, StepRounded DEF dw, d
  <2>12. Printable(l.v1) /\ Printable(l.v2) => dw - dv \in -1 .. 1
    BY <1>9, <1>18, <2>2
  <2>13. SweepNear(l, insn, back)
    BY <1>17, <1>21, <2>9, <2>10, <2>11, <2>12 DEF SweepNear, R
  <2>14. FormatInsn(insn) = again
    BY <1>13
  <2> QED BY <1>23, <2>4, <2>13, <2>14 DEF insn
<1> QED BY <1>22, <1>23

\* The line that is printed of an instruction of any file assembles again, and to the same but
\* for the rounding of voltages to the last digit printed, whatever the resolutions of the DAC
\* and of what is written and printed, the widths of the fields and the range of the voltages;
\* the line of a sweep is rejected only if its step is the largest, or so near to it that the
\* rounding exceeds it (format_insn(), INSN_PARSERS).
THEOREM PrintedAlwaysReassembles == Spec => []PrintedReassembles
<1>1. LineOK => PrintedReassembles
  <2> SUFFICES ASSUME LineOK, ParsingInsn({"swp", "lvl", "set", "get", "nop"}), Accepted(line[1].insn)
               PROVE  LET l     == line[1].insn
                          insn  == Assemble(l)
                          again == FormatInsn(insn)
                          back  == Assemble(again)
                      IN  CASE l.op = "swp" ->
                                   IF Accepted(again) THEN SweepNear(l, insn, back) ELSE NearlyTooSteep(l, insn)
                            [] l.op = "set" /\ l.reg = "dr" /\ "ldc" \in l.opts.flags -> TRUE
                            [] OTHER ->
                                   /\ Accepted(again) /\ SameButVolts(insn, back)
                                   /\ CodeOf(back) - CodeOf(insn) \in Slack(IF l.op = "lvl" THEN {l.v} ELSE {})
                                   /\ StepOf(back) - StepOf(insn) \in Slack(Range(l.opts.vplus))
    BY DEF PrintedReassembles
  <2> DEFINE l == line[1].insn
  <2>1. line # <<>> /\ line[1].kind = "insn" /\ l.op \in {"swp", "lvl", "set", "get", "nop"}
    BY DEF ParsingInsn, Is
  <2>2. l \in InsnLine
    BY <2>1, InsnOfLine
  <2> HIDE DEF l
  <2>3. \/ l \in SwpLine /\ l.op = "swp"
        \/ l \in LvlLine /\ l.op = "lvl"
        \/ l \in SetLine /\ l.op = "set"
        \/ l \in GetLine /\ l.op = "get"
        \/ l \in NopLine /\ l.op = "nop"
    BY <2>1, <2>2 DEF InsnLine, SwpLine, LvlLine, SetLine, GetLine, NopLine, FulLine
  <2>4. Accepted(l)
    BY DEF l
  <2> DEFINE insn == Assemble(l)
             again == FormatInsn(insn)
             back == Assemble(again)
             Near == IF Accepted(again) THEN SweepNear(l, insn, back) ELSE NearlyTooSteep(l, insn)
             volts == IF l.op = "lvl" THEN {l.v} ELSE {}
             Same == /\ Accepted(again) /\ SameButVolts(insn, back)
                     /\ CodeOf(back) - CodeOf(insn) \in Slack(volts)
                     /\ StepOf(back) - StepOf(insn) \in Slack(Range(l.opts.vplus))
  <2>5. l.op = "swp" => Near
    BY <2>3, <2>4, SwpComesBack
  <2>6. l.op # "swp" /\ ~(l.op = "set" /\ l.reg = "dr" /\ "ldc" \in l.opts.flags) => Same
    <3> SUFFICES ASSUME l.op # "swp", ~(l.op = "set" /\ l.reg = "dr" /\ "ldc" \in l.opts.flags) PROVE Same
      OBVIOUS
    <3>1. Same <=> Returns(l, volts)
      BY Zenon DEF Returns
    <3>2. volts = IF l.op = "lvl" THEN {l.v} ELSE {}
      OBVIOUS
    <3> HIDE DEF Same, volts
    <3>3. CASE l \in LvlLine /\ l.op = "lvl"
      BY <2>4, <3>1, <3>2, <3>3, LvlComesBack
    <3>4. CASE l \in SetLine /\ l.op = "set"
      BY <2>4, <3>1, <3>2, <3>4, SetComesBack
    <3>5. CASE l \in GetLine /\ l.op = "get"
      BY <2>4, <3>1, <3>2, <3>5, GetComesBack
    <3>6. CASE l \in NopLine /\ l.op = "nop"
      BY <2>4, <3>1, <3>2, <3>6, NopComesBack
    <3> QED BY <2>3, <3>3, <3>4, <3>5, <3>6
  <2> HIDE DEF Near, Same
  <2>7. (CASE l.op = "swp" -> Near
           [] l.op = "set" /\ l.reg = "dr" /\ "ldc" \in l.opts.flags -> TRUE
           [] OTHER -> Same)
    BY <2>5, <2>6
  <2> QED BY <2>7, Zenon DEF Near, Same, volts, insn, again, back, l
<1> QED BY <1>1, LineAlwaysOK, PTL

-----------------------------------------------------------------------------
(* Sequences, and sequences of them that are joined. *)

\* A set that holds 0 and the successor of every natural it holds has them all.
LEMMA SetInduction ==
    ASSUME NEW S, 0 \in S, \A k \in Nat : k \in S => k + 1 \in S
    PROVE  \A n \in Nat : n \in S
  <1> SUFFICES ASSUME NEW n \in Nat, n \notin S PROVE FALSE
    OBVIOUS
  <1> DEFINE R == StrictSubsetOrdering(Nat)
             F == FiniteSubsetsOf(Nat)
             T == {0 .. k : k \in {m \in Nat : m \notin S}}
  <1>1. IsWellFoundedOn(R, F)
    BY FS_StrictSubsetOrderingWellFounded
  <1>2. T \subseteq F
    <2>1. \A k \in Nat : IsFiniteSet(0 .. k)
      BY FS_Interval
    <2> QED BY <2>1 DEF FiniteSubsetsOf
  <1>3. T # {}
    OBVIOUS
  <1>4. PICK x \in T : \A y \in T : ~(<<y, x>> \in R)
    <2> HIDE DEF R, F, T
    <2> QED BY <1>1, <1>2, <1>3, WFMin
  <1>5. PICK k \in Nat : k \notin S /\ x = 0 .. k
    BY <1>4
  <1>6. k # 0 /\ k - 1 \in Nat /\ k - 1 \notin S
    BY <1>5
  <1>7. (0 .. k - 1) \in T
    BY <1>6
  <1>8. (0 .. k - 1) \subseteq (0 .. k) /\ (0 .. k - 1) # (0 .. k)
    <2>1. k \in 0 .. k /\ k \notin 0 .. k - 1
      OBVIOUS
    <2> QED BY <2>1
  <1>9. <<0 .. k - 1, 0 .. k>> \in R
    BY <1>8, SMTT(30) DEF StrictSubsetOrdering
  <1> QED BY <1>4, <1>5, <1>7, <1>9

\* The empty sequence adds nothing.
LEMMA EmptyFirst ==
    ASSUME NEW A, NEW x \in Seq(A)
    PROVE  <<>> \o x = x /\ x \o <<>> = x
OBVIOUS

\* f joins the first i sequences of s, for every i up to n.
JoinsUpto(A, f, s, n) ==
    /\ f \in [0 .. n -> Seq(A)]
    /\ f[0] = <<>>
    /\ \A i \in 1 .. n : f[i] = f[i - 1] \o s[i]

\* The recursion by which FlattenSeq joins the sequences of s.
Joining(g, s) == [i \in 1 .. Len(s) |-> IF i = 1 THEN s[i] ELSE g[i - 1] \o s[i]]

\* The sequences of s can be joined.
LEMMA JoinExists ==
    ASSUME NEW A, NEW s \in Seq(Seq(A))
    PROVE  \E f : JoinsUpto(A, f, s, Len(s))
  <1> DEFINE S == {n \in Nat : n <= Len(s) => \E f : JoinsUpto(A, f, s, n)}
  <1>1. 0 \in S
    <2>1. JoinsUpto(A, [i \in 0 .. 0 |-> <<>>], s, 0)
      BY DEF JoinsUpto
    <2> QED BY <2>1
  <1>2. ASSUME NEW k \in Nat, k \in S PROVE k + 1 \in S
    <2>1. ASSUME NEW f, JoinsUpto(A, f, s, k), k + 1 <= Len(s)
          PROVE  \E g : JoinsUpto(A, g, s, k + 1)
      <3> DEFINE x == s[k + 1]
                 g == [i \in 0 .. k + 1 |-> IF i <= k THEN f[i] ELSE f[k] \o x]
      <3>1. x \in Seq(A) /\ f[k] \in Seq(A)
        BY <2>1 DEF JoinsUpto
      <3>2. f[k] \o x \in Seq(A)
        BY <3>1
      <3>3. g \in [0 .. k + 1 -> Seq(A)]
        BY <2>1, <3>2 DEF JoinsUpto
      <3>4. ASSUME NEW i \in 1 .. k + 1 PROVE g[i] = g[i - 1] \o s[i]
        <4>1. CASE i = k + 1
          <5>1. i \in 0 .. k + 1 /\ ~(i <= k) /\ i - 1 = k /\ k \in 0 .. k + 1 /\ k <= k
            BY <4>1
          <5> HIDE DEF x
          <5>2. g[i] = f[k] \o x /\ g[i - 1] = f[k]
            BY <5>1
          <5> QED BY <4>1, <5>2 DEF x
        <4>2. CASE i # k + 1
          <5>1. i \in 1 .. k /\ i - 1 \in 0 .. k
            BY <4>2
          <5>2. g[i] = f[i] /\ g[i - 1] = f[i - 1]
            BY <5>1
          <5> QED BY <2>1, <5>1, <5>2 DEF JoinsUpto
        <4> QED BY <4>1, <4>2
      <3>5. g[0] = <<>>
        BY <2>1 DEF JoinsUpto
      <3> HIDE DEF g
      <3>6. JoinsUpto(A, g, s, k + 1)
        BY <3>3, <3>4, <3>5 DEF JoinsUpto
      <3> QED BY <3>6
    <2>2. k + 1 <= Len(s) => k <= Len(s)
      OBVIOUS
    <2>3. k + 1 \in Nat
      OBVIOUS
    <2> QED BY <1>2, <2>1, <2>2, <2>3, Zenon
  <1> HIDE DEF S
  <1>3. Len(s) \in S
    BY <1>1, <1>2, SetInduction
  <1>4. Len(s) <= Len(s)
    OBVIOUS
  <1> QED BY <1>3, <1>4 DEF S

\* However they are joined, FlattenSeq gives the same.
LEMMA JoinIsFlatten ==
    ASSUME NEW A, NEW s \in Seq(Seq(A)), NEW f, JoinsUpto(A, f, s, Len(s))
    PROVE  FlattenSeq(s) = f[Len(s)]
  <1>1. CASE Len(s) = 0
    <2>1. s = <<>>
      BY <1>1
    <2> QED BY <1>1, <2>1 DEF FlattenSeq, JoinsUpto
  <1>2. CASE Len(s) # 0
    <2> DEFINE n == Len(s)
               h == [i \in 1 .. n |-> f[i]]
               c == CHOOSE g : g = Joining(g, s)
    <2>1. n \in Nat \ {0}
      BY <1>2
    <2>2. h = Joining(h, s)
      <3>1. ASSUME NEW i \in 1 .. n
            PROVE  h[i] = IF i = 1 THEN s[i] ELSE h[i - 1] \o s[i]
        <4>1. f[i] = f[i - 1] \o s[i] /\ s[i] \in Seq(A) /\ f[0] = <<>>
          BY DEF JoinsUpto
        <4>2. CASE i = 1
          <5>1. i - 1 = 0 /\ i \in 1 .. n
            BY <4>2
          <5>2. f[i] = s[i]
            BY <4>1, <5>1, EmptyFirst
          <5> QED BY <4>2, <5>2
        <4>3. CASE i # 1
          <5>1. i - 1 \in 1 .. n
            BY <4>3
          <5> QED BY <4>1, <4>3, <5>1
        <4> QED BY <4>2, <4>3
      <3> QED BY <3>1 DEF Joining
    <2>3. c = Joining(c, s)
      <3> HIDE DEF h
      <3> QED BY <2>2, Zenon
    <2>4. FlattenSeq(s) = c[n]
      BY <1>2 DEF FlattenSeq, Joining
    <2> DEFINE S == {k \in Nat : k \in 1 .. n => c[k] = f[k]}
    <2>5. 0 \in S
      OBVIOUS
    <2> HIDE DEF c, h
    <2>6. ASSUME NEW k \in Nat, k \in S, k + 1 \in 1 .. n
          PROVE  c[k + 1] = f[k + 1]
      <3>1. c[k + 1] = IF k + 1 = 1 THEN s[k + 1] ELSE c[(k + 1) - 1] \o s[k + 1]
        <4>1. c[k + 1] = Joining(c, s)[k + 1]
          BY <2>3
        <4> QED BY <2>6, <4>1 DEF Joining
      <3>2. s[k + 1] \in Seq(A)
        BY <2>6
      <3>3. f[k + 1] = f[(k + 1) - 1] \o s[k + 1] /\ f[0] = <<>>
        BY <2>6, Zenon DEF JoinsUpto
      <3>4. CASE k = 0
        <4>1. (k + 1) - 1 = 0 /\ k + 1 = 1
          BY <3>4
        <4>2. f[k + 1] = s[k + 1]
          BY <3>2, <3>3, <4>1, EmptyFirst
        <4> QED BY <3>1, <4>1, <4>2
      <3>5. CASE k # 0
        <4>1. k \in 1 .. n /\ (k + 1) - 1 = k /\ k + 1 # 1
          BY <2>6, <3>5
        <4> QED BY <2>6, <3>1, <3>3, <4>1
      <3> QED BY <3>4, <3>5
    <2>7. \A k \in Nat : k \in S => k + 1 \in S
      BY <2>6
    <2> HIDE DEF S
    <2>8. n \in S
      BY <2>1, <2>5, <2>7, SetInduction
    <2> QED BY <2>1, <2>4, <2>8 DEF S
  <1> QED BY <1>1, <1>2

\* The first sequence comes before the others.
LEMMA FlattenFirst ==
    ASSUME NEW A, NEW s \in Seq(Seq(A)), s # <<>>
    PROVE  FlattenSeq(s) = s[1] \o FlattenSeq(Tail(s))
  <1> DEFINE n == Len(s)
             t == Tail(s)
             x == s[1]
  <1>1. /\ t \in Seq(Seq(A)) /\ Len(t) = n - 1 /\ n \in Nat \ {0} /\ x \in Seq(A)
        /\ \A i \in 1 .. n - 1 : t[i] = s[i + 1]
    BY HeadTailProperties, EmptySeq
  <1>2. PICK f : JoinsUpto(A, f, t, n - 1)
    BY <1>1, JoinExists
  <1>3. FlattenSeq(t) = f[n - 1]
    BY <1>1, <1>2, JoinIsFlatten
  <1> DEFINE g == [i \in 0 .. n |-> IF i = 0 THEN <<>> ELSE x \o f[i - 1]]
  <1> HIDE DEF n, t, x
  <1>4. \A i \in 0 .. n - 1 : f[i] \in Seq(A)
    BY <1>2 DEF JoinsUpto
  <1>5. g \in [0 .. n -> Seq(A)] /\ g[0] = <<>>
    <2>1. \A i \in 1 .. n : x \o f[i - 1] \in Seq(A)
      <3> TAKE i \in 1 .. n
      <3>1. f[i - 1] \in Seq(A)
        BY <1>1, <1>4
      <3> QED BY <1>1, <3>1
    <2>2. <<>> \in Seq(A)
      OBVIOUS
    <2> QED BY <1>1, <2>1, <2>2
  <1>6. ASSUME NEW i \in 1 .. n PROVE g[i] = g[i - 1] \o s[i]
    <2>1. g[i] = x \o f[i - 1]
      BY <1>1, SMTT(30)
    <2>2. CASE i = 1
      <3>1. i - 1 = 0
        BY <2>2
      <3>2. f[i - 1] = <<>> /\ g[i - 1] = <<>>
        BY <1>2, <1>5, <3>1 DEF JoinsUpto
      <3>3. x \o <<>> = x /\ <<>> \o x = x
        BY <1>1, EmptyFirst
      <3>4. s[i] = x
        BY <2>2 DEF x
      <3> QED BY <2>1, <3>2, <3>3, <3>4, Zenon
    <2>3. CASE i # 1
      <3> DEFINE j == i - 1
      <3>1. j \in 1 .. n - 1 /\ j - 1 \in 0 .. n - 1 /\ j \in 0 .. n /\ j # 0 /\ j + 1 = i
        BY <1>1, <2>3
      <3> HIDE DEF j
      <3>2. f[j] = f[j - 1] \o t[j] /\ t[j] = s[i]
        BY <1>1, <1>2, <3>1 DEF JoinsUpto
      <3>3. g[j] = x \o f[j - 1]
        BY <3>1
      <3>4. f[j - 1] \in Seq(A) /\ t[j] \in Seq(A)
        BY <1>1, <1>4, <3>1
      <3>5. x \o (f[j - 1] \o t[j]) = (x \o f[j - 1]) \o t[j]
        <4>1. x \in Seq(A) /\ f[j - 1] \in Seq(A) /\ t[j] \in Seq(A)
          BY <1>1, <3>4
        <4> DEFINE p == f[j - 1]
                   q == t[j]
        <4>2. p \in Seq(A) /\ q \in Seq(A)
          BY <4>1
        <4> HIDE DEF p, q
        <4>3. (x \o p) \o q = x \o (p \o q)
          <5>1. x \in Seq(A) /\ p \in Seq(A) /\ q \in Seq(A)
            BY <4>1, <4>2
          <5> QED BY <5>1, ConcatAssociative, SMTT(30)
        <4> QED BY <4>3, Zenon DEF p, q
      <3>6. i - 1 = j
        BY DEF j
      <3> QED BY <2>1, <3>2, <3>3, <3>5, <3>6
    <2> QED BY <2>2, <2>3
  <1>7. g[n] = x \o f[n - 1]
    BY <1>1, SMTT(30)
  <1> HIDE DEF g
  <1>8. JoinsUpto(A, g, s, Len(s))
    BY <1>5, <1>6 DEF JoinsUpto, n
  <1> QED BY <1>3, <1>7, <1>8, JoinIsFlatten DEF n, t, x

-----------------------------------------------------------------------------
\* Nothing is left behind the last element, and everything behind none.
LEMMA FromEnds ==
    ASSUME NEW A, NEW s \in Seq(A)
    PROVE  From(s, 0) = s /\ From(s, Len(s)) = <<>>
<1>1. Len(s) \in Nat /\ SubSeq(s, 1, Len(s)) = s
  BY SubSeqProperties
<1>2. SubSeq(s, Len(s) + 1, Len(s)) = <<>>
  BY <1>1, SubSeqProperties
<1> QED BY <1>1, <1>2 DEF From

\* What is left is a sequence too, of what comes behind.
LEMMA FromType ==
    ASSUME NEW A, NEW s \in Seq(A), NEW k \in 0 .. Len(s)
    PROVE  /\ From(s, k) \in Seq(A) /\ Len(From(s, k)) = Len(s) - k
           /\ \A i \in 1 .. Len(s) - k : From(s, k)[i] = s[k + i]
<1>1. Len(s) \in Nat
  OBVIOUS
<1>2. /\ SubSeq(s, k + 1, Len(s)) \in Seq(A)
      /\ Len(SubSeq(s, k + 1, Len(s))) = IF k + 1 <= Len(s) THEN Len(s) - (k + 1) + 1 ELSE 0
      /\ \A i \in 1 .. Len(s) - (k + 1) + 1 : SubSeq(s, k + 1, Len(s))[i] = s[(k + 1) + i - 1]
  BY <1>1, SubSeqProperties
<1> HIDE DEF From
<1> QED BY <1>1, <1>2 DEF From

\* The next element comes first, and what is left behind it then.
LEMMA FromNext ==
    ASSUME NEW A, NEW s \in Seq(A), NEW k \in 0 .. Len(s) - 1
    PROVE  /\ From(s, k) # <<>> /\ From(s, k)[1] = s[k + 1]
           /\ Tail(From(s, k)) = From(s, k + 1)
<1>1. Len(s) \in Nat /\ k \in 0 .. Len(s) /\ k + 1 \in 0 .. Len(s)
  OBVIOUS
<1> DEFINE u == From(s, k)
           v == From(s, k + 1)
<1>2. /\ u \in Seq(A) /\ Len(u) = Len(s) - k
      /\ \A i \in 1 .. Len(s) - k : u[i] = s[k + i]
  BY <1>1, FromType
<1>3. /\ v \in Seq(A) /\ Len(v) = Len(s) - (k + 1)
      /\ \A i \in 1 .. Len(s) - (k + 1) : v[i] = s[k + 1 + i]
  BY <1>1, FromType
<1> HIDE DEF u, v
<1>4. u # <<>> /\ u[1] = s[k + 1]
  BY <1>1, <1>2
<1>5. /\ Tail(u) \in Seq(A) /\ Len(Tail(u)) = Len(u) - 1
      /\ \A i \in 1 .. Len(Tail(u)) : Tail(u)[i] = u[i + 1]
  BY <1>2, <1>4, HeadTailProperties
<1>6. Tail(u) = v
  <2>1. Len(Tail(u)) = Len(v)
    BY <1>1, <1>2, <1>3, <1>5
  <2>2. ASSUME NEW i \in 1 .. Len(v) PROVE Tail(u)[i] = v[i]
    <3>1. Tail(u)[i] = u[i + 1]
      BY <1>5, <2>1
    <3>2. i + 1 \in 1 .. Len(s) - k /\ i \in 1 .. Len(s) - (k + 1) /\ k + (i + 1) = k + 1 + i
      BY <1>1, <1>3
    <3> QED BY <1>2, <1>3, <3>1, <3>2
  <2> QED BY <1>3, <1>5, <2>1, <2>2, SeqEqual
<1> QED BY <1>4, <1>6 DEF u, v

\* Joined, the groups behind the first k are the next one and those behind it.
LEMMA FlattenNext ==
    ASSUME NEW A, NEW s \in Seq(Seq(A)), NEW k \in 0 .. Len(s) - 1
    PROVE  FlattenSeq(From(s, k)) = s[k + 1] \o FlattenSeq(From(s, k + 1))
<1>1. k \in 0 .. Len(s)
  OBVIOUS
<1>2. From(s, k) \in Seq(Seq(A))
  BY <1>1, FromType
<1>3. /\ From(s, k) # <<>> /\ From(s, k)[1] = s[k + 1]
      /\ Tail(From(s, k)) = From(s, k + 1)
  BY FromNext
<1> QED BY <1>2, <1>3, FlattenFirst

\* Joined groups are one sequence.
LEMMA FlattenType ==
    ASSUME NEW A, NEW s \in Seq(Seq(A))
    PROVE  FlattenSeq(s) \in Seq(A)
<1>1. PICK f : JoinsUpto(A, f, s, Len(s))
  BY JoinExists
<1>2. Len(s) \in 0 .. Len(s) /\ FlattenSeq(s) = f[Len(s)]
  BY <1>1, JoinIsFlatten
<1>3. f \in [0 .. Len(s) -> Seq(A)]
  BY <1>1 DEF JoinsUpto
<1> QED BY <1>2, <1>3

\* No groups are the empty sequence.
LEMMA FlattenNone == FlattenSeq(<<>>) = <<>>
BY DEF FlattenSeq

\* One step through a group of commands.
LEMMA Advance ==
    ASSUME NEW A, NEW s \in Seq(A), NEW k \in 0 .. Len(s) - 1, NEW rest \in Seq(A)
    PROVE  LET t == From(s, k) \o rest
           IN  t # <<>> /\ Head(t) = s[k + 1] /\ Tail(t) = From(s, k + 1) \o rest
<1> DEFINE u == From(s, k)
           v == From(s, k + 1)
<1>1. Len(s) \in Nat /\ k \in 0 .. Len(s) /\ k + 1 \in 0 .. Len(s)
  OBVIOUS
<1>2. u # <<>> /\ u[1] = s[k + 1] /\ Tail(u) = v
  BY FromNext
<1>3. u \in Seq(A) /\ v \in Seq(A)
  BY <1>1, FromType
<1> HIDE DEF u, v
<1>4. /\ u \o rest \in Seq(A) /\ Len(u \o rest) = Len(u) + Len(rest)
      /\ \A i \in 1 .. Len(u) : (u \o rest)[i] = u[i]
      /\ \A i \in Len(u) + 1 .. Len(u) + Len(rest) : (u \o rest)[i] = rest[i - Len(u)]
  BY <1>3, ConcatProperties
<1>5. Len(u) \in Nat \ {0} /\ Len(v) = Len(u) - 1 /\ \A i \in 1 .. Len(v) : v[i] = u[i + 1]
  BY <1>2, <1>3, HeadTailProperties, EmptySeq
<1> DEFINE t == u \o rest
           w == v \o rest
<1>6. /\ w \in Seq(A) /\ Len(w) = Len(v) + Len(rest)
      /\ \A i \in 1 .. Len(v) : w[i] = v[i]
      /\ \A i \in Len(v) + 1 .. Len(v) + Len(rest) : w[i] = rest[i - Len(v)]
  BY <1>3, ConcatProperties
<1>7. t \in Seq(A) /\ t # <<>> /\ Head(t) = s[k + 1]
  BY <1>2, <1>4, <1>5
<1>8. Len(Tail(t)) = Len(t) - 1 /\ Tail(t) \in Seq(A) /\ \A i \in 1 .. Len(Tail(t)) : Tail(t)[i] = t[i + 1]
  BY <1>7, HeadTailProperties
<1>9. Tail(t) = w
  <2>1. Len(Tail(t)) = Len(w) /\ Len(rest) \in Nat
    BY <1>4, <1>5, <1>6, <1>8
  <2>2. ASSUME NEW i \in 1 .. Len(w) PROVE Tail(t)[i] = w[i]
    <3>1. Tail(t)[i] = t[i + 1]
      BY <1>8, <2>1
    <3>2. CASE i <= Len(v)
      <4>1. i + 1 \in 1 .. Len(u) /\ i \in 1 .. Len(v)
        BY <1>5, <1>6, <2>1, <3>2
      <4> QED BY <1>4, <1>5, <1>6, <3>1, <4>1
    <3>3. CASE ~(i <= Len(v))
      <4>1. /\ i + 1 \in Len(u) + 1 .. Len(u) + Len(rest) /\ i \in Len(v) + 1 .. Len(v) + Len(rest)
            /\ (i + 1) - Len(u) = i - Len(v)
        BY <1>5, <1>6, <2>1, <3>3
      <4> QED BY <1>4, <1>6, <3>1, <4>1
    <3> QED BY <3>2, <3>3
  <2> HIDE DEF t, w
  <2> QED BY <1>6, <1>8, <2>1, <2>2, SeqEqual
<1> QED BY <1>7, <1>9 DEF u, v

-----------------------------------------------------------------------------
(* The commands of a session, and the board behind each of them. *)

\* The registers are distinct, and those of values are no strobes.
LEMMA Registers ==
    /\ Strobes \subseteq Regs /\ CtrlRegs \subseteq Regs \ Strobes
    /\ {"IST_ADDR", "IST_LO", "IST_MID", "IST_HI", "ITERS", "DEPTH", "LCH_TRIG", "LCH_ITERS",
        "LCH_MASK", "MK_SEL0", "MK_SEL1", "MK_SEL2"} \subseteq Regs \ Strobes
    /\ MarkerRegs[1] = "MK_SEL0" /\ MarkerRegs[2] = "MK_SEL1" /\ MarkerRegs[3] = "MK_SEL2"
<1>1. Range(MarkerRegs) = {"MK_SEL0", "MK_SEL1", "MK_SEL2"}
  <2>1. DOMAIN MarkerRegs = {1, 2, 3}
    BY DEF MarkerRegs
  <2> QED BY <2>1 DEF Range, MarkerRegs
<1>2. CtrlRegs \cap Strobes = {}
  BY DEF CtrlRegs, Strobes
<1> QED BY <1>1, <1>2 DEF Regs, Strobes, Values, CtrlRegs, MarkerRegs

\* A strobe for nobody starts nothing, and one for one channel one run.
LEMMA SeqOfFew ==
    /\ SetToSeq({}) = <<>>
    /\ \A x : SetToSeq({x}) = <<x>>
<1>1. Cardinality({}) = 0 /\ \A x : Cardinality({x}) = 1
  BY FS_EmptySet, FS_Singleton
<1>2. SetToSeq({}) = <<>>
  <2>1. \A f : f \in [1 .. 0 -> {}] <=> f = <<>>
    <3>1. ASSUME NEW f \in [1 .. 0 -> {}] PROVE f = <<>>
      <4>1. f \in Seq({}) /\ Len(f) = 0
        BY SeqDef, LenProperties
      <4> QED BY <4>1, EmptySeq
    <3>2. <<>> \in [1 .. 0 -> {}]
      <4>1. DOMAIN <<>> = 1 .. 0 /\ \A i \in 1 .. 0 : <<>>[i] \in {}
        OBVIOUS
      <4> QED BY <4>1
    <3> QED BY <3>1, <3>2
  <2>2. IsInjective(<<>>)
    BY DEF IsInjective
  <2> QED BY <1>1, <2>1, <2>2 DEF SetToSeq
<1>3. ASSUME NEW x PROVE SetToSeq({x}) = <<x>>
  <2>1. \A f : f \in [1 .. 1 -> {x}] <=> f = <<x>>
    <3>1. 1 .. 1 = {1}
      OBVIOUS
    <3> QED BY <3>1
  <2>2. IsInjective(<<x>>)
    <3>1. DOMAIN <<x>> = {1}
      OBVIOUS
    <3> QED BY <3>1 DEF IsInjective
  <2> QED BY <1>1, <2>1, <2>2 DEF SetToSeq
<1> QED BY <1>2, <1>3

\* Writing one more command of a group.
LEMMA HoldNext ==
    ASSUME NEW ops, NEW n \in Nat, NEW r, r = [x \in Regs |-> r[x]], Hold(r, ops, n),
           ops[n + 1].reg \in Regs
    PROVE  Hold([r EXCEPT ![ops[n + 1].reg] = ops[n + 1].data], ops, n + 1)
<1> DEFINE q == [r EXCEPT ![ops[n + 1].reg] = ops[n + 1].data]
<1>1. q[ops[n + 1].reg] = ops[n + 1].data /\ \A x : x # ops[n + 1].reg => q[x] = r[x]
  OBVIOUS
<1> HIDE DEF q
<1>2. ASSUME NEW j \in 1 .. n + 1,
             \A i \in j + 1 .. n + 1 : ops[i].reg = ops[j].reg => ops[i].data = ops[j].data
      PROVE  q[ops[j].reg] = ops[j].data
  <2>1. CASE j = n + 1
    BY <1>1, <2>1
  <2>2. CASE j # n + 1
    <3>1. j \in 1 .. n /\ n + 1 \in j + 1 .. n + 1
      BY <2>2
    <3>2. CASE ops[n + 1].reg = ops[j].reg
      <4>1. ops[n + 1].data = ops[j].data
        BY <1>2, <3>1, <3>2
      <4> QED BY <1>1, <3>2, <4>1
    <3>3. CASE ops[n + 1].reg # ops[j].reg
      <4>1. \A i \in j + 1 .. n : i \in j + 1 .. n + 1
        OBVIOUS
      <4>2. r[ops[j].reg] = ops[j].data
        BY <1>2, <3>1, <4>1 DEF Hold
      <4> QED BY <1>1, <3>3, <4>2
    <3> QED BY <3>2, <3>3
  <2> QED BY <2>1, <2>2
<1> QED BY <1>2 DEF Hold, q

\* What a sequence of settings of control registers R holds of those a program gives.
Giving(p, a, R) ==
    /\ a \in Seq(Op)
    /\ \A i \in DOMAIN a : /\ a[i].reg \in CtrlRegs /\ p.ctrl[a[i].reg] # <<>>
                           /\ a[i].data = p.ctrl[a[i].reg][1]
    /\ \A r \in R : p.ctrl[r] # <<>> => \E i \in DOMAIN a : a[i].reg = r

\* One more register of those a program may give.
LEMMA GiveOne ==
    ASSUME NEW p \in Loadable, NEW r \in CtrlRegs, NEW R, NEW a, Giving(p, a, R)
    PROVE  Giving(p, a \o CtrlOp(p, r), R \cup {r})
<1>1. p.ctrl[r] = <<>> \/ \E v \in 0 .. MaxCtrl : p.ctrl[r] = <<v>>
  BY DEF Loadable
<1>2. CASE p.ctrl[r] = <<>>
  <2>1. CtrlOp(p, r) = <<>> /\ a \in Seq(Op)
    BY <1>2 DEF CtrlOp, Giving
  <2>2. a \o CtrlOp(p, r) = a
    BY <2>1, EmptyFirst
  <2> QED BY <1>2, <2>2 DEF Giving
<1>3. ASSUME NEW v \in 0 .. MaxCtrl, p.ctrl[r] = <<v>>
      PROVE  Giving(p, a \o CtrlOp(p, r), R \cup {r})
  <2> DEFINE o == Set(r, v)
  <2>1. v % (MaxCtrl + 1) = v
    BY SizesAssumption
  <2>2. CtrlOp(p, r) = <<o>>
    <3>1. p.ctrl[r] # <<>> /\ p.ctrl[r][1] = v
      BY <1>3
    <3> QED BY <2>1, <3>1 DEF CtrlOp
  <2>3. o \in Op /\ o.reg = r /\ o.data = v
    BY Registers, SizesAssumption DEF Op, Set
  <2> HIDE DEF o
  <2>4. a \in Seq(Op)
    BY DEF Giving
  <2> DEFINE b == a \o <<o>>
  <2>5. /\ b \in Seq(Op) /\ Len(b) = Len(a) + 1 /\ b[Len(a) + 1] = o
        /\ \A i \in 1 .. Len(a) : b[i] = a[i]
    BY <2>3, <2>4
  <2> HIDE DEF b
  <2>6. DOMAIN a = 1 .. Len(a) /\ DOMAIN b = 1 .. Len(a) + 1 /\ Len(a) \in Nat
    BY <2>4, <2>5
  <2>7. ASSUME NEW i \in DOMAIN b
        PROVE  /\ b[i].reg \in CtrlRegs /\ p.ctrl[b[i].reg] # <<>>
               /\ b[i].data = p.ctrl[b[i].reg][1]
    <3>1. CASE i = Len(a) + 1
      BY <1>3, <2>3, <2>5, <3>1
    <3>2. CASE i # Len(a) + 1
      <4>1. i \in 1 .. Len(a) /\ i \in DOMAIN a
        BY <2>6, <3>2
      <4> QED BY <2>5, <4>1 DEF Giving
    <3> QED BY <3>1, <3>2
  <2>8. ASSUME NEW s \in R \cup {r}, p.ctrl[s] # <<>>
        PROVE  \E i \in DOMAIN b : b[i].reg = s
    <3>1. CASE s = r
      BY <2>3, <2>5, <2>6, <3>1
    <3>2. CASE s \in R
      <4>1. PICK i \in DOMAIN a : a[i].reg = s
        BY <2>8, <3>2 DEF Giving
      <4> QED BY <2>5, <2>6, <4>1
    <3> QED BY <3>1, <3>2
  <2> QED BY <2>2, <2>5, <2>7, <2>8 DEF Giving, b
<1> QED BY <1>1, <1>2, <1>3

\* The control registers of a program: first its settings, then the strobe.
LEMMA CtrlOpsAre ==
    ASSUME NEW p \in Loadable
    PROVE  /\ CtrlOps(p) \in Seq(Op)
           /\ CtrlOps(p) = <<>> => \A r \in CtrlRegs : p.ctrl[r] = <<>>
           /\ CtrlOps(p) # <<>> =>
                LET m == Len(CtrlOps(p)) - 3
                IN  /\ m \in Nat
                    /\ CtrlOps(p)[m + 1] = Set("CTRL_STRB", {})
                    /\ CtrlOps(p)[m + 2] = Set("CTRL_STRB", {p.channel})
                    /\ CtrlOps(p)[m + 3] = Set("CTRL_STRB", {})
                    /\ \A i \in 1 .. m : /\ CtrlOps(p)[i].reg \in CtrlRegs
                                         /\ CtrlOps(p)[i].data = p.ctrl[CtrlOps(p)[i].reg][1]
                    /\ \A r \in CtrlRegs : p.ctrl[r] # <<>> =>
                          \E i \in 1 .. m : CtrlOps(p)[i].reg = r
<1> DEFINE a1 == CtrlOp(p, "dvsr")
           a2 == a1 \o CtrlOp(p, "dlay")
           a3 == a2 \o CtrlOp(p, "csup")
           a4 == a3 \o CtrlOp(p, "ldac")
           z == Strobe("CTRL_STRB", {p.channel})
<1>1. Giving(p, <<>>, {})
  BY DEF Giving
<1>2. Giving(p, a1, {"dvsr"})
  <2>1. "dvsr" \in CtrlRegs
    BY DEF CtrlRegs
  <2>2. Giving(p, <<>> \o a1, {} \cup {"dvsr"})
    BY <1>1, <2>1, GiveOne
  <2>3. a1 \in Seq(Op)
    <3>1. CASE p.ctrl["dvsr"] = <<>>
      BY <3>1 DEF CtrlOp
    <3>2. CASE p.ctrl["dvsr"] # <<>>
      <4>1. \E v \in 0 .. MaxCtrl : p.ctrl["dvsr"] = <<v>>
        BY <2>1, <3>2 DEF Loadable
      <4>2. p.ctrl["dvsr"][1] % (MaxCtrl + 1) \in Int
        BY <4>1, SizesAssumption
      <4>3. Set("dvsr", p.ctrl["dvsr"][1] % (MaxCtrl + 1)) \in Op
        BY <2>1, <4>2, Registers DEF Set, Op
      <4> QED BY <3>2, <4>3 DEF CtrlOp
    <3> QED BY <3>1, <3>2
  <2>4. <<>> \o a1 = a1 /\ {} \cup {"dvsr"} = {"dvsr"}
    BY <2>3, EmptyFirst
  <2> QED BY <2>2, <2>4
<1> HIDE DEF a1
<1>3. Giving(p, a2, {"dvsr", "dlay"})
  <2>1. Giving(p, a2, {"dvsr"} \cup {"dlay"})
    BY <1>2, GiveOne DEF CtrlRegs
  <2> QED BY <2>1, Zenon
<1> HIDE DEF a2
<1>4. Giving(p, a3, {"dvsr", "dlay", "csup"})
  <2>1. Giving(p, a3, {"dvsr", "dlay"} \cup {"csup"})
    BY <1>3, GiveOne DEF CtrlRegs
  <2>2. {"dvsr", "dlay"} \cup {"csup"} = {"dvsr", "dlay", "csup"}
    OBVIOUS
  <2> QED BY <2>1, <2>2
<1> HIDE DEF a3
<1>5. Giving(p, a4, CtrlRegs)
  <2>1. Giving(p, a4, {"dvsr", "dlay", "csup"} \cup {"ldac"})
    BY <1>4, GiveOne DEF CtrlRegs
  <2>2. {"dvsr", "dlay", "csup"} \cup {"ldac"} = CtrlRegs
    BY DEF CtrlRegs
  <2> QED BY <2>1, <2>2
<1>6. CtrlOps(p) = a4 \o (IF \A r \in CtrlRegs : p.ctrl[r] = <<>> THEN <<>> ELSE z)
  BY DEF CtrlOps, a4, a3, a2, a1
<1>7. /\ z \in Seq(Op) /\ Len(z) = 3 /\ z[1] = Set("CTRL_STRB", {})
      /\ z[2] = Set("CTRL_STRB", {p.channel}) /\ z[3] = Set("CTRL_STRB", {})
  <2>1. \A d \in SUBSET Int : Set("CTRL_STRB", d) \in Op
    <3>1. "CTRL_STRB" \in Regs
      BY Registers DEF Strobes
    <3> QED BY <3>1 DEF Set, Op
  <2>2. {p.channel} \in SUBSET Int /\ {} \in SUBSET Int
    BY SizesAssumption DEF Loadable, Channels
  <2> QED BY <2>1, <2>2 DEF Strobe
<1> HIDE DEF a4, z
<1>8. a4 \in Seq(Op)
  BY <1>5 DEF Giving
<1>9. CASE \A r \in CtrlRegs : p.ctrl[r] = <<>>
  <2>1. a4 = <<>>
    <3>1. DOMAIN a4 = {}
      BY <1>5, <1>9 DEF Giving
    <3> QED BY <1>8, <3>1, EmptySeq
  <2>2. CtrlOps(p) = <<>>
    BY <1>6, <1>9, <2>1
  <2> QED BY <1>9, <2>2
<1>10. CASE ~(\A r \in CtrlRegs : p.ctrl[r] = <<>>)
  <2> DEFINE c == a4 \o z
             m == Len(a4)
  <2>1. CtrlOps(p) = c
    BY <1>6, <1>10
  <2>2. /\ c \in Seq(Op) /\ Len(c) = m + 3 /\ m \in Nat
        /\ \A i \in 1 .. m : c[i] = a4[i]
        /\ c[m + 1] = z[1] /\ c[m + 2] = z[2] /\ c[m + 3] = z[3]
    <3>1. /\ c \in Seq(Op) /\ Len(c) = Len(a4) + Len(z)
          /\ \A i \in 1 .. Len(a4) : c[i] = a4[i]
          /\ \A i \in Len(a4) + 1 .. Len(a4) + Len(z) : c[i] = z[i - Len(a4)]
      <4>1. a4 \in Seq(Op) /\ z \in Seq(Op)
        BY <1>7, <1>8
      <4> HIDE DEF m
      <4> QED BY <4>1, ConcatProperties
    <3>2. m \in Nat /\ Len(z) = 3
      BY <1>7, <1>8
    <3> HIDE DEF c, m
    <3>3. /\ m + 1 \in m + 1 .. m + 3 /\ m + 2 \in m + 1 .. m + 3 /\ m + 3 \in m + 1 .. m + 3
          /\ (m + 1) - m = 1 /\ (m + 2) - m = 2 /\ (m + 3) - m = 3
      BY <3>2
    <3> QED BY <3>1, <3>2, <3>3 DEF m
  <2> HIDE DEF c
  <2>3. Len(c) - 3 = m /\ c # <<>> /\ DOMAIN a4 = 1 .. m
    BY <1>8, <2>2
  <2> HIDE DEF m
  <2>4. \A i \in 1 .. m : c[i].reg \in CtrlRegs /\ c[i].data = p.ctrl[c[i].reg][1]
    BY <1>5, <2>2, <2>3 DEF Giving
  <2>5. ASSUME NEW r \in CtrlRegs, p.ctrl[r] # <<>> PROVE \E i \in 1 .. m : c[i].reg = r
    <3>1. PICK i \in DOMAIN a4 : a4[i].reg = r
      BY <1>5, <2>5 DEF Giving
    <3> QED BY <2>2, <2>3, <3>1
  <2> QED BY <1>7, <2>1, <2>2, <2>3, <2>4, <2>5
<1> QED BY <1>9, <1>10

\* What is written to a register.
LEMMA SetType ==
    ASSUME NEW r \in Regs, NEW d \in Int \cup SUBSET Int
    PROVE  Set(r, d) \in Op /\ Set(r, d).reg = r /\ Set(r, d).data = d
BY DEF Set, Op

\* Two sequences, one behind the other.
LEMMA TwoParts ==
    ASSUME NEW A, NEW x \in Seq(A), NEW y \in Seq(A)
    PROVE  /\ x \o y \in Seq(A) /\ Len(x \o y) = Len(x) + Len(y)
           /\ \A i \in 1 .. Len(x) : (x \o y)[i] = x[i]
           /\ \A i \in 1 .. Len(y) : (x \o y)[Len(x) + i] = y[i]
<1> DEFINE c == x \o y
<1>1. /\ c \in Seq(A) /\ Len(c) = Len(x) + Len(y) /\ Len(x) \in Nat /\ Len(y) \in Nat
      /\ \A i \in 1 .. Len(x) + Len(y) : c[i] = IF i <= Len(x) THEN x[i] ELSE y[i - Len(x)]
  BY ConcatProperties
<1> HIDE DEF c
<1>2. \A i \in 1 .. Len(x) : c[i] = x[i]
  BY <1>1
<1>3. \A i \in 1 .. Len(y) : c[Len(x) + i] = y[i]
  <2> TAKE i \in 1 .. Len(y)
  <2>1. /\ Len(x) + i \in 1 .. Len(x) + Len(y) /\ ~(Len(x) + i <= Len(x))
        /\ (Len(x) + i) - Len(x) = i
    BY <1>1
  <2> QED BY <1>1, <2>1
<1> QED BY <1>1, <1>2, <1>3 DEF c

\* Clear, assert, clear (strobe()).
LEMMA StrobeIs ==
    ASSUME NEW r \in Regs, NEW m \in SUBSET Int
    PROVE  /\ Strobe(r, m) \in Seq(Op) /\ Len(Strobe(r, m)) = 3
           /\ Strobe(r, m)[1] = Set(r, {}) /\ Strobe(r, m)[2] = Set(r, m)
           /\ Strobe(r, m)[3] = Set(r, {})
<1>1. Set(r, {}) \in Op /\ Set(r, m) \in Op
  BY SetType
<1> QED BY <1>1 DEF Strobe

\* The parts of a word are numbers (to_regs()).
LEMMA PartsAreNumbers ==
    ASSUME NEW insn \in DcInsn
    PROVE  /\ Encode(insn) \in Nat
           /\ \A n \in 1 .. 3 : ToRegs(insn)[n] \in Int
           /\ ToRegs(insn) = <<ToRegs(insn)[1], ToRegs(insn)[2], ToRegs(insn)[3]>>
<1>1. Encode(insn) \in Nat
  BY EncodedDigits
<1>2. RegMod \in Nat \ {0} /\ RegMod * RegMod \in Nat \ {0} /\ IterMax + 1 \in Nat \ {0}
  BY InsnAssumption, DecodeAssumption
<1> DEFINE v == Encode(insn)
           x == (v \div (RegMod * RegMod)) % (IterMax + 1)
           y == (v \div RegMod) % RegMod
           z == v % RegMod
<1>3. x \in Int /\ y \in Int /\ z \in Int
  <2>1. \A a \in Nat, b \in Nat \ {0} : a \div b \in Nat /\ a % b \in Int
    OBVIOUS
  <2> HIDE DEF v
  <2>2. v \in Nat
    BY <1>1 DEF v
  <2> QED BY <1>2, <2>1, <2>2
<1>4. ToRegs(insn) = <<x, y, z>>
  BY DEF ToRegs, WordParts
<1> HIDE DEF x, y, z
<1> QED BY <1>1, <1>3, <1>4

\* An instruction is a word, its address, and a strobe (load_ops()).
LEMMA InsnOpsAre ==
    ASSUME NEW p \in Loadable, NEW i \in DOMAIN p.insns
    PROVE  LET o == InsnOps(p, i)
               w == ToRegs(p.insns[i])
           IN  /\ o \in Seq(Op) /\ Len(o) = 7
               /\ o[1] = Set("IST_ADDR", i - 1) /\ o[2] = Set("IST_LO", w[1])
               /\ o[3] = Set("IST_MID", w[2]) /\ o[4] = Set("IST_HI", w[3])
               /\ o[5] = Set("IST_STRB", {}) /\ o[6] = Set("IST_STRB", {p.channel})
               /\ o[7] = Set("IST_STRB", {})
<1>1. p.insns \in Seq(DcInsn) /\ p.channel \in Int /\ i \in Nat /\ p.insns[i] \in DcInsn
  BY SizesAssumption DEF Loadable, Channels
<1> DEFINE w == ToRegs(p.insns[i])
<1>2. w[1] \in Int /\ w[2] \in Int /\ w[3] \in Int
  <2>1. \A n \in 1 .. 3 : w[n] \in Int
    BY <1>1, PartsAreNumbers, Zenon
  <2> HIDE DEF w
  <2> QED BY <2>1
<1> HIDE DEF w
<1> DEFINE o1 == Set("IST_ADDR", i - 1)
           o2 == Set("IST_LO", w[1])
           o3 == Set("IST_MID", w[2])
           o4 == Set("IST_HI", w[3])
           h == <<o1, o2, o3, o4>>
           z == Strobe("IST_STRB", {p.channel})
<1>3. o1 \in Op /\ o2 \in Op /\ o3 \in Op /\ o4 \in Op
  <2>1. {"IST_ADDR", "IST_LO", "IST_MID", "IST_HI"} \subseteq Regs
    BY Registers
  <2>2. i - 1 \in Int
    BY <1>1
  <2> QED BY <1>2, <2>1, <2>2, SetType
<1>4. /\ z \in Seq(Op) /\ Len(z) = 3 /\ z[1] = Set("IST_STRB", {})
      /\ z[2] = Set("IST_STRB", {p.channel}) /\ z[3] = Set("IST_STRB", {})
  <2>1. "IST_STRB" \in Regs /\ {p.channel} \in SUBSET Int
    BY <1>1, Registers DEF Strobes
  <2> QED BY <2>1, StrobeIs
<1>5. InsnOps(p, i) = h \o z
  BY DEF InsnOps, w
<1> HIDE DEF o1, o2, o3, o4, z
<1>6. h \in Seq(Op) /\ Len(h) = 4 /\ h[1] = o1 /\ h[2] = o2 /\ h[3] = o3 /\ h[4] = o4
  BY <1>3
<1> HIDE DEF h
<1>7. /\ h \o z \in Seq(Op) /\ Len(h \o z) = Len(h) + Len(z)
      /\ \A k \in 1 .. Len(h) : (h \o z)[k] = h[k]
      /\ \A k \in 1 .. Len(z) : (h \o z)[Len(h) + k] = z[k]
  <2>1. h \in Seq(Op) /\ z \in Seq(Op)
    BY <1>4, <1>6
  <2> QED BY <2>1, TwoParts
<1> DEFINE c == h \o z
<1> HIDE DEF c
<1>8. /\ c[1] = o1 /\ c[2] = o2 /\ c[3] = o3 /\ c[4] = o4
      /\ c[4 + 1] = z[1] /\ c[4 + 2] = z[2] /\ c[4 + 3] = z[3]
  BY <1>4, <1>6, <1>7 DEF c
<1>9. c \in Seq(Op) /\ Len(c) = 7
  BY <1>4, <1>6, <1>7 DEF c
<1>10. InsnOps(p, i) = c
  BY <1>5 DEF c
<1> QED BY <1>4, <1>8, <1>9, <1>10 DEF o1, o2, o3, o4, w

\* Behind its instructions a program has the repetition, the depth and a start
\* (load_ops(), start_ops()).
LEMMA ClosingIs ==
    ASSUME NEW p \in Loadable
    PROVE  LET o == Closing(p)
           IN  /\ o \in Seq(Op) /\ Len(o) = 5
               /\ o[1] = Set("ITERS", p.repeat) /\ o[2] = Set("DEPTH", Len(p.insns) - 1)
               /\ o[3] = Set("START_STRB", {}) /\ o[4] = Set("START_STRB", {p.channel})
               /\ o[5] = Set("START_STRB", {})
<1>1. /\ p.repeat \in 0 .. MaxRepeat /\ Len(p.insns) \in 1 .. Depth /\ p.channel \in Int
  BY SizesAssumption DEF Loadable, Channels
<1>2. p.repeat % (MaxRepeat + 1) = p.repeat /\ (Len(p.insns) - 1) % Depth = Len(p.insns) - 1
  <2>1. \A a \in Nat, m \in Nat : a < m => a % m = a
    OBVIOUS
  <2>2. /\ p.repeat \in Nat /\ MaxRepeat + 1 \in Nat /\ p.repeat < MaxRepeat + 1
        /\ Len(p.insns) - 1 \in Nat /\ Depth \in Nat /\ Len(p.insns) - 1 < Depth
    BY <1>1, SizesAssumption
  <2> QED BY <2>1, <2>2
<1> DEFINE o1 == Set("ITERS", p.repeat)
           o2 == Set("DEPTH", Len(p.insns) - 1)
           h == <<o1, o2>>
           z == Strobe("START_STRB", {p.channel})
<1>3. o1 \in Op /\ o2 \in Op
  <2>1. {"ITERS", "DEPTH"} \subseteq Regs
    BY Registers
  <2>2. p.repeat \in Int /\ Len(p.insns) - 1 \in Int
    BY <1>1, SizesAssumption
  <2> QED BY <2>1, <2>2, SetType
<1>4. /\ z \in Seq(Op) /\ Len(z) = 3 /\ z[1] = Set("START_STRB", {})
      /\ z[2] = Set("START_STRB", {p.channel}) /\ z[3] = Set("START_STRB", {})
  <2>1. "START_STRB" \in Regs /\ {p.channel} \in SUBSET Int
    BY <1>1, Registers DEF Strobes
  <2> QED BY <2>1, StrobeIs
<1>5. Closing(p) = h \o z
  BY <1>2 DEF Closing, StartOps
<1> HIDE DEF o1, o2, z
<1>6. h \in Seq(Op) /\ Len(h) = 2 /\ h[1] = o1 /\ h[2] = o2
  BY <1>3
<1> HIDE DEF h
<1>7. /\ h \o z \in Seq(Op) /\ Len(h \o z) = Len(h) + Len(z)
      /\ \A k \in 1 .. Len(h) : (h \o z)[k] = h[k]
      /\ \A k \in 1 .. Len(z) : (h \o z)[Len(h) + k] = z[k]
  <2>1. h \in Seq(Op) /\ z \in Seq(Op)
    BY <1>4, <1>6
  <2> QED BY <2>1, TwoParts
<1> DEFINE c == h \o z
<1> HIDE DEF c
<1>8. /\ c \in Seq(Op) /\ Len(c) = 5 /\ c[1] = o1 /\ c[2] = o2
      /\ c[2 + 1] = z[1] /\ c[2 + 2] = z[2] /\ c[2 + 3] = z[3]
  BY <1>4, <1>6, <1>7 DEF c
<1>9. Closing(p) = c
  BY <1>5 DEF c
<1> QED BY <1>4, <1>8, <1>9 DEF o1, o2

\* The commands that clear the launcher.
LEMMA ClearingIs ==
    LET o == ClearLaunchOps
    IN  /\ o \in Seq(Op) /\ Len(o) = 3
        /\ o[1] = Set("LCH_CLR", {}) /\ o[2] = Set("LCH_CLR", Launcher) /\ o[3] = Set("LCH_CLR", {})
<1>1. "LCH_CLR" \in Regs /\ {} \in SUBSET Int /\ Launcher \in SUBSET Int
  BY Registers DEF Strobes, Launcher
<1>2. Set("LCH_CLR", {}) \in Op /\ Set("LCH_CLR", Launcher) \in Op
  BY <1>1, SetType
<1> QED BY <1>2 DEF ClearLaunchOps, Strobe

\* Of the channels on the board all bits are sent (reg_bytes()).
LEMMA SentChannels ==
    ASSUME NEW channels
    PROVE  MaskSent(channels) \cap Channels = channels \cap Channels
<1>1. WordBits \in Nat /\ NumDcChannel \in Nat /\ NumDcChannel <= WordBits
  BY WordAssumption, SizesAssumption
<1>2. Channels \subseteq 0 .. WordBits - 1
  BY <1>1 DEF Channels
<1> QED BY <1>2 DEF MaskSent

\* A launch is the control, a strobe, and the channels of the markers (launch_ops()).
LEMMA LaunchOpsAre ==
    ASSUME NEW l \in Launchable, Len(l.marker_sels) <= 1
    PROVE  LET o == LaunchOps(l)
           IN  /\ o \in Seq(Op) /\ Len(o) >= 6
               /\ o[1] = Set("LCH_MASK", MaskSent(l.dc_chmask)) /\ o[2] = Set("LCH_TRIG", Bit(l.use_trigger))
               /\ o[3] = Set("LCH_ITERS", NumberSent(l.iters))
               /\ o[4] = Set("LCH_STRB", {}) /\ o[5] = Set("LCH_STRB", Launcher)
               /\ o[6] = Set("LCH_STRB", {})
               /\ \A i \in 7 .. Len(o) : i - 6 \in 1 .. 3 /\ o[i].reg = MarkerRegs[i - 6]
               /\ l.marker_sels # <<>> =>
                     /\ DOMAIN l.marker_sels[1] = 1 .. NumMarkers /\ Len(o) = 6 + NumMarkers
                     /\ \A m \in 1 .. NumMarkers : o[6 + m] = Set(MarkerRegs[m], l.marker_sels[1][m])
<1>1. /\ l.dc_chmask \in SUBSET Int /\ l.use_trigger \in BOOLEAN /\ l.iters \in Int
      /\ l.marker_sels \in Seq([1 .. NumMarkers -> Int])
  BY DEF Launchable
<1> DEFINE o1 == Set("LCH_MASK", MaskSent(l.dc_chmask))
           o2 == Set("LCH_TRIG", Bit(l.use_trigger))
           o3 == Set("LCH_ITERS", NumberSent(l.iters))
           a == <<o1, o2, o3>>
           z == Strobe("LCH_STRB", Launcher)
           mk == MarkerOps(l)
<1>2. o1 \in Op /\ o2 \in Op /\ o3 \in Op
  <2>1. {"LCH_MASK", "LCH_TRIG", "LCH_ITERS"} \subseteq Regs
    BY Registers
  <2>2. Bit(l.use_trigger) \in Int
    BY <1>1 DEF Bit
  <2>3. MaskSent(l.dc_chmask) \in SUBSET Int /\ NumberSent(l.iters) \in Int
    BY <1>1, InsnAssumption DEF MaskSent, NumberSent
  <2> QED BY <2>1, <2>2, <2>3, SetType
<1>20. /\ z \in Seq(Op) /\ Len(z) = 3 /\ z[1] = Set("LCH_STRB", {})
       /\ z[2] = Set("LCH_STRB", Launcher) /\ z[3] = Set("LCH_STRB", {})
  <2>1. "LCH_STRB" \in Regs /\ Launcher \in SUBSET Int
    BY Registers DEF Strobes, Launcher
  <2> QED BY <2>1, StrobeIs
<1>3. /\ mk \in Seq(Op) /\ Len(mk) <= 3
      /\ \A m \in 1 .. Len(mk) : mk[m].reg = MarkerRegs[m]
      /\ l.marker_sels # <<>> =>
            /\ DOMAIN l.marker_sels[1] = 1 .. NumMarkers /\ Len(mk) = NumMarkers
            /\ \A m \in 1 .. NumMarkers : mk[m] = Set(MarkerRegs[m], l.marker_sels[1][m])
  <2>1. CASE l.marker_sels = <<>>
    <3>1. mk = <<>>
      BY <2>1 DEF MarkerOps
    <3> QED BY <2>1, <3>1
  <2>2. CASE l.marker_sels # <<>>
    <3> DEFINE s == l.marker_sels[1]
    <3>1. s \in [1 .. NumMarkers -> Int]
      BY <1>1, <2>2, EmptySeq
    <3>2. mk = [m \in 1 .. NumMarkers |-> Set(MarkerRegs[m], s[m])]
      BY <2>2, <3>1 DEF MarkerOps
    <3> HIDE DEF s, mk
    <3>3. ASSUME NEW m \in 1 .. NumMarkers
          PROVE  Set(MarkerRegs[m], s[m]) \in Op /\ Set(MarkerRegs[m], s[m]).reg = MarkerRegs[m]
      <4>1. m = 1 \/ m = 2 \/ m = 3
        BY SizesAssumption
      <4>2. MarkerRegs[m] \in Regs
        BY <4>1, Registers
      <4> QED BY <3>1, <4>2, SetType
    <3>4. NumMarkers \in Nat /\ NumMarkers <= 3
      BY SizesAssumption
    <3>5. mk \in Seq(Op) /\ Len(mk) = NumMarkers
      BY <3>2, <3>3, <3>4
    <3> QED BY <2>2, <3>1, <3>2, <3>3, <3>4, <3>5 DEF s
  <2> QED BY <2>1, <2>2
<1>4. LaunchOps(l) = (a \o z) \o mk
  BY DEF LaunchOps
<1> HIDE DEF o1, o2, o3, z, mk
<1>5. a \in Seq(Op) /\ Len(a) = 3 /\ a[1] = o1 /\ a[2] = o2 /\ a[3] = o3
  BY <1>2
<1> HIDE DEF a
<1> DEFINE h == a \o z
           o == h \o mk
<1>6. /\ h \in Seq(Op) /\ Len(h) = Len(a) + Len(z)
      /\ \A i \in 1 .. Len(a) : h[i] = a[i]
      /\ \A i \in 1 .. Len(z) : h[Len(a) + i] = z[i]
  <2>1. a \in Seq(Op) /\ z \in Seq(Op)
    BY <1>5, <1>20
  <2> QED BY <2>1, TwoParts
<1> HIDE DEF h
<1>7. /\ Len(h) = 6 /\ h[1] = o1 /\ h[2] = o2 /\ h[3] = o3
      /\ h[3 + 1] = z[1] /\ h[3 + 2] = z[2] /\ h[3 + 3] = z[3]
  BY <1>5, <1>6, <1>20
<1>8. /\ o \in Seq(Op) /\ Len(o) = Len(h) + Len(mk)
      /\ \A i \in 1 .. Len(h) : o[i] = h[i]
      /\ \A i \in 1 .. Len(mk) : o[Len(h) + i] = mk[i]
  <2>1. h \in Seq(Op) /\ mk \in Seq(Op)
    BY <1>3, <1>6
  <2> QED BY <2>1, TwoParts
<1>9. LaunchOps(l) = o /\ Len(mk) \in Nat
  BY <1>3, <1>4 DEF h
<1> HIDE DEF o
<1>10. /\ o[1] = o1 /\ o[2] = o2 /\ o[3] = o3 /\ o[4] = z[1] /\ o[5] = z[2] /\ o[6] = z[3]
  <2>1. \A i \in {1, 2, 3, 4, 5, 6} : o[i] = h[i]
    BY <1>7, <1>8
  <2> QED BY <1>7, <2>1
<1>11. Len(o) = 6 + Len(mk) /\ \A m \in 1 .. Len(mk) : o[6 + m] = mk[m]
  BY <1>7, <1>8
<1>12. ASSUME NEW i \in 7 .. Len(o) PROVE i - 6 \in 1 .. 3 /\ o[i].reg = MarkerRegs[i - 6]
  <2>1. i - 6 \in 1 .. Len(mk) /\ 6 + (i - 6) = i
    BY <1>9, <1>11
  <2>2. o[i] = mk[i - 6]
    BY <1>11, <2>1
  <2> QED BY <1>3, <1>9, <2>1, <2>2
<1>13. l.marker_sels # <<>> =>
          /\ DOMAIN l.marker_sels[1] = 1 .. NumMarkers /\ Len(o) = 6 + NumMarkers
          /\ \A m \in 1 .. NumMarkers : o[6 + m] = Set(MarkerRegs[m], l.marker_sels[1][m])
  BY <1>3, <1>11
<1>14. Len(o) >= 6
  BY <1>9, <1>11
<1> QED BY <1>8, <1>9, <1>10, <1>12, <1>13, <1>14, <1>20 DEF o1, o2, o3

\* What comes behind the first i instructions of a program.
LEMMA BehindInsnsAre ==
    ASSUME NEW p \in Loadable, NEW i \in 0 .. Len(p.insns)
    PROVE  /\ BehindInsns(p, i) \in Seq(Op)
           /\ i < Len(p.insns) => BehindInsns(p, i) = InsnOps(p, i + 1) \o BehindInsns(p, i + 1)
           /\ i = Len(p.insns) => BehindInsns(p, i) = Closing(p)
<1> DEFINE g == [j \in DOMAIN p.insns |-> InsnOps(p, j)]
           N == Len(p.insns)
           z == Closing(p)
<1>1. N \in Nat /\ DOMAIN p.insns = 1 .. N
  BY DEF Loadable
<1>2. g \in Seq(Seq(Op)) /\ Len(g) = N /\ \A j \in 1 .. N : g[j] = InsnOps(p, j)
  <2>1. \A j \in 1 .. N : InsnOps(p, j) \in Seq(Op)
    <3> TAKE j \in 1 .. N
    <3>1. j \in DOMAIN p.insns
      BY <1>1
    <3> QED BY <3>1, InsnOpsAre
  <2>2. g = [j \in 1 .. N |-> InsnOps(p, j)]
    BY <1>1
  <2> HIDE DEF g, N
  <2> QED BY <1>1, <2>1, <2>2
<1>3. z \in Seq(Op)
  BY ClosingIs
<1>4. \A k \in 0 .. N : BehindInsns(p, k) = FlattenSeq(From(g, k)) \o z
  BY DEF BehindInsns
<1> HIDE DEF g, z
<1>5. \A k \in 0 .. N : FlattenSeq(From(g, k)) \in Seq(Op)
  <2> TAKE k \in 0 .. N
  <2>1. k \in 0 .. Len(g)
    BY <1>2
  <2>2. From(g, k) \in Seq(Seq(Op))
    BY <1>2, <2>1, FromType
  <2> QED BY <2>2, FlattenType
<1>6. BehindInsns(p, i) \in Seq(Op)
  <2>1. FlattenSeq(From(g, i)) \in Seq(Op)
    BY <1>5
  <2>2. FlattenSeq(From(g, i)) \o z \in Seq(Op)
    BY <1>3, <2>1, TwoParts
  <2> QED BY <1>4, <2>2
<1>7. ASSUME i < N PROVE BehindInsns(p, i) = InsnOps(p, i + 1) \o BehindInsns(p, i + 1)
  <2> DEFINE a == g[i + 1]
             f == FlattenSeq(From(g, i + 1))
  <2>1. i \in 0 .. Len(g) - 1 /\ i + 1 \in 0 .. N /\ i + 1 \in 1 .. N
    BY <1>1, <1>2, <1>7
  <2>2. FlattenSeq(From(g, i)) = a \o f
    BY <1>2, <2>1, FlattenNext
  <2>3. a \in Seq(Op) /\ f \in Seq(Op)
    BY <1>2, <1>5, <2>1
  <2>4. a = InsnOps(p, i + 1)
    BY <1>2, <2>1
  <2>5. BehindInsns(p, i) = (a \o f) \o z
    BY <1>4, <2>2
  <2>6. BehindInsns(p, i + 1) = f \o z
    BY <1>4, <2>1
  <2> HIDE DEF a, f
  <2>7. (a \o f) \o z = a \o (f \o z)
    BY <1>3, <2>3, ConcatAssociative, SMTT(30)
  <2> QED BY <2>4, <2>5, <2>6, <2>7
<1>8. ASSUME i = N PROVE BehindInsns(p, i) = z
  <2>1. From(g, i) = <<>>
    BY <1>2, <1>8, FromEnds
  <2>2. BehindInsns(p, i) = <<>> \o z
    BY <1>4, <2>1, FlattenNone
  <2> QED BY <1>3, <2>2, EmptyFirst
<1> QED BY <1>6, <1>7, <1>8 DEF z

\* A program is its control registers, its instructions and a start (load_ops()).
LEMMA ProgramIs ==
    ASSUME NEW p \in Loadable
    PROVE  /\ ProgramOps(p) = CtrlOps(p) \o BehindInsns(p, 0)
           /\ CtrlOps(p) \in Seq(Op) /\ BehindInsns(p, 0) \in Seq(Op) /\ ProgramOps(p) \in Seq(Op)
<1> DEFINE g == [j \in DOMAIN p.insns |-> InsnOps(p, j)]
           c == CtrlOps(p)
           f == FlattenSeq(g)
           d == <<Set("ITERS", p.repeat % (MaxRepeat + 1)), Set("DEPTH", (Len(p.insns) - 1) % Depth)>>
           s == StartOps(p)
<1>1. g \in Seq(Seq(Op))
  <2>1. \A j \in DOMAIN p.insns : InsnOps(p, j) \in Seq(Op)
    BY InsnOpsAre
  <2>2. Len(p.insns) \in Nat /\ DOMAIN p.insns = 1 .. Len(p.insns)
    BY DEF Loadable
  <2> QED BY <2>1, <2>2
<1>2. f \in Seq(Op)
  BY <1>1, FlattenType
<1>3. c \in Seq(Op)
  BY CtrlOpsAre
<1>4. d \in Seq(Op)
  <2>1. p.repeat % (MaxRepeat + 1) \in Int /\ (Len(p.insns) - 1) % Depth \in Int
    <3>1. p.repeat \in Int /\ Len(p.insns) - 1 \in Int
      BY SizesAssumption DEF Loadable
    <3> QED BY <3>1, SizesAssumption
  <2>2. "ITERS" \in Regs /\ "DEPTH" \in Regs
    BY Registers
  <2> QED BY <2>1, <2>2, SetType
<1>5. s \in Seq(Op)
  <2>1. p.channel \in Int
    BY SizesAssumption DEF Loadable, Channels
  <2>2. "START_STRB" \in Regs /\ {p.channel} \in SUBSET Int
    BY <2>1, Registers DEF Strobes
  <2> QED BY <2>2, StrobeIs DEF StartOps
<1>6. ProgramOps(p) = ((c \o f) \o d) \o s
  BY DEF ProgramOps, LoadOps
<1>7. BehindInsns(p, 0) = f \o (d \o s)
  <2>1. From(g, 0) = g
    BY <1>1, FromEnds
  <2> QED BY <2>1 DEF BehindInsns, Closing
<1> HIDE DEF c, f, d, s, g
<1>8. ((c \o f) \o d) \o s = c \o (f \o (d \o s))
  <2>1. c \o f \in Seq(Op) /\ d \o s \in Seq(Op)
    BY <1>2, <1>3, <1>4, <1>5, TwoParts
  <2>2. ((c \o f) \o d) \o s = (c \o f) \o (d \o s)
    BY <1>4, <1>5, <2>1, ConcatAssociative, SMTT(30)
  <2>3. (c \o f) \o (d \o s) = c \o (f \o (d \o s))
    BY <1>2, <1>3, <2>1, ConcatAssociative, SMTT(30)
  <2> QED BY <2>2, <2>3
<1>9. f \o (d \o s) \in Seq(Op) /\ c \o (f \o (d \o s)) \in Seq(Op)
  <2>1. d \o s \in Seq(Op)
    BY <1>4, <1>5, TwoParts
  <2>2. f \o (d \o s) \in Seq(Op)
    BY <1>2, <2>1, TwoParts
  <2> QED BY <1>3, <2>2, TwoParts
<1> QED BY <1>3, <1>6, <1>7, <1>8, <1>9 DEF c

\* What comes behind the first k programs of the file.
LEMMA BehindProgramsAre ==
    ASSUME ParsedOK, NEW k \in 0 .. Len(programs)
    PROVE  /\ BehindPrograms(k) \in Seq(Op) /\ LaunchPart \in Seq(Op)
           /\ k < Len(programs) =>
                BehindPrograms(k) = CtrlOps(programs[k + 1])
                                    \o (BehindInsns(programs[k + 1], 0) \o BehindPrograms(k + 1))
           /\ k = Len(programs) => BehindPrograms(k) = LaunchPart
<1> DEFINE g == [j \in DOMAIN programs |-> ProgramOps(programs[j])]
           N == Len(programs)
           z == LaunchPart
<1>1. N \in Nat /\ DOMAIN programs = 1 .. N /\ \A j \in 1 .. N : programs[j] \in Loadable
  BY DEF ParsedOK
<1>2. g \in Seq(Seq(Op)) /\ Len(g) = N /\ \A j \in 1 .. N : g[j] = ProgramOps(programs[j])
  <2>1. \A j \in 1 .. N : ProgramOps(programs[j]) \in Seq(Op)
    BY <1>1, ProgramIs
  <2>2. g = [j \in 1 .. N |-> ProgramOps(programs[j])]
    BY <1>1
  <2> HIDE DEF g, N
  <2> QED BY <1>1, <2>1, <2>2
<1>3. z \in Seq(Op)
  <2>1. CASE launch = <<>>
    BY <2>1 DEF LaunchPart
  <2>2. CASE launch # <<>>
    <3>1. launch[1] \in Launchable /\ Len(launch[1].marker_sels) <= 1
      BY <2>2, EmptySeq DEF ParsedOK
    <3>2. LaunchOps(launch[1]) \in Seq(Op)
      BY <3>1, LaunchOpsAre
    <3> QED BY <2>2, <3>2 DEF LaunchPart
  <2> QED BY <2>1, <2>2
<1>4. \A i \in 0 .. N : BehindPrograms(i) = FlattenSeq(From(g, i)) \o z
  BY DEF BehindPrograms
<1> HIDE DEF g, z, N
<1>5. \A i \in 0 .. N : FlattenSeq(From(g, i)) \in Seq(Op) /\ BehindPrograms(i) \in Seq(Op)
  <2> TAKE i \in 0 .. N
  <2>1. i \in 0 .. Len(g)
    BY <1>2
  <2>2. From(g, i) \in Seq(Seq(Op))
    BY <1>2, <2>1, FromType
  <2>3. FlattenSeq(From(g, i)) \in Seq(Op)
    BY <2>2, FlattenType
  <2>4. FlattenSeq(From(g, i)) \o z \in Seq(Op)
    BY <1>3, <2>3, TwoParts
  <2> QED BY <1>4, <2>3, <2>4
<1>6. k \in 0 .. N
  BY DEF N
<1>7. ASSUME k < N
      PROVE  BehindPrograms(k) = CtrlOps(programs[k + 1])
                                 \o (BehindInsns(programs[k + 1], 0) \o BehindPrograms(k + 1))
  <2> DEFINE a == g[k + 1]
             f == FlattenSeq(From(g, k + 1))
             p == programs[k + 1]
             c == CtrlOps(p)
             b == BehindInsns(p, 0)
             r == BehindPrograms(k + 1)
  <2>1. k \in 0 .. Len(g) - 1 /\ k + 1 \in 0 .. N /\ k + 1 \in 1 .. N
    BY <1>1, <1>2, <1>6, <1>7
  <2>2. FlattenSeq(From(g, k)) = a \o f
    BY <1>2, <2>1, FlattenNext
  <2>3. a = c \o b /\ a \in Seq(Op) /\ c \in Seq(Op) /\ b \in Seq(Op)
    <3>1. p \in Loadable /\ a = ProgramOps(p)
      BY <1>1, <1>2, <2>1
    <3> QED BY <3>1, ProgramIs
  <2>4. f \in Seq(Op) /\ r \in Seq(Op)
    BY <1>5, <2>1
  <2>5. BehindPrograms(k) = (a \o f) \o z
    BY <1>4, <1>6, <2>2
  <2>6. r = f \o z
    BY <1>4, <2>1
  <2> HIDE DEF a, f, p, c, b, r
  <2>7. (a \o f) \o z = a \o (f \o z)
    <3>1. a \in Seq(Op) /\ f \in Seq(Op) /\ z \in Seq(Op)
      BY <1>3, <2>3, <2>4
    <3> QED BY <3>1, ConcatAssociative, SMTT(30)
  <2>8. (c \o b) \o r = c \o (b \o r)
    BY <2>3, <2>4, ConcatAssociative, SMTT(30)
  <2>9. BehindPrograms(k) = c \o (b \o r)
    BY <2>3, <2>5, <2>6, <2>7, <2>8
  <2> QED BY <2>9 DEF p, c, b, r
<1>8. ASSUME k = N PROVE BehindPrograms(k) = z
  <2>1. From(g, k) = <<>>
    BY <1>2, <1>8, FromEnds
  <2>2. BehindPrograms(k) = <<>> \o z
    BY <1>4, <1>6, <2>1, FlattenNone
  <2> QED BY <1>3, <2>2, EmptyFirst
<1> QED BY <1>3, <1>5, <1>6, <1>7, <1>8 DEF z, N

\* What a session is going to send.
LEMMA SendsAll ==
    ASSUME ParsedOK, NEW c \in BOOLEAN
    PROVE  SendOps(programs, launch, c) = IF c THEN ClearLaunchOps \o BehindPrograms(0) ELSE BehindPrograms(0)
<1> DEFINE g == [j \in DOMAIN programs |-> ProgramOps(programs[j])]
<1>1. Len(programs) \in Nat /\ DOMAIN programs = 1 .. Len(programs)
      /\ \A j \in 1 .. Len(programs) : programs[j] \in Loadable
  BY DEF ParsedOK
<1>2. g \in Seq(Seq(Op))
  <2>1. \A j \in 1 .. Len(programs) : ProgramOps(programs[j]) \in Seq(Op)
    BY <1>1, ProgramIs
  <2> QED BY <1>1, <2>1
<1>3. From(g, 0) = g
  BY <1>2, FromEnds
<1>4. g = [j \in DOMAIN programs |-> LoadOps(programs[j]) \o StartOps(programs[j])]
  BY DEF ProgramOps
<1>5. UartSeq(programs, launch) = FlattenSeq(g) \o LaunchPart
  BY <1>4, Zenon DEF UartSeq, LaunchPart
<1>6. BehindPrograms(0) = FlattenSeq(From(g, 0)) \o LaunchPart
  BY DEF BehindPrograms
<1> HIDE DEF g
<1>7. UartSeq(programs, launch) = BehindPrograms(0)
  BY <1>3, <1>5, <1>6
<1>8. BehindPrograms(0) \in Seq(Op)
  <2>1. 0 \in 0 .. Len(programs)
    BY <1>1
  <2> QED BY <2>1, BehindProgramsAre
<1>9. <<>> \o BehindPrograms(0) = BehindPrograms(0)
  BY <1>8, EmptyFirst
<1> QED BY <1>7, <1>9 DEF SendOps

\* A group of commands lies before the rest at first, and behind it there is the rest.
LEMMA GroupEnds ==
    ASSUME NEW ops \in Seq(Op), NEW rest \in Seq(Op)
    PROVE  From(ops, 0) \o rest = ops \o rest /\ From(ops, Len(ops)) \o rest = rest
<1>1. From(ops, 0) = ops /\ From(ops, Len(ops)) = <<>>
  BY FromEnds
<1>2. <<>> \o rest = rest
  BY EmptyFirst
<1> QED BY <1>1, <1>2

\* A group of commands that is about to be sent.
LEMMA GroupStarts ==
    ASSUME NEW ops \in Seq(Op), NEW rest \in Seq(Op), todo = ops \o rest
    PROVE  Within(ops, 0, rest)
<1>1. todo = From(ops, 0) \o rest
  BY GroupEnds
<1>2. 0 \in 0 .. Len(ops) /\ Hold(regs, ops, 0)
  BY DEF Hold
<1> QED BY <1>1, <1>2 DEF Within

\* The sizes of the program that is being loaded.
LEMMA Programs ==
    ASSUME ParsedOK
    PROVE  /\ Len(programs) \in Nat /\ DOMAIN programs = 1 .. Len(programs)
           /\ \A k \in DOMAIN programs :
                /\ programs[k] \in Loadable /\ DOMAIN programs[k].insns = 1 .. Len(programs[k].insns)
                /\ Len(programs[k].insns) \in 1 .. Depth
                /\ programs[k].channel \in Channels /\ programs[k].channel \in Int
                /\ programs[k].repeat \in 0 .. MaxRepeat
                /\ \A i \in DOMAIN programs[k].insns : programs[k].insns[i] \in DcInsn
<1>1. programs \in Seq(Loadable)
  BY DEF ParsedOK
<1>2. Channels \subseteq Int
  BY SizesAssumption DEF Channels
<1>3. ASSUME NEW p \in Loadable
      PROVE  /\ DOMAIN p.insns = 1 .. Len(p.insns) /\ Len(p.insns) \in 1 .. Depth
             /\ p.channel \in Channels /\ p.channel \in Int /\ p.repeat \in 0 .. MaxRepeat
             /\ \A i \in DOMAIN p.insns : p.insns[i] \in DcInsn
  <2>1. /\ p.insns \in Seq(DcInsn) /\ Len(p.insns) \in 1 .. Depth
        /\ p.channel \in Channels /\ p.repeat \in 0 .. MaxRepeat
    BY <1>3, Zenon DEF Loadable
  <2> DEFINE s == p.insns
  <2>2. DOMAIN s = 1 .. Len(s) /\ \A i \in DOMAIN s : s[i] \in DcInsn
    <3>1. s \in Seq(DcInsn)
      BY <2>1
    <3> HIDE DEF s
    <3> QED BY <3>1
  <2> QED BY <1>2, <2>1, <2>2
<1>4. Len(programs) \in Nat /\ DOMAIN programs = 1 .. Len(programs)
  BY <1>1
<1>5. \A k \in DOMAIN programs : programs[k] \in Loadable
  BY <1>1
<1> QED BY <1>3, <1>4, <1>5

\* The next instruction of a program.
LEMMA StoresNext ==
    ASSUME ParsedOK, NEW k \in DOMAIN programs, NEW i \in 0 .. Len(programs[k].insns),
           todo = BehindInsns(programs[k], i) \o BehindPrograms(k),
           Board(k - 1, k), launches = <<>>, CtrlGiven(k), Stored(k, i)
    PROVE  IF i < Len(programs[k].insns) THEN Storing(k, i + 1, 0) ELSE Starting(k, 0)
<1> DEFINE p == programs[k]
           N == Len(p.insns)
           r == BehindPrograms(k)
           b == BehindInsns(p, i + 1)
           o == InsnOps(p, i + 1)
           z == Closing(p)
<1>1. p \in Loadable /\ N \in Nat /\ DOMAIN p.insns = 1 .. N /\ k \in 0 .. Len(programs)
  BY Programs, SizesAssumption
<1>2. r \in Seq(Op)
  BY <1>1, BehindProgramsAre
<1>3. ASSUME i < N PROVE Storing(k, i + 1, 0)
  <2>1. i + 1 \in 0 .. N /\ i + 1 \in DOMAIN p.insns /\ (i + 1) - 1 = i
    BY <1>1, <1>3
  <2>2. BehindInsns(p, i) = o \o b
    BY <1>1, <1>3, BehindInsnsAre
  <2>3. b \in Seq(Op)
    BY <1>1, <2>1, BehindInsnsAre
  <2>4. o \in Seq(Op)
    BY <1>1, <2>1, InsnOpsAre
  <2>5. todo = (o \o b) \o r
    BY <2>2
  <2> HIDE DEF o, b, r
  <2>6. todo = o \o (b \o r) /\ b \o r \in Seq(Op)
    BY <1>2, <2>3, <2>4, <2>5, ConcatAssociative, TwoParts
  <2>7. Within(o, 0, b \o r)
    BY <2>4, <2>6, GroupStarts
  <2>8. Stored(k, IF 0 >= 6 THEN i + 1 ELSE (i + 1) - 1)
    BY <2>1
  <2> QED BY <2>7, <2>8 DEF Storing, o, b, r
<1>4. ASSUME ~(i < N) PROVE Starting(k, 0)
  <2>1. i = N
    BY <1>1, <1>4
  <2>2. BehindInsns(p, i) = z
    BY <1>1, <2>1, BehindInsnsAre
  <2>3. z \in Seq(Op)
    BY <1>1, ClosingIs
  <2>4. todo = z \o r
    BY <2>2
  <2>5. Within(z, 0, r)
    BY <1>2, <2>3, <2>4, GroupStarts
  <2>6. Stored(k, Len(p.insns))
    BY <2>1
  <2> QED BY <2>5, <2>6 DEF Starting
<1> QED BY <1>3, <1>4

\* A board that is between two programs is one in the next program.
LEMMA BoardNext ==
    ASSUME ParsedOK, NEW k \in 0 .. Len(programs), Board(k, k)
    PROVE  Board(k, k + 1)
<1>1. k \in Nat
  BY Programs
<1>2. Kept(k, k) => Kept(k, k + 1)
  <2> SUFFICES ASSUME Kept(k, k), NEW j \in 1 .. k, Latest(j, k + 1)
               PROVE  /\ Stored(j, Len(programs[j].insns))
                      /\ depth[programs[j].channel] = Len(programs[j].insns) - 1
    BY DEF Kept
  <2>1. \A i \in j + 1 .. k : i \in j + 1 .. k + 1
    BY <1>1
  <2>2. Latest(j, k)
    BY <2>1 DEF Latest
  <2> QED BY <2>2 DEF Kept
<1>3. Untouched(k) => Untouched(k + 1)
  <2>1. \A j \in 1 .. k : j \in 1 .. k + 1
    BY <1>1
  <2> QED BY <2>1 DEF Untouched
<1> QED BY <1>2, <1>3 DEF Board

\* The next program, or the launch.
LEMMA LoadsNext ==
    ASSUME ParsedOK, NEW k \in 0 .. Len(programs), Loaded(k)
    PROVE  \/ k < Len(programs) /\ Controlling(k + 1, 0) /\ CtrlOps(programs[k + 1]) # <<>>
           \/ k < Len(programs) /\ Storing(k + 1, 1, 0)
           \/ launch = <<>> /\ Sent
           \/ launch # <<>> /\ Launching(0)
<1> DEFINE N == Len(programs)
<1>1. N \in Nat /\ Board(k, k) /\ launches = <<>> /\ todo = BehindPrograms(k)
  BY Programs DEF Loaded
<1>2. CASE k < N
  <2> DEFINE p == programs[k + 1]
             c == CtrlOps(p)
             b == BehindInsns(p, 0)
             r == BehindPrograms(k + 1)
  <2>1. k + 1 \in DOMAIN programs /\ k + 1 \in 0 .. N /\ (k + 1) - 1 = k
    BY <1>1, <1>2, Programs
  <2>2. p \in Loadable /\ Len(p.insns) \in Nat \ {0}
    BY <2>1, Programs, SizesAssumption
  <2>3. c \in Seq(Op) /\ b \in Seq(Op) /\ r \in Seq(Op)
    <3>1. c \in Seq(Op) /\ b \in Seq(Op)
      BY <2>2, ProgramIs
    <3>2. r \in Seq(Op)
      BY <2>1, BehindProgramsAre
    <3> QED BY <3>1, <3>2
  <2>4. todo = c \o (b \o r)
    BY <1>1, <1>2, BehindProgramsAre
  <2>5. Board(k, k + 1)
    BY <1>1, BoardNext
  <2>6. CASE c # <<>>
    <3>1. b \o r \in Seq(Op)
      BY <2>3, TwoParts
    <3>2. Within(c, 0, b \o r)
      BY <2>3, <2>4, <3>1, GroupStarts
    <3>3. Len(c) - 3 \in Nat
      BY <2>2, <2>6, CtrlOpsAre
    <3>4. ~(0 >= Len(c) - 1)
      BY <3>3, <2>3
    <3> QED BY <1>1, <1>2, <2>1, <2>5, <2>6, <3>2, <3>4 DEF Controlling
  <2>7. CASE c = <<>>
    <3>1. b \o r \in Seq(Op)
      BY <2>3, TwoParts
    <3>2. todo = b \o r
      BY <2>4, <2>7, <3>1, EmptyFirst
    <3>3. CtrlGiven(k + 1)
      BY <2>2, <2>7, CtrlOpsAre DEF CtrlGiven
    <3>4. Stored(k + 1, 0)
      BY DEF Stored
    <3>5. 0 \in 0 .. Len(p.insns) /\ 0 < Len(p.insns) /\ 0 + 1 = 1
      BY <2>2
    <3>6. Board((k + 1) - 1, k + 1)
      BY <2>1, <2>5
    <3>7. Storing(k + 1, 0 + 1, 0)
      BY <1>1, <2>1, <3>2, <3>3, <3>4, <3>5, <3>6, StoresNext
    <3> QED BY <1>2, <3>5, <3>7
  <2> QED BY <2>6, <2>7
<1>3. CASE k = N
  <2>1. todo = LaunchPart /\ Board(N, N)
    BY <1>1, <1>3, BehindProgramsAre
  <2>2. CASE launch = <<>>
    BY <1>3, <2>1, <2>2 DEF LaunchPart, Sent
  <2>3. CASE launch # <<>>
    <3>1. launch[1] \in Launchable /\ Len(launch[1].marker_sels) <= 1
      BY <2>3, EmptySeq DEF ParsedOK
    <3>2. LaunchOps(launch[1]) \in Seq(Op)
      BY <3>1, LaunchOpsAre
    <3> DEFINE o == LaunchOps(launch[1])
    <3>3. todo = o /\ <<>> \in Seq(Op)
      BY <2>1, <2>3 DEF LaunchPart
    <3>4. todo = o \o <<>>
      BY <3>2, <3>3, EmptyFirst
    <3>5. Within(o, 0, <<>>)
      BY <3>2, <3>3, <3>4, GroupStarts
    <3> QED BY <1>1, <2>1, <2>3, <3>5 DEF Launching
  <2> QED BY <2>2, <2>3
<1> QED BY <1>1, <1>2, <1>3

\* Behind k programs the session goes on, or is over.
LEMMA LoadedGoesOn ==
    ASSUME ParsedOK, NEW k \in 0 .. Len(programs), Loaded(k)
    PROVE  Underway \/ Sent
<1>1. CASE k < Len(programs) /\ Controlling(k + 1, 0) /\ CtrlOps(programs[k + 1]) # <<>>
  <2>1. k + 1 \in DOMAIN programs /\ programs[k + 1] \in Loadable
    BY <1>1, Programs
  <2>2. CtrlOps(programs[k + 1]) \in Seq(Op)
    BY <2>1, CtrlOpsAre
  <2>3. Len(CtrlOps(programs[k + 1])) \in Nat \ {0}
    BY <1>1, <2>2, EmptySeq
  <2>4. 0 \in 0 .. Len(CtrlOps(programs[k + 1])) - 1
    BY <2>3
  <2> QED BY <1>1, <2>1, <2>4 DEF Underway
<1>2. CASE k < Len(programs) /\ Storing(k + 1, 1, 0)
  <2>1. k + 1 \in DOMAIN programs
    BY <1>2, Programs
  <2>2. 1 \in DOMAIN programs[k + 1].insns /\ 0 \in 0 .. 6
    BY <2>1, Programs, SizesAssumption
  <2> QED BY <1>2, <2>1, <2>2 DEF Underway
<1>3. CASE launch = <<>> /\ Sent
  BY <1>3
<1>4. CASE launch # <<>> /\ Launching(0)
  <2>1. launch[1] \in Launchable /\ Len(launch[1].marker_sels) <= 1
    BY <1>4, EmptySeq DEF ParsedOK
  <2>2. Len(LaunchOps(launch[1])) >= 6 /\ LaunchOps(launch[1]) \in Seq(Op)
    BY <2>1, LaunchOpsAre
  <2>3. Len(LaunchOps(launch[1])) \in Nat
    BY <2>2
  <2>4. 0 \in 0 .. Len(LaunchOps(launch[1])) - 1
    BY <2>2, <2>3
  <2> QED BY <1>4, <2>4 DEF Underway
<1> QED BY <1>1, <1>2, <1>3, <1>4, LoadsNext

\* Every instruction that is stored is followed by the next one or the start.
LEMMA StoredGoesOn ==
    ASSUME ParsedOK, NEW k \in DOMAIN programs, NEW i \in 0 .. Len(programs[k].insns),
           todo = BehindInsns(programs[k], i) \o BehindPrograms(k),
           Board(k - 1, k), launches = <<>>, CtrlGiven(k), Stored(k, i)
    PROVE  Underway
<1>1. Len(programs[k].insns) \in Nat /\ DOMAIN programs[k].insns = 1 .. Len(programs[k].insns)
  BY Programs, SizesAssumption
<1>2. CASE i < Len(programs[k].insns)
  <2>1. Storing(k, i + 1, 0)
    BY <1>2, StoresNext
  <2>2. i + 1 \in DOMAIN programs[k].insns /\ 0 \in 0 .. 6
    BY <1>1, <1>2
  <2> QED BY <2>1, <2>2 DEF Underway
<1>3. CASE ~(i < Len(programs[k].insns))
  <2>1. Starting(k, 0)
    BY <1>3, StoresNext
  <2>2. 0 \in 0 .. 4
    OBVIOUS
  <2> QED BY <2>1, <2>2 DEF Underway
<1> QED BY <1>2, <1>3

\* A session sends a command, or is over.
LEMMA GoesOn ==
    ASSUME ParsedOK, Sending
    PROVE  Underway \/ Sent
<1>1. ASSUME NEW n \in 0 .. 3, Clearing(n) PROVE Underway \/ Sent
  <2>1. CASE n \in 0 .. 2
    BY <1>1, <2>1 DEF Underway
  <2>2. CASE n = 3
    <3>1. 0 \in 0 .. Len(programs)
      BY Programs
    <3>2. BehindPrograms(0) \in Seq(Op)
      BY <3>1, BehindProgramsAre
    <3>3. ClearLaunchOps \in Seq(Op) /\ Len(ClearLaunchOps) = n
      BY <2>2, ClearingIs
    <3>4. todo = From(ClearLaunchOps, n) \o BehindPrograms(0) /\ Board(0, 0) /\ launches = <<>>
      BY <1>1 DEF Clearing, Within
    <3>5. todo = BehindPrograms(0)
      BY <3>2, <3>3, <3>4, GroupEnds
    <3>6. Loaded(0)
      BY <3>4, <3>5 DEF Loaded
    <3> QED BY <3>1, <3>6, LoadedGoesOn
  <2> QED BY <2>1, <2>2
<1>2. ASSUME NEW k \in 0 .. Len(programs), Loaded(k) PROVE Underway \/ Sent
  BY <1>2, LoadedGoesOn
<1>3. ASSUME NEW k \in DOMAIN programs
      PROVE  /\ programs[k] \in Loadable /\ BehindPrograms(k) \in Seq(Op)
             /\ Len(programs[k].insns) \in Nat
             /\ DOMAIN programs[k].insns = 1 .. Len(programs[k].insns)
             /\ k \in 0 .. Len(programs)
  <2>1. k \in 0 .. Len(programs)
    BY Programs
  <2>2. /\ programs[k] \in Loadable /\ Len(programs[k].insns) \in 1 .. Depth
        /\ DOMAIN programs[k].insns = 1 .. Len(programs[k].insns)
    BY Programs
  <2>3. BehindPrograms(k) \in Seq(Op)
    BY <2>1, BehindProgramsAre
  <2>4. Len(programs[k].insns) \in Nat
    BY <2>2, SizesAssumption
  <2> QED BY <2>1, <2>2, <2>3, <2>4
<1>4. ASSUME NEW k \in DOMAIN programs, NEW n \in 0 .. Len(CtrlOps(programs[k])), Controlling(k, n)
      PROVE  Underway
  <2> DEFINE c == CtrlOps(programs[k])
             r == BehindInsns(programs[k], 0) \o BehindPrograms(k)
  <2>1. c \in Seq(Op)
    BY <1>3, CtrlOpsAre
  <2>2. Len(c) \in Nat
    BY <2>1
  <2>3. CASE n < Len(c)
    <3>1. n \in 0 .. Len(c) - 1
      BY <2>2, <2>3
    <3> QED BY <1>4, <3>1 DEF Underway
  <2>4. CASE n = Len(c)
    <3>1. 0 \in 0 .. Len(programs[k].insns)
      BY <1>3
    <3>2. BehindInsns(programs[k], 0) \in Seq(Op)
      BY <1>3, <3>1, BehindInsnsAre
    <3>3. r \in Seq(Op)
      BY <1>3, <3>2, TwoParts
    <3>4. todo = From(c, n) \o r /\ Board(k - 1, k) /\ launches = <<>>
          /\ (n >= Len(c) - 1 => CtrlGiven(k))
      BY <1>4 DEF Controlling, Within
    <3>5. todo = r
      <4> HIDE DEF c, r
      <4> QED BY <2>1, <2>4, <3>3, <3>4, GroupEnds
    <3>6. CtrlGiven(k)
      BY <2>2, <2>4, <3>4
    <3>7. Stored(k, 0)
      BY DEF Stored
    <3> QED BY <3>1, <3>4, <3>5, <3>6, <3>7, StoredGoesOn
  <2> QED BY <2>2, <2>3, <2>4
<1>5. ASSUME NEW k \in DOMAIN programs, NEW i \in DOMAIN programs[k].insns, NEW n \in 0 .. 7,
             Storing(k, i, n)
      PROVE  Underway
  <2>1. CASE n \in 0 .. 6
    BY <1>5, <2>1 DEF Underway
  <2>2. CASE n = 7
    <3> DEFINE o == InsnOps(programs[k], i)
               r == BehindInsns(programs[k], i) \o BehindPrograms(k)
    <3>1. i \in 0 .. Len(programs[k].insns)
      BY <1>3
    <3>2. BehindInsns(programs[k], i) \in Seq(Op)
      BY <1>3, <3>1, BehindInsnsAre
    <3>3. r \in Seq(Op)
      BY <1>3, <3>2, TwoParts
    <3>4. o \in Seq(Op) /\ Len(o) = n
      BY <1>3, <2>2, InsnOpsAre
    <3>5. todo = From(o, n) \o r /\ Board(k - 1, k) /\ launches = <<>> /\ CtrlGiven(k)
          /\ Stored(k, IF n >= 6 THEN i ELSE i - 1)
      BY <1>5 DEF Storing, Within
    <3>6. todo = r
      <4> HIDE DEF o, r
      <4> QED BY <3>3, <3>4, <3>5, GroupEnds
    <3>7. Stored(k, i)
      BY <2>2, <3>5
    <3> QED BY <3>1, <3>5, <3>6, <3>7, StoredGoesOn
  <2> QED BY <2>1, <2>2
<1>6. ASSUME NEW k \in DOMAIN programs, NEW n \in 0 .. 5, Starting(k, n)
      PROVE  Underway \/ Sent
  <2>1. CASE n \in 0 .. 4
    BY <1>6, <2>1 DEF Underway
  <2>2. CASE n = 5
    <3> DEFINE o == Closing(programs[k])
               r == BehindPrograms(k)
    <3>1. o \in Seq(Op) /\ Len(o) = n /\ r \in Seq(Op)
      BY <1>3, <2>2, ClosingIs
    <3>2. todo = From(o, n) \o r /\ Board(k, k) /\ launches = <<>>
      BY <1>6, <2>2 DEF Starting, Within
    <3>3. todo = r
      <4> HIDE DEF o, r
      <4> QED BY <3>1, <3>2, GroupEnds
    <3>4. Loaded(k)
      BY <3>2, <3>3 DEF Loaded
    <3> QED BY <1>3, <3>4, LoadedGoesOn
  <2> QED BY <2>1, <2>2
<1>7. ASSUME launch # <<>>, NEW n \in 0 .. Len(LaunchOps(launch[1])), Launching(n)
      PROVE  Underway \/ Sent
  <2> DEFINE o == LaunchOps(launch[1])
  <2>1. launch[1] \in Launchable /\ Len(launch[1].marker_sels) <= 1
    BY <1>7, EmptySeq DEF ParsedOK
  <2>2. o \in Seq(Op)
    BY <2>1, LaunchOpsAre
  <2>3. Len(o) \in Nat
    BY <2>2
  <2>4. CASE n < Len(o)
    <3>1. n \in 0 .. Len(o) - 1
      BY <2>3, <2>4
    <3> QED BY <1>7, <3>1 DEF Underway
  <2>5. CASE n = Len(o)
    <3>1. todo = From(o, n) \o <<>> /\ <<>> \in Seq(Op)
      BY <1>7 DEF Launching, Within
    <3>2. todo = <<>>
      <4> HIDE DEF o
      <4> QED BY <2>2, <2>5, <3>1, GroupEnds
    <3> QED BY <1>7, <2>5, <3>2 DEF Sent
  <2> QED BY <2>3, <2>4, <2>5
<1> QED BY <1>1, <1>2, <1>4, <1>5, <1>6, <1>7 DEF Sending

-----------------------------------------------------------------------------
(* What a command does to the board. *)

\* The board keeps its shape.
LEMMA WriteType ==
    ASSUME BoardType, NEW c, Write(c)
    PROVE  BoardType'
<1>1. regs' = [regs EXCEPT ![c.reg] = c.data]
  BY DEF Write
<1>2. regs' = [r \in Regs |-> regs'[r]]
  BY <1>1 DEF BoardType
<1>3. CASE ApplyCtrl(c)
  BY <1>2, <1>3 DEF ApplyCtrl, BoardType
<1>4. CASE StoreInsn(c)
  <2>1. mem' = [ch \in Channels |-> IF ch \in Rising(c) THEN [mem[ch] EXCEPT ![regs["IST_ADDR"]] = Word]
                                   ELSE mem[ch]]
    BY <1>4 DEF StoreInsn
  <2>2. ASSUME NEW ch \in Channels PROVE mem'[ch] = [a \in 0 .. Depth - 1 |-> mem'[ch][a]]
    <3>1. mem[ch] = [a \in 0 .. Depth - 1 |-> mem[ch][a]]
      BY DEF BoardType
    <3>2. CASE ch \in Rising(c)
      <4>1. mem'[ch] = [mem[ch] EXCEPT ![regs["IST_ADDR"]] = Word]
        BY <2>1, <3>2
      <4> QED BY <3>1, <4>1
    <3>3. CASE ch \notin Rising(c)
      BY <2>1, <3>1, <3>3
    <3> QED BY <3>2, <3>3
  <2>3. mem' = [ch \in Channels |-> mem'[ch]]
    BY <2>1
  <2>4. ctrl' = ctrl /\ depth' = depth
    BY <1>4 DEF StoreInsn
  <2> QED BY <1>2, <2>2, <2>3, <2>4 DEF BoardType
<1>5. CASE StartChannels(c)
  BY <1>2, <1>5 DEF StartChannels, BoardType
<1>6. CASE NewControl(c) \/ ClearLaunches(c) \/ LatchWord(c) \/ SetValue(c)
  BY <1>2, <1>6 DEF NewControl, ClearLaunches, LatchWord, SetValue, BoardType
<1> QED BY <1>3, <1>4, <1>5, <1>6 DEF Write

\* A register that is no strobe, or a strobe for nobody, does nothing by itself.
LEMMA QuietWrite ==
    ASSUME BoardType, NEW c, Write(c), c.reg \notin Strobes \/ c.data = {},
           NEW k \in Nat, runs = [j \in 1 .. k |-> runs[j]]
    PROVE  UNCHANGED <<mem, ctrl, runs, launches, depth, insn_rd>>
<1>1. CASE SetValue(c)
  BY <1>1 DEF SetValue
<1>2. CASE ~SetValue(c)
  <2>1. c.reg \in Strobes
    BY <1>2 DEF Write, SetValue, ApplyCtrl, StoreInsn, StartChannels, NewControl, ClearLaunches,
       LatchWord, Strobes
  <2>2. Rising(c) = {}
    BY <2>1 DEF Rising
  <2>3. CASE ApplyCtrl(c)
    BY <2>2, <2>3 DEF ApplyCtrl, BoardType
  <2>4. CASE StoreInsn(c)
    BY <2>2, <2>4 DEF StoreInsn, BoardType
  <2>5. CASE StartChannels(c)
    <3>1. {Run(ch) : ch \in Rising(c)} = {}
      BY <2>2
    <3>2. runs' = runs \o <<>>
      BY <2>5, <3>1, SeqOfFew DEF StartChannels
    <3>3. runs \o <<>> = runs
      <4> DEFINE A == {runs[j] : j \in 1 .. k}
      <4>1. runs \in Seq(A)
        <5>1. \A j \in 1 .. k : runs[j] \in A
          OBVIOUS
        <5> HIDE DEF A
        <5>2. [j \in 1 .. k |-> runs[j]] \in Seq(A)
          BY <5>1
        <5> QED BY <5>2
      <4> HIDE DEF A
      <4> QED BY <4>1, EmptyFirst
    <3>4. depth' = depth
      BY <2>2, <2>5 DEF StartChannels, BoardType
    <3> QED BY <2>5, <3>2, <3>3, <3>4 DEF StartChannels
  <2>6. CASE NewControl(c)
    BY <2>2, <2>6 DEF NewControl
  <2>7. CASE LatchWord(c)
    BY <2>2, <2>7 DEF LatchWord
  <2>8. CASE ClearLaunches(c)
    BY <2>2, <2>8 DEF ClearLaunches
  <2> QED BY <1>2, <2>3, <2>4, <2>5, <2>6, <2>7, <2>8 DEF Write
<1> QED BY <1>1, <1>2

\* Memories and starts that are not written are as they were.
LEMMA SameKept ==
    ASSUME UNCHANGED <<programs, mem, depth>>, NEW k, NEW m
    PROVE  /\ Kept(k, m) => Kept(k, m)'
           /\ Stored(k, m) => Stored(k, m)'
BY DEF Kept, Latest, Stored

\* Runs that are not changed are those of the same programs.
LEMMA SameStarted ==
    ASSUME UNCHANGED <<programs, runs>>, NEW k, Started(k)
    PROVE  Started(k)'
<1>1. runs = [j \in 1 .. k |-> runs[j]] /\ \A j \in 1 .. k : Starts(j, runs[j])
  BY DEF Started
<1>2. runs' = [j \in 1 .. k |-> runs'[j]]
  BY <1>1
<1>3. \A j \in 1 .. k : Starts(j, runs[j])'
  BY <1>1 DEF Starts
<1> QED BY <1>2, <1>3 DEF Started

\* A board that is not written is as it was.
LEMMA SameBoard ==
    ASSUME UNCHANGED <<programs, mem, ctrl, runs, depth>>, NEW k, NEW m
    PROVE  /\ Board(k, m) => Board(k, m)'
           /\ CtrlGiven(k) => CtrlGiven(k)'
           /\ Stored(k, m) => Stored(k, m)'
<1>1. CtrlGiven(k) => CtrlGiven(k)'
  BY DEF CtrlGiven
<1>2. Untouched(m) => Untouched(m)'
  BY DEF Untouched
<1> QED BY <1>1, <1>2, SameKept, SameStarted DEF Board

\* The next command of a group.
LEMMA WithinNext ==
    ASSUME BoardType, NEW ops \in Seq(Op), NEW rest \in Seq(Op), NEW n \in 0 .. Len(ops) - 1,
           Within(ops, n, rest), SendNext
    PROVE  /\ Write(ops[n + 1]) /\ n + 1 \in 0 .. Len(ops)
           /\ todo' = From(ops, n + 1) \o rest /\ Hold(regs', ops, n + 1)
<1>1. /\ todo = From(ops, n) \o rest /\ Hold(regs, ops, n)
      /\ Write(Head(todo)) /\ todo' = Tail(todo)
  BY DEF Within, SendNext
<1>2. Head(todo) = ops[n + 1] /\ Tail(todo) = From(ops, n + 1) \o rest
  BY <1>1, Advance
<1>3. n \in Nat /\ n + 1 \in 0 .. Len(ops) /\ n + 1 \in 1 .. Len(ops)
  OBVIOUS
<1>4. ops[n + 1].reg \in Regs
  <2>1. ops[n + 1] \in Op
    BY <1>3
  <2> QED BY <2>1 DEF Op
<1>5. regs' = [regs EXCEPT ![ops[n + 1].reg] = ops[n + 1].data]
  BY <1>1, <1>2 DEF Write
<1>6. regs = [r \in Regs |-> regs[r]]
  BY DEF BoardType
<1>7. Hold(regs', ops, n + 1)
  BY <1>1, <1>3, <1>4, <1>5, <1>6, HoldNext
<1> QED BY <1>1, <1>2, <1>3, <1>7

\* What is left to be sent behind a program is the same in the next state.
LEMMA SameRest ==
    ASSUME UNCHANGED <<programs, launch>>, NEW k
    PROVE  BehindPrograms(k)' = BehindPrograms(k)
BY DEF BehindPrograms, LaunchPart

\* The launcher is cleared before the session launches anything.
LEMMA ClearingStep ==
    ASSUME ParsedOK, BoardType, SendNext, NEW n \in 0 .. 2, Clearing(n)
    PROVE  Clearing(n + 1)'
<1> DEFINE o == ClearLaunchOps
           r == BehindPrograms(0)
<1>1. /\ o \in Seq(Op) /\ Len(o) = 3 /\ o[1] = Set("LCH_CLR", {})
      /\ o[2] = Set("LCH_CLR", Launcher) /\ o[3] = Set("LCH_CLR", {})
  BY ClearingIs
<1>2. r \in Seq(Op)
  <2>1. 0 \in 0 .. Len(programs)
    BY Programs
  <2> QED BY <2>1, BehindProgramsAre
<1>3. Within(o, n, r) /\ Board(0, 0) /\ launches = <<>> /\ n \in 0 .. Len(o) - 1
  BY <1>1 DEF Clearing
<1>4. UNCHANGED <<programs, launch>>
  BY DEF SendNext, parsing
<1>5. r' = r
  BY <1>4, SameRest
<1> HIDE DEF o, r
<1>6. /\ Write(o[n + 1]) /\ n + 1 \in 0 .. Len(o)
      /\ todo' = From(o, n + 1) \o r /\ Hold(regs', o, n + 1)
  BY <1>1, <1>2, <1>3, WithinNext
<1>8. UNCHANGED <<mem, ctrl, runs, depth>> /\ launches' = <<>>
  <2>1. o[n + 1].reg = "LCH_CLR"
    <3>1. n = 0 \/ n = 1 \/ n = 2
      OBVIOUS
    <3> QED BY <1>1, <3>1 DEF Set
  <2>2. ClearLaunches(o[n + 1])
    BY <1>6, <2>1 DEF Write, ApplyCtrl, StoreInsn, StartChannels, NewControl, LatchWord, SetValue, Strobes
  <2> QED BY <1>3, <2>2 DEF ClearLaunches
<1>9. Board(0, 0)'
  BY <1>3, <1>4, <1>8, SameBoard
<1> QED BY <1>5, <1>6, <1>8, <1>9 DEF Clearing, Within, o, r

\* Control registers.
LEMMA ControllingStep ==
    ASSUME ParsedOK, BoardType, SendNext, NEW k \in DOMAIN programs,
           NEW n \in 0 .. Len(CtrlOps(programs[k])) - 1, Controlling(k, n)
    PROVE  Controlling(k, n + 1)'
<1> DEFINE p == programs[k]
           c == CtrlOps(p)
           b == BehindInsns(p, 0)
           q == BehindPrograms(k)
           r == b \o q
           m == Len(c) - 3
<1>1. p \in Loadable /\ k \in 0 .. Len(programs) /\ Len(p.insns) \in Nat /\ p.channel \in Channels
  BY Programs, SizesAssumption
<1>2. c \in Seq(Op) /\ Len(c) \in Nat
  <2>1. c \in Seq(Op)
    BY <1>1, CtrlOpsAre
  <2> QED BY <2>1
<1>3. r \in Seq(Op)
  <2>1. 0 \in 0 .. Len(p.insns)
    BY <1>1
  <2> QED BY <1>1, <2>1, BehindInsnsAre, BehindProgramsAre, TwoParts
<1>4. /\ m \in Nat /\ Len(c) = m + 3
      /\ c[m + 1] = Set("CTRL_STRB", {}) /\ c[m + 2] = Set("CTRL_STRB", {p.channel})
      /\ c[m + 3] = Set("CTRL_STRB", {})
      /\ \A i \in 1 .. m : c[i].reg \in CtrlRegs /\ c[i].data = p.ctrl[c[i].reg][1]
      /\ \A s \in CtrlRegs : p.ctrl[s] # <<>> => \E i \in 1 .. m : c[i].reg = s
  <2>1. c # <<>>
    BY <1>2
  <2>2. Len(c) = m + 3
    BY <1>2
  <2> QED BY <1>1, <2>1, <2>2, CtrlOpsAre
<1>5. /\ Within(c, n, r) /\ Board(k - 1, k) /\ launches = <<>>
      /\ n >= Len(c) - 1 => CtrlGiven(k)
  BY DEF Controlling
<1>6. UNCHANGED <<programs, launch>>
  BY DEF SendNext, parsing
<1>7. q' = q
  BY <1>6, SameRest
<1>8. n \in 0 .. Len(c) - 1
  OBVIOUS
<1> HIDE DEF c, r, m
<1>9. /\ Write(c[n + 1]) /\ n + 1 \in 0 .. Len(c)
      /\ todo' = From(c, n + 1) \o r /\ Hold(regs', c, n + 1)
  BY <1>2, <1>3, <1>5, <1>8, WithinNext
<1>10. runs = [j \in 1 .. k - 1 |-> runs[j]] /\ k - 1 \in Nat
  BY <1>5, Programs DEF Board, Started
<1>11. CASE n # m + 1
  <2>1. c[n + 1].reg \notin Strobes \/ c[n + 1].data = {}
    <3>1. CASE n + 1 \in 1 .. m
      <4>1. c[n + 1].reg \in CtrlRegs
        BY <1>4, <3>1
      <4> QED BY <4>1, Registers
    <3>2. CASE n = m \/ n = m + 2
      <4>1. (m + 2) + 1 = m + 3
        BY <1>4
      <4> QED BY <1>4, <3>2, <4>1 DEF Set
    <3> QED BY <1>4, <1>8, <1>11, <3>1, <3>2
  <2>2. UNCHANGED <<mem, ctrl, runs, launches, depth, insn_rd>>
    BY <1>9, <1>10, <2>1, QuietWrite
  <2>3. Board(k - 1, k)' /\ (CtrlGiven(k) => CtrlGiven(k)')
    BY <1>5, <1>6, <2>2, SameBoard
  <2>4. n + 1 >= Len(c) - 1 => n >= Len(c) - 1
    BY <1>4, <1>8, <1>11
  <2>5. n + 1 >= Len(c) - 1 => CtrlGiven(k)'
    BY <1>5, <2>3, <2>4
  <2>6. launches' = <<>>
    BY <1>5, <2>2
  <2> QED BY <1>6, <1>7, <1>9, <2>3, <2>5, <2>6 DEF Controlling, Within, c, r
<1>12. CASE n = m + 1
  <2>1. n + 1 = m + 2 /\ n \in Nat
    BY <1>4, <1>12
  <2>2. c[n + 1].reg = "CTRL_STRB" /\ c[n + 1].data = {p.channel}
    BY <1>4, <2>1 DEF Set
  <2>3. ApplyCtrl(c[n + 1])
    BY <1>9, <2>2 DEF Write, StoreInsn, StartChannels, NewControl, ClearLaunches, LatchWord, SetValue, Strobes
  <2>4. Hold(regs, c, n)
    BY <1>5 DEF Within
  <2>5. regs["CTRL_STRB"] = {}
    <3>1. m + 1 \in 1 .. n /\ \A i \in (m + 1) + 1 .. n : FALSE
      BY <1>4, <1>12
    <3>2. regs[c[m + 1].reg] = c[m + 1].data
      BY <2>4, <3>1 DEF Hold
    <3> QED BY <1>4, <3>2 DEF Set
  <2>6. Rising(c[n + 1]) = {p.channel}
    BY <2>2, <2>5 DEF Rising
  <2>7. UNCHANGED <<mem, runs, launches, depth>>
    BY <2>3 DEF ApplyCtrl
  <2>8. ctrl' = [ch \in Channels |-> IF ch \in {p.channel} THEN [s \in CtrlRegs |-> regs[s]] ELSE ctrl[ch]]
    BY <2>3, <2>6 DEF ApplyCtrl
  <2>9. ASSUME NEW s \in CtrlRegs, p.ctrl[s] # <<>> PROVE regs[s] = p.ctrl[s][1]
    <3>1. PICK i \in 1 .. m : c[i].reg = s
      BY <1>4, <2>9
    <3>2. i \in 1 .. n
      BY <1>4, <1>12
    <3>3. ASSUME NEW h \in i + 1 .. n, c[h].reg = c[i].reg PROVE c[h].data = c[i].data
      <4>1. CASE h \in 1 .. m
        BY <1>4, <3>3, <4>1
      <4>2. CASE h = m + 1
        <5>1. c[h].reg = "CTRL_STRB"
          BY <1>4, <4>2 DEF Set
        <5>2. "CTRL_STRB" \notin CtrlRegs
          BY DEF CtrlRegs
        <5> QED BY <3>1, <3>3, <5>1, <5>2
      <4>3. h \in 1 .. m \/ h = m + 1
        BY <1>4, <1>12
      <4> QED BY <4>1, <4>2, <4>3
    <3>4. regs[c[i].reg] = c[i].data
      BY <2>4, <3>2, <3>3 DEF Hold
    <3> QED BY <1>4, <3>1, <3>4
  <2>10. CtrlGiven(k)'
    <3>1. ctrl'[p.channel] = [s \in CtrlRegs |-> regs[s]]
      BY <1>1, <2>8
    <3>2. ASSUME NEW s \in CtrlRegs, p.ctrl[s] # <<>>
          PROVE  ctrl'[p.channel][s] = p.ctrl[s][1]
      BY <2>9, <3>1, <3>2
    <3> QED BY <1>6, <3>2 DEF CtrlGiven
  <2>11. Untouched(k)'
    <3>1. Untouched(k)
      BY <1>5 DEF Board
    <3>2. k \in 1 .. k
      BY Programs
    <3>3. ASSUME NEW ch \in Channels, \A j \in 1 .. k : programs[j].channel # ch
          PROVE  mem'[ch] = StaleMemory[ch] /\ ctrl'[ch] = StaleCtrl[ch]
      <4>1. ch # p.channel
        BY <3>2, <3>3
      <4>2. ctrl'[ch] = ctrl[ch] /\ mem'[ch] = mem[ch]
        BY <2>7, <2>8, <4>1
      <4> QED BY <3>1, <3>3, <4>2 DEF Untouched
    <3> QED BY <1>6, <3>3 DEF Untouched
  <2>12. Board(k - 1, k)'
    <3>1. Kept(k - 1, k) /\ Started(k - 1)
      BY <1>5 DEF Board
    <3>2. Kept(k - 1, k)' /\ Started(k - 1)'
      BY <1>6, <2>7, <3>1, SameKept, SameStarted
    <3> QED BY <2>11, <3>2 DEF Board
  <2>13. launches' = <<>>
    BY <1>5, <2>7
  <2> QED BY <1>6, <1>7, <1>9, <2>10, <2>12, <2>13 DEF Controlling, Within, c, r
<1> QED BY <1>11, <1>12

\* The channel of the k-th program is one that has a program.
LEMMA OthersUntouched ==
    ASSUME ParsedOK, NEW k \in DOMAIN programs, UNCHANGED programs, Untouched(k),
           \A ch \in Channels : ch # programs[k].channel => mem'[ch] = mem[ch] /\ ctrl'[ch] = ctrl[ch]
    PROVE  Untouched(k)'
<1>1. k \in 1 .. k
  BY Programs
<1>2. ASSUME NEW ch \in Channels, \A j \in 1 .. k : programs[j].channel # ch
      PROVE  mem'[ch] = StaleMemory[ch] /\ ctrl'[ch] = StaleCtrl[ch]
  <2>1. ch # programs[k].channel
    BY <1>1, <1>2
  <2> QED BY <1>2, <2>1 DEF Untouched
<1> QED BY <1>2 DEF Untouched

\* Earlier programs that are the last of their channels are not in the way of the k-th one.
LEMMA EarlierKept ==
    ASSUME ParsedOK, NEW k \in DOMAIN programs, UNCHANGED programs, Kept(k - 1, k),
           \A ch \in Channels : ch # programs[k].channel => mem'[ch] = mem[ch] /\ depth'[ch] = depth[ch]
    PROVE  Kept(k - 1, k)'
<1>1. \A j \in 1 .. k - 1 : programs[j].channel \in Channels /\ k \in j + 1 .. k
  BY Programs
<1>2. ASSUME NEW j \in 1 .. k - 1, Latest(j, k)
      PROVE  /\ \A i \in 1 .. Len(programs[j].insns) :
                   mem'[programs[j].channel][i - 1] = Encode(programs[j].insns[i])
             /\ depth'[programs[j].channel] = Len(programs[j].insns) - 1
  <2>1. programs[j].channel # programs[k].channel /\ programs[j].channel \in Channels
    BY <1>1, <1>2 DEF Latest
  <2>2. Stored(j, Len(programs[j].insns)) /\ depth[programs[j].channel] = Len(programs[j].insns) - 1
    BY <1>2 DEF Kept
  <2> QED BY <2>1, <2>2 DEF Stored
<1> QED BY <1>2 DEF Kept, Latest, Stored

\* Registers that differ hold what has been written to each.
LEMMA HoldDistinct ==
    ASSUME NEW o, NEW n \in Nat, Hold(regs, o, n),
           \A j, h \in 1 .. n : h # j => o[h].reg # o[j].reg
    PROVE  \A j \in 1 .. n : regs[o[j].reg] = o[j].data
<1> TAKE j \in 1 .. n
<1>1. \A h \in j + 1 .. n : h \in 1 .. n /\ h # j
  OBVIOUS
<1> QED BY <1>1, Zenon DEF Hold

\* Instructions.
LEMMA StoringStep ==
    ASSUME ParsedOK, BoardType, SendNext, NEW k \in DOMAIN programs,
           NEW i \in DOMAIN programs[k].insns, NEW n \in 0 .. 6, Storing(k, i, n)
    PROVE  Storing(k, i, n + 1)'
<1> DEFINE p == programs[k]
           o == InsnOps(p, i)
           w == ToRegs(p.insns[i])
           b == BehindInsns(p, i)
           q == BehindPrograms(k)
           r == b \o q
<1>1. /\ p \in Loadable /\ k \in 0 .. Len(programs) /\ Len(p.insns) \in Nat /\ p.channel \in Channels
      /\ i \in 1 .. Len(p.insns) /\ i \in 0 .. Len(p.insns) /\ i - 1 \in 0 .. Depth - 1
      /\ p.insns[i] \in DcInsn
  BY Programs, SizesAssumption
<1>2. /\ o \in Seq(Op) /\ Len(o) = 7
      /\ o[1] = Set("IST_ADDR", i - 1) /\ o[2] = Set("IST_LO", w[1])
      /\ o[3] = Set("IST_MID", w[2]) /\ o[4] = Set("IST_HI", w[3])
      /\ o[5] = Set("IST_STRB", {}) /\ o[6] = Set("IST_STRB", {p.channel})
      /\ o[7] = Set("IST_STRB", {})
  BY <1>1, InsnOpsAre
<1>3. r \in Seq(Op)
  BY <1>1, BehindInsnsAre, BehindProgramsAre, TwoParts
<1>4. /\ Within(o, n, r) /\ Board(k - 1, k) /\ launches = <<>>
      /\ CtrlGiven(k) /\ Stored(k, IF n >= 6 THEN i ELSE i - 1)
  BY DEF Storing
<1>5. UNCHANGED <<programs, launch>>
  BY DEF SendNext, parsing
<1>6. q' = q
  BY <1>5, SameRest
<1>7. n \in 0 .. Len(o) - 1
  BY <1>2
<1> HIDE DEF o, w, r
<1>8. /\ Write(o[n + 1]) /\ n + 1 \in 0 .. Len(o)
      /\ todo' = From(o, n + 1) \o r /\ Hold(regs', o, n + 1)
  BY <1>2, <1>3, <1>4, <1>7, WithinNext
<1>9. runs = [j \in 1 .. k - 1 |-> runs[j]] /\ k - 1 \in Nat
  BY <1>4, Programs DEF Board, Started
<1>10. CASE n # 5
  <2>1. o[n + 1].reg \notin Strobes \/ o[n + 1].data = {}
    <3>1. n \in {0, 1, 2, 3, 4, 6}
      BY <1>10
    <3>2. /\ o[0 + 1].reg \notin Strobes /\ o[1 + 1].reg \notin Strobes
          /\ o[2 + 1].reg \notin Strobes /\ o[3 + 1].reg \notin Strobes
      BY <1>2 DEF Set, Strobes
    <3>3. o[4 + 1].data = {} /\ o[6 + 1].data = {}
      BY <1>2 DEF Set
    <3> QED BY <3>1, <3>2, <3>3
  <2>2. UNCHANGED <<mem, ctrl, runs, launches, depth, insn_rd>>
    BY <1>8, <1>9, <2>1, QuietWrite
  <2>3. Board(k - 1, k)' /\ CtrlGiven(k)'
    BY <1>4, <1>5, <2>2, SameBoard
  <2>4. Stored(k, IF n >= 6 THEN i ELSE i - 1)'
    BY <1>4, <1>5, <2>2, SameBoard
  <2>5. (IF n + 1 >= 6 THEN i ELSE i - 1) = (IF n >= 6 THEN i ELSE i - 1)
    BY <1>10
  <2>6. Stored(k, IF n + 1 >= 6 THEN i ELSE i - 1)'
    BY <2>4, <2>5
  <2>7. launches' = <<>>
    BY <1>4, <2>2
  <2> QED BY <1>5, <1>6, <1>8, <2>3, <2>6, <2>7 DEF Storing, Within, o, r
<1>11. CASE n = 5
  <2> DEFINE ch == p.channel
  <2>1. o[n + 1].reg = "IST_STRB" /\ o[n + 1].data = {ch}
    BY <1>2, <1>11 DEF Set
  <2>2. StoreInsn(o[n + 1])
    BY <1>8, <2>1 DEF Write, ApplyCtrl, StartChannels, NewControl, ClearLaunches, LatchWord, SetValue, Strobes
  <2>3. Hold(regs, o, 5)
    BY <1>4, <1>11 DEF Within
  <2>5. /\ regs["IST_ADDR"] = i - 1 /\ regs["IST_LO"] = w[1] /\ regs["IST_MID"] = w[2]
        /\ regs["IST_HI"] = w[3] /\ regs["IST_STRB"] = {}
    <3>1. /\ o[1].reg = "IST_ADDR" /\ o[2].reg = "IST_LO" /\ o[3].reg = "IST_MID"
          /\ o[4].reg = "IST_HI" /\ o[5].reg = "IST_STRB"
      BY <1>2 DEF Set
    <3>2. \A j, h \in 1 .. 5 : h # j => o[h].reg # o[j].reg
      BY <3>1
    <3>3. \A j \in 1 .. 5 : regs[o[j].reg] = o[j].data
      BY <2>3, <3>2, HoldDistinct
    <3>4. /\ o[1].data = i - 1 /\ o[2].data = w[1] /\ o[3].data = w[2]
          /\ o[4].data = w[3] /\ o[5].data = {}
      BY <1>2 DEF Set
    <3>5. /\ regs[o[1].reg] = o[1].data /\ regs[o[2].reg] = o[2].data /\ regs[o[3].reg] = o[3].data
          /\ regs[o[4].reg] = o[4].data /\ regs[o[5].reg] = o[5].data
      BY <3>3
    <3> QED BY <3>1, <3>4, <3>5
  <2>6. Rising(o[n + 1]) = {ch}
    BY <2>1, <2>5 DEF Rising
  <2>7. Word = Encode(p.insns[i])
    <3>1. w = <<w[1], w[2], w[3]>>
      BY <1>1, PartsAreNumbers DEF w
    <3>2. Word = FromRegs(w)
      BY <2>5, <3>1 DEF Word
    <3> QED BY <1>1, <3>2, WordStored DEF w
  <2>8. UNCHANGED <<ctrl, runs, launches, depth>>
    BY <2>2 DEF StoreInsn
  <2>9. mem' = [c \in Channels |-> IF c \in {ch} THEN [mem[c] EXCEPT ![i - 1] = Encode(p.insns[i])]
                                  ELSE mem[c]]
    BY <2>2, <2>5, <2>6, <2>7 DEF StoreInsn
  <2>10. \A c \in Channels : c # ch => mem'[c] = mem[c] /\ ctrl'[c] = ctrl[c] /\ depth'[c] = depth[c]
    BY <2>8, <2>9
  <2>11. mem'[ch] = [mem[ch] EXCEPT ![i - 1] = Encode(p.insns[i])]
    BY <1>1, <2>9
  <2>12. Stored(k, i)'
    <3>1. Stored(k, i - 1)
      BY <1>4, <1>11
    <3>2. ASSUME NEW j \in 1 .. i PROVE mem'[ch][j - 1] = Encode(p.insns[j])
      <4>1. mem[ch] = [a \in 0 .. Depth - 1 |-> mem[ch][a]]
        BY <1>1 DEF BoardType
      <4>2. CASE j = i
        BY <1>1, <2>11, <4>1, <4>2
      <4>3. CASE j # i
        <5>1. j \in 1 .. i - 1 /\ j - 1 # i - 1
          BY <1>1, <4>3
        <5>2. mem'[ch][j - 1] = mem[ch][j - 1]
          BY <2>11, <5>1
        <5> QED BY <3>1, <5>1, <5>2 DEF Stored
      <4> QED BY <4>2, <4>3
    <3> QED BY <1>5, <3>2 DEF Stored
  <2>13. Board(k - 1, k)'
    <3>1. Kept(k - 1, k) /\ Started(k - 1) /\ Untouched(k)
      BY <1>4 DEF Board
    <3>2. Kept(k - 1, k)'
      BY <1>5, <2>10, <3>1, EarlierKept
    <3>3. Untouched(k)'
      BY <1>5, <2>10, <3>1, OthersUntouched
    <3>4. Started(k - 1)'
      BY <1>5, <2>8, <3>1, SameStarted
    <3> QED BY <3>2, <3>3, <3>4 DEF Board
  <2>14. CtrlGiven(k)'
    BY <1>4, <1>5, <2>8 DEF CtrlGiven
  <2>15. launches' = <<>>
    BY <1>4, <2>8
  <2>16. Stored(k, IF n + 1 >= 6 THEN i ELSE i - 1)'
    BY <1>11, <2>12
  <2> QED BY <1>5, <1>6, <1>8, <2>13, <2>14, <2>15, <2>16 DEF Storing, Within, o, r
<1> QED BY <1>10, <1>11

\* The run that a start gives is the one the program asks for.
LEMMA RunIsAsked ==
    ASSUME ParsedOK, BoardType, NEW k \in DOMAIN programs,
           regs["ITERS"] = programs[k].repeat, regs["DEPTH"] = Len(programs[k].insns) - 1,
           CtrlGiven(k), Stored(k, Len(programs[k].insns))
    PROVE  Starts(k, Run(programs[k].channel))
<1> DEFINE p == programs[k]
           ch == p.channel
           N == Len(p.insns)
           run == Run(ch)
<1>1. p \in Loadable /\ N \in Nat /\ DOMAIN p.insns = 1 .. N
  BY Programs, SizesAssumption
<1>2. /\ run.channel = ch /\ run.iters = regs["ITERS"] % IterMod /\ run.ctrl = ctrl[ch]
      /\ run.words = [j \in 1 .. regs["DEPTH"] + 1 |-> mem[ch][j - 1]]
  BY DEF Run
<1>3. run.words = [j \in DOMAIN p.insns |-> Encode(p.insns[j])]
  <2>1. regs["DEPTH"] + 1 = N
    BY <1>1
  <2>2. \A j \in 1 .. N : mem[ch][j - 1] = Encode(p.insns[j])
    BY DEF Stored
  <2>3. run.words = [j \in 1 .. N |-> mem[ch][j - 1]]
    BY <1>2, <2>1
  <2> HIDE DEF run, N, ch
  <2>4. run.words = [j \in 1 .. N |-> Encode(p.insns[j])]
    BY <2>2, <2>3
  <2> QED BY <1>1, <2>4
<1>4. \A r \in CtrlRegs : p.ctrl[r] # <<>> => run.ctrl[r] = p.ctrl[r][1]
  BY <1>2 DEF CtrlGiven
<1>5. run.iters = p.repeat % IterMod
  BY <1>2
<1> HIDE DEF run
<1>6. Starts(k, run)
  BY <1>2, <1>3, <1>4, <1>5, Zenon DEF Starts
<1> QED BY <1>6 DEF run

\* One more run.
LEMMA StartedNext ==
    ASSUME ParsedOK, NEW k \in DOMAIN programs, UNCHANGED programs,
           Started(k - 1), NEW r, Starts(k, r), runs' = runs \o <<r>>
    PROVE  Started(k)'
<1>1. k \in Nat \ {0} /\ k - 1 \in Nat
  BY Programs
<1> DEFINE A == {runs[j] : j \in 1 .. k - 1} \cup {r}
           n == k - 1
<1>2. runs = [j \in 1 .. n |-> runs[j]] /\ \A j \in 1 .. n : Starts(j, runs[j])
  BY DEF Started
<1>3. \A j \in 1 .. n : runs[j] \in A
  OBVIOUS
<1>4. r \in A
  OBVIOUS
<1> HIDE DEF A, n
<1>5. n \in Nat /\ k = n + 1
  BY <1>1 DEF n
<1>6. runs \in Seq(A) /\ Len(runs) = n
  <2> DEFINE f == [j \in 1 .. n |-> runs[j]]
  <2>1. f \in Seq(A) /\ Len(f) = n
    BY <1>3, <1>5
  <2> QED BY <1>2, <2>1
<1>7. /\ runs' \in Seq(A) /\ Len(runs') = n + 1 /\ runs'[n + 1] = r
      /\ \A j \in 1 .. n : runs'[j] = runs[j]
  <2> DEFINE s == <<r>>
  <2>1. s \in Seq(A) /\ Len(s) = 1 /\ s[1] = r
    BY <1>4
  <2> HIDE DEF s
  <2>2. runs' = runs \o s
    BY DEF s
  <2>3. /\ runs \o s \in Seq(A) /\ Len(runs \o s) = Len(runs) + Len(s)
        /\ \A i \in 1 .. Len(runs) : (runs \o s)[i] = runs[i]
        /\ \A i \in 1 .. Len(s) : (runs \o s)[Len(runs) + i] = s[i]
    <3>1. runs \in Seq(A) /\ s \in Seq(A)
      BY <1>6, <2>1
    <3> QED BY <3>1, TwoParts
  <2> QED BY <1>6, <2>1, <2>2, <2>3
<1>8. runs' = [j \in 1 .. k |-> runs'[j]]
  BY <1>5, <1>7
<1>9. ASSUME NEW j \in 1 .. k PROVE Starts(j, runs'[j])
  <2>1. j \in 1 .. n \/ j = n + 1
    BY <1>5
  <2> QED BY <1>2, <1>5, <1>7, <2>1
<1>10. \A j \in 1 .. k : Starts(j, runs[j])'
  BY <1>9 DEF Starts
<1> QED BY <1>8, <1>10 DEF Started

\* A start.
LEMMA StartingStep ==
    ASSUME ParsedOK, BoardType, SendNext, NEW k \in DOMAIN programs,
           NEW n \in 0 .. 4, Starting(k, n)
    PROVE  Starting(k, n + 1)'
<1> DEFINE p == programs[k]
           N == Len(p.insns)
           ch == p.channel
           o == Closing(p)
           q == BehindPrograms(k)
<1>1. /\ p \in Loadable /\ k \in 0 .. Len(programs) /\ k \in Nat \ {0} /\ N \in Nat /\ ch \in Channels
  BY Programs, SizesAssumption
<1>2. /\ o \in Seq(Op) /\ Len(o) = 5
      /\ o[1] = Set("ITERS", p.repeat) /\ o[2] = Set("DEPTH", N - 1)
      /\ o[3] = Set("START_STRB", {}) /\ o[4] = Set("START_STRB", {ch})
      /\ o[5] = Set("START_STRB", {})
  BY <1>1, ClosingIs
<1>3. q \in Seq(Op)
  BY <1>1, BehindProgramsAre
<1>4. /\ Within(o, n, q) /\ launches = <<>>
      /\ IF n >= 4 THEN Board(k, k) ELSE Board(k - 1, k) /\ CtrlGiven(k) /\ Stored(k, N)
  BY DEF Starting
<1>5. UNCHANGED <<programs, launch>>
  BY DEF SendNext, parsing
<1>6. q' = q
  BY <1>5, SameRest
<1>7. n \in 0 .. Len(o) - 1
  BY <1>2
<1> HIDE DEF o, q
<1>8. /\ Write(o[n + 1]) /\ n + 1 \in 0 .. Len(o)
      /\ todo' = From(o, n + 1) \o q /\ Hold(regs', o, n + 1)
  BY <1>2, <1>3, <1>4, <1>7, WithinNext
<1>9. CASE n # 3
  <2>1. o[n + 1].reg \notin Strobes \/ o[n + 1].data = {}
    <3>1. n \in {0, 1, 2, 4}
      BY <1>9
    <3>2. o[0 + 1].reg \notin Strobes /\ o[1 + 1].reg \notin Strobes
      BY <1>2 DEF Set, Strobes
    <3>3. o[2 + 1].data = {} /\ o[4 + 1].data = {}
      BY <1>2 DEF Set
    <3> QED BY <3>1, <3>2, <3>3
  <2>2. \E m \in Nat : runs = [j \in 1 .. m |-> runs[j]]
    <3>1. CASE n >= 4
      BY <1>1, <1>4, <3>1 DEF Board, Started
    <3>2. CASE ~(n >= 4)
      <4>1. k - 1 \in Nat
        BY <1>1
      <4> QED BY <1>4, <3>2, <4>1 DEF Board, Started
    <3> QED BY <3>1, <3>2
  <2>3. UNCHANGED <<mem, ctrl, runs, launches, depth, insn_rd>>
    BY <1>8, <2>1, <2>2, QuietWrite
  <2>4. launches' = <<>>
    BY <1>4, <2>3
  <2>5. CASE n = 4
    <3>1. Board(k, k)'
      BY <1>4, <1>5, <2>3, <2>5, SameBoard
    <3> QED BY <1>5, <1>6, <1>8, <2>4, <2>5, <3>1 DEF Starting, Within, o, q
  <2>6. CASE n # 4
    <3>1. ~(n >= 4) /\ ~(n + 1 >= 4)
      BY <1>9, <2>6
    <3>2. Board(k - 1, k)' /\ CtrlGiven(k)' /\ Stored(k, N)'
      BY <1>4, <1>5, <2>3, <3>1, SameBoard
    <3> QED BY <1>5, <1>6, <1>8, <2>4, <3>1, <3>2 DEF Starting, Within, o, q
  <2> QED BY <2>5, <2>6
<1>10. CASE n = 3
  <2>1. o[n + 1].reg = "START_STRB" /\ o[n + 1].data = {ch}
    BY <1>2, <1>10 DEF Set
  <2>2. StartChannels(o[n + 1])
    BY <1>8, <2>1 DEF Write, ApplyCtrl, StoreInsn, NewControl, ClearLaunches, LatchWord, SetValue, Strobes
  <2>3. Hold(regs, o, 3)
    BY <1>4, <1>10 DEF Within
  <2>4. regs["ITERS"] = p.repeat /\ regs["DEPTH"] = N - 1 /\ regs["START_STRB"] = {}
    <3>1. o[1].reg = "ITERS" /\ o[2].reg = "DEPTH" /\ o[3].reg = "START_STRB"
      BY <1>2 DEF Set
    <3>2. \A j, h \in 1 .. 3 : h # j => o[h].reg # o[j].reg
      BY <3>1
    <3>3. \A j \in 1 .. 3 : regs[o[j].reg] = o[j].data
      BY <2>3, <3>2, HoldDistinct
    <3> QED BY <1>2, <3>1, <3>3 DEF Set
  <2>5. Rising(o[n + 1]) = {ch}
    BY <2>1, <2>4 DEF Rising
  <2>6. Board(k - 1, k) /\ CtrlGiven(k) /\ Stored(k, N)
    BY <1>4, <1>10
  <2>7. UNCHANGED <<mem, ctrl, launches>>
    BY <2>2 DEF StartChannels
  <2>8. runs' = runs \o <<Run(ch)>>
    <3>1. {Run(c) : c \in {ch}} = {Run(ch)}
      OBVIOUS
    <3> QED BY <2>2, <2>5, <3>1, SeqOfFew DEF StartChannels
  <2>9. depth' = [c \in Channels |-> IF c \in {ch} THEN N - 1 ELSE depth[c]]
    BY <2>2, <2>4, <2>5 DEF StartChannels
  <2>10. Started(k)'
    <3>1. Starts(k, Run(ch))
      BY <2>4, <2>6, RunIsAsked
    <3>2. Started(k - 1)
      BY <2>6 DEF Board
    <3> QED BY <1>5, <2>8, <3>1, <3>2, StartedNext
  <2>11. Untouched(k)'
    <3>1. Untouched(k)
      BY <2>6 DEF Board
    <3> QED BY <1>5, <2>7, <3>1 DEF Untouched
  <2>12. Kept(k, k)'
    <3>1. Kept(k - 1, k)
      BY <2>6 DEF Board
    <3>2. \A c \in Channels : c # ch => mem'[c] = mem[c] /\ depth'[c] = depth[c]
      BY <2>7, <2>9
    <3>3. Kept(k - 1, k)'
      BY <1>5, <3>1, <3>2, EarlierKept
    <3>4. Stored(k, N)' /\ depth'[ch] = N - 1
      BY <1>1, <1>5, <2>6, <2>7, <2>9 DEF Stored
    <3>5. \A j \in 1 .. k : j \in 1 .. k - 1 \/ j = k
      BY <1>1
    <3> QED BY <1>5, <3>3, <3>4, <3>5 DEF Kept
  <2>13. Board(k, k)'
    BY <2>10, <2>11, <2>12 DEF Board
  <2>14. launches' = <<>> /\ n + 1 >= 4
    BY <1>4, <1>10, <2>7
  <2> QED BY <1>5, <1>6, <1>8, <2>13, <2>14 DEF Starting, Within, o, q
<1> QED BY <1>9, <1>10

\* The launch.
LEMMA LaunchingStep ==
    ASSUME ParsedOK, BoardType, SendNext, launch # <<>>,
           NEW n \in 0 .. Len(LaunchOps(launch[1])) - 1, Launching(n)
    PROVE  Launching(n + 1)'
<1> DEFINE l == launch[1]
           o == LaunchOps(l)
           N == Len(programs)
<1>1. l \in Launchable /\ Len(l.marker_sels) <= 1 /\ N \in Nat
  BY EmptySeq, Programs DEF ParsedOK
<1>2. /\ o \in Seq(Op) /\ Len(o) >= 6
      /\ o[1] = Set("LCH_MASK", MaskSent(l.dc_chmask)) /\ o[2] = Set("LCH_TRIG", Bit(l.use_trigger))
      /\ o[3] = Set("LCH_ITERS", NumberSent(l.iters))
      /\ o[4] = Set("LCH_STRB", {}) /\ o[5] = Set("LCH_STRB", Launcher)
      /\ o[6] = Set("LCH_STRB", {})
      /\ \A i \in 7 .. Len(o) : i - 6 \in 1 .. 3 /\ o[i].reg = MarkerRegs[i - 6]
  BY <1>1, LaunchOpsAre
<1>3. <<>> \in Seq(Op) /\ Len(o) \in Nat /\ n \in 0 .. Len(o) - 1
  BY <1>2
<1>4. /\ Within(o, n, <<>>) /\ Board(N, N)
      /\ IF n < 5 THEN launches = <<>>
         ELSE /\ launches = <<launches[1]>> /\ Launched(l, launches[1])
              /\ launches[1].after = N
  BY DEF Launching
<1>5. UNCHANGED <<programs, launch>>
  BY DEF SendNext, parsing
<1> HIDE DEF o
<1>6. /\ Write(o[n + 1]) /\ n + 1 \in 0 .. Len(o)
      /\ todo' = From(o, n + 1) \o <<>> /\ Hold(regs', o, n + 1)
  BY <1>2, <1>3, <1>4, WithinNext
<1>7. runs = [j \in 1 .. N |-> runs[j]]
  BY <1>4 DEF Board, Started
<1>8. CASE n # 4
  <2>1. o[n + 1].reg \notin Strobes \/ o[n + 1].data = {}
    <3>1. CASE n \in {0, 1, 2}
      <4>1. /\ o[0 + 1].reg \notin Strobes /\ o[1 + 1].reg \notin Strobes /\ o[2 + 1].reg \notin Strobes
        BY <1>2 DEF Set, Strobes
      <4> QED BY <3>1, <4>1
    <3>2. CASE n \in {3, 5}
      <4>1. o[3 + 1].data = {} /\ o[5 + 1].data = {}
        BY <1>2 DEF Set
      <4> QED BY <3>2, <4>1
    <3>3. CASE n >= 6
      <4>1. n + 1 \in 7 .. Len(o)
        BY <1>3, <3>3
      <4>2. (n + 1) - 6 \in 1 .. 3 /\ o[n + 1].reg = MarkerRegs[(n + 1) - 6]
        BY <1>2, <4>1
      <4>3. MarkerRegs[1] \notin Strobes /\ MarkerRegs[2] \notin Strobes /\ MarkerRegs[3] \notin Strobes
        BY Registers
      <4>4. (n + 1) - 6 = 1 \/ (n + 1) - 6 = 2 \/ (n + 1) - 6 = 3
        BY <4>2
      <4> QED BY <4>2, <4>3, <4>4
    <3> QED BY <1>3, <1>8, <3>1, <3>2, <3>3
  <2>2. UNCHANGED <<mem, ctrl, runs, launches, depth, insn_rd>>
    BY <1>1, <1>6, <1>7, <2>1, QuietWrite
  <2>3. Board(N, N)'
    BY <1>4, <1>5, <2>2, SameBoard
  <2>4. (n + 1 < 5) = (n < 5)
    BY <1>3, <1>8
  <2>5. IF n + 1 < 5 THEN launches' = <<>>
        ELSE /\ launches' = <<launches'[1]>> /\ Launched(l, launches'[1])
             /\ launches'[1].after = N
    BY <1>4, <2>2, <2>4
  <2> QED BY <1>5, <1>6, <2>3, <2>5 DEF Launching, Within, o
<1>9. CASE n = 4
  <2>1. o[n + 1].reg = "LCH_STRB" /\ o[n + 1].data = Launcher
    BY <1>2, <1>9 DEF Set
  <2>2. NewControl(o[n + 1])
    BY <1>6, <2>1 DEF Write, ApplyCtrl, StoreInsn, StartChannels, ClearLaunches, LatchWord, SetValue, Strobes
  <2>3. Hold(regs, o, 4)
    BY <1>4, <1>9 DEF Within
  <2>4. /\ regs["LCH_MASK"] = MaskSent(l.dc_chmask) /\ regs["LCH_TRIG"] = Bit(l.use_trigger)
        /\ regs["LCH_ITERS"] = NumberSent(l.iters) /\ regs["LCH_STRB"] = {}
    <3>2. /\ o[1].reg = "LCH_MASK" /\ o[2].reg = "LCH_TRIG" /\ o[3].reg = "LCH_ITERS"
          /\ o[4].reg = "LCH_STRB"
      BY <1>2 DEF Set
    <3>3. \A j, h \in 1 .. 4 : h # j => o[h].reg # o[j].reg
      BY <3>2
    <3>4. \A j \in 1 .. 4 : regs[o[j].reg] = o[j].data
      BY <2>3, <3>3, HoldDistinct
    <3>5. /\ o[1].data = MaskSent(l.dc_chmask) /\ o[2].data = Bit(l.use_trigger) /\ o[3].data = NumberSent(l.iters)
          /\ o[4].data = {}
      BY <1>2 DEF Set
    <3>6. /\ regs[o[1].reg] = o[1].data /\ regs[o[2].reg] = o[2].data /\ regs[o[3].reg] = o[3].data
          /\ regs[o[4].reg] = o[4].data
      BY <3>4
    <3> QED BY <3>2, <3>5, <3>6
  <2>5. Rising(o[n + 1]) # {}
    BY <2>1, <2>4 DEF Rising, Launcher
  <2> DEFINE x == [mask |-> regs["LCH_MASK"] \cap Channels, trig |-> regs["LCH_TRIG"],
                   iters |-> regs["LCH_ITERS"], after |-> Len(runs)]
  <2>6. launches' = Append(launches, x) /\ UNCHANGED <<mem, ctrl, runs, depth>>
    BY <2>2, <2>5 DEF NewControl
  <2>7. launches = <<>>
    BY <1>4, <1>9
  <2>8. Launched(l, x)
    <3>1. MaskSent(l.dc_chmask) \cap Channels = l.dc_chmask \cap Channels
      BY SentChannels
    <3> QED BY <2>4, <3>1 DEF Launched, NumberSent
  <2>9. Len(runs) = N
    <3> DEFINE f == [j \in 1 .. N |-> runs[j]]
    <3>1. Len(f) = N
      BY <1>1
    <3> QED BY <1>7, <3>1
  <2>10. x.after = N
    BY <2>9
  <2> HIDE DEF x
  <2>11. launches' = <<x>>
    BY <2>6, <2>7
  <2>12. launches'[1] = x /\ launches' = <<launches'[1]>>
    BY <2>11
  <2>13. Board(N, N)'
    BY <1>4, <1>5, <2>6, SameBoard
  <2>14. ~(n + 1 < 5)
    BY <1>9
  <2>15. IF n + 1 < 5 THEN launches' = <<>>
         ELSE /\ launches' = <<launches'[1]>> /\ Launched(l, launches'[1])
              /\ launches'[1].after = N
    BY <2>8, <2>10, <2>12, <2>14
  <2> QED BY <1>5, <1>6, <2>13, <2>15 DEF Launching, Within, o
<1> QED BY <1>8, <1>9

\* Every command of a session leaves the board as the commands so far say.
LEMMA SendStep ==
    ASSUME ParsedOK, BoardType, Sending, SendNext
    PROVE  Sending'
<1>1. todo # <<>> /\ UNCHANGED <<programs, launch>>
  BY DEF SendNext, parsing
<1>2. Underway
  BY <1>1, GoesOn DEF Sent
<1>3. ASSUME NEW n \in 0 .. 2, Clearing(n) PROVE Sending'
  <2>1. Clearing(n + 1)' /\ n + 1 \in 0 .. 3
    BY <1>3, ClearingStep
  <2> QED BY <2>1 DEF Sending
<1>4. ASSUME NEW k \in DOMAIN programs, NEW n \in 0 .. Len(CtrlOps(programs[k])) - 1, Controlling(k, n)
      PROVE  Sending'
  <2>1. Controlling(k, n + 1)'
    BY <1>4, ControllingStep
  <2>2. n + 1 \in 0 .. Len(CtrlOps(programs[k]))
    <3>1. CtrlOps(programs[k]) \in Seq(Op)
      BY Programs, CtrlOpsAre
    <3>2. Len(CtrlOps(programs[k])) \in Nat
      BY <3>1
    <3> QED BY <3>2
  <2>3. n + 1 \in 0 .. Len(CtrlOps(programs'[k])) /\ k \in DOMAIN programs'
    BY <1>1, <2>2
  <2> QED BY <2>1, <2>3 DEF Sending
<1>5. ASSUME NEW k \in DOMAIN programs, NEW i \in DOMAIN programs[k].insns, NEW n \in 0 .. 6,
             Storing(k, i, n)
      PROVE  Sending'
  <2>1. Storing(k, i, n + 1)' /\ n + 1 \in 0 .. 7
    BY <1>5, StoringStep
  <2>2. k \in DOMAIN programs' /\ i \in DOMAIN programs'[k].insns
    BY <1>1
  <2> QED BY <2>1, <2>2 DEF Sending
<1>6. ASSUME NEW k \in DOMAIN programs, NEW n \in 0 .. 4, Starting(k, n)
      PROVE  Sending'
  <2>1. Starting(k, n + 1)' /\ n + 1 \in 0 .. 5
    BY <1>6, StartingStep
  <2>2. k \in DOMAIN programs'
    BY <1>1
  <2> QED BY <2>1, <2>2 DEF Sending
<1>7. ASSUME launch # <<>>, NEW n \in 0 .. Len(LaunchOps(launch[1])) - 1, Launching(n)
      PROVE  Sending'
  <2>1. Launching(n + 1)'
    BY <1>7, LaunchingStep
  <2>2. n + 1 \in 0 .. Len(LaunchOps(launch[1]))
    <3>1. launch[1] \in Launchable /\ Len(launch[1].marker_sels) <= 1
      BY <1>7, EmptySeq DEF ParsedOK
    <3>2. LaunchOps(launch[1]) \in Seq(Op)
      BY <3>1, LaunchOpsAre
    <3>3. Len(LaunchOps(launch[1])) \in Nat
      BY <3>2
    <3> QED BY <3>3
  <2>3. launch' # <<>> /\ n + 1 \in 0 .. Len(LaunchOps(launch'[1]))
    BY <1>1, <1>7, <2>2
  <2> QED BY <2>1, <2>3 DEF Sending
<1> QED BY <1>2, <1>3, <1>4, <1>5, <1>6, <1>7 DEF Underway

-----------------------------------------------------------------------------
(* What the parser makes of a file. *)

\* The operands of the line that the parser looks at.
LEMMA LineOperands ==
    ASSUME LineOK, line # <<>>
    PROVE  /\ line[1].kind = "program" => line[1].channel \in Channels
           /\ line[1].kind = "ctrl" => line[1].reg \in CtrlRegs /\ line[1].val \in Nat
           /\ line[1].kind = "repeat" => line[1].val \in Nat
           /\ line[1].kind = "launch" =>
                /\ line[1].iters \in Seq(Nat) /\ line[1].trig \in BOOLEAN
                /\ line[1].channels \in SUBSET Int
           /\ line[1].kind = "hex" => line[1].channels \in SUBSET Int
           /\ line[1].kind = "marker" => line[1].sels \in Seq(Nat)
<1>1. PICK l \in ShortLines \cup InsnLines \cup {EndOfFile} : line = <<l>>
  BY DEF LineOK
<1>2. line[1] = l
  BY <1>1
<1>3. CASE l = EndOfFile
  BY <1>2, <1>3 DEF EndOfFile
<1>4. CASE l \in Line
  BY <1>2, <1>4 DEF Line, Channels
<1> QED BY <1>3, <1>4, LinesAssumption

\* A program that is being read has the registers and instructions of its lines so far.
LEMMA ProgramRead ==
    ASSUME LineOK, ParsedOK, OpenProgram \/ SetCtrl \/ SetRepeat \/ AddInsn
    PROVE  prog' \in Readable
<1>1. MaxRepeat \in Nat \ {0} /\ Depth \in Nat \ {0} /\ MaxCtrl \in Nat
  BY SizesAssumption
<1>2. CASE OpenProgram
  <2>1. line[1].channel \in Channels /\ prog' = NewProgram(line[1].channel)
    BY <1>2, LineOperands DEF OpenProgram, Is
  <2>2. <<>> \in {s \in Seq(DcInsn) : Len(s) <= Depth} /\ 1 \in 0 .. MaxRepeat
    BY <1>1
  <2>3. [r \in CtrlRegs |-> <<>>] \in [CtrlRegs -> {<<>>} \cup {<<v>> : v \in 0 .. MaxCtrl}]
    OBVIOUS
  <2> QED BY <2>1, <2>2, <2>3, Zenon DEF NewProgram, Readable
<1>3. CASE SetCtrl
  <2>1. line[1].reg \in CtrlRegs /\ line[1].val \in 0 .. MaxCtrl
    BY <1>1, <1>3, LineOperands DEF SetCtrl, Is
  <2>2. prog \in Readable
    BY <1>3 DEF SetCtrl, ParsedOK
  <2>3. prog' = [prog EXCEPT !.ctrl[line[1].reg] = <<line[1].val>>]
    BY <1>3 DEF SetCtrl
  <2> DEFINE C == [CtrlRegs -> {<<>>} \cup {<<v>> : v \in 0 .. MaxCtrl}]
             I == {s \in Seq(DcInsn) : Len(s) <= Depth}
             c == [prog.ctrl EXCEPT ![line[1].reg] = <<line[1].val>>]
  <2>4. prog.ctrl \in C
    BY <2>2, Zenon DEF Readable
  <2>5. c \in C
    BY <2>1, <2>4
  <2>6. Readable = [channel: Channels, ctrl: C, repeat: 0 .. MaxRepeat, insns: I]
    BY Zenon DEF Readable
  <2>7. prog' = [prog EXCEPT !.ctrl = c]
    BY <2>3
  <2> HIDE DEF C, I, c
  <2> QED BY <2>2, <2>5, <2>6, <2>7
<1>4. CASE SetRepeat
  <2>1. line[1].val \in 0 .. MaxRepeat
    BY <1>1, <1>4, LineOperands DEF SetRepeat, Is
  <2>2. prog \in Readable
    BY <1>4 DEF SetRepeat, ParsedOK
  <2>3. prog' = [prog EXCEPT !.repeat = line[1].val]
    BY <1>4 DEF SetRepeat
  <2> DEFINE C == [CtrlRegs -> {<<>>} \cup {<<v>> : v \in 0 .. MaxCtrl}]
             I == {s \in Seq(DcInsn) : Len(s) <= Depth}
  <2>4. Readable = [channel: Channels, ctrl: C, repeat: 0 .. MaxRepeat, insns: I]
    BY Zenon DEF Readable
  <2> HIDE DEF C, I
  <2> QED BY <2>1, <2>2, <2>3, <2>4
<1>5. CASE AddInsn
  <2>1. line[1].insn \in InsnLine /\ Accepted(line[1].insn)
    BY <1>5, InsnOfLine DEF AddInsn, Is
  <2>2. prog \in Readable /\ Len(prog.insns) < Depth
    BY <1>5 DEF AddInsn, ParsedOK
  <2> DEFINE C == [CtrlRegs -> {<<>>} \cup {<<v>> : v \in 0 .. MaxCtrl}]
             I == {s \in Seq(DcInsn) : Len(s) <= Depth}
             x == Assemble(line[1].insn)
             s == prog.insns
  <2>3. x \in DcInsn
    BY <2>1, AssembleType
  <2>4. prog' = [prog EXCEPT !.insns = Append(s, x)]
    BY <1>5 DEF AddInsn
  <2>5. Readable = [channel: Channels, ctrl: C, repeat: 0 .. MaxRepeat, insns: I]
    BY Zenon DEF Readable
  <2>6. s \in Seq(DcInsn) /\ Len(s) < Depth
    BY <2>2, Zenon DEF Readable
  <2> HIDE DEF x, s
  <2>7. Append(s, x) \in I
    BY <1>1, <2>3, <2>6
  <2> HIDE DEF C, I
  <2> DEFINE t == Append(s, x)
  <2> HIDE DEF t
  <2>8. prog' = [prog EXCEPT !.insns = t] /\ t \in I
    BY <2>4, <2>7 DEF t
  <2> QED BY <2>2, <2>5, <2>8
<1> QED BY <1>2, <1>3, <1>4, <1>5

\* A program that has come to its end can be loaded.
LEMMA ProgramClosed ==
    ASSUME ParsedOK, CloseProgram
    PROVE  programs' \in Seq(Loadable)
<1> DEFINE C == [CtrlRegs -> {<<>>} \cup {<<v>> : v \in 0 .. MaxCtrl}]
           I == {s \in Seq(DcInsn) : Len(s) <= Depth}
           J == {s \in Seq(DcInsn) : Len(s) \in 1 .. Depth}
<1>1. prog \in Readable /\ prog.insns # <<>> /\ programs' = Append(programs, prog)
  BY DEF CloseProgram, ParsedOK
<1>2. /\ Readable = [channel: Channels, ctrl: C, repeat: 0 .. MaxRepeat, insns: I]
      /\ Loadable = [channel: Channels, ctrl: C, repeat: 0 .. MaxRepeat, insns: J]
  BY Zenon DEF Readable, Loadable
<1>3. prog.insns \in J
  <2> DEFINE s == prog.insns
  <2>1. s \in Seq(DcInsn) /\ Len(s) <= Depth /\ s # <<>>
    BY <1>1, Zenon DEF Readable
  <2> HIDE DEF s
  <2>2. Len(s) \in 1 .. Depth
    BY <2>1, EmptySeq, SizesAssumption
  <2>3. s \in J
    BY <2>1, <2>2
  <2> QED BY <2>3 DEF s
<1> HIDE DEF C, I, J
<1>4. prog \in Loadable
  BY <1>1, <1>2, <1>3
<1>5. programs \in Seq(Loadable)
  BY DEF ParsedOK
<1> QED BY <1>1, <1>4, <1>5

\* A launch of a line, and what later lines add to it.
LEMMA LaunchRead ==
    ASSUME LineOK, ParsedOK, SetLaunch \/ SetMask \/ SetMarkers
    PROVE  \E l \in Launchable : launch' = <<l>> /\ Len(l.marker_sels) <= 1
<1> DEFINE S == [1 .. NumMarkers -> Int]
<1>2. launch # <<>> => launch[1] \in Launchable /\ Len(launch[1].marker_sels) <= 1
  BY EmptySeq DEF ParsedOK
<1>3. NewLaunch \in Launchable /\ NewLaunch.marker_sels = <<>>
  BY DEF NewLaunch, Launchable
<1>4. CASE SetLaunch
  <2> DEFINE it == IF line[1].iters = <<>> THEN 1 ELSE line[1].iters[1]
             l == [NewLaunch EXCEPT !.iters = it, !.use_trigger = line[1].trig, !.dc_chmask = line[1].channels]
  <2>1. /\ line[1].iters \in Seq(Nat) /\ line[1].trig \in BOOLEAN /\ line[1].channels \in SUBSET Int
    BY <1>4, LineOperands DEF SetLaunch, Is
  <2>2. it \in Int
    <3> DEFINE s == line[1].iters
    <3>1. s \in Seq(Nat)
      BY <2>1
    <3> HIDE DEF s
    <3>2. s # <<>> => s[1] \in Int
      BY <3>1, EmptySeq
    <3> QED BY <3>2 DEF s
  <2>3. launch' = <<l>>
    BY <1>4 DEF SetLaunch
  <2> HIDE DEF it
  <2>4. l \in Launchable /\ l.marker_sels = <<>>
    BY <1>3, <2>1, <2>2 DEF Launchable
  <2>5. Len(l.marker_sels) <= 1
    BY <2>4
  <2> QED BY <2>3, <2>4, <2>5
<1>5. CASE SetMask
  <2>1. line[1].channels \in SUBSET Int /\ launch # <<>>
    BY <1>5, LineOperands DEF SetMask, Is, ParsedOK
  <2> DEFINE l == [launch[1] EXCEPT !.dc_chmask = line[1].channels]
  <2>2. launch' = <<l>>
    BY <1>5 DEF SetMask
  <2>3. l \in Launchable /\ l.marker_sels = launch[1].marker_sels
    BY <1>2, <2>1 DEF Launchable
  <2> QED BY <1>2, <2>1, <2>2, <2>3
<1>6. CASE SetMarkers
  <2> DEFINE m == line[1].sels
             was == IF launch = <<>> THEN NewLaunch ELSE launch[1]
             l == [was EXCEPT !.marker_sels = <<m>>]
  <2>1. m \in Seq(Nat) /\ Len(m) = NumMarkers
    BY <1>6, LineOperands DEF SetMarkers, Is, MarkersAccepted
  <2>2. launch' = <<l>>
    BY <1>6 DEF SetMarkers
  <2>3. was \in Launchable
    BY <1>2, <1>3
  <2> HIDE DEF m, was
  <2>4. m \in S
    BY <2>1
  <2> HIDE DEF S
  <2>5. <<m>> \in Seq(S) /\ Len(<<m>>) = 1
    BY <2>4
  <2>6. Launchable = [dc_chmask: SUBSET Int, iters: Int, use_trigger: BOOLEAN, marker_sels: Seq(S)]
    BY Zenon DEF Launchable, S
  <2> DEFINE x == <<m>>
  <2> HIDE DEF x
  <2>7. [was EXCEPT !.marker_sels = x] \in Launchable /\ [was EXCEPT !.marker_sels = x].marker_sels = x
    BY <2>3, <2>5, <2>6 DEF x
  <2>8. l \in Launchable /\ Len(l.marker_sels) <= 1
    BY <2>5, <2>7 DEF x
  <2> QED BY <2>2, <2>8
<1> QED BY <1>4, <1>5, <1>6

\* What has been parsed can be sent (parse_asm()).
LEMMA ParsedNext ==
    ASSUME LineOK, ParsedOK, [Next]_vars
    PROVE  ParsedOK'
<1>1. CASE UNCHANGED <<programs, launch>> /\ mode' \notin {"CTRL", "INSNS", "MASK"}
  BY <1>1 DEF ParsedOK
<1>2. CASE UNCHANGED <<programs, launch, mode, prog>>
  BY <1>2 DEF ParsedOK, Readable, Loadable
<1>3. CASE OpenProgram \/ SetCtrl \/ SetRepeat \/ AddInsn
  <2>1. prog' \in Readable
    BY <1>3, ProgramRead
  <2>2. UNCHANGED <<programs, launch>> /\ mode' \in {"CTRL", "INSNS"}
    BY <1>3 DEF OpenProgram, SetCtrl, SetRepeat, AddInsn
  <2> QED BY <2>1, <2>2 DEF ParsedOK
<1>4. CASE CloseProgram
  <2>1. programs' \in Seq(Loadable)
    BY <1>4, ProgramClosed
  <2>2. mode' = "TOP" /\ launch' = launch
    BY <1>4 DEF CloseProgram
  <2> QED BY <2>1, <2>2 DEF ParsedOK
<1>5. CASE SetLaunch \/ SetMask \/ SetMarkers
  <2>1. PICK l \in Launchable : launch' = <<l>> /\ Len(l.marker_sels) <= 1
    BY <1>5, LaunchRead
  <2>2. /\ programs' = programs /\ mode' \in {"TOP", "MASK"}
    BY <1>5 DEF SetLaunch, SetMask, SetMarkers
  <2>3. launch' \in Seq(Launchable) /\ Len(launch') = 1 /\ launch' # <<>>
        /\ \A k \in DOMAIN launch' : launch'[k] = l
    BY <2>1
  <2> QED BY <2>1, <2>2, <2>3 DEF ParsedOK
<1>6. CASE programs' = <<>> /\ launch' = <<>> /\ mode' = "SHELL"
  BY <1>6 DEF ParsedOK
<1>7. CASE ReadLine \/ SkipEmpty
  BY <1>2, <1>7 DEF ReadLine, SkipEmpty
<1>8. CASE Finish \/ Reject \/ Invoke \/ Connect \/ OpenReading
  BY <1>1, <1>8 DEF Finish, Reject, Fail, Invoke, Connect, OpenReading
<1>9. CASE ExitFailed \/ Disconnect
  BY <1>6, <1>9 DEF ExitFailed, Disconnect
<1>10. CASE SendNext \/ AskDepth \/ ReadNext \/ UNCHANGED vars
  BY <1>2, <1>10 DEF SendNext, AskDepth, ReadNext, vars, parsing
<1> QED BY <1>3, <1>4, <1>5, <1>7, <1>8, <1>9, <1>10 DEF Next, Parse, ParseStep

\* The board keeps its shape.
LEMMA BoardTypeNext ==
    ASSUME BoardType, [Next]_vars
    PROVE  BoardType'
<1>1. CASE UNCHANGED board
  BY <1>1 DEF BoardType, board
<1>2. CASE Connect
  <2>1. \E high \in BOOLEAN : regs' = Leftover(high)
    BY <1>2 DEF Connect
  <2>2. regs' = [r \in Regs |-> regs'[r]]
    BY <2>1 DEF Leftover
  <2> QED BY <1>2, <2>2 DEF Connect, BoardType
<1>3. CASE Disconnect
  <2>1. /\ regs' = Leftover(FALSE) /\ mem' = StaleMemory /\ ctrl' = StaleCtrl /\ depth' = StaleDepth
    BY <1>3 DEF Disconnect
  <2> QED BY <2>1 DEF BoardType, Leftover, StaleMemory, StaleCtrl, StaleDepth
<1>4. CASE \E c : Write(c)
  BY <1>4, WriteType
<1>5. CASE Invoke \/ Parse \/ ExitFailed \/ OpenReading \/ AskDepth
  BY <1>1, <1>5 DEF Invoke, Parse, ExitFailed, OpenReading, AskDepth
<1>6. CASE SendNext \/ ReadNext
  BY <1>1, <1>4, <1>6 DEF SendNext, ReadNext, ReadPart
<1>7. CASE UNCHANGED vars
  BY <1>1, <1>7 DEF vars
<1> QED BY <1>2, <1>3, <1>5, <1>6, <1>7 DEF Next

\* A session begins with a board that it has not touched.
LEMMA ConnectStarts ==
    ASSUME ParsedOK, SessionOK, Connect
    PROVE  Sending'
<1>1. /\ clearing' \in BOOLEAN /\ todo' = SendOps(programs, launch, clearing')
      /\ UNCHANGED <<programs, launch, mem, ctrl, runs, launches, depth>>
  BY DEF Connect
<1>2. mem = StaleMemory /\ ctrl = StaleCtrl /\ runs = <<>> /\ launches = <<>>
  BY DEF Connect, SessionOK
<1> DEFINE q == BehindPrograms(0)
<1>3. q' = q
  BY <1>1, SameRest
<1>4. q \in Seq(Op) /\ 0 \in 0 .. Len(programs)
  <2>1. 0 \in 0 .. Len(programs)
    BY Programs
  <2> QED BY <2>1, BehindProgramsAre
<1>5. Board(0, 0)'
  <2>1. Kept(0, 0)'
    BY DEF Kept
  <2>2. Started(0)'
    <3>1. runs' = <<>>
      BY <1>1, <1>2
    <3>2. runs' = [j \in 1 .. 0 |-> runs'[j]]
      BY <3>1
    <3> QED BY <3>2 DEF Started
  <2>3. Untouched(0)'
    BY <1>1, <1>2 DEF Untouched
  <2> QED BY <2>1, <2>2, <2>3 DEF Board
<1>6. launches' = <<>>
  BY <1>1, <1>2
<1>7. CASE clearing'
  <2> DEFINE o == ClearLaunchOps
  <2>1. todo' = o \o q
    BY <1>1, <1>7, SendsAll
  <2>2. o \in Seq(Op) /\ Len(o) = 3
    BY ClearingIs
  <2>3. todo' = From(o, 0) \o q
    BY <1>4, <2>1, <2>2, GroupEnds
  <2>4. Hold(regs', o, 0) /\ 0 \in 0 .. Len(o) /\ 0 \in 0 .. 3
    BY <2>2 DEF Hold
  <2>5. Clearing(0)'
    BY <1>3, <1>5, <1>6, <2>3, <2>4 DEF Clearing, Within
  <2> QED BY <2>4, <2>5 DEF Sending
<1>8. CASE ~clearing'
  <2>1. todo' = q
    BY <1>1, <1>8, SendsAll
  <2>2. Loaded(0)'
    BY <1>3, <1>5, <1>6, <2>1 DEF Loaded
  <2>3. 0 \in 0 .. Len(programs')
    BY <1>1, <1>4
  <2> QED BY <2>2, <2>3 DEF Sending
<1> QED BY <1>1, <1>7, <1>8

\* Within a group of commands there is one to be sent.
LEMMA WithinMore ==
    ASSUME NEW ops \in Seq(Op), NEW rest \in Seq(Op), NEW n \in 0 .. Len(ops) - 1,
           Within(ops, n, rest)
    PROVE  todo # <<>>
<1>1. todo = From(ops, n) \o rest
  BY DEF Within
<1> QED BY <1>1, Advance

\* A session that has nothing more to send has sent all.
LEMMA NoneIsSent ==
    ASSUME ParsedOK, Sending, todo = <<>>
    PROVE  Sent
<1>1. SUFFICES ASSUME Underway PROVE FALSE
  BY GoesOn
<1>2. ASSUME NEW n \in 0 .. 2, Clearing(n) PROVE FALSE
  <2>1. 0 \in 0 .. Len(programs)
    BY Programs
  <2>2. BehindPrograms(0) \in Seq(Op) /\ ClearLaunchOps \in Seq(Op) /\ Len(ClearLaunchOps) = 3
    BY <2>1, BehindProgramsAre, ClearingIs
  <2>3. Within(ClearLaunchOps, n, BehindPrograms(0)) /\ n \in 0 .. Len(ClearLaunchOps) - 1
    BY <1>2, <2>2 DEF Clearing
  <2> QED BY <2>2, <2>3, WithinMore
<1>3. ASSUME NEW k \in DOMAIN programs
      PROVE  /\ programs[k] \in Loadable /\ BehindPrograms(k) \in Seq(Op)
             /\ \A i \in 0 .. Len(programs[k].insns) :
                   BehindInsns(programs[k], i) \o BehindPrograms(k) \in Seq(Op)
  <2> DEFINE p == programs[k]
             q == BehindPrograms(k)
  <2>1. p \in Loadable /\ k \in 0 .. Len(programs)
    BY Programs
  <2>2. q \in Seq(Op)
    BY <2>1, BehindProgramsAre
  <2>3. ASSUME NEW i \in 0 .. Len(p.insns) PROVE BehindInsns(p, i) \o q \in Seq(Op)
    <3> DEFINE b == BehindInsns(p, i)
    <3>1. b \in Seq(Op)
      BY <2>1, BehindInsnsAre
    <3> HIDE DEF b, q
    <3>2. b \o q \in Seq(Op)
      BY <2>2, <3>1, TwoParts
    <3> QED BY <3>2 DEF b, q
  <2> QED BY <2>1, <2>2, <2>3
<1>4. ASSUME NEW k \in DOMAIN programs, NEW n \in 0 .. Len(CtrlOps(programs[k])) - 1, Controlling(k, n)
      PROVE  FALSE
  <2> DEFINE c == CtrlOps(programs[k])
             r == BehindInsns(programs[k], 0) \o BehindPrograms(k)
  <2>1. 0 \in 0 .. Len(programs[k].insns)
    BY Programs, SizesAssumption
  <2>2. c \in Seq(Op) /\ r \in Seq(Op)
    BY <1>3, <2>1, CtrlOpsAre
  <2>3. Within(c, n, r)
    BY <1>4 DEF Controlling
  <2> QED BY <2>2, <2>3, WithinMore
<1>5. ASSUME NEW k \in DOMAIN programs, NEW i \in DOMAIN programs[k].insns, NEW n \in 0 .. 6,
             Storing(k, i, n)
      PROVE  FALSE
  <2> DEFINE o == InsnOps(programs[k], i)
             r == BehindInsns(programs[k], i) \o BehindPrograms(k)
  <2>1. i \in 0 .. Len(programs[k].insns)
    BY Programs
  <2>2. o \in Seq(Op) /\ Len(o) = 7 /\ r \in Seq(Op)
    BY <1>3, <2>1, InsnOpsAre
  <2>3. Within(o, n, r) /\ n \in 0 .. Len(o) - 1
    BY <1>5, <2>2 DEF Storing
  <2> QED BY <2>2, <2>3, WithinMore
<1>6. ASSUME NEW k \in DOMAIN programs, NEW n \in 0 .. 4, Starting(k, n) PROVE FALSE
  <2> DEFINE o == Closing(programs[k])
             r == BehindPrograms(k)
  <2>1. o \in Seq(Op) /\ Len(o) = 5 /\ r \in Seq(Op)
    BY <1>3, ClosingIs
  <2>2. Within(o, n, r) /\ n \in 0 .. Len(o) - 1
    BY <1>6, <2>1 DEF Starting
  <2> QED BY <2>1, <2>2, WithinMore
<1>7. ASSUME launch # <<>>, NEW n \in 0 .. Len(LaunchOps(launch[1])) - 1, Launching(n) PROVE FALSE
  <2> DEFINE o == LaunchOps(launch[1])
  <2>1. launch[1] \in Launchable /\ Len(launch[1].marker_sels) <= 1
    BY <1>7, EmptySeq DEF ParsedOK
  <2>2. o \in Seq(Op) /\ <<>> \in Seq(Op)
    BY <2>1, LaunchOpsAre
  <2>3. Within(o, n, <<>>)
    BY <1>7 DEF Launching
  <2> QED BY <2>2, <2>3, WithinMore
<1> QED BY <1>1, <1>2, <1>4, <1>5, <1>6, <1>7 DEF Underway

-----------------------------------------------------------------------------
(* The last program of a channel. *)

\* Numbers up to a bound have a greatest one.
LEMMA GreatestExists ==
    ASSUME NEW n \in Nat, NEW T \in SUBSET (1 .. n), T # {}
    PROVE  \E m \in T : \A x \in T : m >= x
<1> DEFINE S == {k \in Nat : \A U \in SUBSET (1 .. k) : U # {} => \E m \in U : \A x \in U : m >= x}
<1>1. 0 \in S
  <2>1. \A U \in SUBSET (1 .. 0) : U = {}
    OBVIOUS
  <2> QED BY <2>1
<1>2. ASSUME NEW k \in Nat, k \in S PROVE k + 1 \in S
  <2>1. ASSUME NEW U \in SUBSET (1 .. k + 1), U # {} PROVE \E m \in U : \A x \in U : m >= x
    <3>1. CASE k + 1 \in U
      BY <3>1
    <3>2. CASE k + 1 \notin U
      <4>1. U \in SUBSET (1 .. k)
        BY <3>2
      <4> QED BY <1>2, <2>1, <4>1
    <3> QED BY <3>1, <3>2
  <2> QED BY <2>1
<1>3. n \in S
  <2> HIDE DEF S
  <2> QED BY <1>1, <1>2, SetInduction
<1> QED BY <1>3

\* The last program of a channel is the one behind which the channel has no other.
LEMMA LastProgram ==
    ASSUME ParsedOK, NEW c \in Named
    PROVE  LET at == SelectLastInSeq(programs, LAMBDA p : p.channel = c)
           IN  /\ at \in DOMAIN programs /\ programs[at].channel = c /\ Latest(at, Len(programs))
               /\ \A j \in DOMAIN programs :
                     programs[j].channel = c /\ Latest(j, Len(programs)) => j = at
<1> DEFINE T == {i \in 1 .. Len(programs) : programs[i].channel = c}
           at == SelectLastInSeq(programs, LAMBDA p : p.channel = c)
<1>1. Len(programs) \in Nat /\ DOMAIN programs = 1 .. Len(programs)
  BY Programs
<1>2. T # {} /\ T \in SUBSET (1 .. Len(programs))
  BY <1>1 DEF Named
<1>3. at = Max(T)
  BY <1>2 DEF SelectLastInSeq
<1>4. Max(T) \in T /\ \A x \in T : Max(T) >= x
  <2>1. \E m \in T : \A x \in T : m >= x
    BY <1>1, <1>2, GreatestExists
  <2> HIDE DEF T
  <2> QED BY <2>1 DEF Max
<1>5. at \in T /\ \A x \in T : at >= x
  BY <1>3, <1>4
<1> HIDE DEF at
<1>6. at \in DOMAIN programs /\ programs[at].channel = c
  BY <1>1, <1>5
<1>7. Latest(at, Len(programs))
  BY <1>1, <1>5 DEF Latest
<1>8. ASSUME NEW j \in DOMAIN programs, programs[j].channel = c, Latest(j, Len(programs))
      PROVE  j = at
  <2>1. at >= j
    BY <1>1, <1>5, <1>8
  <2>2. ~(at > j)
    BY <1>1, <1>6, <1>8 DEF Latest
  <2> QED BY <1>1, <1>6, <2>1, <2>2
<1> QED BY <1>6, <1>7, <1>8 DEF at

-----------------------------------------------------------------------------
(* Reading back. *)

\* What a session that reads sends: writes, and requests for the parts of a word.
Ask == [reg: Regs \cup {"ASK"}, data: Int \cup SUBSET Int]

\* A word is latched, read in three parts, and the strobe released (read_via_serial()).
LEMMA ReadOpsAre ==
    ASSUME NEW a \in Nat, reading \in Channels
    PROVE  LET o == ReadOps(a)
           IN  /\ o \in Seq(Ask) /\ Len(o) = 6
               /\ o[1] = Set("IST_ADDR", a) /\ o[2] = Set("ILD_STRB", {reading})
               /\ o[3] = AskPart(1) /\ o[4] = AskPart(2) /\ o[5] = AskPart(3)
               /\ o[6] = Set("ILD_STRB", {})
<1>1. {reading} \in SUBSET Int
  BY SizesAssumption DEF Channels
<1>2. "IST_ADDR" \in Regs /\ "ILD_STRB" \in Regs
  BY Registers DEF Strobes
<1>3. /\ Set("IST_ADDR", a) \in Ask /\ Set("ILD_STRB", {reading}) \in Ask /\ Set("ILD_STRB", {}) \in Ask
  BY <1>1, <1>2 DEF Set, Ask
<1>4. AskPart(1) \in Ask /\ AskPart(2) \in Ask /\ AskPart(3) \in Ask
  BY DEF AskPart, Ask
<1> DEFINE x1 == Set("IST_ADDR", a)
           x2 == Set("ILD_STRB", {reading})
           x6 == Set("ILD_STRB", {})
           y1 == AskPart(1)
           y2 == AskPart(2)
           y3 == AskPart(3)
<1>5. ReadOps(a) = <<x1, x2, y1, y2, y3, x6>>
  BY DEF ReadOps
<1>6. x1 \in Ask /\ x2 \in Ask /\ x6 \in Ask /\ y1 \in Ask /\ y2 \in Ask /\ y3 \in Ask
  BY <1>3, <1>4
<1> HIDE DEF x1, x2, x6, y1, y2, y3
<1> DEFINE o == <<x1, x2, y1, y2, y3, x6>>
<1>7. /\ o \in Seq(Ask) /\ Len(o) = 6
      /\ o[1] = x1 /\ o[2] = x2 /\ o[3] = y1 /\ o[4] = y2 /\ o[5] = y3 /\ o[6] = x6
  BY <1>6
<1> HIDE DEF o
<1>8. ReadOps(a) = o
  BY <1>5 DEF o
<1> QED BY <1>7, <1>8 DEF x1, x2, x6, y1, y2, y3

\* What comes behind the first i words of a program.
LEMMA BehindWordsAre ==
    ASSUME ParsedOK, NEW j \in DOMAIN programs, programs[j].channel = reading,
           NEW i \in 0 .. Len(programs[j].insns)
    PROVE  /\ BehindWords(j, i) \in Seq(Ask)
           /\ i < Len(programs[j].insns) => BehindWords(j, i) = ReadOps(i) \o BehindWords(j, i + 1)
           /\ i = Len(programs[j].insns) => BehindWords(j, i) = <<>>
<1> DEFINE N == Len(programs[j].insns)
           g == [k \in 1 .. N |-> ReadOps(k - 1)]
<1>1. N \in Nat /\ reading \in Channels
  BY Programs, SizesAssumption
<1>2. \A k \in 1 .. N : ReadOps(k - 1) \in Seq(Ask)
  <2> TAKE k \in 1 .. N
  <2>1. k - 1 \in Nat
    BY <1>1
  <2> QED BY <1>1, <2>1, ReadOpsAre
<1>3. \A k \in 0 .. N : BehindWords(j, k) = FlattenSeq(From(g, k))
  BY DEF BehindWords
<1>4. i \in 0 .. N
  OBVIOUS
<1>5. g \in Seq(Seq(Ask)) /\ Len(g) = N /\ \A k \in 1 .. N : g[k] = ReadOps(k - 1)
  <2> HIDE DEF N
  <2> QED BY <1>1, <1>2
<1> HIDE DEF N, g
<1>6. BehindWords(j, i) \in Seq(Ask)
  <2>1. From(g, i) \in Seq(Seq(Ask))
    BY <1>4, <1>5, FromType
  <2> QED BY <1>3, <1>4, <2>1, FlattenType
<1>7. i < N => BehindWords(j, i) = ReadOps(i) \o BehindWords(j, i + 1)
  <2> SUFFICES ASSUME i < N PROVE BehindWords(j, i) = ReadOps(i) \o BehindWords(j, i + 1)
    OBVIOUS
  <2>1. i \in 0 .. Len(g) - 1 /\ i + 1 \in 1 .. N /\ i + 1 \in 0 .. N /\ (i + 1) - 1 = i
    BY <1>1, <1>4, <1>5
  <2>2. FlattenSeq(From(g, i)) = g[i + 1] \o FlattenSeq(From(g, i + 1))
    BY <1>5, <2>1, FlattenNext
  <2>3. g[i + 1] = ReadOps(i)
    BY <1>5, <2>1
  <2> QED BY <1>3, <1>4, <2>1, <2>2, <2>3
<1>8. i = N => BehindWords(j, i) = <<>>
  <2>1. From(g, N) = <<>>
    BY <1>5, FromEnds
  <2> QED BY <1>3, <1>4, <2>1, FlattenNone
<1> QED BY <1>6, <1>7, <1>8 DEF N

\* Behind a word comes the next one.
LEMMA NextWord ==
    ASSUME ParsedOK, NEW j \in DOMAIN programs, programs[j].channel = reading,
           NEW i \in DOMAIN programs[j].insns, ReadingWord(j, i, 6)
    PROVE  IF i < Len(programs[j].insns) THEN ReadingWord(j, i + 1, 0) ELSE todo = <<>>
<1> DEFINE N == Len(programs[j].insns)
           o == ReadOps(i - 1)
           b == BehindWords(j, i)
<1>1. N \in Nat /\ i \in 1 .. N /\ i \in 0 .. N /\ reading \in Channels /\ i - 1 \in Nat
  BY Programs, SizesAssumption
<1>2. o \in Seq(Ask) /\ Len(o) = 6
  BY <1>1, ReadOpsAre
<1>3. b \in Seq(Ask)
  BY <1>1, BehindWordsAre
<1>4. /\ todo = From(o, 6) \o b /\ regs["ILD_STRB"] = {} /\ answers = <<>>
      /\ printed = SubSeq(programs[j].insns, 1, i)
  BY DEF ReadingWord
<1>5. todo = b
  <2> HIDE DEF o, b
  <2>1. From(o, 6) = <<>>
    BY <1>2, FromEnds
  <2> QED BY <1>3, <1>4, <2>1, EmptyFirst
<1>6. CASE i < N
  <2> DEFINE p == ReadOps(i)
             c == BehindWords(j, i + 1)
  <2>1. todo = p \o c
    BY <1>1, <1>5, <1>6, BehindWordsAre
  <2>2. p \in Seq(Ask) /\ Len(p) = 6
    BY <1>1, ReadOpsAre
  <2>3. From(p, 0) = p /\ (i + 1) - 1 = i
    BY <1>1, <2>2, FromEnds
  <2>4. todo = From(ReadOps((i + 1) - 1), 0) \o BehindWords(j, i + 1)
    BY <2>1, <2>3
  <2>5. printed = SubSeq(programs[j].insns, 1, (i + 1) - 1)
    BY <1>4, <2>3
  <2>6. ReadingWord(j, i + 1, 0)
    <3> DEFINE h == i + 1
    <3>1. /\ todo = From(ReadOps(h - 1), 0) \o BehindWords(j, h)
          /\ printed = SubSeq(programs[j].insns, 1, h - 1)
      BY <2>4, <2>5
    <3> HIDE DEF h
    <3>3. ~(0 = 1) /\ ~(0 \in 2 .. 4) /\ ~(0 = 3) /\ ~(0 = 4) /\ ~(0 = 6) /\ ~(0 >= 5)
      OBVIOUS
    <3>2. ReadingWord(j, h, 0)
      BY <1>4, <3>1, <3>3, Zenon DEF ReadingWord
    <3> QED BY <3>2 DEF h
  <2> QED BY <1>6, <2>6
<1>7. CASE i = N
  BY <1>1, <1>5, <1>7, BehindWordsAre
<1>8. i < N \/ i = N
  <2> HIDE DEF N
  <2> QED BY <1>1
<1> QED BY <1>6, <1>7, <1>8, Zenon

\* Reading leaves the memory and the depth of the channel alone.
LEMMA ReadingQuiet ==
    ASSUME ReadNext, Head(todo).reg \in {"IST_ADDR", "ILD_STRB", "ASK"}
    PROVE  UNCHANGED <<programs, launch, mode, reading, mem, depth>>
<1>1. CASE ReadPart(Head(todo))
  BY <1>1 DEF ReadNext, ReadPart, parsing, board
<1>2. CASE Write(Head(todo)) /\ Head(todo).reg # "ASK"
  <2>1. SetValue(Head(todo)) \/ LatchWord(Head(todo))
    BY <1>2 DEF Write, ApplyCtrl, StoreInsn, StartChannels, NewControl, ClearLaunches
  <2>2. UNCHANGED <<mem, depth>>
    BY <2>1 DEF SetValue, LatchWord
  <2> QED BY <2>2 DEF ReadNext, parsing
<1> QED BY <1>1, <1>2 DEF ReadNext

\* The program that is being read is the same one in the next state.
LEMMA SameReading ==
    ASSUME UNCHANGED <<programs, reading, mem, depth>>, NEW j
    PROVE  /\ ReadingFrom(j) => ReadingFrom(j)'
           /\ \A i : BehindWords(j, i)' = BehindWords(j, i)
BY DEF ReadingFrom, Latest, Stored, BehindWords, ReadOps

\* A sequence with one more element.
LEMMA OneMore ==
    ASSUME NEW A, NEW s \in Seq(A), NEW x \in A, NEW t \in Seq(A), Len(t) = Len(s) + 1,
           t[Len(s) + 1] = x, \A i \in 1 .. Len(s) : t[i] = s[i]
    PROVE  Append(s, x) = t
<1> DEFINE u == Append(s, x)
<1>1. /\ u \in Seq(A) /\ Len(u) = Len(s) + 1 /\ \A i \in 1 .. Len(s) : u[i] = s[i]
      /\ u[Len(s) + 1] = x
  BY AppendProperties
<1>2. Len(s) \in Nat
  OBVIOUS
<1> HIDE DEF u
<1>3. \A i \in 1 .. Len(u) : u[i] = t[i]
  <2> TAKE i \in 1 .. Len(u)
  <2>1. i \in 1 .. Len(s) \/ i = Len(s) + 1
    BY <1>1, <1>2
  <2> QED BY <1>1, <2>1
<1>4. u = t
  BY <1>1, <1>3, SeqEqual
<1> QED BY <1>4 DEF u

\* The next command of a group that is read with.
LEMMA ReadsOne ==
    ASSUME NEW ops \in Seq(Ask), NEW rest \in Seq(Ask), NEW n \in 0 .. Len(ops) - 1,
           todo = From(ops, n) \o rest, ReadNext
    PROVE  /\ Head(todo) = ops[n + 1] /\ todo' = From(ops, n + 1) \o rest
           /\ IF ops[n + 1].reg = "ASK" THEN ReadPart(ops[n + 1])
              ELSE Write(ops[n + 1]) /\ UNCHANGED <<answers, printed>>
<1>1. Head(todo) = ops[n + 1] /\ Tail(todo) = From(ops, n + 1) \o rest
  BY Advance
<1>2. todo' = Tail(todo)
  BY DEF ReadNext
<1> QED BY <1>1, <1>2 DEF ReadNext, ReadPart

\* The strobe is released before the first word.
LEMMA AskedStep ==
    ASSUME ParsedOK, BoardType, ReadNext, NEW j \in DOMAIN programs, ReadingFrom(j), Asked(j)
    PROVE  ReadingFrom(j)' /\ ReadingWord(j, 1, 0)'
<1> DEFINE c == Set("ILD_STRB", {})
           b == BehindWords(j, 0)
           p == ReadOps(0)
           d == BehindWords(j, 1)
<1>1. /\ programs[j].channel = reading /\ reading \in Channels /\ 0 \in 0 .. Len(programs[j].insns)
      /\ 1 \in 0 .. Len(programs[j].insns) /\ 0 < Len(programs[j].insns)
      /\ Len(programs[j].insns) \in Nat
  BY Programs, SizesAssumption DEF ReadingFrom
<1>2. b \in Seq(Ask) /\ b = p \o d /\ d \in Seq(Ask)
  <2>1. b \in Seq(Ask) /\ b = p \o BehindWords(j, 0 + 1)
    BY <1>1, BehindWordsAre
  <2>2. d \in Seq(Ask)
    BY <1>1, BehindWordsAre
  <2> QED BY <2>1, <2>2
<1>3. c \in Ask /\ c.reg = "ILD_STRB" /\ c.data = {}
  BY Registers DEF Set, Ask, Strobes
<1>4. todo = <<c>> \o b /\ printed = <<>> /\ answers = <<>>
  BY DEF Asked
<1>5. p \in Seq(Ask) /\ Len(p) = 6
  BY <1>1, ReadOpsAre
<1> HIDE DEF c, b
<1>6. Head(todo) = c /\ todo' = b
  <2> DEFINE o == <<c>>
  <2>1. o \in Seq(Ask) /\ Len(o) = 1 /\ o[1] = c /\ 0 \in 0 .. Len(o) - 1
    BY <1>3
  <2> HIDE DEF o
  <2>2. From(o, 0) = o /\ From(o, 1) = <<>>
    BY <2>1, FromEnds
  <2>3. todo = From(o, 0) \o b
    BY <1>4, <2>2 DEF o
  <2>4. Head(todo) = o[0 + 1] /\ Tail(todo) = From(o, 0 + 1) \o b
    BY <1>2, <2>1, <2>3, Advance
  <2>5. <<>> \o b = b
    BY <1>2, EmptyFirst
  <2>6. Tail(todo) = b
    <3>1. 0 + 1 = 1
      OBVIOUS
    <3> QED BY <2>2, <2>4, <2>5, <3>1
  <2>7. Head(todo) = c
    <3>1. 0 + 1 = 1
      OBVIOUS
    <3> QED BY <2>1, <2>4, <3>1
  <2> QED BY <2>6, <2>7, Zenon DEF ReadNext
<1>7. Write(c) /\ UNCHANGED <<answers, printed>>
  BY <1>3, <1>6 DEF ReadNext, ReadPart
<1>8. UNCHANGED <<programs, reading, mem, depth>>
  BY <1>3, <1>6, ReadingQuiet
<1>9. regs'["ILD_STRB"] = {}
  <2>1. "ILD_STRB" \in Regs
    BY Registers DEF Strobes
  <2> QED BY <1>3, <1>7, <2>1 DEF Write, BoardType
<1>10. todo' = From(ReadOps(1 - 1), 0) \o BehindWords(j, 1)
  <2> HIDE DEF p
  <2>1. From(p, 0) = p
    BY <1>5, FromEnds
  <2> QED BY <1>2, <1>6, <2>1 DEF p
<1>11. printed' = SubSeq(programs[j].insns, 1, 1 - 1) /\ answers' = <<>>
  <2> DEFINE s == programs[j].insns
  <2>1. s \in Seq(DcInsn)
    BY Programs, Zenon DEF Loadable
  <2> HIDE DEF s
  <2>2. SubSeq(s, 1, 0) = <<>>
    BY <2>1, SubSeqEmpty
  <2> QED BY <1>4, <1>7, <2>2 DEF s
<1>12. ReadingFrom(j)' /\ BehindWords(j, 1)' = BehindWords(j, 1) /\ ReadOps(1 - 1)' = ReadOps(1 - 1)
  BY <1>8, SameReading DEF ReadOps
<1>13. ~(0 = 1) /\ ~(0 \in 2 .. 4) /\ ~(0 = 3) /\ ~(0 = 4) /\ ~(0 = 6) /\ ~(0 >= 5)
  OBVIOUS
<1>14. ReadingWord(j, 1, 0)'
  BY <1>8, <1>9, <1>10, <1>11, <1>12, <1>13, Zenon DEF ReadingWord
<1> QED BY <1>12, <1>14

\* The parts of a word, taken one at a time.
LEMMA ThreeParts ==
    ASSUME NEW w, w = <<w[1], w[2], w[3]>>
    PROVE  /\ Append(<<>>, w[1]) = <<w[1]>> /\ Append(<<w[1]>>, w[2]) = <<w[1], w[2]>>
           /\ Append(<<w[1], w[2]>>, w[3]) = w
           /\ Len(<<w[1]>>) < 3 /\ Len(<<w[1], w[2]>>) < 3 /\ ~(Len(w) < 3)
<1> DEFINE x == w[1]
           y == w[2]
           z == w[3]
<1>1. w = <<x, y, z>>
  OBVIOUS
<1> HIDE DEF x, y, z
<1>2. /\ Len(<<x>>) = 1 /\ Len(<<x, y>>) = 2 /\ Len(<<x, y, z>>) = 3
      /\ Append(<<>>, x) = <<x>>
  OBVIOUS
<1>3. Append(<<x>>, y) = <<x, y>>
  <2> DEFINE A == {x, y, z}  s == <<x>>  t == <<x, y>>
  <2>1. /\ s \in Seq(A) /\ t \in Seq(A) /\ y \in A /\ Len(t) = Len(s) + 1
        /\ t[Len(s) + 1] = y /\ \A i \in 1 .. Len(s) : t[i] = s[i]
    OBVIOUS
  <2> HIDE DEF A, s, t
  <2> QED BY <2>1, OneMore DEF s, t
<1>4. Append(<<x, y>>, z) = <<x, y, z>>
  <2> DEFINE A == {x, y, z}  s == <<x, y>>  t == <<x, y, z>>
  <2>1. /\ s \in Seq(A) /\ t \in Seq(A) /\ z \in A /\ Len(t) = Len(s) + 1
        /\ t[Len(s) + 1] = z /\ \A i \in 1 .. Len(s) : t[i] = s[i]
    OBVIOUS
  <2> HIDE DEF A, s, t
  <2> QED BY <2>1, OneMore DEF s, t
<1> QED BY <1>1, <1>2, <1>3, <1>4 DEF x, y, z

\* One step through a word.
LEMMA WordStep ==
    ASSUME ParsedOK, BoardType, ReadNext, NEW j \in DOMAIN programs, ReadingFrom(j),
           NEW i \in DOMAIN programs[j].insns, NEW n \in 0 .. 5, ReadingWord(j, i, n)
    PROVE  ReadingFrom(j)' /\ ReadingWord(j, i, n + 1)'
<1> DEFINE s == programs[j].insns
           x == s[i]
           e == Encode(x)
           w == WordParts(e)
           o == ReadOps(i - 1)
           b == BehindWords(j, i)
<1>1. /\ programs[j].channel = reading /\ reading \in Channels /\ reading \in Int
      /\ Len(s) \in Nat /\ i \in 1 .. Len(s) /\ i \in 0 .. Len(s) /\ i - 1 \in Nat /\ x \in DcInsn
  BY Programs, SizesAssumption DEF ReadingFrom
<1>2. s \in Seq(DcInsn)
  BY Programs, Zenon DEF Loadable
<1>3. /\ o \in Seq(Ask) /\ Len(o) = 6
      /\ o[1] = Set("IST_ADDR", i - 1) /\ o[2] = Set("ILD_STRB", {reading})
      /\ o[3] = AskPart(1) /\ o[4] = AskPart(2) /\ o[5] = AskPart(3)
      /\ o[6] = Set("ILD_STRB", {})
  BY <1>1, ReadOpsAre
<1>4. b \in Seq(Ask)
  BY <1>1, BehindWordsAre
<1>5. mem[reading][i - 1] = e
  BY <1>1 DEF ReadingFrom, Stored
<1>6. w = <<w[1], w[2], w[3]>> /\ DecodeInsn(FromRegs(w)) = x
  BY <1>1, PartsAreNumbers, RoundTrip DEF ToRegs
<1> DEFINE a1 == <<w[1]>>
           a2 == <<w[1], w[2]>>
           p0 == SubSeq(s, 1, i - 1)
           p1 == SubSeq(s, 1, i)
<1>7. /\ todo = From(o, n) \o b
      /\ n < 2 => regs["ILD_STRB"] = {}
      /\ n = 1 => regs["IST_ADDR"] = i - 1
      /\ n \in 2 .. 4 => insn_rd = e
      /\ answers = IF n = 3 THEN a1 ELSE IF n = 4 THEN a2 ELSE <<>>
  BY DEF ReadingWord
<1>17. printed = IF n >= 5 THEN p1 ELSE p0
  BY DEF ReadingWord
<1>8. "ILD_STRB" \in Regs /\ "IST_ADDR" \in Regs /\ "IST_ADDR" \notin Strobes
  BY Registers DEF Strobes
<1>9. regs = [r \in Regs |-> regs[r]]
  BY DEF BoardType
<1>18. /\ Append(<<>>, w[1]) = a1 /\ Append(a1, w[2]) = a2 /\ Append(a2, w[3]) = w
       /\ Len(a1) < 3 /\ Len(a2) < 3 /\ ~(Len(w) < 3)
  BY <1>6, ThreeParts
<1>19. Append(p0, x) = p1
  <2>1. i \in 1 .. Len(s)
    BY <1>1
  <2> HIDE DEF s
  <2>2. Append(SubSeq(s, 1, i - 1), s[i]) = SubSeq(s, 1, i)
    BY <1>2, <2>1
  <2> QED BY <2>2
<1> HIDE DEF b, o, x, e, w, s, a1, a2, p0, p1
<1>10. n \in 0 .. Len(o) - 1
  BY <1>3
<1>11. /\ Head(todo) = o[n + 1] /\ todo' = From(o, n + 1) \o b
       /\ IF o[n + 1].reg = "ASK" THEN ReadPart(o[n + 1])
          ELSE Write(o[n + 1]) /\ UNCHANGED <<answers, printed>>
  BY <1>3, <1>4, <1>7, <1>10, ReadsOne
<1>12. o[n + 1].reg \in {"IST_ADDR", "ILD_STRB", "ASK"}
  <2>1. n \in {0, 1, 2, 3, 4, 5}
    OBVIOUS
  <2>2. /\ o[0 + 1].reg = "IST_ADDR" /\ o[1 + 1].reg = "ILD_STRB" /\ o[2 + 1].reg = "ASK"
        /\ o[3 + 1].reg = "ASK" /\ o[4 + 1].reg = "ASK" /\ o[5 + 1].reg = "ILD_STRB"
    BY <1>3 DEF Set, AskPart
  <2> QED BY <2>1, <2>2
<1>13. UNCHANGED <<programs, launch, mode, reading, mem, depth>>
  BY <1>11, <1>12, ReadingQuiet
<1> DEFINE After ==
              /\ n + 1 < 2 => regs'["ILD_STRB"] = {}
              /\ n + 1 = 1 => regs'["IST_ADDR"] = i - 1
              /\ n + 1 \in 2 .. 4 => insn_rd' = e
              /\ answers' = IF n + 1 = 3 THEN a1 ELSE IF n + 1 = 4 THEN a2 ELSE <<>>
              /\ n + 1 = 6 => regs'["ILD_STRB"] = {}
              /\ printed' = IF n + 1 >= 5 THEN p1 ELSE p0
<1>20. ASSUME n \in {0, 1, 5} PROVE After
  <2>1. Write(o[n + 1]) /\ UNCHANGED <<answers, printed>>
    <3>1. o[0 + 1].reg # "ASK" /\ o[1 + 1].reg # "ASK" /\ o[5 + 1].reg # "ASK"
      BY <1>3 DEF Set
    <3> QED BY <1>11, <1>20, <3>1
  <2>2. n = 0 => regs'["ILD_STRB"] = {} /\ regs'["IST_ADDR"] = i - 1
    <3> SUFFICES ASSUME n = 0 PROVE regs'["ILD_STRB"] = {} /\ regs'["IST_ADDR"] = i - 1
      OBVIOUS
    <3>1. o[n + 1].reg = "IST_ADDR" /\ o[n + 1].data = i - 1
      BY <1>3 DEF Set
    <3> QED BY <1>7, <1>8, <1>9, <2>1, <3>1 DEF Write
  <2>3. n = 1 => insn_rd' = e
    <3> SUFFICES ASSUME n = 1 PROVE insn_rd' = e
      OBVIOUS
    <3>1. o[n + 1].reg = "ILD_STRB" /\ o[n + 1].data = {reading}
      BY <1>3 DEF Set
    <3>2. LatchWord(o[n + 1])
      BY <2>1, <3>1 DEF Write, ApplyCtrl, StoreInsn, StartChannels, NewControl, ClearLaunches, SetValue, Strobes
    <3>3. Rising(o[n + 1]) = {reading}
      BY <1>7, <3>1 DEF Rising
    <3>4. Max({reading}) = reading
      BY <1>1 DEF Max
    <3> QED BY <1>5, <1>7, <3>2, <3>3, <3>4 DEF LatchWord
  <2>4. n = 5 => regs'["ILD_STRB"] = {}
    <3> SUFFICES ASSUME n = 5 PROVE regs'["ILD_STRB"] = {}
      OBVIOUS
    <3>1. o[n + 1].reg = "ILD_STRB" /\ o[n + 1].data = {}
      BY <1>3 DEF Set
    <3> QED BY <1>8, <1>9, <2>1, <3>1 DEF Write
  <2>5. answers' = <<>> /\ printed' = printed
    BY <1>7, <1>20, <2>1
  <2> QED BY <1>17, <1>20, <2>2, <2>3, <2>4, <2>5
<1>21. ASSUME n \in {2, 3, 4} PROVE After
  <2>1. o[n + 1].reg = "ASK" /\ o[n + 1].data = n - 1
    <3>1. o[n + 1] = AskPart(n - 1)
      <4>1. o[2 + 1] = AskPart(2 - 1) /\ o[3 + 1] = AskPart(3 - 1) /\ o[4 + 1] = AskPart(4 - 1)
        BY <1>3
      <4> QED BY <1>21, <4>1
    <3> QED BY <3>1 DEF AskPart
  <2>2. ReadPart(o[n + 1])
    BY <1>11, <2>1
  <2>3. insn_rd' = e /\ insn_rd = e
    <3>1. insn_rd' = insn_rd
      BY <2>2 DEF ReadPart, board
    <3> QED BY <1>7, <1>21, <3>1
  <2> DEFINE v == Append(answers, w[n - 1])
  <2>4. /\ Len(v) < 3 => answers' = v /\ printed' = printed
        /\ ~(Len(v) < 3) => answers' = <<>> /\ printed' = Append(printed, DecodeInsn(FromRegs(v)))
    BY <2>1, <2>2, <2>3 DEF ReadPart, w
  <2>5. v = IF n = 2 THEN a1 ELSE IF n = 3 THEN a2 ELSE w
    BY <1>7, <1>18, <1>21
  <2> HIDE DEF v
  <2>6. printed = p0
    BY <1>17, <1>21
  <2>7. CASE n = 4
    <3>1. v = w
      BY <2>5, <2>7
    <3>2. answers' = <<>> /\ printed' = p1
      BY <1>6, <1>18, <1>19, <2>4, <2>6, <3>1
    <3> QED BY <2>3, <2>7, <3>2
  <2>8. CASE n = 2 \/ n = 3
    <3>1. v = IF n = 2 THEN a1 ELSE a2
      BY <2>5, <2>8
    <3>2. answers' = v /\ printed' = p0
      BY <1>18, <2>4, <2>6, <2>8, <3>1
    <3> QED BY <2>3, <2>8, <3>1, <3>2
  <2> QED BY <1>21, <2>7, <2>8
<1>22. n \in {0, 1, 5} \/ n \in {2, 3, 4}
  OBVIOUS
<1>23. After
  BY <1>20, <1>21, <1>22
<1>14. SubSeq(s, 1, IF n + 1 >= 5 THEN i ELSE i - 1) = IF n + 1 >= 5 THEN p1 ELSE p0
  BY DEF p0, p1
<1>15. ReadingFrom(j)' /\ BehindWords(j, i)' = BehindWords(j, i) /\ ReadOps(i - 1)' = ReadOps(i - 1)
  BY <1>13, SameReading DEF ReadOps
<1>16. ReadingWord(j, i, n + 1)'
  BY <1>11, <1>13, <1>14, <1>15, <1>23, Zenon DEF After, ReadingWord, s, x, e, w, o, b, a1, a2
<1> QED BY <1>15, <1>16

\* Within a word there is something to be sent.
LEMMA WordMore ==
    ASSUME ParsedOK, NEW j \in DOMAIN programs, ReadingFrom(j), NEW i \in DOMAIN programs[j].insns,
           NEW n \in 0 .. 5, ReadingWord(j, i, n)
    PROVE  todo # <<>>
<1> DEFINE o == ReadOps(i - 1)
           b == BehindWords(j, i)
<1>1. /\ programs[j].channel = reading /\ reading \in Channels
      /\ i \in 0 .. Len(programs[j].insns) /\ i - 1 \in Nat
  BY Programs, SizesAssumption DEF ReadingFrom
<1>2. o \in Seq(Ask) /\ Len(o) = 6 /\ b \in Seq(Ask)
  BY <1>1, ReadOpsAre, BehindWordsAre
<1>3. todo = From(o, n) \o b
  BY DEF ReadingWord
<1> HIDE DEF o, b
<1>4. n \in 0 .. Len(o) - 1
  BY <1>2
<1> QED BY <1>2, <1>3, <1>4, Advance

\* A program is read from the channel that still has it.
LEMMA OpeningStep ==
    ASSUME ParsedOK, SessionOK, OpenReading
    PROVE  Reading'
<1>1. /\ todo = <<>> /\ Sending /\ reading' \in Named /\ answers = <<>> /\ printed = <<>>
      /\ UNCHANGED <<programs, launch, todo, mem, depth, answers, printed>>
  BY DEF OpenReading, SessionOK, board
<1> DEFINE N == Len(programs)
<1>2. Board(N, N)
  BY <1>1, NoneIsSent DEF Sent, Loaded, Launching
<1>3. PICK j \in DOMAIN programs : programs[j].channel = reading' /\ Latest(j, N)
  BY <1>1, LastProgram
<1>4. Stored(j, Len(programs[j].insns)) /\ depth[programs[j].channel] = Len(programs[j].insns) - 1
  BY <1>2, <1>3, Programs DEF Board, Kept
<1>5. ReadingFrom(j)'
  BY <1>1, <1>3, <1>4 DEF ReadingFrom, Latest, Stored
<1>6. Opened'
  BY <1>1 DEF Opened
<1> QED BY <1>1, <1>3, <1>5, <1>6 DEF Reading

\* As many words are asked for as the program has instructions.
LEMMA AskingStep ==
    ASSUME ParsedOK, Reading, AskDepth
    PROVE  Reading'
<1>1. PICK j \in DOMAIN programs :
          /\ ReadingFrom(j)
          /\ \/ Opened \/ Asked(j)
             \/ \E i \in DOMAIN programs[j].insns, n \in 0 .. 6 : ReadingWord(j, i, n)
  BY DEF Reading
<1>2. /\ todo = <<>> /\ printed = <<>>
      /\ todo' = <<Set("ILD_STRB", {})>> \o FlattenSeq([k \in 1 .. depth[reading] + 1 |-> ReadOps(k - 1)])
      /\ UNCHANGED <<programs, launch, reading, mem, depth, answers, printed>>
  BY DEF AskDepth, parsing, board, reader
<1>3. answers = <<>>
  <2>1. CASE Opened \/ Asked(j)
    BY <2>1 DEF Opened, Asked
  <2>2. ASSUME NEW i \in DOMAIN programs[j].insns, NEW n \in 0 .. 6, ReadingWord(j, i, n)
        PROVE  answers = <<>>
    <3>1. CASE n \in 0 .. 5
      BY <1>1, <1>2, <2>2, <3>1, WordMore
    <3>2. CASE n = 6
      <4>1. ~(n = 3) /\ ~(n = 4)
        BY <3>2
      <4> QED BY <2>2, <4>1, Zenon DEF ReadingWord
    <3> QED BY <3>1, <3>2
  <2> QED BY <1>1, <2>1, <2>2
<1> DEFINE g == [k \in 1 .. Len(programs[j].insns) |-> ReadOps(k - 1)]
<1>4. depth[reading] + 1 = Len(programs[j].insns)
  BY <1>1, Programs DEF ReadingFrom
<1>5. BehindWords(j, 0) = FlattenSeq(g)
  <2>1. Len(programs[j].insns) \in Nat /\ reading \in Channels
    BY <1>1, Programs, SizesAssumption DEF ReadingFrom
  <2>2. \A k \in 1 .. Len(programs[j].insns) : ReadOps(k - 1) \in Seq(Ask)
    <3> TAKE k \in 1 .. Len(programs[j].insns)
    <3>1. k - 1 \in Nat
      BY <2>1
    <3> QED BY <2>1, <3>1, ReadOpsAre
  <2> DEFINE n == Len(programs[j].insns)
  <2>3. g \in Seq(Seq(Ask))
    <3>1. n \in Nat /\ g = [k \in 1 .. n |-> ReadOps(k - 1)] /\ \A k \in 1 .. n : ReadOps(k - 1) \in Seq(Ask)
      BY <2>1, <2>2
    <3> HIDE DEF n, g
    <3> QED BY <3>1
  <2>4. BehindWords(j, 0) = FlattenSeq(From(g, 0))
    BY DEF BehindWords
  <2> HIDE DEF g
  <2>5. From(g, 0) = g
    BY <2>3, FromEnds
  <2> QED BY <2>4, <2>5
<1>6. todo' = <<Set("ILD_STRB", {})>> \o BehindWords(j, 0)
  BY <1>2, <1>4, <1>5
<1>7. ReadingFrom(j)' /\ BehindWords(j, 0)' = BehindWords(j, 0)
  BY <1>1, <1>2, SameReading
<1>8. Asked(j)'
  BY <1>2, <1>3, <1>6, <1>7, Zenon DEF Asked
<1> QED BY <1>2, <1>7, <1>8 DEF Reading

\* Word by word.
LEMMA ReadingStep ==
    ASSUME ParsedOK, BoardType, Reading, ReadNext
    PROVE  Reading'
<1>1. PICK j \in DOMAIN programs :
          /\ ReadingFrom(j)
          /\ \/ Opened \/ Asked(j)
             \/ \E i \in DOMAIN programs[j].insns, n \in 0 .. 6 : ReadingWord(j, i, n)
  BY DEF Reading
<1>2. todo # <<>> /\ programs' = programs
  BY DEF ReadNext, parsing
<1>3. programs[j].channel = reading
  BY <1>1 DEF ReadingFrom
<1>4. ASSUME NEW i \in DOMAIN programs[j].insns, NEW n \in 0 .. 6,
             ReadingFrom(j)', ReadingWord(j, i, n)'
      PROVE  Reading'
  BY <1>2, <1>4, Zenon DEF Reading
<1>5. CASE Opened
  BY <1>2, <1>5 DEF Opened
<1>6. CASE Asked(j)
  <2>1. ReadingFrom(j)' /\ ReadingWord(j, 1, 0)'
    BY <1>1, <1>6, AskedStep
  <2>2. 1 \in DOMAIN programs[j].insns /\ 0 \in 0 .. 6
    BY Programs
  <2> QED BY <1>4, <2>1, <2>2
<1>7. ASSUME NEW i \in DOMAIN programs[j].insns, NEW n \in 0 .. 5, ReadingWord(j, i, n)
      PROVE  Reading'
  <2>1. ReadingFrom(j)' /\ ReadingWord(j, i, n + 1)'
    BY <1>1, <1>7, WordStep
  <2>2. n + 1 \in 0 .. 6
    OBVIOUS
  <2> QED BY <1>4, <2>1, <2>2
<1>8. ASSUME NEW i \in DOMAIN programs[j].insns, ReadingWord(j, i, 6)
      PROVE  Reading'
  <2>1. i < Len(programs[j].insns) /\ ReadingWord(j, i + 1, 0)
    BY <1>2, <1>3, <1>8, NextWord
  <2>2. i + 1 \in DOMAIN programs[j].insns /\ 0 \in 0 .. 5
    BY <2>1, Programs
  <2> QED BY <1>7, <2>1, <2>2
<1>9. ASSUME NEW i \in DOMAIN programs[j].insns, NEW n \in 0 .. 6, ReadingWord(j, i, n)
      PROVE  Reading'
  <2>1. n \in 0 .. 5 \/ n = 6
    OBVIOUS
  <2> QED BY <1>7, <1>8, <1>9, <2>1
<1> QED BY <1>1, <1>5, <1>6, <1>9

\* A session in which nothing happens stays where it is.
LEMMA SameSession ==
    ASSUME UNCHANGED vars
    PROVE  /\ Sending => Sending'
           /\ Reading => Reading'
<1>1. /\ UNCHANGED <<mode, file, line, prog, programs, launch, todo, clearing, regs, mem, ctrl, runs>>
      /\ UNCHANGED <<launches, depth, insn_rd, reading, answers, printed>>
  BY DEF vars, parsing, board, reader
<1>2. ASSUME NEW ops, NEW n, NEW rest, Within(ops, n, rest) PROVE Within(ops, n, rest)'
  BY <1>1, <1>2 DEF Within, Hold
<1>3. ASSUME NEW k, NEW m
      PROVE  /\ Board(k, m) => Board(k, m)'
             /\ CtrlGiven(k) => CtrlGiven(k)'
             /\ Stored(k, m) => Stored(k, m)'
  BY <1>1, SameBoard
<1>4. ASSUME NEW k PROVE BehindPrograms(k)' = BehindPrograms(k)
  BY <1>1, SameRest
<1>5. ASSUME Sending PROVE Sending'
  <2>1. ASSUME NEW n \in 0 .. 3, Clearing(n) PROVE Sending'
    <3>1. Clearing(n)'
      BY <1>1, <1>2, <1>3, <1>4, <2>1 DEF Clearing
    <3> QED BY <3>1 DEF Sending
  <2>2. ASSUME NEW k \in 0 .. Len(programs), Loaded(k) PROVE Sending'
    <3>1. Loaded(k)'
      BY <1>1, <1>3, <1>4, <2>2 DEF Loaded
    <3> QED BY <1>1, <3>1 DEF Sending
  <2>3. ASSUME NEW k \in DOMAIN programs, NEW n \in 0 .. Len(CtrlOps(programs[k])), Controlling(k, n)
        PROVE  Sending'
    <3>1. Controlling(k, n)'
      BY <1>1, <1>2, <1>3, <1>4, <2>3 DEF Controlling
    <3> QED BY <1>1, <3>1 DEF Sending
  <2>4. ASSUME NEW k \in DOMAIN programs, NEW i \in DOMAIN programs[k].insns, NEW n \in 0 .. 7,
               Storing(k, i, n)
        PROVE  Sending'
    <3>1. Storing(k, i, n)'
      BY <1>1, <1>2, <1>3, <1>4, <2>4 DEF Storing
    <3> QED BY <1>1, <3>1 DEF Sending
  <2>5. ASSUME NEW k \in DOMAIN programs, NEW n \in 0 .. 5, Starting(k, n) PROVE Sending'
    <3>1. Starting(k, n)'
      BY <1>1, <1>2, <1>3, <1>4, <2>5 DEF Starting
    <3> QED BY <1>1, <3>1 DEF Sending
  <2>6. ASSUME launch # <<>>, NEW n \in 0 .. Len(LaunchOps(launch[1])), Launching(n) PROVE Sending'
    <3>1. Launching(n)'
      BY <1>1, <1>2, <1>3, <2>6 DEF Launching
    <3> QED BY <1>1, <2>6, <3>1 DEF Sending
  <2> QED BY <1>5, <2>1, <2>2, <2>3, <2>4, <2>5, <2>6 DEF Sending
<1>6. ASSUME Reading PROVE Reading'
  <2>1. PICK j \in DOMAIN programs :
            /\ ReadingFrom(j)
            /\ \/ Opened \/ Asked(j)
               \/ \E i \in DOMAIN programs[j].insns, n \in 0 .. 6 : ReadingWord(j, i, n)
    BY <1>6 DEF Reading
  <2>2. ReadingFrom(j)' /\ \A i : BehindWords(j, i)' = BehindWords(j, i)
    BY <1>1, <2>1, SameReading
  <2>3. (Opened => Opened') /\ (Asked(j) => Asked(j)')
    BY <1>1, <2>2 DEF Opened, Asked
  <2>4. ASSUME NEW i \in DOMAIN programs[j].insns, NEW n \in 0 .. 6, ReadingWord(j, i, n)
        PROVE  ReadingWord(j, i, n)'
    BY <1>1, <2>2, <2>4 DEF ReadingWord, ReadOps
  <2> QED BY <1>1, <2>1, <2>2, <2>3, <2>4 DEF Reading
<1> QED BY <1>5, <1>6

\* A session that parses, sends and reads does so in this order.
LEMMA SessionNext ==
    ASSUME ParsedOK, BoardType, SessionOK, [Next]_vars
    PROVE  SessionOK'
<1>1. CASE UNCHANGED vars
  BY <1>1, SameSession DEF vars, parsing, board, reader, SessionOK, StaleMemory, StaleCtrl, StaleDepth
<1>2. ASSUME mode \notin {"SENDING", "READING"}, mode' \notin {"SENDING", "READING"},
             mode' \in {"SHELL", "DONE"} => line' = <<>>, UNCHANGED <<board, reader>>
      PROVE  SessionOK'
  BY <1>2 DEF SessionOK, board, reader
<1>3. CASE Parse
  <2>1. UNCHANGED <<board, reader>> /\ ParseStep
    BY <1>3 DEF Parse
  <2>2. CASE SkipEmpty
    <3>1. line # <<>> /\ line' = <<>> /\ mode' = mode
      BY <2>2 DEF SkipEmpty, Is, Taken
    <3>2. mode \notin {"SHELL", "DONE", "SENDING", "READING"}
      BY <3>1 DEF SessionOK
    <3> QED BY <1>2, <2>1, <3>1, <3>2
  <2>3. CASE ~SkipEmpty
    <3>1. /\ mode \notin {"SENDING", "READING", "SHELL", "DONE"}
          /\ mode' \notin {"SENDING", "READING"}
          /\ mode' \in {"SHELL", "DONE"} => line' = <<>>
      BY <2>1, <2>3 DEF ParseStep, ReadLine, OpenProgram, SetCtrl, SetRepeat, AddInsn, CloseProgram,
         SetLaunch, SetMask, SetMarkers, Finish, Reject, Fail, Taken
    <3> QED BY <1>2, <2>1, <3>1
  <2> QED BY <2>2, <2>3
<1>4. CASE Invoke \/ ExitFailed
  <2>1. /\ mode \notin {"SENDING", "READING"} /\ mode' \notin {"SENDING", "READING"}
        /\ UNCHANGED <<board, reader>>
        /\ (line' = <<>> \/ (mode = "SHELL" /\ line' = line))
    BY <1>4 DEF Invoke, ExitFailed
  <2>2. mode' \in {"SHELL", "DONE"} => line' = <<>>
    BY <2>1 DEF SessionOK
  <2> QED BY <1>2, <1>4, <2>1, <2>2 DEF Invoke, ExitFailed
<1>5. CASE Connect
  <2>1. Sending'
    BY <1>5, ConnectStarts
  <2>2. mode = "DONE" /\ mode' = "SENDING" /\ line' = line /\ UNCHANGED reader
    BY <1>5 DEF Connect
  <2> QED BY <2>1, <2>2 DEF SessionOK, reader
<1>6. CASE SendNext
  <2>1. mode = "SENDING" /\ mode' = mode /\ line' = line /\ UNCHANGED reader
    BY <1>6 DEF SendNext, parsing
  <2>2. Sending'
    BY <1>6, <2>1, SendStep DEF SessionOK
  <2> QED BY <2>1, <2>2 DEF SessionOK, reader
<1>7. CASE OpenReading
  <2>1. Reading'
    BY <1>7, OpeningStep
  <2>2. mode = "SENDING" /\ mode' = "READING" /\ line' = line
    BY <1>7 DEF OpenReading
  <2> QED BY <2>1, <2>2 DEF SessionOK
<1>8. CASE AskDepth \/ ReadNext
  <2>1. mode = "READING" /\ mode' = mode /\ line' = line
    BY <1>8 DEF AskDepth, ReadNext, parsing
  <2>2. Reading'
    BY <1>8, <2>1, AskingStep, ReadingStep DEF SessionOK
  <2> QED BY <2>1, <2>2 DEF SessionOK
<1>9. CASE Disconnect
  <2>1. /\ mode \in {"SENDING", "READING"} /\ mode' = "SHELL" /\ line' = line
        /\ mem' = StaleMemory /\ ctrl' = StaleCtrl /\ depth' = StaleDepth
        /\ runs' = <<>> /\ launches' = <<>> /\ answers' = <<>> /\ printed' = <<>>
    BY <1>9 DEF Disconnect
  <2> QED BY <2>1 DEF SessionOK, StaleMemory, StaleCtrl, StaleDepth
<1> QED BY <1>1, <1>3, <1>4, <1>5, <1>6, <1>7, <1>8, <1>9 DEF Next

\* What a session has done to the board is what some programs of the file ask for.
SentSoFar(k, m) ==
    /\ k \in 0 .. Len(programs) /\ m \in 0 .. Len(programs) /\ Board(k, m)
    /\ \/ launches = <<>>
       \/ /\ launch # <<>> /\ k = Len(programs) /\ launches = <<launches[1]>>
          /\ Launched(launch[1], launches[1]) /\ launches[1].after = k

\* Wherever a session is, that holds for some number of programs.
LEMMA SentPrograms ==
    ASSUME ParsedOK, Sending
    PROVE  \E k, m : SentSoFar(k, m)
<1> DEFINE N == Len(programs)
<1>1. N \in Nat /\ 0 \in 0 .. N /\ N \in 0 .. N
  BY Programs
<1>2. \A k \in DOMAIN programs : k \in 0 .. N /\ k - 1 \in 0 .. N
  BY <1>1, Programs
<1>3. ASSUME NEW n \in 0 .. 3, Clearing(n) PROVE SentSoFar(0, 0)
  BY <1>1, <1>3 DEF Clearing, SentSoFar
<1>4. ASSUME NEW k \in 0 .. N, Loaded(k) PROVE SentSoFar(k, k)
  BY <1>4 DEF Loaded, SentSoFar
<1>5. ASSUME NEW k \in DOMAIN programs, NEW n \in 0 .. Len(CtrlOps(programs[k])), Controlling(k, n)
      PROVE  SentSoFar(k - 1, k)
  BY <1>2, <1>5 DEF Controlling, SentSoFar
<1>6. ASSUME NEW k \in DOMAIN programs, NEW i \in DOMAIN programs[k].insns, NEW n \in 0 .. 7,
             Storing(k, i, n)
      PROVE  SentSoFar(k - 1, k)
  BY <1>2, <1>6 DEF Storing, SentSoFar
<1>7. ASSUME NEW k \in DOMAIN programs, NEW n \in 0 .. 5, Starting(k, n)
      PROVE  SentSoFar(k, k) \/ SentSoFar(k - 1, k)
  <2>1. launches = <<>>
    BY <1>7 DEF Starting
  <2>2. CASE n >= 4
    BY <1>2, <1>7, <2>1, <2>2 DEF Starting, SentSoFar
  <2>3. CASE ~(n >= 4)
    BY <1>2, <1>7, <2>1, <2>3 DEF Starting, SentSoFar
  <2> QED BY <2>2, <2>3
<1>8. ASSUME launch # <<>>, NEW n \in 0 .. Len(LaunchOps(launch[1])), Launching(n)
      PROVE  SentSoFar(N, N)
  <2>1. CASE n < 5
    BY <1>1, <1>8, <2>1 DEF Launching, SentSoFar
  <2>2. CASE ~(n < 5)
    BY <1>1, <1>8, <2>2 DEF Launching, SentSoFar
  <2> QED BY <2>1, <2>2
<1> QED BY <1>3, <1>4, <1>5, <1>6, <1>7, <1>8 DEF Sending

\* The markers are set by the last commands of a launch.
LEMMA MarkersAreSet ==
    ASSUME NEW l \in Launchable, Len(l.marker_sels) <= 1, Hold(regs, LaunchOps(l), Len(LaunchOps(l)))
    PROVE  MarkersSet(l)
<1> DEFINE o == LaunchOps(l)
<1> SUFFICES ASSUME l.marker_sels # <<>>, NEW m \in DOMAIN l.marker_sels[1]
             PROVE  regs[MarkerRegs[m]] = l.marker_sels[1][m]
  BY DEF MarkersSet
<1>1. /\ m \in 1 .. NumMarkers /\ Len(o) = 6 + NumMarkers /\ NumMarkers \in 0 .. 3
      /\ o[6 + m] = Set(MarkerRegs[m], l.marker_sels[1][m])
      /\ \A i \in 7 .. Len(o) : i - 6 \in 1 .. 3 /\ o[i].reg = MarkerRegs[i - 6]
  BY LaunchOpsAre, SizesAssumption
<1>2. o[6 + m].reg = MarkerRegs[m] /\ o[6 + m].data = l.marker_sels[1][m]
  BY <1>1 DEF Set
<1>3. Hold(regs, o, Len(o))
  OBVIOUS
<1> HIDE DEF o
<1>4. \A i \in (6 + m) + 1 .. Len(o) : o[i].reg # MarkerRegs[m]
  <2> TAKE i \in (6 + m) + 1 .. Len(o)
  <2>1. i \in 7 .. Len(o) /\ i - 6 \in 1 .. 3 /\ i - 6 # m /\ m \in 1 .. 3
    BY <1>1
  <2>2. \A a, b \in {1, 2, 3} : a # b => MarkerRegs[a] # MarkerRegs[b]
    BY Registers
  <2> QED BY <1>1, <2>1, <2>2
<1>5. 6 + m \in 1 .. Len(o)
  BY <1>1
<1>6. regs[o[6 + m].reg] = o[6 + m].data
  BY <1>2, <1>3, <1>4, <1>5 DEF Hold
<1> QED BY <1>2, <1>6

\* The runs, the launch and the memories are those of the file.
LEMMA SendingLoads ==
    ASSUME ParsedOK, SessionOK
    PROVE  LoadsPrograms
<1> SUFFICES ASSUME mode = "SENDING" PROVE LoadsPrograms
  BY DEF LoadsPrograms
<1> DEFINE N == Len(programs)
<1>1. Sending
  BY DEF SessionOK
<1>2. N \in Nat /\ DOMAIN programs = 1 .. N
  BY Programs
<1>3. launch \in Seq(Launchable) /\ Len(launch) <= 1
  BY DEF ParsedOK
<1>4. launch # <<>> => /\ Len(launch) = 1 /\ DOMAIN launch = {1}
                       /\ launch[1] \in Launchable /\ Len(launch[1].marker_sels) <= 1
  <2> SUFFICES ASSUME launch # <<>>
               PROVE  /\ Len(launch) = 1 /\ DOMAIN launch = {1}
                      /\ launch[1] \in Launchable /\ Len(launch[1].marker_sels) <= 1
    OBVIOUS
  <2>1. Len(launch) = 1
    <3>1. launch \in Seq(Launchable) /\ Len(launch) \in Nat
      BY <1>3
    <3>2. Len(launch) # 0
      BY <3>1, EmptySeq, Zenon
    <3>3. Len(launch) <= 1
      BY <1>3
    <3> DEFINE n == Len(launch)
    <3>4. n \in Nat /\ n # 0 /\ n <= 1
      BY <3>1, <3>2, <3>3, Zenon
    <3> HIDE DEF n
    <3>5. n = 1
      BY <3>4
    <3> QED BY <3>5 DEF n
  <2>2. DOMAIN launch = {1} /\ launch[1] \in Launchable
    BY <1>3, <2>1
  <2> QED BY <2>1, <2>2 DEF ParsedOK
<1>5. PICK k, m : SentSoFar(k, m)
  BY <1>1, SentPrograms
<1>6. k \in 0 .. N /\ m \in 0 .. N /\ Board(k, m)
  BY <1>5 DEF SentSoFar
<1>7. ASSUME NEW x, Started(x), x \in Nat
      PROVE  Len(runs) = x /\ DOMAIN runs = 1 .. x /\ \A j \in 1 .. x : Starts(j, runs[j])
  <2>1. runs = [j \in 1 .. x |-> runs[j]] /\ \A j \in 1 .. x : Starts(j, runs[j])
    BY <1>7 DEF Started
  <2>2. DOMAIN runs = 1 .. x
    BY <2>1
  <2> DEFINE f == [j \in 1 .. x |-> runs[j]]
  <2>3. Len(f) = x
    BY <1>7
  <2> HIDE DEF f
  <2>4. runs = f
    BY <2>1 DEF f
  <2> QED BY <2>1, <2>2, <2>3, <2>4
<1>8. Len(runs) <= N /\ \A j \in DOMAIN runs : Starts(j, runs[j])
  <2>1. Started(k) /\ k \in Nat
    BY <1>6 DEF Board
  <2>2. Len(runs) = k /\ DOMAIN runs = 1 .. k /\ \A j \in 1 .. k : Starts(j, runs[j])
    BY <1>7, <2>1
  <2> QED BY <1>6, <2>2
<1>9. /\ Len(launches) <= Len(launch)
      /\ \A j \in DOMAIN launches : Launched(launch[j], launches[j]) /\ launches[j].after = N
  <2>1. CASE launches = <<>>
    <3>1. Len(launches) = 0 /\ DOMAIN launches = {}
      BY <2>1
    <3> QED BY <1>3, <3>1
  <2>2. CASE launches # <<>>
    <3>1. /\ launch # <<>> /\ launches = <<launches[1]>> /\ Launched(launch[1], launches[1])
          /\ launches[1].after = N
      BY <1>5, <2>2 DEF SentSoFar
    <3>2. Len(launches) = 1 /\ DOMAIN launches = {1}
      <4> DEFINE y == launches[1]
      <4> HIDE DEF y
      <4>1. launches = <<y>>
        BY <3>1 DEF y
      <4>2. Len(<<y>>) = 1 /\ DOMAIN <<y>> = {1}
        OBVIOUS
      <4> QED BY <4>1, <4>2
    <3> QED BY <1>4, <3>1, <3>2
  <2> QED BY <2>1, <2>2
<1>10. \A c \in Channels \ Named : mem[c] = StaleMemory[c] /\ ctrl[c] = StaleCtrl[c]
  <2>1. Untouched(m)
    BY <1>6 DEF Board
  <2>2. ASSUME NEW c \in Channels \ Named PROVE \A j \in 1 .. m : programs[j].channel # c
    BY <1>2, <1>6, <2>2 DEF Named
  <2> QED BY <2>1, <2>2 DEF Untouched
<1>11. ASSUME todo = <<>>
       PROVE  /\ Len(runs) = Len(programs) /\ Len(launches) = Len(launch)
              /\ \A j \in DOMAIN launch : MarkersSet(launch[j])
              /\ \A c \in Named : \A j \in DOMAIN MemFile(programs, c) :
                    mem[c][j - 1] = MemFile(programs, c)[j]
  <2>1. Sent
    BY <1>1, <1>11, NoneIsSent
  <2>2. Board(N, N)
    BY <2>1 DEF Sent, Loaded, Launching
  <2>3. Len(runs) = N
    BY <1>2, <1>7, <2>2 DEF Board
  <2>4. Len(launches) = Len(launch) /\ \A j \in DOMAIN launch : MarkersSet(launch[j])
    <3>1. CASE launch = <<>>
      <4>1. launches = <<>>
        BY <2>1, <3>1 DEF Sent, Loaded
      <4>2. DOMAIN launch = {} /\ Len(launches) = Len(launch)
        BY <3>1, <4>1
      <4> QED BY <4>2
    <3>2. CASE launch # <<>>
      <4> DEFINE o == LaunchOps(launch[1])
      <4>1. o \in Seq(Op) /\ Len(o) >= 6
        BY <1>4, <3>2, LaunchOpsAre
      <4>2. Launching(Len(o)) /\ ~(Len(o) < 5)
        <5>1. Launching(Len(o))
          BY <2>1, <3>2 DEF Sent
        <5> HIDE DEF o
        <5>2. ~(Len(o) < 5)
          BY <4>1
        <5> QED BY <5>1, <5>2
      <4>3. launches = <<launches[1]>>
        BY <4>2 DEF Launching
      <4>4. Len(launches) = 1
        <5> DEFINE y == launches[1]
        <5> HIDE DEF y
        <5>1. launches = <<y>>
          BY <4>3 DEF y
        <5>2. Len(<<y>>) = 1
          OBVIOUS
        <5> QED BY <5>1, <5>2
      <4>5. Hold(regs, o, Len(o))
        BY <4>2 DEF Launching, Within
      <4>6. MarkersSet(launch[1])
        BY <1>4, <3>2, <4>5, MarkersAreSet
      <4> QED BY <1>4, <3>2, <4>4, <4>6
    <3> QED BY <3>1, <3>2
  <2>5. ASSUME NEW c \in Named, NEW j \in DOMAIN MemFile(programs, c)
        PROVE  mem[c][j - 1] = MemFile(programs, c)[j]
    <3> DEFINE at == SelectLastInSeq(programs, LAMBDA p : p.channel = c)
    <3>1. at \in DOMAIN programs /\ programs[at].channel = c /\ Latest(at, N)
      BY LastProgram
    <3>2. MemFile(programs, c) = [i \in DOMAIN programs[at].insns |-> Encode(programs[at].insns[i])]
      BY DEF MemFile
    <3> HIDE DEF at
    <3>3. Stored(at, Len(programs[at].insns))
      BY <1>2, <2>2, <3>1 DEF Board, Kept
    <3>4. j \in 1 .. Len(programs[at].insns)
      BY <2>5, <3>1, <3>2, Programs
    <3> QED BY <3>1, <3>2, <3>3, <3>4 DEF Stored
  <2> QED BY <2>3, <2>4, <2>5
<1> QED BY <1>8, <1>9, <1>10, <1>11 DEF LoadsPrograms

\* What has been printed are the instructions of the program so far.
LEMMA PrintedSoFar ==
    ASSUME ParsedOK, Reading
    PROVE  \E j \in DOMAIN programs :
              /\ programs[j].channel = reading /\ Latest(j, Len(programs))
              /\ \E i \in 0 .. Len(programs[j].insns) : printed = SubSeq(programs[j].insns, 1, i)
              /\ todo = <<>> => printed \in {<<>>, programs[j].insns}
<1>1. PICK j \in DOMAIN programs :
          /\ ReadingFrom(j)
          /\ \/ Opened \/ Asked(j)
             \/ \E i \in DOMAIN programs[j].insns, n \in 0 .. 6 : ReadingWord(j, i, n)
  BY DEF Reading
<1> DEFINE s == programs[j].insns
<1>2. /\ programs[j].channel = reading /\ Latest(j, Len(programs)) /\ s \in Seq(DcInsn)
      /\ Len(s) \in Nat /\ DOMAIN s = 1 .. Len(s) /\ 0 \in 0 .. Len(s)
  <2>1. s \in Seq(DcInsn)
    BY Programs, Zenon DEF Loadable
  <2> QED BY <1>1, <2>1, Programs DEF ReadingFrom
<1>3. SubSeq(s, 1, 0) = <<>> /\ SubSeq(s, 1, Len(s)) = s
  <2> HIDE DEF s
  <2>1. SubSeq(s, 1, 0) = <<>>
    BY <1>2, SubSeqEmpty
  <2>2. From(s, 0) = s
    BY <1>2, FromEnds
  <2>3. 0 + 1 = 1
    OBVIOUS
  <2> QED BY <2>1, <2>2, <2>3 DEF From
<1>4. CASE Opened \/ Asked(j)
  <2>1. printed = <<>>
    BY <1>4 DEF Opened, Asked
  <2> QED BY <1>2, <1>3, <2>1
<1>5. ASSUME NEW i \in DOMAIN s, NEW n \in 0 .. 6, ReadingWord(j, i, n)
      PROVE  /\ \E h \in 0 .. Len(s) : printed = SubSeq(s, 1, h)
             /\ todo = <<>> => printed \in {<<>>, s}
  <2>1. \E h \in 0 .. Len(s) : printed = SubSeq(s, 1, h)
    <3>1. printed = SubSeq(s, 1, IF n >= 5 THEN i ELSE i - 1)
      BY <1>5 DEF ReadingWord
    <3>2. (IF n >= 5 THEN i ELSE i - 1) \in 0 .. Len(s)
      BY <1>2
    <3> QED BY <3>1, <3>2
  <2>2. ASSUME todo = <<>> PROVE printed = s
    <3>1. n = 6
      BY <1>1, <1>5, <2>2, WordMore
    <3>2. ~(i < Len(s))
      <4> SUFFICES ASSUME i < Len(s) PROVE FALSE
        OBVIOUS
      <4>1. ReadingWord(j, i + 1, 0)
        BY <1>2, <1>5, <3>1, NextWord
      <4>2. i + 1 \in DOMAIN s /\ 0 \in 0 .. 5
        BY <1>2
      <4> QED BY <1>1, <2>2, <4>1, <4>2, WordMore
    <3>3. i = Len(s)
      BY <1>2, <3>2
    <3>4. printed = SubSeq(s, 1, i)
      BY <1>5, <3>1 DEF ReadingWord
    <3> QED BY <1>3, <3>3, <3>4
  <2> QED BY <2>1, <2>2
<1> QED BY <1>1, <1>2, <1>4, <1>5

\* What has been printed is the beginning of the program, or all of it.
LEMMA ReadingPrints ==
    ASSUME ParsedOK, SessionOK
    PROVE  ReadsBackProgram
<1> SUFFICES ASSUME mode = "READING" PROVE ReadsBackProgram
  BY DEF ReadsBackProgram
<1> DEFINE at == SelectLastInSeq(programs, LAMBDA p : p.channel = reading)
           s == programs[at].insns
<1>1. PICK j \in DOMAIN programs :
              /\ programs[j].channel = reading /\ Latest(j, Len(programs))
              /\ \E i \in 0 .. Len(programs[j].insns) : printed = SubSeq(programs[j].insns, 1, i)
              /\ todo = <<>> => printed \in {<<>>, programs[j].insns}
  BY PrintedSoFar DEF SessionOK
<1>2. reading \in Named
  BY <1>1 DEF Named
<1>3. j = at
  BY <1>1, <1>2, LastProgram
<1>4. s \in Seq(DcInsn)
  BY <1>1, <1>3, Programs, Zenon DEF Loadable
<1>5. PICK i \in 0 .. Len(s) : printed = SubSeq(s, 1, i)
  BY <1>1, <1>3
<1>6. todo = <<>> => printed \in {<<>>, s}
  BY <1>1, <1>3
<1>7. IsPrefix(printed, s)
  <2> HIDE DEF s
  <2>1. Len(s) \in Nat
    BY <1>4
  <2>2. printed \in Seq(DcInsn) /\ Len(printed) = i
    BY <1>4, <1>5, <2>1, SubSeqProperties
  <2>3. SubSeq(printed, 1, Len(printed)) = printed
    <3>1. From(printed, 0) = printed
      BY <2>2, FromEnds
    <3>2. 0 + 1 = 1
      OBVIOUS
    <3> QED BY <3>1, <3>2 DEF From
  <2> QED BY <1>5, <2>1, <2>2, <2>3 DEF IsPrefix
<1> QED BY <1>6, <1>7 DEF ReadsBackProgram

\* The inductive invariant of sessions: what has been parsed can be sent, the board has
\* its shape, and behind every command it is as the commands so far say.
LEMMA SessionsAlwaysOK == Spec => [](LineOK /\ ParsedOK /\ BoardType /\ SessionOK)
<1>1. Init => ParsedOK /\ BoardType /\ SessionOK
  <2> SUFFICES ASSUME Init PROVE ParsedOK /\ BoardType /\ SessionOK
    OBVIOUS
  <2>1. ParsedOK
    <3>1. programs = <<>> /\ launch = <<>> /\ mode = "SHELL"
      BY DEF Init, AsmInit
    <3> QED BY <3>1 DEF ParsedOK
  <2>2. BoardType
    <3>1. regs = Leftover(FALSE) /\ mem = StaleMemory /\ ctrl = StaleCtrl /\ depth = StaleDepth
      BY DEF Init
    <3> QED BY <3>1 DEF BoardType, Leftover, StaleMemory, StaleCtrl, StaleDepth
  <2>3. SessionOK
    BY DEF Init, AsmInit, SessionOK
  <2> QED BY <2>1, <2>2, <2>3
<1>2. LineOK /\ ParsedOK /\ BoardType /\ SessionOK /\ [Next]_vars => ParsedOK' /\ BoardType' /\ SessionOK'
  BY ParsedNext, BoardTypeNext, SessionNext
<1> QED BY <1>1, <1>2, LineAlwaysOK, PTL DEF Spec

\* Whatever a file says and whatever is left on the board, channels are started with the
\* programs of the file, complete and in order, with what the sequencer's bits hold of
\* the repetition; the launch comes behind the last of them, with what a register's word
\* holds of its channels and count; and channels without a program are not touched.  A
\* session that is not killed starts them all (load_ops(), start_ops(), launch_ops()).
THEOREM LoadsAlwaysPrograms == Spec => []LoadsPrograms
<1>1. ParsedOK /\ SessionOK => LoadsPrograms
  BY SendingLoads
<1> QED BY <1>1, SessionsAlwaysOK, PTL

\* Behind every complete session, what is read back of a channel are the instructions
\* that its last program in the file was assembled to (read_via_serial()).
THEOREM ReadsAlwaysBack == Spec => []ReadsBackProgram
<1>1. ParsedOK /\ SessionOK => ReadsBackProgram
  BY ReadingPrints
<1> QED BY <1>1, SessionsAlwaysOK, PTL

-----------------------------------------------------------------------------
(* What is picked out of a file, when it is a line longer. *)

\* A sequence that is joined behind others comes last.
LEMMA FlattenAppend ==
    ASSUME NEW A, NEW s \in Seq(Seq(A)), NEW x \in Seq(A)
    PROVE  FlattenSeq(s) \in Seq(A) /\ FlattenSeq(Append(s, x)) = FlattenSeq(s) \o x
<1> DEFINE n == Len(s)
           t == Append(s, x)
<1>1. /\ t \in Seq(Seq(A)) /\ Len(t) = n + 1 /\ n \in Nat /\ t[n + 1] = x
      /\ \A i \in 1 .. n : t[i] = s[i]
  BY AppendProperties
<1> HIDE DEF t
<1>2. PICK f : JoinsUpto(A, f, t, n + 1)
  BY <1>1, JoinExists
<1>3. FlattenSeq(t) = f[n + 1]
  BY <1>1, <1>2, JoinIsFlatten
<1> DEFINE g == [i \in 0 .. n |-> f[i]]
<1>4. /\ \A i \in 0 .. n : f[i] \in Seq(A)
      /\ f[0] = <<>> /\ \A i \in 1 .. n + 1 : f[i] = f[i - 1] \o t[i]
  <2>1. \A i \in 0 .. n : i \in 0 .. n + 1
    BY <1>1
  <2>2. \A i \in 0 .. n + 1 : f[i] \in Seq(A)
    BY <1>2 DEF JoinsUpto
  <2>3. f[0] = <<>> /\ \A i \in 1 .. n + 1 : f[i] = f[i - 1] \o t[i]
    BY <1>2 DEF JoinsUpto
  <2> QED BY <2>1, <2>2, <2>3
<1>5. JoinsUpto(A, g, s, n)
  <2>1. g \in [0 .. n -> Seq(A)] /\ g[0] = <<>>
    BY <1>1, <1>4
  <2>2. ASSUME NEW i \in 1 .. n PROVE g[i] = g[i - 1] \o s[i]
    <3>1. i \in 0 .. n /\ i - 1 \in 0 .. n /\ i \in 1 .. n + 1
      BY <1>1
    <3>2. g[i] = f[i] /\ g[i - 1] = f[i - 1]
      BY <3>1
    <3>3. f[i] = f[i - 1] \o t[i] /\ t[i] = s[i]
      BY <1>1, <1>4, <3>1
    <3> QED BY <3>2, <3>3
  <2> HIDE DEF g, n
  <2> QED BY <2>1, <2>2 DEF JoinsUpto
<1>6. FlattenSeq(s) = f[n]
  <2>1. FlattenSeq(s) = g[n]
    <3> HIDE DEF g
    <3> QED BY <1>5, JoinIsFlatten
  <2>2. n \in 0 .. n
    BY <1>1
  <2> QED BY <2>1, <2>2
<1>7. f[n + 1] = f[n] \o x
  <2>1. n + 1 \in 1 .. n + 1 /\ (n + 1) - 1 = n
    BY <1>1
  <2> QED BY <1>1, <1>4, <2>1
<1>8. f[n] \in Seq(A)
  BY <1>1, <1>4
<1> QED BY <1>3, <1>6, <1>7, <1>8 DEF t

\* What is picked, when there is one element more.
LEMMA PickedAppend ==
    ASSUME NEW A, NEW s \in Seq(A), NEW x \in A, NEW P, NEW Q,
           \A i \in 1 .. Len(s) : i \in P <=> i \in Q
    PROVE  /\ Picked(s, Q) \in Seq(A)
           /\ Len(s) + 1 \in P => Picked(Append(s, x), P) = Append(Picked(s, Q), x)
           /\ Len(s) + 1 \notin P => Picked(Append(s, x), P) = Picked(s, Q)
<1> DEFINE n == Len(s)
           t == Append(s, x)
           y == IF n + 1 \in P THEN <<x>> ELSE <<>>
           q == [i \in DOMAIN s |-> IF i \in Q THEN <<s[i]>> ELSE <<>>]
           p == [i \in DOMAIN t |-> IF i \in P THEN <<t[i]>> ELSE <<>>]
<1>1. /\ t \in Seq(A) /\ Len(t) = n + 1 /\ n \in Nat /\ t[n + 1] = x
      /\ DOMAIN t = 1 .. n + 1 /\ DOMAIN s = 1 .. n
      /\ \A i \in 1 .. n : t[i] = s[i] /\ s[i] \in A
  BY AppendProperties
<1> HIDE DEF t
<1>2. y \in Seq(A)
  BY <1>1
<1>3. q \in Seq(Seq(A)) /\ Len(q) = n /\ \A i \in 1 .. n : q[i] = IF i \in Q THEN <<s[i]>> ELSE <<>>
  <2>1. \A i \in 1 .. n : (IF i \in Q THEN <<s[i]>> ELSE <<>>) \in Seq(A)
    BY <1>1
  <2> QED BY <1>1, <2>1
<1>4. p = Append(q, y)
  <2> HIDE DEF q
  <2> DEFINE r == Append(q, y)
  <2>1. /\ r \in Seq(Seq(A)) /\ Len(r) = n + 1 /\ r[n + 1] = y
        /\ \A i \in 1 .. n : r[i] = q[i]
    <3> HIDE DEF y
    <3> QED BY <1>2, <1>3, AppendProperties
  <2> HIDE DEF r
  <2>2. ASSUME NEW i \in 1 .. n + 1 PROVE p[i] = r[i]
    <3>1. p[i] = IF i \in P THEN <<t[i]>> ELSE <<>>
      BY <1>1
    <3>2. CASE i \in 1 .. n
      <4>1. r[i] = IF i \in Q THEN <<s[i]>> ELSE <<>>
        BY <1>3, <2>1, <3>2
      <4> QED BY <1>1, <3>1, <3>2, <4>1
    <3>3. CASE i = n + 1
      BY <1>1, <2>1, <3>1, <3>3
    <3> QED BY <1>1, <3>2, <3>3
  <2>3. p = [i \in 1 .. n + 1 |-> p[i]]
    BY <1>1
  <2>4. r = [i \in 1 .. n + 1 |-> r[i]]
    BY <1>1, <2>1
  <2> HIDE DEF p
  <2>5. p = r
    BY <2>2, <2>3, <2>4
  <2> QED BY <2>5 DEF r
<1>5. Picked(s, Q) = FlattenSeq(q) /\ Picked(t, P) = FlattenSeq(p)
  BY DEF Picked
<1>6. FlattenSeq(q) \in Seq(A) /\ FlattenSeq(p) = FlattenSeq(q) \o y
  <2> HIDE DEF p, q, y
  <2> QED BY <1>2, <1>3, <1>4, FlattenAppend
<1> DEFINE u == FlattenSeq(q)
<1> HIDE DEF p, q, u
<1>7. u \in Seq(A)
  BY <1>6 DEF u
<1>8. u \o <<>> = u /\ u \o <<x>> = Append(u, x)
  BY <1>7, EmptyFirst, AppendIsConcat
<1>9. (n + 1 \in P => y = <<x>>) /\ (n + 1 \notin P => y = <<>>)
  OBVIOUS
<1>10. Picked(s, Q) = u /\ Picked(t, P) = u \o y
  BY <1>5, <1>6 DEF u
<1> HIDE DEF y
<1> QED BY <1>7, <1>8, <1>9, <1>10 DEF t

\* Of nothing, nothing is picked.
LEMMA PickedNone ==
    ASSUME NEW P
    PROVE  Picked(<<>>, P) = <<>>
<1>1. [i \in DOMAIN <<>> |-> IF i \in P THEN << <<>>[i] >> ELSE <<>>] = <<>>
  OBVIOUS
<1> QED BY <1>1, FlattenNone DEF Picked

\* What is picked is of what there is.
LEMMA PickedType ==
    ASSUME NEW A, NEW s \in Seq(A), NEW P
    PROVE  Picked(s, P) \in Seq(A)
<1>1. CASE s = <<>>
  BY <1>1, PickedNone
<1>2. CASE s # <<>>
  <2>1. s[1] \in A
    BY <1>2
  <2> QED BY <2>1, PickedAppend
<1> QED BY <1>1, <1>2

\* The lines of one kind, of a file that is one line longer.
LEMMA KindAppend ==
    ASSUME NEW A, NEW f \in Seq(A), NEW l \in A, NEW kind
    PROVE  /\ Kind(f, kind) \in Seq(A)
           /\ l.kind = kind => Kind(Append(f, l), kind) = Append(Kind(f, kind), l)
           /\ l.kind # kind => Kind(Append(f, l), kind) = Kind(f, kind)
<1> DEFINE t == Append(f, l)
           n == Len(f)
           P == {i \in DOMAIN t : t[i].kind = kind}
           Q == {i \in DOMAIN f : f[i].kind = kind}
<1>1. /\ Len(t) = n + 1 /\ n \in Nat /\ t[n + 1] = l
      /\ DOMAIN t = 1 .. n + 1 /\ DOMAIN f = 1 .. n
      /\ \A i \in 1 .. n : t[i] = f[i]
  BY AppendProperties
<1> HIDE DEF t
<1>2. \A i \in 1 .. n : i \in P <=> i \in Q
  BY <1>1
<1>3. n + 1 \in P <=> l.kind = kind
  BY <1>1
<1>4. Kind(f, kind) = Picked(f, Q) /\ Kind(t, kind) = Picked(t, P)
  BY DEF Kind
<1> HIDE DEF P, Q
<1> QED BY <1>2, <1>3, <1>4, PickedAppend DEF t

\* The lines that are not empty.
LEMMA LinesAppend ==
    ASSUME NEW A, NEW f \in Seq(A), NEW l \in A
    PROVE  /\ Lines(f) \in Seq(A)
           /\ l.kind # "empty" => Lines(Append(f, l)) = Append(Lines(f), l)
           /\ l.kind = "empty" => Lines(Append(f, l)) = Lines(f)
<1> DEFINE t == Append(f, l)
           n == Len(f)
           P == {i \in DOMAIN t : t[i].kind # "empty"}
           Q == {i \in DOMAIN f : f[i].kind # "empty"}
<1>1. /\ Len(t) = n + 1 /\ n \in Nat /\ t[n + 1] = l
      /\ DOMAIN t = 1 .. n + 1 /\ DOMAIN f = 1 .. n
      /\ \A i \in 1 .. n : t[i] = f[i]
  BY AppendProperties
<1> HIDE DEF t
<1>2. \A i \in 1 .. n : i \in P <=> i \in Q
  BY <1>1
<1>3. n + 1 \in P <=> l.kind # "empty"
  BY <1>1
<1>4. Lines(f) = Picked(f, Q) /\ Lines(t) = Picked(t, P)
  BY DEF Lines
<1> HIDE DEF P, Q
<1> QED BY <1>2, <1>3, <1>4, PickedAppend DEF t

\* The line that gives a control register last.
LEMMA LastCtrlAppend ==
    ASSUME NEW A, NEW f \in Seq(A), NEW l \in A, NEW r
    PROVE  /\ l.kind = "ctrl" /\ l.reg = r => LastCtrl(Append(f, l), r) = <<l>>
           /\ ~(l.kind = "ctrl" /\ l.reg = r) => LastCtrl(Append(f, l), r) = LastCtrl(f, r)
<1> DEFINE t == Append(f, l)
           n == Len(f)
           P == {i \in DOMAIN t : t[i].kind = "ctrl" /\ t[i].reg = r}
           Q == {i \in DOMAIN f : f[i].kind = "ctrl" /\ f[i].reg = r}
           p == Picked(t, P)
           q == Picked(f, Q)
<1>1. /\ Len(t) = n + 1 /\ n \in Nat /\ t[n + 1] = l
      /\ DOMAIN t = 1 .. n + 1 /\ DOMAIN f = 1 .. n
      /\ \A i \in 1 .. n : t[i] = f[i]
  BY AppendProperties
<1> HIDE DEF t
<1>2. \A i \in 1 .. n : i \in P <=> i \in Q
  BY <1>1
<1>3. n + 1 \in P <=> l.kind = "ctrl" /\ l.reg = r
  BY <1>1
<1>4. LastCtrl(f, r) = LastOf(q) /\ LastCtrl(t, r) = LastOf(p)
  BY DEF LastCtrl
<1> HIDE DEF P, Q
<1>5. /\ q \in Seq(A)
      /\ n + 1 \in P => p = Append(q, l)
      /\ n + 1 \notin P => p = q
  BY <1>2, PickedAppend DEF t
<1> HIDE DEF p, q
<1>6. LastOf(Append(q, l)) = <<l>>
  <2>1. Append(q, l) # <<>> /\ Len(Append(q, l)) = Len(q) + 1 /\ Append(q, l)[Len(q) + 1] = l
    BY <1>5, AppendProperties
  <2> QED BY <2>1 DEF LastOf, Last
<1> QED BY <1>3, <1>4, <1>5, <1>6 DEF t

\* Where the programs begin.
LEMMA HeadersAppend ==
    ASSUME NEW A, NEW f \in Seq(A), NEW l \in A
    PROVE  /\ Headers(f) \in Seq(1 .. Len(f))
           /\ l.kind = "program" => Headers(Append(f, l)) = Append(Headers(f), Len(f) + 1)
           /\ l.kind # "program" => Headers(Append(f, l)) = Headers(f)
<1> DEFINE t == Append(f, l)
           n == Len(f)
           P == {i \in DOMAIN t : t[i].kind = "program"}
           Q == {i \in DOMAIN f : f[i].kind = "program"}
           a == [i \in DOMAIN t |-> i]
           b == [i \in DOMAIN f |-> i]
<1>1. /\ Len(t) = n + 1 /\ n \in Nat /\ t[n + 1] = l
      /\ DOMAIN t = 1 .. n + 1 /\ DOMAIN f = 1 .. n
      /\ \A i \in 1 .. n : t[i] = f[i]
  BY AppendProperties
<1> HIDE DEF t
<1>2. \A i \in 1 .. n : i \in P <=> i \in Q
  BY <1>1
<1>3. n + 1 \in P <=> l.kind = "program"
  BY <1>1
<1>4. Headers(f) = Picked(b, Q) /\ Headers(t) = Picked(a, P)
  BY DEF Headers
<1>5. b \in Seq(1 .. n) /\ b \in Seq(1 .. n + 1) /\ Len(b) = n /\ a = Append(b, n + 1)
  <2>1. b = [i \in 1 .. n |-> i] /\ a = [i \in 1 .. n + 1 |-> i]
    BY <1>1
  <2> HIDE DEF a, b, n
  <2>2. n \in Nat
    BY <1>1
  <2> QED BY <2>1, <2>2
<1> HIDE DEF P, Q, a, b
<1>6. Picked(b, Q) \in Seq(1 .. n)
  BY <1>5, PickedType
<1>7. /\ n + 1 \in P => Picked(a, P) = Append(Picked(b, Q), n + 1)
      /\ n + 1 \notin P => Picked(a, P) = Picked(b, Q)
  <2> DEFINE A1 == 1 .. n + 1
             x == n + 1
  <2>1. x \in A1 /\ b \in Seq(A1) /\ a = Append(b, x) /\ Len(b) + 1 = x
    BY <1>1, <1>5
  <2>2. \A i \in 1 .. Len(b) : i \in P <=> i \in Q
    BY <1>2, <1>5
  <2> HIDE DEF A1, x
  <2>3. /\ x \in P => Picked(a, P) = Append(Picked(b, Q), x)
        /\ x \notin P => Picked(a, P) = Picked(b, Q)
    BY <2>1, <2>2, PickedAppend
  <2> QED BY <2>3 DEF x
<1> QED BY <1>3, <1>4, <1>6, <1>7 DEF t

\* An empty file has none of all this.
LEMMA NothingWritten ==
    /\ \A kind : Kind(<<>>, kind) = <<>>
    /\ Lines(<<>>) = <<>> /\ Headers(<<>>) = <<>>
    /\ \A r : LastCtrl(<<>>, r) = <<>>
<1>1. [i \in DOMAIN <<>> |-> i] = <<>>
  OBVIOUS
<1> QED BY <1>1, PickedNone DEF Kind, Lines, Headers, LastCtrl, LastOf

\* A part of a file that is one line longer.
LEMMA PartOfAppend ==
    ASSUME NEW A, NEW f \in Seq(A), NEW l \in A, NEW a \in 1 .. Len(f) + 1
    PROVE  /\ \A b \in 0 .. Len(f) : SubSeq(f, a, b) \in Seq(A)
           /\ \A b \in 0 .. Len(f) : SubSeq(Append(f, l), a, b) = SubSeq(f, a, b)
           /\ SubSeq(Append(f, l), a, Len(f) + 1) = Append(SubSeq(f, a, Len(f)), l)
<1> DEFINE t == Append(f, l)
           n == Len(f)
<1>1. /\ Len(t) = n + 1 /\ n \in Nat /\ t[n + 1] = l
      /\ \A i \in 1 .. n : t[i] = f[i] /\ f[i] \in A
  BY AppendProperties
<1> HIDE DEF t, n
<1>2. a \in Nat \ {0} /\ a <= n + 1
  BY <1>1 DEF n
<1>3. ASSUME NEW b \in 0 .. n PROVE SubSeq(f, a, b) \in Seq(A) /\ SubSeq(t, a, b) = SubSeq(f, a, b)
  <2> DEFINE x == SubSeq(f, a, b)
             y == SubSeq(t, a, b)
             m == IF a <= b THEN b - a + 1 ELSE 0
  <2>1. b \in Int /\ \A i \in a .. b : i \in 1 .. n
    BY <1>1, <1>2
  <2>2. (\A i \in a .. b : f[i] \in A) /\ (\A i \in a .. b : t[i] \in A)
    BY <1>1, <2>1
  <2>3. x \in Seq(A) /\ Len(x) = m /\ \A i \in 1 .. b - a + 1 : x[i] = f[a + i - 1]
    BY <1>2, <2>1, <2>2, SubSeqProperties
  <2>4. y \in Seq(A) /\ Len(y) = m /\ \A i \in 1 .. b - a + 1 : y[i] = t[a + i - 1]
    BY <1>2, <2>1, <2>2, SubSeqProperties
  <2>5. m \in Nat /\ \A i \in 1 .. m : i \in 1 .. b - a + 1 /\ a + i - 1 \in 1 .. n
    BY <1>2, <2>1
  <2> HIDE DEF x, y, m
  <2>6. \A i \in 1 .. m : x[i] = y[i]
    BY <1>1, <2>3, <2>4, <2>5
  <2>7. x = y
    BY <2>3, <2>4, <2>5, <2>6, SMTT(30)
  <2> QED BY <2>3, <2>7 DEF x, y
<1>4. SubSeq(t, a, n + 1) = Append(SubSeq(f, a, n), l)
  <2> DEFINE x == SubSeq(f, a, n)
             y == SubSeq(t, a, n + 1)
             z == Append(x, l)
             m == n - a + 1
  <2>1. n \in Int /\ n + 1 \in Int /\ \A i \in a .. n : i \in 1 .. n
    BY <1>1, <1>2
  <2>2. (\A i \in a .. n : f[i] \in A) /\ (\A i \in a .. n + 1 : t[i] \in A)
    BY <1>1, <1>2
  <2>3. m \in Nat
    BY <1>1, <1>2
  <2>4. x \in Seq(A) /\ Len(x) = m /\ \A i \in 1 .. n - a + 1 : x[i] = f[a + i - 1]
    <3>1. Len(x) = IF a <= n THEN n - a + 1 ELSE 0
      BY <1>2, <2>1, <2>2, SubSeqProperties
    <3>2. Len(x) = m
      BY <1>1, <1>2, <3>1
    <3> QED BY <1>2, <2>1, <2>2, <3>2, SubSeqProperties
  <2>5. y \in Seq(A) /\ Len(y) = m + 1 /\ \A i \in 1 .. m + 1 : y[i] = t[a + i - 1]
    <3>1. /\ Len(y) = IF a <= n + 1 THEN (n + 1) - a + 1 ELSE 0
          /\ y \in Seq(A) /\ \A i \in 1 .. (n + 1) - a + 1 : y[i] = t[a + i - 1]
      BY <1>2, <2>1, <2>2, SubSeqProperties
    <3>2. (n + 1) - a + 1 = m + 1 /\ a <= n + 1
      BY <1>1, <1>2
    <3> QED BY <3>1, <3>2
  <2> HIDE DEF x, y, m
  <2>6. z \in Seq(A) /\ Len(z) = m + 1 /\ z[m + 1] = l /\ \A i \in 1 .. m : z[i] = x[i]
    <3>1. x \in Seq(A) /\ l \in A
      BY <2>4
    <3>2. z \in Seq(A) /\ Len(z) = Len(x) + 1 /\ z[Len(x) + 1] = l /\ \A i \in 1 .. Len(x) : z[i] = x[i]
      BY <3>1, AppendProperties
    <3> HIDE DEF z
    <3> QED BY <2>4, <3>2
  <2>7. ASSUME NEW i \in 1 .. m + 1 PROVE y[i] = z[i]
    <3>1. CASE i = m + 1
      <4>1. a + i - 1 = n + 1
        BY <1>1, <1>2, <3>1 DEF m
      <4> QED BY <1>1, <2>5, <2>6, <3>1, <4>1
    <3>2. CASE i # m + 1
      <4>1. i \in 1 .. m /\ i \in 1 .. n - a + 1 /\ a + i - 1 \in 1 .. n
        BY <1>1, <1>2, <2>3, <3>2 DEF m
      <4> QED BY <1>1, <2>4, <2>5, <2>6, <4>1
    <3> QED BY <3>1, <3>2
  <2> HIDE DEF z
  <2> DEFINE k == m + 1
  <2>8. y = z
    <3>1. k \in Nat
      BY <2>3
    <3>2. y \in Seq(A) /\ Len(y) = k /\ z \in Seq(A) /\ Len(z) = k
      BY <2>5, <2>6
    <3> HIDE DEF k
    <3>3. \A i \in 1 .. k : y[i] = z[i]
      BY <2>7 DEF k
    <3> QED BY <3>1, <3>2, <3>3, SMTT(30)
  <2> QED BY <2>8 DEF x, y, z
<1> QED BY <1>3, <1>4 DEF t, n

\* A line that is no header belongs to the last section, and a header begins one.
LEMMA SectionsAppend ==
    ASSUME NEW A, NEW f \in Seq(A), NEW l \in A
    PROVE  LET t == Append(f, l)
               n == Len(Headers(f))
           IN  /\ n \in Nat /\ DOMAIN Headers(f) = 1 .. n
               /\ \A k \in 1 .. n : Section(f, k) \in Seq(A)
               /\ n # 0 => Section(f, n) # <<>>
               /\ l.kind = "program" =>
                     /\ Len(Headers(t)) = n + 1 /\ DOMAIN Headers(t) = 1 .. n + 1
                     /\ Section(t, n + 1) = <<l>>
                     /\ \A k \in 1 .. n : Section(t, k) = Section(f, k)
               /\ l.kind # "program" =>
                     /\ Len(Headers(t)) = n /\ DOMAIN Headers(t) = 1 .. n
                     /\ n # 0 => Section(t, n) = Append(Section(f, n), l)
                     /\ \A k \in 1 .. n - 1 : Section(t, k) = Section(f, k)
<1> DEFINE t == Append(f, l)
           h == Headers(f)
           g == Headers(t)
           n == Len(h)
           m == Len(f)
           End(k) == IF k < n THEN h[k + 1] - 1 ELSE m
<1>1. /\ h \in Seq(1 .. m)
      /\ l.kind = "program" => g = Append(h, m + 1)
      /\ l.kind # "program" => g = h
  BY HeadersAppend
<1>2. m \in Nat /\ Len(t) = m + 1
  BY AppendProperties
<1> HIDE DEF t, h, g, m
<1>3. n \in Nat /\ DOMAIN h = 1 .. n /\ \A k \in 1 .. n : h[k] \in 1 .. m
  <2> DEFINE M == 1 .. m
  <2>1. h \in Seq(M)
    BY <1>1
  <2> HIDE DEF M
  <2>2. n \in Nat /\ DOMAIN h = 1 .. n /\ \A k \in 1 .. n : h[k] \in M
    BY <2>1
  <2> QED BY <2>2 DEF M
<1>4. ASSUME NEW k \in 1 .. n
      PROVE  /\ h[k] \in 1 .. m + 1 /\ End(k) \in 0 .. m
             /\ Section(f, k) = SubSeq(f, h[k], End(k))
  <2>1. h[k] \in 1 .. m + 1
    BY <1>2, <1>3
  <2>2. CASE k < n
    <3>1. k + 1 \in 1 .. n
      BY <1>3, <2>2
    <3>2. h[k + 1] \in 1 .. m
      BY <1>3, <3>1
    <3>3. End(k) = h[k + 1] - 1 /\ End(k) \in 0 .. m
      BY <1>2, <2>2, <3>2
    <3>4. Section(f, k) = SubSeq(f, h[k], h[k + 1] - 1)
      BY <2>2 DEF Section, h
    <3> QED BY <2>1, <3>3, <3>4
  <2>3. CASE ~(k < n)
    <3>1. End(k) = m /\ m \in 0 .. m
      BY <1>2, <2>3
    <3>2. Section(f, k) = SubSeq(f, h[k], m)
      BY <2>3 DEF Section, h, m
    <3> QED BY <2>1, <3>1, <3>2
  <2> QED BY <2>2, <2>3
<1>5. /\ \A a \in 1 .. m + 1, b \in 0 .. m : SubSeq(f, a, b) \in Seq(A) /\ SubSeq(t, a, b) = SubSeq(f, a, b)
      /\ \A a \in 1 .. m + 1 : SubSeq(t, a, m + 1) = Append(SubSeq(f, a, m), l)
  BY PartOfAppend DEF t, m
<1>6. \A k \in 1 .. n : Section(f, k) \in Seq(A)
  <2> HIDE DEF n, End
  <2> QED BY <1>4, <1>5
<1>7. n # 0 => Section(f, n) # <<>>
  <2> HAVE n # 0
  <2>1. n \in 1 .. n
    BY <1>3
  <2>2. Section(f, n) = SubSeq(f, h[n], m)
    BY <1>3, <1>4, <2>1
  <2>3. h[n] \in 1 .. m
    BY <1>3, <2>1
  <2>4. Len(SubSeq(f, h[n], m)) = m - h[n] + 1
    <3>1. \A i \in h[n] .. m : f[i] \in A
      BY <2>3 DEF m
    <3>2. h[n] \in Int /\ m \in Int /\ h[n] <= m
      BY <1>2, <2>3
    <3> QED BY <3>1, <3>2, SubSeqProperties
  <2>5. m - h[n] + 1 # 0
    BY <1>2, <2>3
  <2>6. Len(<<>>) = 0
    OBVIOUS
  <2> HIDE DEF n
  <2> QED BY <2>2, <2>4, <2>5, <2>6, Zenon
<1>8. ASSUME l.kind = "program"
      PROVE  /\ Len(g) = n + 1 /\ DOMAIN g = 1 .. n + 1
             /\ Section(t, n + 1) = <<l>>
             /\ \A k \in 1 .. n : Section(t, k) = Section(f, k)
  <2>1. /\ Len(g) = n + 1 /\ DOMAIN g = 1 .. n + 1 /\ g[n + 1] = m + 1
        /\ \A k \in 1 .. n : g[k] = h[k]
    <3>1. h \in Seq(1 .. m + 1) /\ m + 1 \in 1 .. m + 1
      BY <1>1, <1>2, <1>3
    <3>2. g = Append(h, m + 1)
      BY <1>1, <1>8
    <3>3. g \in Seq(1 .. m + 1)
      BY <3>1, <3>2, AppendProperties
    <3>4. Len(g) = n + 1 /\ g[n + 1] = m + 1 /\ \A k \in 1 .. n : g[k] = h[k]
      BY <3>1, <3>2, AppendProperties
    <3> QED BY <3>3, <3>4
  <2>2. Section(t, n + 1) = SubSeq(t, m + 1, m + 1)
    BY <1>2, <1>3, <2>1 DEF Section, g
  <2>3. SubSeq(t, m + 1, m + 1) = Append(SubSeq(f, m + 1, m), l)
    BY <1>2, <1>5
  <2>4. SubSeq(f, m + 1, m) = <<>>
    BY <1>2, SubSeqEmpty
  <2>5. Append(<<>>, l) = <<l>>
    OBVIOUS
  <2>6. ASSUME NEW k \in 1 .. n PROVE Section(t, k) = Section(f, k)
    <3>1. k < n + 1 /\ g[k] = h[k]
      BY <1>3, <2>1
    <3>2. Section(t, k) = SubSeq(t, h[k], g[k + 1] - 1)
      BY <2>1, <3>1 DEF Section, g
    <3>3. g[k + 1] - 1 = End(k)
      <4>1. CASE k < n
        <5>1. k + 1 \in 1 .. n
          BY <1>3, <4>1
        <5>2. g[k + 1] = h[k + 1] /\ End(k) = h[k + 1] - 1
          BY <2>1, <4>1, <5>1
        <5> QED BY <5>2
      <4>2. CASE k = n
        <5>1. ~(k < n)
          BY <1>3, <4>2
        <5>2. End(k) = m
          BY <5>1
        <5>3. g[k + 1] = m + 1
          BY <2>1, <4>2
        <5> QED BY <1>2, <5>2, <5>3
      <4>3. k < n \/ k = n
        <5>1. n \in Nat /\ k \in 1 .. n
          BY <1>3
        <5> HIDE DEF n
        <5> QED BY <5>1
      <4> QED BY <4>1, <4>2, <4>3, Zenon
    <3>4. Section(t, k) = SubSeq(t, h[k], End(k))
      BY <3>2, <3>3
    <3> HIDE DEF End, n
    <3> QED BY <1>4, <1>5, <3>4
  <2> QED BY <2>1, <2>2, <2>3, <2>4, <2>5, <2>6
<1>9. ASSUME l.kind # "program"
      PROVE  /\ Len(g) = n /\ DOMAIN g = 1 .. n
             /\ n # 0 => Section(t, n) = Append(Section(f, n), l)
             /\ \A k \in 1 .. n - 1 : Section(t, k) = Section(f, k)
  <2>1. g = h
    BY <1>1, <1>9
  <2>2. ASSUME n # 0 PROVE Section(t, n) = Append(Section(f, n), l)
    <3>1. n \in 1 .. n
      BY <1>3, <2>2
    <3>2. Section(t, n) = SubSeq(t, h[n], m + 1)
      <4>1. g = h /\ Len(g) = n /\ ~(n < n)
        BY <1>3, <2>1
      <4>2. Section(t, n) = SubSeq(t, g[n], IF n < Len(g) THEN g[n + 1] - 1 ELSE Len(t))
        BY DEF Section, g
      <4> HIDE DEF n
      <4> QED BY <1>2, <4>1, <4>2, Zenon
    <3>3. Section(f, n) = SubSeq(f, h[n], m)
      BY <1>3, <1>4, <3>1
    <3> QED BY <1>4, <1>5, <3>1, <3>2, <3>3
  <2>3. ASSUME NEW k \in 1 .. n - 1 PROVE Section(t, k) = Section(f, k)
    <3>1. k \in 1 .. n /\ k < n
      BY <1>3
    <3>2. Section(t, k) = SubSeq(t, h[k], End(k))
      BY <2>1, <3>1 DEF Section, g
    <3> HIDE DEF End, n
    <3> QED BY <1>4, <1>5, <3>1, <3>2
  <2> QED BY <1>3, <2>1, <2>2, <2>3
<1> QED BY <1>3, <1>6, <1>7, <1>8, <1>9 DEF t, h, g

\* What one line more adds to the program of a section.
LEMMA WrittenAppend ==
    ASSUME NEW A, NEW s \in Seq(A), NEW l \in A, s # <<>>
    PROVE  LET t == Append(s, l)
           IN  /\ t[1] = s[1]
               /\ l.kind # "ctrl" => WrittenCtrl(t) = WrittenCtrl(s)
               /\ l.kind = "ctrl" => WrittenCtrl(t) = [WrittenCtrl(s) EXCEPT ![l.reg] = <<l.val>>]
               /\ l.kind # "insn" => WrittenInsns(t) = WrittenInsns(s)
               /\ l.kind = "insn" => WrittenInsns(t) = Append(WrittenInsns(s), Assemble(l.insn))
<1> DEFINE t == Append(s, l)
<1>1. t[1] = s[1]
  <2>1. \A i \in 1 .. Len(s) : t[i] = s[i]
    BY AppendProperties
  <2>2. 1 \in 1 .. Len(s)
    OBVIOUS
  <2> HIDE DEF t
  <2> QED BY <2>1, <2>2
<1>2. \A r : /\ l.kind = "ctrl" /\ l.reg = r => LastCtrl(t, r) = <<l>>
             /\ ~(l.kind = "ctrl" /\ l.reg = r) => LastCtrl(t, r) = LastCtrl(s, r)
  BY LastCtrlAppend
<1>3. /\ Kind(s, "insn") \in Seq(A)
      /\ l.kind = "insn" => Kind(t, "insn") = Append(Kind(s, "insn"), l)
      /\ l.kind # "insn" => Kind(t, "insn") = Kind(s, "insn")
  BY KindAppend
<1> DEFINE Value(x) == IF x = <<>> THEN <<>> ELSE <<x[1].val>>
           c == [r \in CtrlRegs |-> Value(LastCtrl(s, r))]
           d == [r \in CtrlRegs |-> Value(LastCtrl(t, r))]
<1> HIDE DEF t
<1>4. WrittenCtrl(s) = c /\ WrittenCtrl(t) = d
  BY DEF WrittenCtrl
<1>5. l.kind # "ctrl" => d = c
  <2> HAVE l.kind # "ctrl"
  <2>1. \A r \in CtrlRegs : LastCtrl(t, r) = LastCtrl(s, r)
    BY <1>2
  <2> HIDE DEF Value
  <2> QED BY <2>1
<1>6. l.kind = "ctrl" => d = [c EXCEPT ![l.reg] = <<l.val>>]
  <2> HAVE l.kind = "ctrl"
  <2>1. Value(<<l>>) = <<l.val>>
    OBVIOUS
  <2>2. \A r \in CtrlRegs : LastCtrl(t, r) = IF l.reg = r THEN <<l>> ELSE LastCtrl(s, r)
    BY <1>2
  <2> HIDE DEF Value
  <2>3. \A r \in CtrlRegs : Value(LastCtrl(t, r)) = IF l.reg = r THEN <<l.val>> ELSE Value(LastCtrl(s, r))
    BY <2>1, <2>2
  <2> QED BY <2>3
<1> DEFINE k == Kind(s, "insn")
           a == [i \in DOMAIN k |-> Assemble(k[i].insn)]
           m == Kind(t, "insn")
           b == [i \in DOMAIN m |-> Assemble(m[i].insn)]
<1>7. WrittenInsns(s) = a /\ WrittenInsns(t) = b
  BY DEF WrittenInsns
<1> HIDE DEF k, m, c, d
<1>8. l.kind # "insn" => b = a
  BY <1>3 DEF k, m
<1>9. l.kind = "insn" => b = Append(a, Assemble(l.insn))
  <2> HAVE l.kind = "insn"
  <2> DEFINE n == Len(k)
             B == {Assemble(x.insn) : x \in A}
             y == Assemble(l.insn)
             z == Append(a, y)
  <2>1. k \in Seq(A) /\ m = Append(k, l)
    BY <1>3 DEF k, m
  <2>2. /\ m \in Seq(A) /\ Len(m) = n + 1 /\ m[n + 1] = l
        /\ n \in Nat /\ \A i \in 1 .. n : m[i] = k[i] /\ k[i] \in A
    <3>1. m \in Seq(A) /\ Len(m) = Len(k) + 1 /\ m[Len(k) + 1] = l /\ \A i \in 1 .. Len(k) : m[i] = k[i]
      BY <2>1, AppendProperties
    <3> QED BY <2>1, <3>1
  <2>3. DOMAIN m = 1 .. n + 1 /\ DOMAIN k = 1 .. n
    BY <2>1, <2>2
  <2> HIDE DEF n
  <2>4. a \in Seq(B) /\ Len(a) = n /\ y \in B /\ \A i \in 1 .. n : a[i] = Assemble(k[i].insn)
    <3>1. a = [i \in 1 .. n |-> Assemble(k[i].insn)]
      BY <2>3
    <3>2. \A i \in 1 .. n : Assemble(k[i].insn) \in B
      BY <2>2
    <3> HIDE DEF a, B
    <3>3. a \in [1 .. n -> B]
      BY <3>1, <3>2
    <3>4. a \in Seq(B) /\ Len(a) = n
      BY <2>2, <3>3
    <3> QED BY <3>1, <3>4 DEF B
  <2>5. b = [i \in 1 .. n + 1 |-> Assemble(m[i].insn)]
    BY <2>3
  <2> HIDE DEF a, b, B, y
  <2>6. z \in Seq(B) /\ Len(z) = n + 1 /\ z[n + 1] = y /\ \A i \in 1 .. n : z[i] = a[i]
    <3>1. a \in Seq(B) /\ y \in B
      BY <2>4
    <3>2. z \in Seq(B) /\ Len(z) = Len(a) + 1 /\ z[Len(a) + 1] = y /\ \A i \in 1 .. Len(a) : z[i] = a[i]
      BY <3>1, AppendProperties
    <3> HIDE DEF z
    <3> QED BY <2>4, <3>2
  <2> HIDE DEF z
  <2>7. ASSUME NEW i \in 1 .. n + 1 PROVE b[i] = z[i]
    <3>1. b[i] = Assemble(m[i].insn)
      BY <2>5
    <3>2. CASE i = n + 1
      <4>1. m[i] = l /\ z[i] = y
        BY <2>2, <2>6, <3>2
      <4> QED BY <3>1, <4>1 DEF y
    <3>3. CASE i # n + 1
      <4>1. i \in 1 .. n
        BY <2>2, <3>3
      <4>2. m[i] = k[i] /\ z[i] = a[i]
        BY <2>2, <2>6, <4>1
      <4> QED BY <2>4, <3>1, <4>1, <4>2
    <3> QED BY <3>2, <3>3
  <2>8. z = [i \in 1 .. n + 1 |-> z[i]]
    BY <2>2, <2>6
  <2>9. b = z
    BY <2>5, <2>7, <2>8
  <2> QED BY <2>9 DEF z, y
<1> HIDE DEF a, b
<1> QED BY <1>1, <1>4, <1>5, <1>6, <1>7, <1>8, <1>9 DEF t

\* A section that is only a header has given nothing yet.
LEMMA HeaderAlone ==
    ASSUME NEW l, l.kind = "program"
    PROVE  /\ WrittenCtrl(<<l>>) = [r \in CtrlRegs |-> <<>>] /\ WrittenInsns(<<l>>) = <<>>
           /\ Kind(<<l>>, "repeat") = <<>> /\ Kind(<<l>>, "insn") = <<>>
<1>1. <<l>> = Append(<<>>, l) /\ <<>> \in Seq({l}) /\ l \in {l}
  OBVIOUS
<1>2. \A r : LastCtrl(<<l>>, r) = <<>>
  <2>1. \A r : LastCtrl(Append(<<>>, l), r) = LastCtrl(<<>>, r)
    BY <1>1, LastCtrlAppend
  <2> QED BY <1>1, <2>1, NothingWritten
<1>3. Kind(<<l>>, "repeat") = <<>> /\ Kind(<<l>>, "insn") = <<>>
  <2>1. \A k : k # "program" => Kind(Append(<<>>, l), k) = Kind(<<>>, k)
    BY <1>1, KindAppend, ZenonT(60)
  <2> QED BY <1>1, <2>1, NothingWritten
<1>4. WrittenCtrl(<<l>>) = [r \in CtrlRegs |-> <<>>]
  BY <1>2 DEF WrittenCtrl
<1>5. WrittenInsns(<<l>>) = <<>>
  <2> DEFINE k == Kind(<<l>>, "insn")
  <2>1. k = <<>>
    BY <1>3
  <2> HIDE DEF k
  <2>2. [i \in DOMAIN k |-> Assemble(k[i].insn)] = <<>>
    BY <2>1
  <2> QED BY <2>2 DEF WrittenInsns, k
<1> QED BY <1>3, <1>4, <1>5

\* The last launch of a file that is one line longer, and what is behind it.
LEMMA LaunchAtAppend ==
    ASSUME NEW A, NEW f \in Seq(A), NEW l \in A
    PROVE  LET t == Append(f, l)
           IN  /\ LaunchAt(f) \in 0 .. Len(f) /\ BehindLaunch(f) \in Seq(A)
               /\ l.kind = "launch" =>
                     LaunchAt(t) = Len(f) + 1 /\ t[Len(f) + 1] = l /\ BehindLaunch(t) = <<>>
               /\ l.kind # "launch" =>
                     /\ LaunchAt(t) = LaunchAt(f) /\ BehindLaunch(t) = Append(BehindLaunch(f), l)
                     /\ LaunchAt(f) # 0 => t[LaunchAt(t)] = f[LaunchAt(f)]
<1> DEFINE t == Append(f, l)
           n == Len(f)
           S == {i \in 1 .. n : f[i].kind = "launch"}
           T == {i \in 1 .. Len(t) : t[i].kind = "launch"}
<1>1. Len(t) = n + 1 /\ n \in Nat /\ t[n + 1] = l /\ \A i \in 1 .. n : t[i] = f[i]
  BY AppendProperties
<1> HIDE DEF t, n
<1>2. /\ S # {} => LaunchAt(f) = Max(S)
      /\ S = {} => LaunchAt(f) = 0
      /\ T # {} => LaunchAt(t) = Max(T)
      /\ T = {} => LaunchAt(t) = 0
  BY DEF LaunchAt, SelectLastInSeq, n
<1>3. S \in SUBSET (1 .. n) /\ T \in SUBSET (1 .. n + 1)
  BY <1>1
<1>4. S # {} => Max(S) \in S /\ \A x \in S : Max(S) >= x
  <2>1. S # {} => \E m \in S : \A x \in S : m >= x
    BY <1>1, <1>3, GreatestExists
  <2> HIDE DEF S
  <2> QED BY <2>1 DEF Max
<1>5. T # {} => Max(T) \in T /\ \A x \in T : Max(T) >= x
  <2>1. n + 1 \in Nat
    BY <1>1
  <2>2. T # {} => \E m \in T : \A x \in T : m >= x
    BY <1>3, <2>1, GreatestExists
  <2> HIDE DEF T
  <2> QED BY <2>2 DEF Max
<1>6. LaunchAt(f) \in 0 .. n
  BY <1>1, <1>2, <1>3, <1>4
<1>7. l.kind = "launch" => LaunchAt(t) = n + 1
  <2> HAVE l.kind = "launch"
  <2>1. n + 1 \in T
    BY <1>1
  <2>2. Max(T) \in 1 .. n + 1 /\ Max(T) >= n + 1
    BY <1>3, <1>5, <2>1
  <2>3. Max(T) = n + 1
    <3> DEFINE x == Max(T)
    <3>1. x \in 1 .. n + 1 /\ x >= n + 1
      BY <2>2
    <3> HIDE DEF x
    <3>2. x = n + 1
      BY <1>1, <3>1
    <3> QED BY <3>2 DEF x
  <2> QED BY <1>2, <2>1, <2>3
<1>8. l.kind # "launch" => LaunchAt(t) = LaunchAt(f)
  <2> HAVE l.kind # "launch"
  <2>1. T = S
    BY <1>1
  <2> HIDE DEF S, T
  <2> QED BY <1>2, <2>1
<1>9. \A a \in 1 .. n + 1 : /\ SubSeq(f, a, n) \in Seq(A)
                            /\ SubSeq(t, a, n + 1) = Append(SubSeq(f, a, n), l)
  <2>1. \A a \in 1 .. n + 1 :
           /\ \A b \in 0 .. n : SubSeq(f, a, b) \in Seq(A)
           /\ SubSeq(t, a, n + 1) = Append(SubSeq(f, a, n), l)
    BY PartOfAppend DEF t, n
  <2>2. n \in 0 .. n
    BY <1>1
  <2> QED BY <2>1, <2>2
<1>10. BehindLaunch(f) = SubSeq(f, LaunchAt(f) + 1, n) /\ BehindLaunch(t) = SubSeq(t, LaunchAt(t) + 1, n + 1)
  BY <1>1 DEF BehindLaunch, n
<1>11. LaunchAt(f) + 1 \in 1 .. n + 1
  BY <1>1, <1>6
<1>12. l.kind = "launch" => BehindLaunch(t) = <<>>
  <2> HAVE l.kind = "launch"
  <2>1. BehindLaunch(t) = SubSeq(t, (n + 1) + 1, n + 1)
    BY <1>7, <1>10
  <2>2. (n + 1) + 1 \in Int /\ n + 1 \in Int /\ n + 1 < (n + 1) + 1
    BY <1>1
  <2> QED BY <2>1, <2>2, SubSeqEmpty
<1>13. l.kind # "launch" => BehindLaunch(t) = Append(BehindLaunch(f), l)
  <2> HAVE l.kind # "launch"
  <2> QED BY <1>8, <1>9, <1>10, <1>11
<1>14. LaunchAt(f) # 0 => t[LaunchAt(f)] = f[LaunchAt(f)]
  <2> HAVE LaunchAt(f) # 0
  <2>1. LaunchAt(f) \in 1 .. n
    BY <1>1, <1>6
  <2> QED BY <1>1, <2>1
<1> HIDE DEF S, T
<1>15. BehindLaunch(f) \in Seq(A)
  BY <1>9, <1>10, <1>11
<1> QED BY <1>1, <1>6, <1>7, <1>8, <1>12, <1>13, <1>14, <1>15 DEF t, n

\* The markers and the masks behind the last launch.
LEMMA SelsAppend ==
    ASSUME NEW A, NEW f \in Seq(A), NEW l \in A
    PROVE  LET t == Append(f, l)
           IN  /\ l.kind = "launch" => WrittenSels(t) = <<>>
               /\ l.kind = "marker" => WrittenSels(t) = <<l.sels>>
               /\ l.kind \notin {"launch", "marker"} => WrittenSels(t) = WrittenSels(f)
               /\ l.kind = "launch" => Kind(BehindLaunch(t), "hex") = <<>>
               /\ l.kind = "hex" =>
                     Kind(BehindLaunch(t), "hex") = Append(Kind(BehindLaunch(f), "hex"), l)
               /\ l.kind \notin {"launch", "hex"} =>
                     Kind(BehindLaunch(t), "hex") = Kind(BehindLaunch(f), "hex")
<1> DEFINE t == Append(f, l)
           b == BehindLaunch(f)
           c == BehindLaunch(t)
           k == Kind(b, "marker")
<1>1. /\ b \in Seq(A)
      /\ l.kind = "launch" => c = <<>>
      /\ l.kind # "launch" => c = Append(b, l)
  BY LaunchAtAppend
<1> HIDE DEF t, b, c
<1>2. /\ k \in Seq(A)
      /\ l.kind = "marker" => Kind(Append(b, l), "marker") = Append(k, l)
      /\ l.kind # "marker" => Kind(Append(b, l), "marker") = k
      /\ l.kind = "hex" => Kind(Append(b, l), "hex") = Append(Kind(b, "hex"), l)
      /\ l.kind # "hex" => Kind(Append(b, l), "hex") = Kind(b, "hex")
  <2>1. /\ k \in Seq(A)
        /\ l.kind = "marker" => Kind(Append(b, l), "marker") = Append(k, l)
        /\ l.kind # "marker" => Kind(Append(b, l), "marker") = k
    BY <1>1, KindAppend
  <2>2. /\ l.kind = "hex" => Kind(Append(b, l), "hex") = Append(Kind(b, "hex"), l)
        /\ l.kind # "hex" => Kind(Append(b, l), "hex") = Kind(b, "hex")
    <3> HIDE DEF k
    <3> QED BY <1>1, KindAppend
  <2> QED BY <2>1, <2>2
<1>3. Kind(<<>>, "marker") = <<>> /\ Kind(<<>>, "hex") = <<>>
  BY NothingWritten
<1>4. LastOf(Append(k, l)) = <<l>> /\ LastOf(<<>>) = <<>>
  <2> HIDE DEF k
  <2>1. Append(k, l) # <<>> /\ Len(Append(k, l)) = Len(k) + 1 /\ Append(k, l)[Len(k) + 1] = l
    BY <1>2, AppendProperties
  <2> QED BY <2>1 DEF LastOf, Last
<1> DEFINE Sels(m) == IF LastOf(m) = <<>> THEN <<>> ELSE <<LastOf(m)[1].sels>>
<1>5. WrittenSels(f) = Sels(k) /\ WrittenSels(t) = Sels(Kind(c, "marker"))
  BY DEF WrittenSels, b, c
<1>6. Sels(<<>>) = <<>> /\ Sels(Append(k, l)) = <<l.sels>>
  BY <1>4
<1> HIDE DEF Sels, k
<1>7. CASE l.kind = "launch"
  BY <1>1, <1>3, <1>5, <1>6, <1>7 DEF t, b, c
<1>8. CASE l.kind # "launch"
  <2>1. c = Append(b, l)
    BY <1>1, <1>8
  <2>2. l.kind = "marker" => WrittenSels(t) = <<l.sels>>
    BY <1>2, <1>5, <1>6, <2>1
  <2>3. l.kind # "marker" => WrittenSels(t) = WrittenSels(f)
    BY <1>2, <1>5, <2>1
  <2>4. /\ l.kind = "hex" => Kind(c, "hex") = Append(Kind(b, "hex"), l)
        /\ l.kind # "hex" => Kind(c, "hex") = Kind(b, "hex")
    BY <1>2, <2>1
  <2> QED BY <1>8, <2>2, <2>3, <2>4 DEF t, b, c
<1> QED BY <1>7, <1>8

\* What a line makes of the launch: a new one, its mask, or its markers.
LEMMA LaunchAppend ==
    ASSUME NEW A, NEW f \in Seq(A), NEW l \in A
    PROVE  LET t == Append(f, l)
               w == WrittenLaunch(f)
               v == WrittenLaunch(t)
           IN  /\ l.kind = "launch" =>
                     v = <<LaunchOf(l.channels, IF l.iters = <<>> THEN 1 ELSE l.iters[1], l.trig, <<>>)>>
               /\ (/\ l.kind = "hex" /\ LaunchAt(f) # 0 /\ f[LaunchAt(f)].legacy
                   /\ Kind(BehindLaunch(f), "hex") = <<>>)
                     => v = <<LaunchOf(l.channels, w[1].iters, w[1].use_trigger, w[1].marker_sels)>>
               /\ l.kind = "marker" =>
                     v = IF w = <<>> THEN <<LaunchOf({}, 1, FALSE, <<l.sels>>)>>
                         ELSE <<LaunchOf(w[1].dc_chmask, w[1].iters, w[1].use_trigger, <<l.sels>>)>>
               /\ l.kind \notin {"launch", "hex", "marker"} => v = w
<1> DEFINE t == Append(f, l)
           a == LaunchAt(f)
           b == LaunchAt(t)
           h == Kind(BehindLaunch(f), "hex")
           g == Kind(BehindLaunch(t), "hex")
           s == WrittenSels(f)
           r == WrittenSels(t)
           w == WrittenLaunch(f)
           v == WrittenLaunch(t)
           Mask(x, k) == IF x.legacy /\ k # <<>> THEN k[1].channels ELSE x.channels
           Iters(x) == IF x.iters = <<>> THEN 1 ELSE x.iters[1]
           x == f[a]
           y == t[b]
<1>1. /\ a = 0 /\ s = <<>> => w = <<>>
      /\ a = 0 /\ s # <<>> => w = <<LaunchOf({}, 1, FALSE, s)>>
      /\ a # 0 => w = <<LaunchOf(Mask(x, h), Iters(x), x.trig, s)>>
  BY Zenon DEF WrittenLaunch
<1>2. /\ b = 0 /\ r = <<>> => v = <<>>
      /\ b = 0 /\ r # <<>> => v = <<LaunchOf({}, 1, FALSE, r)>>
      /\ b # 0 => v = <<LaunchOf(Mask(y, g), Iters(y), y.trig, r)>>
  BY Zenon DEF WrittenLaunch
<1>3. /\ a \in 0 .. Len(f)
      /\ l.kind = "launch" => b = Len(f) + 1 /\ y = l
      /\ l.kind # "launch" => b = a /\ (a # 0 => y = x)
  <2>1. /\ a \in 0 .. Len(f)
        /\ l.kind = "launch" => b = Len(f) + 1 /\ t[Len(f) + 1] = l
        /\ l.kind # "launch" => b = a /\ (a # 0 => t[b] = f[a])
    BY LaunchAtAppend, ZenonT(60)
  <2> QED BY <2>1, Zenon
<1>4. /\ l.kind = "launch" => r = <<>> /\ g = <<>>
      /\ l.kind = "marker" => r = <<l.sels>>
      /\ l.kind \notin {"launch", "marker"} => r = s
      /\ l.kind = "hex" => g = Append(h, l)
      /\ l.kind \notin {"launch", "hex"} => g = h
  BY SelsAppend
<1> HIDE DEF a, b, h, g, s, r, w, v, x, y, t
<1>6. CASE l.kind = "launch"
  <2>1. b # 0 /\ y = l /\ r = <<>> /\ g = <<>>
    BY <1>3, <1>4, <1>6
  <2>2. Mask(l, <<>>) = l.channels
    OBVIOUS
  <2>3. v = <<LaunchOf(l.channels, Iters(l), l.trig, <<>>)>>
    <3> HIDE DEF Mask, Iters
    <3> QED BY <1>2, <2>1, <2>2
  <2> QED BY <1>6, <2>3 DEF v, t
<1>7. CASE l.kind = "hex"
  <2> SUFFICES ASSUME a # 0, x.legacy, h = <<>> 
                PROVE  v = <<LaunchOf(l.channels, w[1].iters, w[1].use_trigger, w[1].marker_sels)>>
    BY <1>7 DEF v, w, t, a, h, x
  <2>1. b # 0 /\ y = x /\ r = s /\ g = <<l>>
    <3>1. Append(<<>>, l) = <<l>>
      OBVIOUS
    <3> QED BY <1>3, <1>4, <1>7, <3>1
  <2>2. Mask(x, <<l>>) = l.channels
    <3>1. <<l>> # <<>> /\ <<l>>[1] = l
      OBVIOUS
    <3> QED BY <3>1
  <2>3. v = <<LaunchOf(l.channels, Iters(x), x.trig, s)>>
    <3> HIDE DEF Mask, Iters
    <3> QED BY <1>2, <2>1, <2>2
  <2>4. w[1] = LaunchOf(Mask(x, h), Iters(x), x.trig, s)
    <3> HIDE DEF Mask, Iters
    <3> QED BY <1>1
  <2> DEFINE m == Mask(x, h)
             i == Iters(x)
  <2> HIDE DEF Mask, Iters, m, i
  <2>5. w[1].iters = i /\ w[1].use_trigger = x.trig /\ w[1].marker_sels = s
    <3>1. w[1] = LaunchOf(m, i, x.trig, s)
      BY <2>4 DEF m, i
    <3> QED BY <3>1 DEF LaunchOf
  <2> QED BY <2>3, <2>5 DEF i
<1>8. CASE l.kind = "marker"
  <2>1. b = a /\ (a # 0 => y = x) /\ r = <<l.sels>> /\ g = h
    BY <1>3, <1>4, <1>8
  <2>2. <<l.sels>> # <<>>
    OBVIOUS
  <2>3. CASE a = 0 /\ s = <<>>
    <3>1. w = <<>> /\ v = <<LaunchOf({}, 1, FALSE, <<l.sels>>)>>
      BY <1>1, <1>2, <2>1, <2>2, <2>3
    <3> QED BY <1>8, <3>1 DEF v, w, t
  <2>4. CASE ~(a = 0 /\ s = <<>>)
    <3>1. PICK m, i, u : w = <<LaunchOf(m, i, u, s)>> /\ v = <<LaunchOf(m, i, u, <<l.sels>>)>>
      <4>1. CASE a = 0
        BY <1>1, <1>2, <2>1, <2>2, <2>4, <4>1
      <4>2. CASE a # 0
        <5> HIDE DEF Mask, Iters
        <5> QED BY <1>1, <1>2, <2>1, <4>2
      <4> QED BY <4>1, <4>2
    <3>2. w # <<>> /\ w[1] = LaunchOf(m, i, u, s)
      BY <3>1
    <3>3. w[1].dc_chmask = m /\ w[1].iters = i /\ w[1].use_trigger = u
      BY <3>2 DEF LaunchOf
    <3> QED BY <1>8, <3>1, <3>2, <3>3 DEF v, w, t
  <2> QED BY <2>3, <2>4
<1>9. CASE l.kind \notin {"launch", "hex", "marker"}
  <2>1. b = a /\ (a # 0 => y = x) /\ r = s /\ g = h
    BY <1>3, <1>4, <1>9
  <2>2. v = w
    <3> HIDE DEF Mask, Iters
    <3> QED BY <1>1, <1>2, <2>1
  <2> QED BY <1>9, <2>2 DEF v, w, t
<1> QED BY <1>6, <1>7, <1>8, <1>9

-----------------------------------------------------------------------------
(* The parser, line by line. *)

\* A file that is one line longer is well formed if that line fits and may follow,
\* and there is room for an instruction.
LEMMA WellFormedAppend ==
    ASSUME NEW A, NEW f \in Seq(A), NEW l \in A
    PROVE  LET t == Append(f, l)
               n == Len(Headers(f))
               Room == l.kind = "insn" /\ n # 0 => Len(Kind(Section(f, n), "insn")) + 1 <= Depth
           IN  /\ WellFormed(f) /\ Fits(l) /\ MayFollow(Before(f), l) /\ Room => WellFormed(t)
               /\ WellFormed(t) => Fits(l) /\ MayFollow(Before(f), l) /\ Room
               /\ Before(t) = Role(l)
<1> DEFINE t == Append(f, l)
           n == Len(Headers(f))
           m == Len(f)
           Room == l.kind = "insn" /\ n # 0 => Len(Kind(Section(f, n), "insn")) + 1 <= Depth
           Good(g, i) == Fits(g[i]) /\ MayFollow(IF i = 1 THEN "start" ELSE Role(g[i - 1]), g[i])
           Count(g, k) == Len(Kind(Section(g, k), "insn"))
<1>1. Len(t) = m + 1 /\ m \in Nat /\ t[m + 1] = l /\ t # <<>> /\ \A i \in 1 .. m : t[i] = f[i]
  BY AppendProperties
<1>2. DOMAIN t = 1 .. m + 1 /\ DOMAIN f = 1 .. m
  <2>1. t \in Seq(A)
    BY AppendProperties
  <2> HIDE DEF t
  <2> QED BY <1>1, <2>1
<1>3. /\ n \in Nat /\ DOMAIN Headers(f) = 1 .. n
      /\ \A k \in 1 .. n : Section(f, k) \in Seq(A)
      /\ l.kind = "program" => /\ DOMAIN Headers(t) = 1 .. n + 1 /\ Section(t, n + 1) = <<l>>
                               /\ \A k \in 1 .. n : Section(t, k) = Section(f, k)
      /\ l.kind # "program" => /\ DOMAIN Headers(t) = 1 .. n
                               /\ n # 0 => Section(t, n) = Append(Section(f, n), l)
                               /\ \A k \in 1 .. n - 1 : Section(t, k) = Section(f, k)
  BY SectionsAppend
<1>4. Before(t) = Role(l)
  BY <1>1 DEF Before
<1>5. Good(t, m + 1) <=> Fits(l) /\ MayFollow(Before(f), l)
  <2>1. CASE m = 0
    <3>1. m + 1 = 1 /\ f = <<>>
      BY <2>1
    <3>2. t[1] = l
      BY <1>1, <3>1
    <3> HIDE DEF t
    <3> QED BY <3>1, <3>2 DEF Before
  <2>2. CASE m # 0
    <3>1. m + 1 # 1 /\ f # <<>> /\ (m + 1) - 1 = m /\ m \in 1 .. m
      BY <1>1, <2>2
    <3>2. t[m + 1] = l /\ t[(m + 1) - 1] = f[m]
      BY <1>1, <3>1
    <3> HIDE DEF t
    <3>3. (IF m + 1 = 1 THEN "start" ELSE Role(t[(m + 1) - 1])) = Before(f)
      BY <3>1, <3>2 DEF Before
    <3> QED BY <3>2, <3>3
  <2> QED BY <2>1, <2>2
<1>6. ASSUME NEW i \in 1 .. m PROVE Good(t, i) <=> Good(f, i)
  <2>1. t[i] = f[i]
    BY <1>1
  <2>2. i # 1 => t[i - 1] = f[i - 1]
    <3>1. i # 1 => i - 1 \in 1 .. m
      BY <1>1
    <3> QED BY <1>1, <3>1
  <2> HIDE DEF t
  <2> QED BY <2>1, <2>2, Zenon
<1> HIDE DEF t, m, n
<1>8. /\ l.kind = "insn" /\ n # 0 => Count(t, n) = Count(f, n) + 1
      /\ l.kind \notin {"insn", "program"} /\ n # 0 => Count(t, n) = Count(f, n)
      /\ l.kind = "program" => Count(t, n + 1) = 0
  <2>1. ASSUME n # 0
        PROVE  /\ l.kind = "insn" => Kind(Append(Section(f, n), l), "insn") = Append(Kind(Section(f, n), "insn"), l)
               /\ l.kind # "insn" => Kind(Append(Section(f, n), l), "insn") = Kind(Section(f, n), "insn")
               /\ Kind(Section(f, n), "insn") \in Seq(A)
    <3>1. Section(f, n) \in Seq(A)
      BY <1>3, <2>1
    <3> QED BY <3>1, KindAppend
  <2>2. \A x \in Seq(A) : Len(Append(x, l)) = Len(x) + 1
    BY AppendProperties
  <2>3. l.kind = "program" => Count(t, n + 1) = 0
    BY <1>3, HeaderAlone
  <2>4. l.kind = "insn" /\ n # 0 => Count(t, n) = Count(f, n) + 1
    BY <1>3, <2>1, <2>2
  <2>5. l.kind \notin {"insn", "program"} /\ n # 0 => Count(t, n) = Count(f, n)
    BY <1>3, <2>1
  <2> QED BY <2>3, <2>4, <2>5
<1>9. ASSUME NEW k \in 1 .. n, l.kind = "program" \/ k # n PROVE Count(t, k) = Count(f, k)
  <2>1. k # n => k \in 1 .. n - 1
    BY <1>3
  <2> QED BY <1>3, <1>9, <2>1
<1>10. /\ WellFormed(f) <=> (\A i \in 1 .. m : Good(f, i)) /\ (\A k \in 1 .. n : Count(f, k) <= Depth)
       /\ WellFormed(t) <=> (/\ \A i \in 1 .. m + 1 : Good(t, i)
                             /\ \A k \in DOMAIN Headers(t) : Count(t, k) <= Depth)
  BY <1>2, <1>3 DEF WellFormed
<1> HIDE DEF Good
<1>11. ASSUME WellFormed(f), Fits(l), MayFollow(Before(f), l), Room PROVE WellFormed(t)
  <2>1. ASSUME NEW i \in 1 .. m + 1 PROVE Good(t, i)
    <3>1. i \in 1 .. m \/ i = m + 1
      BY <1>1
    <3> QED BY <1>5, <1>6, <1>10, <1>11, <3>1
  <2>2. ASSUME NEW k \in DOMAIN Headers(t) PROVE Count(t, k) <= Depth
    <3>1. CASE l.kind = "program"
      <4>1. k \in 1 .. n \/ k = n + 1
        BY <1>3, <3>1
      <4>2. 0 <= Depth
        BY SizesAssumption
      <4> HIDE DEF Count
      <4> QED BY <1>8, <1>9, <1>10, <1>11, <3>1, <4>1, <4>2
    <3>2. CASE l.kind # "program" /\ k # n
      <4>1. k \in 1 .. n
        BY <1>3, <3>2
      <4> HIDE DEF Count
      <4> QED BY <1>9, <1>10, <1>11, <3>2, <4>1
    <3>3. CASE l.kind # "program" /\ k = n
      <4>1. n \in 1 .. n /\ n # 0
        BY <1>3, <3>3
      <4>2. l.kind = "insn" => Count(f, n) + 1 <= Depth
        BY <1>11, <4>1 DEF n
      <4> HIDE DEF Count
      <4> QED BY <1>8, <1>10, <1>11, <3>3, <4>1, <4>2
    <3> QED BY <3>1, <3>2, <3>3
  <2> HIDE DEF Count
  <2> QED BY <1>10, <2>1, <2>2
<1>12. ASSUME WellFormed(t) PROVE Fits(l) /\ MayFollow(Before(f), l) /\ Room
  <2>1. Good(t, m + 1)
    <3>1. m + 1 \in 1 .. m + 1
      BY <1>1
    <3> QED BY <1>10, <1>12, <3>1
  <2>2. ASSUME l.kind = "insn", n # 0 PROVE Count(f, n) + 1 <= Depth
    <3>1. n \in DOMAIN Headers(t)
      BY <1>3, <2>2
    <3> HIDE DEF Count
    <3> QED BY <1>8, <1>10, <1>12, <2>2, <3>1
  <2> QED BY <1>5, <2>1, <2>2 DEF n
<1> QED BY <1>4, <1>11, <1>12 DEF t, n

\* A line that gives nothing to a program leaves the one of its section.
LEMMA QuietLine ==
    ASSUME NEW s \in Seq(Line), NEW l \in Line, s # <<>>, l.kind \notin {"ctrl", "repeat", "insn"}
    PROVE  WrittenProgram(Append(s, l)) = WrittenProgram(s)
<1> DEFINE t == Append(s, l)
<1>1. t[1] = s[1] /\ WrittenCtrl(t) = WrittenCtrl(s) /\ WrittenInsns(t) = WrittenInsns(s)
  BY WrittenAppend
<1>2. Kind(t, "repeat") = Kind(s, "repeat")
  BY KindAppend
<1> HIDE DEF t
<1> QED BY <1>1, <1>2 DEF WrittenProgram, t

\* Programs that are closed stay those of their sections.
LEMMA ClosedStay ==
    ASSUME NEW d \in Seq(Line), NEW l \in Line, ParsedOK, ClosedAre(d),
           \/ Len(programs) + 1 = Len(Headers(d)) /\ l.kind # "program"
           \/ Len(programs) = Len(Headers(d)) /\ l.kind \notin {"ctrl", "repeat", "insn"}
    PROVE  ClosedAre(Append(d, l))
<1> DEFINE t == Append(d, l)
           n == Len(Headers(d))
           m == Len(programs)
<1>1. m \in Nat /\ DOMAIN programs = 1 .. m
  BY Programs
<1>2. /\ n \in Nat
      /\ \A k \in 1 .. n : Section(d, k) \in Seq(Line)
      /\ n # 0 => Section(d, n) # <<>>
      /\ l.kind = "program" => \A k \in 1 .. n : Section(t, k) = Section(d, k)
      /\ l.kind # "program" => /\ n # 0 => Section(t, n) = Append(Section(d, n), l)
                               /\ \A k \in 1 .. n - 1 : Section(t, k) = Section(d, k)
  BY SectionsAppend
<1> HIDE DEF t, n, m
<1>3. ASSUME NEW k \in 1 .. m PROVE WrittenProgram(Section(t, k)) = WrittenProgram(Section(d, k))
  <2>1. CASE k \in 1 .. n - 1 \/ (k \in 1 .. n /\ l.kind = "program")
    <3>1. k \in 1 .. n - 1 => k \in 1 .. n
      BY <1>2
    <3>2. Section(t, k) = Section(d, k)
      BY <1>2, <2>1, <3>1
    <3> QED BY <3>2
  <2>2. CASE k = n /\ l.kind \notin {"program", "ctrl", "repeat", "insn"}
    <3>1. n \in 1 .. n /\ n # 0
      BY <1>1, <1>2, <2>2
    <3>2. Section(t, n) = Append(Section(d, n), l) /\ Section(d, n) \in Seq(Line) /\ Section(d, n) # <<>>
      BY <1>2, <2>2, <3>1
    <3>3. WrittenProgram(Section(t, n)) = WrittenProgram(Section(d, n))
      BY <2>2, <3>2, QuietLine
    <3> QED BY <2>2, <3>3
  <2>3. \/ m + 1 = n /\ l.kind # "program"
        \/ m = n /\ l.kind \notin {"ctrl", "repeat", "insn"}
    BY DEF m, n
  <2>4. m + 1 = n => k \in 1 .. n - 1
    BY <1>1, <1>2
  <2>5. m = n => k \in 1 .. n - 1 \/ (k = n /\ k \in 1 .. n)
    BY <1>1, <1>2
  <2> QED BY <2>1, <2>2, <2>3, <2>4, <2>5
<1> QED BY <1>1, <1>3 DEF ClosedAre, t

\* A line that the parser looks at is one of the file, and is dealt with when it is taken.
LEMMA LineDealt ==
    ASSUME LineOK, NEW d, Dealt(d), line # <<>>, ~Is("end")
    PROVE  \E l \in Line, t \in Seq(Line) :
              /\ line = <<l>> /\ line[1] = l /\ l.kind # "end" /\ t = Append(d, l) /\ file = t
              /\ d \in Seq(Line)
              /\ Taken /\ UNCHANGED file => Dealt(t)'
<1>1. PICK l \in ShortLines \cup InsnLines \cup {EndOfFile} : line = <<l>>
  BY DEF LineOK
<1>2. line[1] = l /\ l # EndOfFile
  BY <1>1 DEF Is, EndOfFile
<1>3. l \in Line
  BY <1>1, <1>2, LinesAssumption
<1>4. l.kind # "end"
  BY <1>2 DEF Is
<1>5. d \in Seq(Line) /\ file = Append(d, l)
  BY <1>2 DEF Dealt
<1>6. PICK t : t = Append(d, l)
  OBVIOUS
<1>7. t \in Seq(Line)
  BY <1>3, <1>5, <1>6, AppendProperties
<1>8. ASSUME Taken, UNCHANGED file PROVE Dealt(t)'
  <2>1. line' = <<>> /\ file' = t
    BY <1>5, <1>6, <1>8 DEF Taken
  <2> QED BY <1>7, <2>1 DEF Dealt
<1> QED BY <1>1, <1>2, <1>3, <1>4, <1>5, <1>6, <1>7, <1>8

\* A line that fits and may follow leaves the file so far well formed.
LEMMA StaysWellFormed ==
    ASSUME NEW d \in Seq(Line), NEW l \in Line, l.kind # "empty", WellFormed(Lines(d)),
           Fits(l), MayFollow(Before(Lines(d)), l),
           l.kind = "insn" => Len(Kind(OpenSection(Lines(d)), "insn")) + 1 <= Depth
    PROVE  LET t == Append(d, l)
           IN  /\ Lines(d) \in Seq(Line) /\ Lines(t) = Append(Lines(d), l)
               /\ WellFormed(Lines(t)) /\ Before(Lines(t)) = Role(l)
<1> DEFINE e == Lines(d)
<1>1. e \in Seq(Line) /\ Lines(Append(d, l)) = Append(e, l)
  BY LinesAppend
<1> HIDE DEF e
<1>2. /\ (/\ WellFormed(e) /\ Fits(l) /\ MayFollow(Before(e), l)
          /\ (l.kind = "insn" /\ Len(Headers(e)) # 0 =>
                Len(Kind(Section(e, Len(Headers(e))), "insn")) + 1 <= Depth))
         => WellFormed(Append(e, l))
      /\ Before(Append(e, l)) = Role(l)
  BY <1>1, WellFormedAppend
<1> QED BY <1>1, <1>2 DEF e, OpenSection

\* A line that is no header is the last one of the open section.
LEMMA SectionGrows ==
    ASSUME NEW d \in Seq(Line), NEW l \in Line, l.kind # "program"
    PROVE  LET t == Append(d, l)
           IN  /\ Len(Headers(d)) \in Nat /\ Len(Headers(t)) = Len(Headers(d))
               /\ Len(Headers(d)) # 0 =>
                     /\ OpenSection(t) = Append(OpenSection(d), l)
                     /\ OpenSection(d) \in Seq(Line) /\ OpenSection(d) # <<>>
<1> DEFINE t == Append(d, l)
           n == Len(Headers(d))
<1>1. /\ n \in Nat
      /\ \A k \in 1 .. n : Section(d, k) \in Seq(Line)
      /\ n # 0 => Section(d, n) # <<>>
      /\ Len(Headers(t)) = n
      /\ n # 0 => Section(t, n) = Append(Section(d, n), l)
  BY SectionsAppend
<1>2. OpenSection(d) = Section(d, n)
  BY DEF OpenSection
<1> HIDE DEF n
<1>3. OpenSection(t) = Section(t, n)
  <2> HIDE DEF t
  <2> QED BY <1>1 DEF OpenSection
<1>4. n # 0 => n \in 1 .. n
  BY <1>1
<1> QED BY <1>1, <1>2, <1>3, <1>4 DEF n

\* A mask is missing behind a launch of the old form, until there is one.
LEMMA MaskMissing ==
    ASSUME NEW d \in Seq(Line), NEW l \in Line
    PROVE  /\ NoMaskYet(d) /\ l.kind \notin {"launch", "hex"} => NoMaskYet(Append(d, l))
           /\ l.kind = "launch" /\ l.legacy => NoMaskYet(Append(d, l))
<1> DEFINE t == Append(d, l)
           a == LaunchAt(d)
           b == LaunchAt(t)
           x == d[a]
           y == t[b]
           h == Kind(BehindLaunch(d), "hex")
           g == Kind(BehindLaunch(t), "hex")
<1>1. /\ a \in 0 .. Len(d)
      /\ l.kind = "launch" => b = Len(d) + 1 /\ y = l
      /\ l.kind # "launch" => b = a /\ (a # 0 => y = x)
  <2>1. /\ a \in 0 .. Len(d)
        /\ l.kind = "launch" => b = Len(d) + 1 /\ t[Len(d) + 1] = l
        /\ l.kind # "launch" => b = a /\ (a # 0 => t[b] = d[a])
    BY LaunchAtAppend, ZenonT(60)
  <2> QED BY <2>1, Zenon
<1>2. /\ l.kind = "launch" => g = <<>>
      /\ l.kind \notin {"launch", "hex"} => g = h
  BY SelsAppend
<1>3. /\ NoMaskYet(d) <=> a # 0 /\ x.legacy /\ h = <<>>
      /\ NoMaskYet(t) <=> b # 0 /\ y.legacy /\ g = <<>>
  BY Zenon DEF NoMaskYet
<1>4. Len(d) \in Nat
  OBVIOUS
<1> HIDE DEF a, b, x, y, h, g, t
<1>5. l.kind = "launch" => b # 0
  BY <1>1, <1>4
<1>6. /\ NoMaskYet(d) /\ l.kind \notin {"launch", "hex"} => NoMaskYet(t)
      /\ l.kind = "launch" /\ l.legacy => NoMaskYet(t)
  BY <1>1, <1>2, <1>3, <1>5, Zenon
<1> QED BY <1>6 DEF t

\* An empty line changes nothing (line_empty()).
LEMMA SkipStep ==
    ASSUME LineOK, ParsedOK, mode \in {"TOP", "CTRL", "INSNS", "MASK"},
           NEW d, Dealt(d), ReadUpTo(d), SkipEmpty
    PROVE  (\E t : Dealt(t) /\ ReadUpTo(t))'
<1>1. line # <<>> /\ line[1].kind = "empty" /\ Taken /\ UNCHANGED file
  BY DEF SkipEmpty, Is
<1>2. ~Is("end")
  BY <1>1 DEF Is
<1>3. PICK l \in Line, t \in Seq(Line) :
         line[1] = l /\ t = Append(d, l) /\ d \in Seq(Line) /\ Dealt(t)'
  BY <1>1, <1>2, LineDealt
<1>4. l.kind = "empty"
  BY <1>1, <1>3
<1>5. UNCHANGED <<mode, prog, programs, launch>>
  BY DEF SkipEmpty
<1>6. Lines(t) = Lines(d)
  BY <1>3, <1>4, LinesAppend
<1>7. WrittenLaunch(t) = WrittenLaunch(d)
  BY <1>3, <1>4, LaunchAppend
<1>8. /\ Len(Headers(t)) = Len(Headers(d))
      /\ Len(Headers(d)) # 0 => /\ OpenSection(t) = Append(OpenSection(d), l)
                                /\ OpenSection(d) \in Seq(Line) /\ OpenSection(d) # <<>>
  BY <1>3, <1>4, SectionGrows
<1>9. NoMaskYet(d) => NoMaskYet(t)
  BY <1>3, <1>4, MaskMissing
<1>10. Len(programs) \in Nat
  BY Programs
<1>11. OpenIs(d) => OpenIs(t) /\ Kind(OpenSection(t), "repeat") = Kind(OpenSection(d), "repeat")
  <2> HAVE OpenIs(d)
  <2> DEFINE s == OpenSection(d)
  <2>1. Len(Headers(d)) = Len(programs) + 1
    BY DEF OpenIs
  <2>2. OpenSection(t) = Append(s, l) /\ s \in Seq(Line) /\ s # <<>>
    BY <1>8, <1>10, <2>1
  <2> HIDE DEF s
  <2> DEFINE r == Append(s, l)
  <2>3. r[1] = s[1] /\ WrittenCtrl(r) = WrittenCtrl(s) /\ WrittenInsns(r) = WrittenInsns(s)
    BY <1>4, <2>2, WrittenAppend
  <2>4. Kind(r, "repeat") = Kind(s, "repeat")
    BY <1>4, <2>2, KindAppend
  <2> HIDE DEF r
  <2>5. OpenSection(t) = r
    BY <2>2 DEF r
  <2> QED BY <1>6, <1>8, <2>3, <2>4, <2>5, Zenon DEF OpenIs, s
<1>12. ClosedAre(t)
  <2>1. ClosedAre(d)
    BY DEF ReadUpTo
  <2>2. CASE mode \in {"TOP", "MASK"}
    <3>1. Len(programs) = Len(Headers(d))
      BY <2>2 DEF ReadUpTo
    <3> QED BY <1>3, <1>4, <2>1, <3>1, ClosedStay
  <2>3. CASE mode \in {"CTRL", "INSNS"}
    <3>1. Len(programs) + 1 = Len(Headers(d))
      BY <2>3 DEF ReadUpTo, OpenIs
    <3> QED BY <1>3, <1>4, <2>1, <3>1, ClosedStay
  <2> QED BY <2>2, <2>3
<1>13. ReadUpTo(t)
  BY <1>6, <1>7, <1>8, <1>9, <1>11, <1>12, Zenon DEF ReadUpTo
<1>14. ~(mode = "TOP" /\ Before(Lines(t)) = "insn")
  BY <1>1, <1>6 DEF ReadUpTo
<1>15. ReadUpTo(t)'
  BY <1>5, <1>13, <1>14 DEF ReadUpTo, ClosedAre, OpenIs
<1> QED BY <1>3, <1>15

\* A header opens a program with nothing in it.
LEMMA OpenStep ==
    ASSUME LineOK, ParsedOK, NEW d, Dealt(d), ReadUpTo(d), OpenProgram
    PROVE  (\E t : Dealt(t) /\ ReadUpTo(t))'
<1>1. /\ line # <<>> /\ line[1].kind = "program" /\ Taken /\ UNCHANGED file
      /\ mode = "TOP" /\ mode' = "CTRL" /\ prog' = NewProgram(line[1].channel)
      /\ UNCHANGED <<programs, launch>>
  BY DEF OpenProgram, Is
<1>2. ~Is("end")
  BY <1>1 DEF Is
<1>3. PICK l \in Line, t \in Seq(Line) :
         line[1] = l /\ t = Append(d, l) /\ d \in Seq(Line) /\ Dealt(t)'
  BY <1>1, <1>2, LineDealt
<1>4. l.kind = "program" /\ prog' = NewProgram(l.channel)
  BY <1>1, <1>3
<1>5. /\ WellFormed(Lines(d)) /\ launch = WrittenLaunch(d) /\ ClosedAre(d)
      /\ Len(programs) = Len(Headers(d))
      /\ Before(Lines(d)) \in {"start", "insn", "launch", "hex", "marker"}
  BY <1>1 DEF ReadUpTo
<1>6. /\ Lines(d) \in Seq(Line) /\ Lines(t) = Append(Lines(d), l)
      /\ WellFormed(Lines(t)) /\ Before(Lines(t)) = Role(l)
  <2>1. Fits(l) /\ MayFollow(Before(Lines(d)), l)
    BY <1>4, <1>5 DEF Fits, MayFollow
  <2> QED BY <1>3, <1>4, <1>5, <2>1, StaysWellFormed
<1>7. Role(l) = "program"
  BY <1>4 DEF Role
<1>8. WrittenLaunch(t) = WrittenLaunch(d)
  BY <1>3, <1>4, LaunchAppend
<1>9. ClosedAre(t)
  BY <1>3, <1>4, <1>5, ClosedStay
<1>10. \A f \in Seq(Line) : /\ Len(Headers(f)) \in Nat
                            /\ Len(Headers(Append(f, l))) = Len(Headers(f)) + 1
                            /\ OpenSection(Append(f, l)) = <<l>>
  <2> SUFFICES ASSUME NEW f \in Seq(Line)
               PROVE  /\ Len(Headers(f)) \in Nat
                      /\ Len(Headers(Append(f, l))) = Len(Headers(f)) + 1
                      /\ OpenSection(Append(f, l)) = <<l>>
    OBVIOUS
  <2>1. /\ Len(Headers(f)) \in Nat
        /\ Len(Headers(Append(f, l))) = Len(Headers(f)) + 1
        /\ Section(Append(f, l), Len(Headers(f)) + 1) = <<l>>
    BY <1>4, SectionsAppend
  <2> QED BY <2>1, Zenon DEF OpenSection
<1>11. /\ Len(Headers(t)) = Len(programs) + 1 /\ OpenSection(t) = <<l>>
       /\ Len(Headers(Lines(t))) # 0 /\ OpenSection(Lines(t)) = <<l>>
  <2>1. Len(Headers(t)) = Len(programs) + 1 /\ OpenSection(t) = <<l>>
    BY <1>3, <1>5, <1>10
  <2>2. Len(Headers(Lines(d))) \in Nat /\ Len(Headers(Lines(t))) = Len(Headers(Lines(d))) + 1
    BY <1>6, <1>10
  <2>3. OpenSection(Lines(t)) = <<l>>
    BY <1>6, <1>10
  <2> QED BY <2>1, <2>2, <2>3
<1>12. /\ WrittenCtrl(<<l>>) = [r \in CtrlRegs |-> <<>>] /\ WrittenInsns(<<l>>) = <<>>
       /\ Kind(<<l>>, "repeat") = <<>> /\ Kind(<<l>>, "insn") = <<>>
  BY <1>4, HeaderAlone
<1>13. prog'.channel = <<l>>[1].channel /\ prog'.ctrl = [r \in CtrlRegs |-> <<>>] /\ prog'.insns = <<>>
  BY <1>4 DEF NewProgram
<1>14. ClosedAre(t)'
  BY <1>1, <1>9 DEF ClosedAre
<1>15. OpenIs(t)'
  BY <1>1, <1>11, <1>12, <1>13 DEF OpenIs
<1>16. ReadUpTo(t)'
  BY <1>1, <1>5, <1>6, <1>7, <1>8, <1>11, <1>12, <1>13, <1>14, <1>15 DEF ReadUpTo
<1> QED BY <1>3, <1>16

\* The control registers behind a line for one of them.
WithCtrl(ctl, l) == [ctl EXCEPT ![l.reg] = <<l.val>>]

\* A line that belongs to the program that is open leaves the rest of the file as
\* it was, and changes the one thing it is about.
LEMMA InsideProgram ==
    ASSUME ParsedOK, NEW d \in Seq(Line), NEW l \in Line,
           WellFormed(Lines(d)), launch = WrittenLaunch(d), ClosedAre(d), OpenIs(d),
           l.kind \in {"ctrl", "repeat", "insn"}, Fits(l), MayFollow(Before(Lines(d)), l),
           l.kind = "insn" => Len(prog.insns) + 1 <= Depth
    PROVE  LET t == Append(d, l)
           IN  /\ WellFormed(Lines(t)) /\ Before(Lines(t)) = l.kind
               /\ launch = WrittenLaunch(t) /\ ClosedAre(t)
               /\ Len(Headers(t)) = Len(programs) + 1 /\ Len(Headers(Lines(t))) # 0
               /\ OpenSection(t)[1].channel = prog.channel
               /\ l.kind = "ctrl" => WrittenCtrl(OpenSection(t)) = WithCtrl(prog.ctrl, l)
               /\ l.kind # "ctrl" => WrittenCtrl(OpenSection(t)) = prog.ctrl
               /\ l.kind = "insn" =>
                     /\ WrittenInsns(OpenSection(t)) = Append(prog.insns, Assemble(l.insn))
                     /\ Len(Kind(OpenSection(Lines(t)), "insn")) = Len(prog.insns) + 1
               /\ l.kind # "insn" =>
                     /\ WrittenInsns(OpenSection(t)) = prog.insns
                     /\ Len(Kind(OpenSection(Lines(t)), "insn")) = Len(prog.insns)
               /\ l.kind = "repeat" =>
                     Kind(OpenSection(t), "repeat") = Append(Kind(OpenSection(d), "repeat"), l)
               /\ l.kind # "repeat" => Kind(OpenSection(t), "repeat") = Kind(OpenSection(d), "repeat")
               /\ Kind(OpenSection(d), "repeat") \in Seq(Line)
<1> DEFINE t == Append(d, l)
           s == OpenSection(d)
           r == OpenSection(t)
           e == Lines(d)
           u == Lines(t)
           p == OpenSection(e)
           q == OpenSection(u)
<1>1. Len(programs) \in Nat
  BY Programs
<1>2. /\ Len(Headers(d)) = Len(programs) + 1 /\ Len(Headers(e)) # 0
      /\ prog.channel = s[1].channel /\ prog.ctrl = WrittenCtrl(s) /\ prog.insns = WrittenInsns(s)
      /\ Len(Kind(p, "insn")) = Len(prog.insns)
  BY DEF OpenIs
<1>3. /\ e \in Seq(Line) /\ u = Append(e, l)
      /\ WellFormed(u) /\ Before(u) = Role(l)
  BY <1>2, StaysWellFormed
<1>4. Role(l) = l.kind
  BY DEF Role
<1>5. WrittenLaunch(t) = WrittenLaunch(d)
  BY LaunchAppend
<1>6. ClosedAre(t)
  BY <1>2, ClosedStay
<1>7. \A f \in Seq(Line) : Len(Headers(f)) # 0 =>
         /\ Len(Headers(Append(f, l))) = Len(Headers(f))
         /\ OpenSection(Append(f, l)) = Append(OpenSection(f), l)
         /\ OpenSection(f) \in Seq(Line) /\ OpenSection(f) # <<>>
  BY SectionGrows
<1>8. /\ Len(Headers(t)) = Len(programs) + 1 /\ r = Append(s, l) /\ s \in Seq(Line) /\ s # <<>>
  BY <1>1, <1>2, <1>7
<1>9. Len(Headers(u)) # 0 /\ q = Append(p, l) /\ p \in Seq(Line) /\ p # <<>>
  BY <1>2, <1>3, <1>7
<1>10. \A x \in Seq(Line) : x # <<>> =>
          /\ Append(x, l)[1] = x[1]
          /\ l.kind # "ctrl" => WrittenCtrl(Append(x, l)) = WrittenCtrl(x)
          /\ l.kind = "ctrl" => WrittenCtrl(Append(x, l)) = WithCtrl(WrittenCtrl(x), l)
          /\ l.kind # "insn" => WrittenInsns(Append(x, l)) = WrittenInsns(x)
          /\ l.kind = "insn" => WrittenInsns(Append(x, l)) = Append(WrittenInsns(x), Assemble(l.insn))
  BY WrittenAppend DEF WithCtrl
<1>11. \A x \in Seq(Line), k \in {"repeat", "insn"} :
          /\ Kind(x, k) \in Seq(Line)
          /\ l.kind = k => Kind(Append(x, l), k) = Append(Kind(x, k), l)
          /\ l.kind # k => Kind(Append(x, l), k) = Kind(x, k)
  BY KindAppend
<1>12. \A x \in Seq(Line) : Len(Append(x, l)) = Len(x) + 1
  BY AppendProperties
<1> HIDE DEF t, s, r, e, u, p, q
<1>13. /\ r[1].channel = prog.channel
       /\ l.kind = "ctrl" => WrittenCtrl(r) = WithCtrl(prog.ctrl, l)
       /\ l.kind # "ctrl" => WrittenCtrl(r) = prog.ctrl
       /\ l.kind = "insn" => WrittenInsns(r) = Append(prog.insns, Assemble(l.insn))
       /\ l.kind # "insn" => WrittenInsns(r) = prog.insns
  BY <1>2, <1>8, <1>10
<1>14. /\ l.kind = "insn" => Len(Kind(q, "insn")) = Len(prog.insns) + 1
       /\ l.kind # "insn" => Len(Kind(q, "insn")) = Len(prog.insns)
  BY <1>2, <1>9, <1>11, <1>12
<1>15. /\ l.kind = "repeat" => Kind(r, "repeat") = Append(Kind(s, "repeat"), l)
       /\ l.kind # "repeat" => Kind(r, "repeat") = Kind(s, "repeat")
       /\ Kind(s, "repeat") \in Seq(Line)
  BY <1>8, <1>11
<1> QED BY <1>3, <1>4, <1>5, <1>6, <1>8, <1>9, <1>13, <1>14, <1>15 DEF t, s, r, e, u, p, q

\* A control register is set.
LEMMA CtrlStep ==
    ASSUME LineOK, ParsedOK, NEW d, Dealt(d), ReadUpTo(d), SetCtrl
    PROVE  (\E t : Dealt(t) /\ ReadUpTo(t))'
<1>1. /\ line # <<>> /\ line[1].kind = "ctrl" /\ line[1].val <= MaxCtrl /\ Taken /\ UNCHANGED file
      /\ mode = "CTRL" /\ mode' = "CTRL" /\ UNCHANGED <<programs, launch>>
      /\ prog' = [prog EXCEPT !.ctrl[line[1].reg] = <<line[1].val>>]
  BY DEF SetCtrl, Is
<1>2. ~Is("end")
  BY <1>1 DEF Is
<1>3. PICK l \in Line, t \in Seq(Line) :
         line[1] = l /\ t = Append(d, l) /\ d \in Seq(Line) /\ Dealt(t)'
  BY <1>1, <1>2, LineDealt
<1>4. /\ l.kind = "ctrl" /\ l.val <= MaxCtrl
      /\ prog' = [prog EXCEPT !.ctrl[l.reg] = <<l.val>>]
  BY <1>1, <1>3
<1>5. /\ WellFormed(Lines(d)) /\ launch = WrittenLaunch(d) /\ ClosedAre(d) /\ OpenIs(d)
      /\ Before(Lines(d)) \in {"program", "ctrl"}
      /\ Kind(OpenSection(d), "repeat") = <<>> /\ prog.insns = <<>>
  BY <1>1 DEF ReadUpTo
<1>6. Fits(l) /\ MayFollow(Before(Lines(d)), l)
  BY <1>4, <1>5 DEF Fits, MayFollow
<1>7. /\ WellFormed(Lines(t)) /\ Before(Lines(t)) = "ctrl"
      /\ launch = WrittenLaunch(t) /\ ClosedAre(t)
      /\ Len(Headers(t)) = Len(programs) + 1 /\ Len(Headers(Lines(t))) # 0
      /\ OpenSection(t)[1].channel = prog.channel
      /\ WrittenCtrl(OpenSection(t)) = WithCtrl(prog.ctrl, l)
      /\ WrittenInsns(OpenSection(t)) = prog.insns
      /\ Len(Kind(OpenSection(Lines(t)), "insn")) = Len(prog.insns)
      /\ Kind(OpenSection(t), "repeat") = <<>>
  <2>1. l.kind \in {"ctrl", "repeat", "insn"} /\ l.kind # "insn" /\ l.kind # "repeat"
    BY <1>4
  <2> QED BY <1>3, <1>4, <1>5, <1>6, <2>1, InsideProgram
<1>8. prog \in Readable
  BY <1>1 DEF ParsedOK
<1>9. /\ prog'.channel = prog.channel /\ prog'.ctrl = WithCtrl(prog.ctrl, l) /\ prog'.insns = prog.insns
  BY <1>4, <1>8 DEF WithCtrl, Readable
<1>10. ClosedAre(t)' /\ OpenIs(t)'
  BY <1>1, <1>7, <1>9 DEF ClosedAre, OpenIs
<1>11. ReadUpTo(t)'
  BY <1>1, <1>5, <1>7, <1>9, <1>10 DEF ReadUpTo
<1> QED BY <1>3, <1>11

\* The repetition ends the header.
LEMMA RepeatStep ==
    ASSUME LineOK, ParsedOK, NEW d, Dealt(d), ReadUpTo(d), SetRepeat
    PROVE  (\E t : Dealt(t) /\ ReadUpTo(t))'
<1>1. /\ line # <<>> /\ line[1].kind = "repeat" /\ line[1].val <= MaxRepeat /\ Taken /\ UNCHANGED file
      /\ mode = "CTRL" /\ mode' = "INSNS" /\ UNCHANGED <<programs, launch>>
      /\ prog' = [prog EXCEPT !.repeat = line[1].val]
  BY DEF SetRepeat, Is
<1>2. ~Is("end")
  BY <1>1 DEF Is
<1>3. PICK l \in Line, t \in Seq(Line) :
         line[1] = l /\ t = Append(d, l) /\ d \in Seq(Line) /\ Dealt(t)'
  BY <1>1, <1>2, LineDealt
<1>4. /\ l.kind = "repeat" /\ l.val <= MaxRepeat
      /\ prog' = [prog EXCEPT !.repeat = l.val]
  BY <1>1, <1>3
<1>5. /\ WellFormed(Lines(d)) /\ launch = WrittenLaunch(d) /\ ClosedAre(d) /\ OpenIs(d)
      /\ Before(Lines(d)) \in {"program", "ctrl"}
      /\ Kind(OpenSection(d), "repeat") = <<>> /\ prog.insns = <<>>
  BY <1>1 DEF ReadUpTo
<1>6. Fits(l) /\ MayFollow(Before(Lines(d)), l)
  BY <1>4, <1>5 DEF Fits, MayFollow
<1>7. /\ WellFormed(Lines(t)) /\ Before(Lines(t)) = "repeat"
      /\ launch = WrittenLaunch(t) /\ ClosedAre(t)
      /\ Len(Headers(t)) = Len(programs) + 1 /\ Len(Headers(Lines(t))) # 0
      /\ OpenSection(t)[1].channel = prog.channel
      /\ WrittenCtrl(OpenSection(t)) = prog.ctrl
      /\ WrittenInsns(OpenSection(t)) = prog.insns
      /\ Len(Kind(OpenSection(Lines(t)), "insn")) = Len(prog.insns)
      /\ Kind(OpenSection(t), "repeat") = Append(<<>>, l)
  <2>1. l.kind \in {"ctrl", "repeat", "insn"} /\ l.kind # "insn" /\ l.kind # "ctrl"
    BY <1>4
  <2> DEFINE w == Kind(OpenSection(d), "repeat")
  <2>2. w = <<>>
    BY <1>5
  <2>3. Kind(OpenSection(t), "repeat") = Append(w, l)
    BY <1>3, <1>4, <1>5, <1>6, <2>1, InsideProgram
  <2>4. Kind(OpenSection(t), "repeat") = Append(<<>>, l)
    <3> HIDE DEF w
    <3> QED BY <2>2, <2>3, Zenon
  <2> QED BY <1>3, <1>4, <1>5, <1>6, <2>1, <2>4, InsideProgram
<1>8. prog \in Readable
  BY <1>1 DEF ParsedOK
<1>9. /\ prog'.channel = prog.channel /\ prog'.ctrl = prog.ctrl /\ prog'.insns = prog.insns
      /\ prog'.repeat = l.val
  BY <1>4, <1>8 DEF Readable
<1>10. Append(<<>>, l)[1] = l
  OBVIOUS
<1>11. ClosedAre(t)' /\ OpenIs(t)'
  BY <1>1, <1>7, <1>9 DEF ClosedAre, OpenIs
<1>12. Kind(OpenSection(t), "repeat")[1].val = l.val
  BY <1>7, <1>10
<1>13. ReadUpTo(t)'
  BY <1>1, <1>5, <1>7, <1>9, <1>11, <1>12 DEF ReadUpTo
<1> QED BY <1>3, <1>13

\* An instruction is added.
LEMMA InsnStep ==
    ASSUME LineOK, ParsedOK, NEW d, Dealt(d), ReadUpTo(d), AddInsn
    PROVE  (\E t : Dealt(t) /\ ReadUpTo(t))'
<1>1. /\ line # <<>> /\ line[1].kind = "insn" /\ Accepted(line[1].insn) /\ Taken /\ UNCHANGED file
      /\ mode = "INSNS" /\ mode' = "INSNS" /\ UNCHANGED <<programs, launch>>
      /\ Len(prog.insns) < Depth
      /\ prog' = [prog EXCEPT !.insns = Append(@, Assemble(line[1].insn))]
  BY DEF AddInsn, Is
<1>2. ~Is("end")
  BY <1>1 DEF Is
<1>3. PICK l \in Line, t \in Seq(Line) :
         line[1] = l /\ t = Append(d, l) /\ d \in Seq(Line) /\ Dealt(t)'
  BY <1>1, <1>2, LineDealt
<1>4. /\ l.kind = "insn" /\ Accepted(l.insn)
      /\ prog' = [prog EXCEPT !.insns = Append(@, Assemble(l.insn))]
  BY <1>1, <1>3
<1>5. /\ WellFormed(Lines(d)) /\ launch = WrittenLaunch(d) /\ ClosedAre(d) /\ OpenIs(d)
      /\ Before(Lines(d)) \in {"repeat", "insn"}
      /\ prog.repeat = Kind(OpenSection(d), "repeat")[1].val
  <2>1. Before(Lines(d)) = IF prog.insns = <<>> THEN "repeat" ELSE "insn"
    BY <1>1 DEF ReadUpTo
  <2> QED BY <1>1, <2>1 DEF ReadUpTo
<1>6. Fits(l) /\ MayFollow(Before(Lines(d)), l)
  BY <1>4, <1>5 DEF Fits, MayFollow
<1>7. prog \in Readable
  BY <1>1 DEF ParsedOK
<1>8. prog.insns \in Seq(DcInsn)
  BY <1>7, Zenon DEF Readable
<1>9. Len(prog.insns) + 1 <= Depth
  BY <1>1, <1>8, SizesAssumption
<1>10. /\ WellFormed(Lines(t)) /\ Before(Lines(t)) = "insn"
      /\ launch = WrittenLaunch(t) /\ ClosedAre(t)
      /\ Len(Headers(t)) = Len(programs) + 1 /\ Len(Headers(Lines(t))) # 0
      /\ OpenSection(t)[1].channel = prog.channel
      /\ WrittenCtrl(OpenSection(t)) = prog.ctrl
      /\ WrittenInsns(OpenSection(t)) = Append(prog.insns, Assemble(l.insn))
      /\ Len(Kind(OpenSection(Lines(t)), "insn")) = Len(prog.insns) + 1
      /\ Kind(OpenSection(t), "repeat") = Kind(OpenSection(d), "repeat")
  <2>1. l.kind \in {"ctrl", "repeat", "insn"} /\ l.kind # "repeat" /\ l.kind # "ctrl"
    BY <1>4
  <2> QED BY <1>3, <1>4, <1>5, <1>6, <1>9, <2>1, InsideProgram
<1> DEFINE x == Append(prog.insns, Assemble(l.insn))
<1>11. /\ prog'.channel = prog.channel /\ prog'.ctrl = prog.ctrl /\ prog'.insns = x
       /\ prog'.repeat = prog.repeat
  <2>1. prog' = [prog EXCEPT !.insns = x]
    BY <1>4
  <2> HIDE DEF x
  <2> QED BY <1>7, <2>1 DEF Readable
<1>12. Len(x) = Len(prog.insns) + 1 /\ x # <<>>
  <2>1. l.insn \in InsnLine
    BY <1>3, <1>4 DEF Line
  <2>2. Assemble(l.insn) \in DcInsn
    BY <1>4, <2>1, AssembleType
  <2> QED BY <1>8, <2>2, AppendProperties
<1> HIDE DEF x
<1>13. WrittenInsns(OpenSection(t)) = x
  BY <1>10 DEF x
<1>14. ClosedAre(t)' /\ OpenIs(t)'
  BY <1>1, <1>10, <1>11, <1>12, <1>13 DEF ClosedAre, OpenIs
<1>15. ReadUpTo(t)'
  BY <1>1, <1>5, <1>10, <1>11, <1>12, <1>14 DEF ReadUpTo
<1> QED BY <1>3, <1>15

\* The program that is closed is that of its section.
LEMMA CloseStep ==
    ASSUME LineOK, ParsedOK, NEW d, Dealt(d), ReadUpTo(d), CloseProgram
    PROVE  (\E t : Dealt(t) /\ ReadUpTo(t))'
<1>1. /\ mode = "INSNS" /\ mode' = "TOP" /\ UNCHANGED <<file, line, launch>>
      /\ prog.insns # <<>> /\ programs' = Append(programs, prog)
      /\ line # <<>> /\ line[1].kind \notin {"insn", "empty"}
  BY DEF CloseProgram
<1>2. Dealt(d)'
  BY <1>1 DEF Dealt, Is
<1>3. /\ WellFormed(Lines(d)) /\ launch = WrittenLaunch(d) /\ ClosedAre(d) /\ OpenIs(d)
      /\ Before(Lines(d)) = "insn"
      /\ prog.repeat = Kind(OpenSection(d), "repeat")[1].val
  BY <1>1 DEF ReadUpTo
<1> DEFINE s == OpenSection(d)
           n == Len(programs)
<1>4. /\ Len(Headers(d)) = n + 1
      /\ prog.channel = s[1].channel /\ prog.ctrl = WrittenCtrl(s) /\ prog.insns = WrittenInsns(s)
  BY <1>3 DEF OpenIs
<1>5. prog = [channel |-> prog.channel, ctrl |-> prog.ctrl, repeat |-> prog.repeat, insns |-> prog.insns]
  <2>1. prog \in Readable
    BY <1>1 DEF ParsedOK
  <2> QED BY <2>1 DEF Readable
<1>6. prog = WrittenProgram(s)
  <2> HIDE DEF s
  <2>1. prog.repeat = Kind(s, "repeat")[1].val
    BY <1>3 DEF s
  <2> QED BY <1>4, <1>5, <2>1, Zenon DEF WrittenProgram
<1>7. /\ n \in Nat /\ DOMAIN programs = 1 .. n
      /\ Len(programs') = n + 1 /\ DOMAIN programs' = 1 .. n + 1
      /\ programs'[n + 1] = prog
      /\ \A k \in 1 .. n : programs'[k] = programs[k]
  <2>1. programs \in Seq(Loadable) /\ Len(programs) \in Nat
    BY Programs DEF ParsedOK
  <2> DEFINE A == Loadable \cup {prog}
  <2>2. programs \in Seq(A) /\ prog \in A
    BY <2>1
  <2> HIDE DEF A
  <2> QED BY <1>1, <2>1, <2>2, AppendProperties
<1>8. Section(d, n + 1) = s
  BY <1>4 DEF OpenSection
<1> HIDE DEF s, n
<1>9. ASSUME NEW k \in 1 .. n + 1 PROVE programs'[k] = WrittenProgram(Section(d, k))
  <2>1. k \in 1 .. n \/ k = n + 1
    BY <1>7
  <2>2. CASE k \in 1 .. n
    BY <1>3, <1>7, <2>2 DEF ClosedAre
  <2>3. CASE k = n + 1
    BY <1>6, <1>7, <1>8, <2>3
  <2> QED BY <2>1, <2>2, <2>3
<1>10. ClosedAre(d)'
  BY <1>7, <1>9 DEF ClosedAre
<1>11. ReadUpTo(d)'
  BY <1>1, <1>3, <1>4, <1>7, <1>10 DEF ReadUpTo
<1> QED BY <1>2, <1>11

\* A line for the launch is about no program.
LEMMA OutsidePrograms ==
    ASSUME ParsedOK, NEW d \in Seq(Line), NEW l \in Line,
           WellFormed(Lines(d)), ClosedAre(d), Len(programs) = Len(Headers(d)),
           l.kind \in {"launch", "hex", "marker"}, Fits(l), MayFollow(Before(Lines(d)), l)
    PROVE  LET t == Append(d, l)
           IN  /\ WellFormed(Lines(t)) /\ Before(Lines(t)) = Role(l)
               /\ ClosedAre(t) /\ Len(programs) = Len(Headers(t))
<1> DEFINE t == Append(d, l)
<1>1. WellFormed(Lines(t)) /\ Before(Lines(t)) = Role(l)
  BY StaysWellFormed
<1>2. ClosedAre(t)
  BY ClosedStay
<1>3. Len(Headers(t)) = Len(Headers(d))
  BY SectionGrows
<1> QED BY <1>1, <1>2, <1>3

\* A launch replaces the one before it.
LEMMA LaunchStep ==
    ASSUME LineOK, ParsedOK, NEW d, Dealt(d), ReadUpTo(d), SetLaunch
    PROVE  (\E t : Dealt(t) /\ ReadUpTo(t))'
<1>1. /\ line # <<>> /\ line[1].kind = "launch" /\ -1 \notin line[1].channels /\ Taken /\ UNCHANGED file
      /\ mode = "TOP" /\ mode' = (IF line[1].legacy THEN "MASK" ELSE "TOP") /\ UNCHANGED programs
      /\ launch' = <<[NewLaunch EXCEPT
                         !.iters = IF line[1].iters = <<>> THEN 1 ELSE line[1].iters[1],
                         !.use_trigger = line[1].trig, !.dc_chmask = line[1].channels]>>
  BY DEF SetLaunch, Is
<1>2. ~Is("end")
  BY <1>1 DEF Is
<1>3. PICK l \in Line, t \in Seq(Line) :
         line[1] = l /\ t = Append(d, l) /\ d \in Seq(Line) /\ Dealt(t)'
  BY <1>1, <1>2, LineDealt
<1> DEFINE its == IF l.iters = <<>> THEN 1 ELSE l.iters[1]
<1>4. /\ l.kind = "launch" /\ -1 \notin l.channels
      /\ mode' = IF l.legacy THEN "MASK" ELSE "TOP"
      /\ launch' = <<[NewLaunch EXCEPT !.iters = its, !.use_trigger = l.trig, !.dc_chmask = l.channels]>>
  BY <1>1, <1>3
<1>5. /\ WellFormed(Lines(d)) /\ ClosedAre(d) /\ Len(programs) = Len(Headers(d))
      /\ Before(Lines(d)) \in {"start", "insn", "launch", "hex", "marker"}
  BY <1>1 DEF ReadUpTo
<1>6. Fits(l) /\ MayFollow(Before(Lines(d)), l)
  BY <1>4, <1>5 DEF Fits, MayFollow
<1>7. /\ WellFormed(Lines(t)) /\ Before(Lines(t)) = Role(l)
      /\ ClosedAre(t) /\ Len(programs) = Len(Headers(t))
  BY <1>3, <1>4, <1>5, <1>6, OutsidePrograms
<1>8. Role(l) = IF l.legacy THEN "mask" ELSE "launch"
  BY <1>4 DEF Role
<1>9. WrittenLaunch(t) = <<LaunchOf(l.channels, its, l.trig, <<>>)>>
  <2>1. d \in Seq(Line) /\ l \in Line /\ l.kind = "launch"
    BY <1>3, <1>4
  <2>2. WrittenLaunch(Append(d, l)) = <<LaunchOf(l.channels, its, l.trig, <<>>)>>
    BY <2>1, LaunchAppend, Zenon
  <2> QED BY <1>3, <2>2, Zenon
<1>10. launch' = WrittenLaunch(t)
  <2> HIDE DEF its
  <2>1. [NewLaunch EXCEPT !.iters = its, !.use_trigger = l.trig, !.dc_chmask = l.channels]
        = LaunchOf(l.channels, its, l.trig, <<>>)
    <3>1. PICK w, c, b : w = NewLaunch /\ c = l.channels /\ b = l.trig
      OBVIOUS
    <3>2. w \in [dc_chmask: {w.dc_chmask}, iters: {w.iters}, use_trigger: {w.use_trigger},
                marker_sels: {w.marker_sels}]
      BY <3>1 DEF NewLaunch
    <3>3. w.marker_sels = <<>>
      BY <3>1 DEF NewLaunch
    <3>4. [w EXCEPT !.iters = its, !.use_trigger = b, !.dc_chmask = c]
          = LaunchOf(c, its, b, w.marker_sels)
      <4>1. PICK u : u = [w EXCEPT !.iters = its]
        OBVIOUS
      <4>2. /\ u \in [dc_chmask: {w.dc_chmask}, iters: {its}, use_trigger: {w.use_trigger},
                     marker_sels: {w.marker_sels}]
        BY <3>2, <4>1
      <4>3. PICK v : v = [u EXCEPT !.use_trigger = b]
        OBVIOUS
      <4>4. /\ v \in [dc_chmask: {w.dc_chmask}, iters: {its}, use_trigger: {b},
                     marker_sels: {w.marker_sels}]
        BY <4>2, <4>3
      <4>5. [v EXCEPT !.dc_chmask = c] = LaunchOf(c, its, b, w.marker_sels)
        BY <4>4 DEF LaunchOf
      <4> QED BY <4>1, <4>3, <4>5
    <3>5. [w EXCEPT !.iters = its, !.use_trigger = b, !.dc_chmask = c] = LaunchOf(c, its, b, <<>>)
      BY <3>3, <3>4, Zenon
    <3> QED BY <3>1, <3>5
  <2> QED BY <1>4, <1>9, <2>1
<1>11. l.legacy => NoMaskYet(t)
  BY <1>3, <1>4, MaskMissing
<1>12. ClosedAre(t)'
  BY <1>1, <1>7 DEF ClosedAre
<1>13. CASE l.legacy
  <2>1. mode' = "MASK" /\ Before(Lines(t)) = "mask"
    BY <1>4, <1>7, <1>8, <1>13
  <2>2. ReadUpTo(t)'
    BY <1>1, <1>7, <1>10, <1>11, <1>12, <1>13, <2>1 DEF ReadUpTo
  <2> QED BY <1>3, <2>2
<1>14. CASE ~l.legacy
  <2>1. mode' = "TOP" /\ Before(Lines(t)) = "launch"
    BY <1>4, <1>7, <1>8, <1>14
  <2>2. ReadUpTo(t)'
    BY <1>1, <1>7, <1>10, <1>12, <2>1 DEF ReadUpTo
  <2> QED BY <1>3, <2>2
<1> QED BY <1>13, <1>14

\* A mask is that of the launch before it.
LEMMA MaskStep ==
    ASSUME LineOK, ParsedOK, NEW d, Dealt(d), ReadUpTo(d), SetMask
    PROVE  (\E t : Dealt(t) /\ ReadUpTo(t))'
<1>1. /\ line # <<>> /\ line[1].kind = "hex" /\ Taken /\ UNCHANGED file
      /\ mode = "MASK" /\ mode' = "TOP" /\ UNCHANGED programs
      /\ launch' = <<[launch[1] EXCEPT !.dc_chmask = line[1].channels]>>
  BY DEF SetMask, Is
<1>2. ~Is("end")
  BY <1>1 DEF Is
<1>3. PICK l \in Line, t \in Seq(Line) :
         line[1] = l /\ t = Append(d, l) /\ d \in Seq(Line) /\ Dealt(t)'
  BY <1>1, <1>2, LineDealt
<1>4. l.kind = "hex" /\ launch' = <<[launch[1] EXCEPT !.dc_chmask = l.channels]>>
  BY <1>1, <1>3
<1>5. /\ WellFormed(Lines(d)) /\ ClosedAre(d) /\ Len(programs) = Len(Headers(d))
      /\ Before(Lines(d)) = "mask" /\ NoMaskYet(d) /\ launch = WrittenLaunch(d)
  BY <1>1 DEF ReadUpTo
<1>6. Fits(l) /\ MayFollow(Before(Lines(d)), l)
  BY <1>4, <1>5 DEF Fits, MayFollow
<1>7. /\ WellFormed(Lines(t)) /\ Before(Lines(t)) = Role(l)
      /\ ClosedAre(t) /\ Len(programs) = Len(Headers(t))
  BY <1>3, <1>4, <1>5, <1>6, OutsidePrograms
<1>8. Role(l) = "hex"
  BY <1>4 DEF Role
<1>9. launch[1] \in Launchable
  BY <1>1, EmptySeq DEF ParsedOK
<1>10. launch' = WrittenLaunch(t)
  <2> DEFINE w == WrittenLaunch(d)
  <2>1. LaunchAt(d) # 0 /\ d[LaunchAt(d)].legacy /\ Kind(BehindLaunch(d), "hex") = <<>>
    BY <1>5 DEF NoMaskYet
  <2>2. WrittenLaunch(t) = <<LaunchOf(l.channels, w[1].iters, w[1].use_trigger, w[1].marker_sels)>>
    BY <1>3, <1>4, <2>1, LaunchAppend
  <2>3. w = launch
    BY <1>5
  <2> HIDE DEF w
  <2>4. [launch[1] EXCEPT !.dc_chmask = l.channels]
        = LaunchOf(l.channels, launch[1].iters, launch[1].use_trigger, launch[1].marker_sels)
    BY <1>9 DEF Launchable, LaunchOf
  <2> QED BY <1>4, <2>2, <2>3, <2>4
<1>11. ClosedAre(t)'
  BY <1>1, <1>7 DEF ClosedAre
<1>12. ReadUpTo(t)'
  BY <1>1, <1>7, <1>8, <1>10, <1>11 DEF ReadUpTo
<1> QED BY <1>3, <1>12

\* Markers are those of the launch before them, or wait for one.
LEMMA MarkersStep ==
    ASSUME LineOK, ParsedOK, NEW d, Dealt(d), ReadUpTo(d), SetMarkers
    PROVE  (\E t : Dealt(t) /\ ReadUpTo(t))'
<1>1. /\ line # <<>> /\ line[1].kind = "marker" /\ MarkersAccepted(line[1]) /\ Taken /\ UNCHANGED file
      /\ mode = "TOP" /\ mode' = "TOP" /\ UNCHANGED programs
      /\ launch' = <<[(IF launch = <<>> THEN NewLaunch ELSE launch[1])
                         EXCEPT !.marker_sels = <<line[1].sels>>]>>
  BY DEF SetMarkers, Is
<1>2. ~Is("end")
  BY <1>1 DEF Is
<1>3. PICK l \in Line, t \in Seq(Line) :
         line[1] = l /\ t = Append(d, l) /\ d \in Seq(Line) /\ Dealt(t)'
  BY <1>1, <1>2, LineDealt
<1>4. /\ l.kind = "marker" /\ MarkersAccepted(l)
      /\ launch' = <<[(IF launch = <<>> THEN NewLaunch ELSE launch[1])
                         EXCEPT !.marker_sels = <<l.sels>>]>>
  BY <1>1, <1>3
<1>5. /\ WellFormed(Lines(d)) /\ ClosedAre(d) /\ Len(programs) = Len(Headers(d))
      /\ Before(Lines(d)) \in {"start", "insn", "launch", "hex", "marker"}
      /\ launch = WrittenLaunch(d)
  BY <1>1 DEF ReadUpTo
<1>6. Fits(l) /\ MayFollow(Before(Lines(d)), l)
  BY <1>4, <1>5 DEF Fits, MayFollow
<1>7. /\ WellFormed(Lines(t)) /\ Before(Lines(t)) = Role(l)
      /\ ClosedAre(t) /\ Len(programs) = Len(Headers(t))
  BY <1>3, <1>4, <1>5, <1>6, OutsidePrograms
<1>8. Role(l) = "marker"
  BY <1>4 DEF Role
<1>9. launch' = WrittenLaunch(t)
  <2> DEFINE w == WrittenLaunch(d)
  <2>1. /\ w = <<>> => WrittenLaunch(t) = <<LaunchOf({}, 1, FALSE, <<l.sels>>)>>
        /\ w # <<>> => WrittenLaunch(t)
                       = <<LaunchOf(w[1].dc_chmask, w[1].iters, w[1].use_trigger, <<l.sels>>)>>
    <3>1. WrittenLaunch(t) = IF w = <<>> THEN <<LaunchOf({}, 1, FALSE, <<l.sels>>)>>
                             ELSE <<LaunchOf(w[1].dc_chmask, w[1].iters, w[1].use_trigger, <<l.sels>>)>>
      BY <1>3, <1>4, LaunchAppend, ZenonT(60)
    <3> QED BY <3>1, Zenon
  <2>2. w = launch
    BY <1>5
  <2> HIDE DEF w
  <2>3. CASE launch = <<>>
    <3>1. [NewLaunch EXCEPT !.marker_sels = <<l.sels>>] = LaunchOf({}, 1, FALSE, <<l.sels>>)
      <4>1. PICK new, x : new = NewLaunch /\ x = <<l.sels>>
        OBVIOUS
      <4>2. new \in [dc_chmask: {new.dc_chmask}, iters: {new.iters}, use_trigger: {new.use_trigger},
                  marker_sels: {new.marker_sels}]
        BY <4>1 DEF NewLaunch
      <4>3. new.dc_chmask = {} /\ new.iters = 1 /\ new.use_trigger = FALSE
        BY <4>1 DEF NewLaunch
      <4>4. [new EXCEPT !.marker_sels = x] = LaunchOf(new.dc_chmask, new.iters, new.use_trigger, x)
        BY <4>2 DEF LaunchOf
      <4>5. [new EXCEPT !.marker_sels = x] = LaunchOf({}, 1, FALSE, x)
        BY <4>3, <4>4, Zenon
      <4> QED BY <4>1, <4>5
    <3>2. launch' = <<[NewLaunch EXCEPT !.marker_sels = <<l.sels>>]>>
      BY <1>4, <2>3
    <3> QED BY <2>1, <2>2, <2>3, <3>1, <3>2
  <2>4. CASE launch # <<>>
    <3>1. launch[1] \in Launchable
      BY <2>4, EmptySeq DEF ParsedOK
    <3>2. [launch[1] EXCEPT !.marker_sels = <<l.sels>>]
          = LaunchOf(launch[1].dc_chmask, launch[1].iters, launch[1].use_trigger, <<l.sels>>)
      BY <3>1 DEF Launchable, LaunchOf
    <3>3. launch' = <<[launch[1] EXCEPT !.marker_sels = <<l.sels>>]>>
      BY <1>4, <2>4
    <3> QED BY <2>1, <2>2, <2>4, <3>2, <3>3
  <2> QED BY <2>3, <2>4
<1>10. ClosedAre(t)'
  BY <1>1, <1>7 DEF ClosedAre
<1>11. ReadUpTo(t)'
  BY <1>1, <1>7, <1>8, <1>9, <1>10 DEF ReadUpTo
<1> QED BY <1>3, <1>11

\* A file with nothing in it.
LEMMA EmptyFile ==
    /\ Lines(<<>>) = <<>> /\ Headers(<<>>) = <<>> /\ Before(<<>>) = "start"
    /\ WellFormed(<<>>) /\ WrittenPrograms(<<>>) = <<>> /\ WrittenLaunch(<<>>) = <<>>
    /\ WellFormed(Append(<<>>, EndOfFile))
<1>1. Lines(<<>>) = <<>> /\ Headers(<<>>) = <<>>
  BY NothingWritten
<1>2. Before(<<>>) = "start"
  BY DEF Before
<1>3. WellFormed(<<>>) /\ WrittenPrograms(<<>>) = <<>>
  BY <1>1 DEF WellFormed, WrittenPrograms
<1>4. LaunchAt(<<>>) = 0
  BY DEF LaunchAt, SelectLastInSeq
<1>5. BehindLaunch(<<>>) = <<>>
  BY <1>4 DEF BehindLaunch
<1>6. WrittenSels(<<>>) = <<>>
  <2>1. Kind(<<>>, "marker") = <<>>
    BY NothingWritten
  <2>2. LastOf(Kind(BehindLaunch(<<>>), "marker")) = <<>>
    BY <1>5, <2>1 DEF LastOf
  <2> QED BY <2>2, Zenon DEF WrittenSels
<1>7. WrittenLaunch(<<>>) = <<>>
  BY <1>4, <1>6, Zenon DEF WrittenLaunch
<1>8. WellFormed(Append(<<>>, EndOfFile))
  <2>1. EndOfFile.kind = "end"
    BY DEF EndOfFile
  <2>2. Fits(EndOfFile) /\ MayFollow(Before(<<>>), EndOfFile)
    BY <1>2, <2>1 DEF Fits, MayFollow
  <2>3. <<>> \in Seq({EndOfFile}) /\ EndOfFile \in {EndOfFile} /\ EndOfFile.kind # "insn"
    BY <2>1
  <2> QED BY <1>3, <2>2, <2>3, WellFormedAppend
<1> QED BY <1>1, <1>2, <1>3, <1>7, <1>8

\* A new file begins with nothing read of it.
LEMMA InvokeStep ==
    ASSUME FileOK, Invoke
    PROVE  FileOK'
<1>1. /\ mode = "SHELL" /\ mode' \in {"TOP", "DONE"}
      /\ UNCHANGED <<file, line, prog, programs, launch>>
  BY DEF Invoke
<1>2. file' = <<>> /\ line' = <<>> /\ programs' = <<>> /\ launch' = <<>>
  BY <1>1 DEF FileOK
<1>3. CASE mode' = "TOP"
  <2>1. Dealt(<<>>)'
    BY <1>2 DEF Dealt
  <2>2. ReadUpTo(<<>>)'
    <3>1. ClosedAre(<<>>)'
      BY <1>2 DEF ClosedAre
    <3>2. Len(programs') = Len(Headers(<<>>))
      BY <1>2, EmptyFile
    <3> QED BY <1>2, <1>3, <3>1, <3>2, EmptyFile DEF ReadUpTo
  <2>3. (\E d : Dealt(d) /\ ReadUpTo(d))'
    BY <2>1, <2>2
  <2>4. ParsesAsWritten'
    BY <1>3 DEF ParsesAsWritten
  <2> QED BY <1>3, <2>3, <2>4 DEF FileOK
<1>4. CASE mode' = "DONE"
  <2>1. ParsesAsWritten'
    BY <1>2, <1>4, EmptyFile DEF ParsesAsWritten
  <2> QED BY <1>2, <1>4, <2>1 DEF FileOK
<1> QED BY <1>1, <1>3, <1>4

\* A line is read when the ones before it have been dealt with.
LEMMA ReadStep ==
    ASSUME NEW d, Dealt(d), ReadUpTo(d), ReadLine
    PROVE  (\E t : Dealt(t) /\ ReadUpTo(t))'
<1>1. line = <<>> /\ UNCHANGED <<mode, prog, programs, launch>>
  BY DEF ReadLine
<1>2. d \in Seq(Line) /\ file = d
  BY <1>1 DEF Dealt
<1>3. \/ line' = <<EndOfFile>> /\ file' = d
      \/ \E l \in Line : line' = <<l>> /\ file' = Append(d, l)
  BY <1>2, LinesAssumption DEF ReadLine
<1>4. Dealt(d)'
  <2>1. CASE line' = <<EndOfFile>> /\ file' = d
    BY <1>2, <2>1 DEF Dealt, Is, EndOfFile
  <2>2. CASE \E l \in Line : line' = <<l>> /\ file' = Append(d, l)
    <3>1. PICK l \in Line : line' = <<l>> /\ file' = Append(d, l)
      BY <2>2
    <3>2. l.kind # "end"
      BY DEF Line
    <3>3. line' # <<>> /\ line'[1] = l
      BY <3>1
    <3> QED BY <1>2, <3>1, <3>2, <3>3 DEF Dealt, Is
  <2> QED BY <1>3, <2>1, <2>2
<1>5. ~(mode = "TOP" /\ Before(Lines(d)) = "insn")
  BY <1>1 DEF ReadUpTo
<1>6. ReadUpTo(d)'
  BY <1>1, <1>5 DEF ReadUpTo, ClosedAre, OpenIs
<1> QED BY <1>4, <1>6

\* At the end of the file, the programs that are closed are all there are.
LEMMA FinishStep ==
    ASSUME ParsedOK, NEW d, Dealt(d), ReadUpTo(d), Finish
    PROVE  FileOK'
<1>1. /\ mode \in {"TOP", "MASK"} /\ Is("end") /\ line' = <<>> /\ mode' = "DONE"
      /\ UNCHANGED <<file, programs, launch>>
  BY DEF Finish, Taken
<1>2. d \in Seq(Line) /\ file = d
  BY <1>1 DEF Dealt
<1>3. /\ WellFormed(Lines(d)) /\ launch = WrittenLaunch(d) /\ ClosedAre(d)
      /\ Len(programs) = Len(Headers(d))
      /\ Before(Lines(d)) \in {"start", "insn", "launch", "hex", "marker", "mask"}
  BY <1>1 DEF ReadUpTo
<1>4. WellFormed(Append(Lines(d), EndOfFile))
  <2>1. EndOfFile.kind = "end"
    BY DEF EndOfFile
  <2>2. Fits(EndOfFile) /\ MayFollow(Before(Lines(d)), EndOfFile)
    BY <1>3, <2>1 DEF Fits, MayFollow
  <2>3. Lines(d) \in Seq(Line \cup {EndOfFile}) /\ EndOfFile \in Line \cup {EndOfFile}
    <3>1. EndOfFile \in Line \cup {EndOfFile} /\ d \in Seq(Line \cup {EndOfFile})
      BY <1>2
    <3> QED BY <3>1, LinesAppend
  <2> QED BY <1>3, <2>1, <2>2, <2>3, WellFormedAppend
<1>5. programs = WrittenPrograms(d)
  <2>1. programs \in Seq(Loadable) /\ DOMAIN programs = 1 .. Len(programs)
    BY Programs DEF ParsedOK
  <2>2. DOMAIN Headers(d) = 1 .. Len(Headers(d))
    <3>1. EndOfFile \in Line \cup {EndOfFile} /\ d \in Seq(Line \cup {EndOfFile})
      BY <1>2
    <3> QED BY <3>1, SectionsAppend
  <2>3. \A k \in DOMAIN programs : programs[k] = WrittenProgram(Section(d, k))
    BY <1>3 DEF ClosedAre
  <2>4. programs = [k \in DOMAIN Headers(d) |-> WrittenProgram(Section(d, k))]
    BY <1>3, <2>1, <2>2, <2>3
  <2> QED BY <2>4 DEF WrittenPrograms
<1>6. ParsesAsWritten'
  BY <1>1, <1>2, <1>3, <1>4, <1>5 DEF ParsesAsWritten
<1> QED BY <1>1, <1>6 DEF FileOK

\* A line that is not accepted cannot be part of a file that is well formed.
LEMMA RejectStep ==
    ASSUME LineOK, ParsedOK, NEW d, Dealt(d), ReadUpTo(d), Reject
    PROVE  FileOK'
<1>1. mode' = "FAILED" /\ UNCHANGED <<file, line, prog, programs, launch>>
  BY DEF Reject, Fail
<1>2. line # <<>> /\ line[1].kind # "empty" /\ ~Is("empty")'
  BY <1>1 DEF Reject, Is
<1>3. WellFormed(Lines(d)) /\ d \in Seq(Line)
  BY DEF ReadUpTo, Dealt
<1>4. CASE Is("end")
  <2>1. file = d
    BY <1>4 DEF Dealt
  <2>2. line[1].kind = "end" /\ EndOfFile.kind = "end"
    BY <1>4 DEF Is, EndOfFile
  <2>3. \/ mode = "CTRL"
        \/ mode = "INSNS" /\ prog.insns = <<>>
    BY <2>2 DEF Reject, Is
  <2>4. Before(Lines(d)) \in {"program", "ctrl", "repeat"}
    BY <2>3 DEF ReadUpTo
  <2>5. ~MayFollow(Before(Lines(d)), EndOfFile)
    BY <2>2, <2>4 DEF MayFollow
  <2>6. Lines(d) \in Seq(Line \cup {EndOfFile}) /\ EndOfFile \in Line \cup {EndOfFile}
    <3>1. EndOfFile \in Line \cup {EndOfFile} /\ d \in Seq(Line \cup {EndOfFile})
      BY <1>3
    <3> QED BY <3>1, LinesAppend
  <2>7. ~WellFormed(Append(Lines(d), EndOfFile))
    BY <2>5, <2>6, WellFormedAppend
  <2>8. Is("end")'
    BY <1>1, <1>4 DEF Is
  <2>9. ParsesAsWritten'
    BY <1>1, <2>1, <2>7, <2>8 DEF ParsesAsWritten
  <2> QED BY <1>1, <1>2, <2>9 DEF FileOK
<1>5. CASE ~Is("end")
  <2>1. PICK l \in Line, t \in Seq(Line) :
           line[1] = l /\ t = Append(d, l) /\ file = t /\ d \in Seq(Line) /\ l.kind # "end"
    BY <1>2, <1>5, LineDealt
  <2>2. l.kind # "empty"
    BY <1>2, <2>1
  <2> DEFINE e == Lines(d)
             before == Before(e)
             n == Len(Headers(e))
             Room == l.kind = "insn" /\ n # 0 => Len(Kind(Section(e, n), "insn")) + 1 <= Depth
  <2>3. e \in Seq(Line) /\ Lines(t) = Append(e, l)
    BY <2>1, <2>2, LinesAppend
  <2>4. WellFormed(Lines(t)) => Fits(l) /\ MayFollow(before, l) /\ Room
    <3>1. WellFormed(Append(e, l)) => Fits(l) /\ MayFollow(before, l) /\ Room
      <4> HIDE DEF e
      <4> QED BY <2>3, WellFormedAppend
    <3> QED BY <2>3, <3>1, Zenon
  <2>5. ~(Fits(l) /\ MayFollow(before, l) /\ Room)
    <3>1. CASE mode = "TOP"
      <4>1. before \in {"start", "insn", "launch", "hex", "marker"}
        BY <3>1 DEF ReadUpTo
      <4>2. \/ l.kind \in {"ctrl", "repeat", "insn", "hex", "other"}
            \/ l.kind = "launch" /\ -1 \in l.channels
            \/ l.kind = "marker" /\ ~MarkersAccepted(l)
        BY <2>1, <3>1 DEF Reject, Is
      <4> HIDE DEF before, Room
      <4>3. CASE l.kind \in {"ctrl", "repeat", "hex", "other"}
        BY <4>1, <4>3 DEF MayFollow
      <4>4. CASE l.kind = "insn"
        <5>1. before # "insn"
          BY <2>1, <3>1, <4>4 DEF ReadUpTo, before
        <5> QED BY <4>1, <4>4, <5>1 DEF MayFollow
      <4>5. CASE l.kind = "launch" /\ -1 \in l.channels
        BY <4>5 DEF Fits
      <4>6. CASE l.kind = "marker" /\ ~MarkersAccepted(l)
        BY <4>6 DEF Fits
      <4> QED BY <4>2, <4>3, <4>4, <4>5, <4>6
    <3>2. CASE mode = "CTRL"
      <4>1. before \in {"program", "ctrl"}
        BY <3>2 DEF ReadUpTo
      <4>2. \/ l.kind \notin {"ctrl", "repeat"}
            \/ l.kind = "ctrl" /\ l.val > MaxCtrl
            \/ l.kind = "repeat" /\ l.val > MaxRepeat
        BY <2>1, <3>2 DEF Reject, Is
      <4> HIDE DEF before, Room
      <4>3. CASE l.kind \notin {"ctrl", "repeat"}
        BY <4>1, <4>3 DEF MayFollow
      <4>4. CASE l.kind = "ctrl" /\ l.val > MaxCtrl
        <5>1. l.val \in Nat /\ MaxCtrl \in Nat
          BY <4>4, SizesAssumption DEF Line
        <5>2. ~(l.val <= MaxCtrl)
          BY <4>4, <5>1
        <5> QED BY <4>4, <5>2 DEF Fits
      <4>5. CASE l.kind = "repeat" /\ l.val > MaxRepeat
        <5>1. l.val \in Nat /\ MaxRepeat \in Nat
          BY <4>5, SizesAssumption DEF Line
        <5>2. ~(l.val <= MaxRepeat)
          BY <4>5, <5>1
        <5> QED BY <4>5, <5>2 DEF Fits
      <4> QED BY <4>2, <4>3, <4>4, <4>5
    <3>3. CASE mode = "INSNS"
      <4>1. /\ before = IF prog.insns = <<>> THEN "repeat" ELSE "insn"
            /\ n # 0 /\ Len(Kind(Section(e, n), "insn")) = Len(prog.insns)
        BY <3>3 DEF ReadUpTo, OpenIs, OpenSection
      <4>2. \/ l.kind # "insn" /\ prog.insns = <<>>
            \/ l.kind = "insn" /\ Len(prog.insns) >= Depth
            \/ l.kind = "insn" /\ ~Accepted(l.insn)
        BY <2>1, <3>3 DEF Reject, Is
      <4>3. CASE l.kind # "insn" /\ prog.insns = <<>>
        <5>1. before = "repeat"
          BY <4>1, <4>3
        <5> HIDE DEF before, Room
        <5> QED BY <4>3, <5>1 DEF MayFollow
      <4>4. CASE l.kind = "insn" /\ Len(prog.insns) >= Depth
        <5>1. Len(prog.insns) \in Nat /\ Depth \in Nat
          <6>1. prog \in Readable
            BY <3>3 DEF ParsedOK
          <6>2. prog.insns \in Seq(DcInsn)
            BY <6>1, Zenon DEF Readable
          <6> QED BY <6>2, SizesAssumption
        <5>2. ~(Len(prog.insns) + 1 <= Depth)
          BY <4>4, <5>1
        <5>3. ~Room
          BY <4>1, <4>4, <5>2
        <5> QED BY <5>3
      <4>5. CASE l.kind = "insn" /\ ~Accepted(l.insn)
        <5> HIDE DEF before, Room
        <5> QED BY <4>5 DEF Fits
      <4> QED BY <4>2, <4>3, <4>4, <4>5
    <3>4. CASE mode = "MASK"
      <4>1. before = "mask"
        BY <3>4 DEF ReadUpTo
      <4>2. l.kind \notin {"hex", "end"}
        BY <2>1, <3>4 DEF Reject
      <4> HIDE DEF before, Room
      <4> QED BY <4>1, <4>2 DEF MayFollow
    <3> QED BY <3>1, <3>2, <3>3, <3>4 DEF Reject
  <2>6. ~WellFormed(Lines(t))
    BY <2>4, <2>5
  <2>7. ~Is("end")'
    BY <1>1, <1>5 DEF Is
  <2>8. ParsesAsWritten'
    BY <1>1, <2>1, <2>6, <2>7 DEF ParsesAsWritten
  <2> QED BY <1>1, <1>2, <2>8 DEF FileOK
<1> QED BY <1>4, <1>5

\* No step of the tool changes that.
LEMMA FileNext ==
    ASSUME LineOK, ParsedOK, FileOK, [Next]_vars
    PROVE  FileOK'
<1>1. CASE SkipEmpty \/ OpenProgram \/ SetCtrl \/ SetRepeat \/ AddInsn \/ CloseProgram
           \/ SetLaunch \/ SetMask \/ SetMarkers \/ ReadLine
  <2>1. mode \in {"TOP", "CTRL", "INSNS", "MASK"} /\ mode' \in {"TOP", "CTRL", "INSNS", "MASK"}
    <3>1. CASE SkipEmpty
      <4>1. line # <<>> /\ mode' = mode /\ Is("empty")
        BY <3>1 DEF SkipEmpty, Is
      <4> QED BY <4>1, Zenon DEF FileOK
    <3> QED BY <1>1, <3>1
          DEF OpenProgram, SetCtrl, SetRepeat, AddInsn, CloseProgram, SetLaunch, SetMask, SetMarkers,
              ReadLine
  <2>2. PICK d : Dealt(d) /\ ReadUpTo(d)
    BY <2>1 DEF FileOK
  <2>3. (\E t : Dealt(t) /\ ReadUpTo(t))'
    <3>1. CASE SkipEmpty
      BY <2>1, <2>2, <3>1, SkipStep
    <3>2. CASE OpenProgram
      BY <2>2, <3>2, OpenStep
    <3>3. CASE SetCtrl
      BY <2>2, <3>3, CtrlStep
    <3>4. CASE SetRepeat
      BY <2>2, <3>4, RepeatStep
    <3>5. CASE AddInsn
      BY <2>2, <3>5, InsnStep
    <3>6. CASE CloseProgram
      BY <2>2, <3>6, CloseStep
    <3>7. CASE SetLaunch
      BY <2>2, <3>7, LaunchStep
    <3>8. CASE SetMask
      BY <2>2, <3>8, MaskStep
    <3>9. CASE SetMarkers
      BY <2>2, <3>9, MarkersStep
    <3>10. CASE ReadLine
      BY <2>2, <3>10, ReadStep
    <3> QED BY <1>1, <3>1, <3>2, <3>3, <3>4, <3>5, <3>6, <3>7, <3>8, <3>9, <3>10
  <2>4. ParsesAsWritten'
    BY <2>1 DEF ParsesAsWritten
  <2> QED BY <2>1, <2>3, <2>4 DEF FileOK
<1>2. CASE Finish \/ Reject
  <2>1. mode \in {"TOP", "CTRL", "INSNS", "MASK"}
    BY <1>2 DEF Finish, Reject
  <2>2. PICK d : Dealt(d) /\ ReadUpTo(d)
    BY <2>1 DEF FileOK
  <2> QED BY <1>2, <2>2, FinishStep, RejectStep
<1>3. CASE Invoke
  BY <1>3, InvokeStep
<1>4. CASE ExitFailed
  BY <1>4 DEF ExitFailed, FileOK, ParsesAsWritten
<1>5. CASE Connect
  <2>1. mode = "DONE" /\ mode' = "SENDING" /\ file' = <<>> /\ line' = line
    BY <1>5 DEF Connect
  <2> QED BY <2>1 DEF FileOK, ParsesAsWritten
<1>6. CASE OpenReading \/ Disconnect
  <2>1. /\ mode \in {"SENDING", "READING"} /\ mode' \in {"READING", "SHELL"}
        /\ UNCHANGED <<file, line>>
        /\ mode' = "SHELL" => programs' = <<>> /\ launch' = <<>>
    BY <1>6 DEF OpenReading, Disconnect
  <2> QED BY <2>1 DEF FileOK, ParsesAsWritten
<1>7. CASE SendNext \/ AskDepth \/ ReadNext
  <2>1. mode \in {"SENDING", "READING"} /\ UNCHANGED <<mode, file, line, programs, launch>>
    BY <1>7 DEF SendNext, AskDepth, ReadNext, parsing
  <2> QED BY <2>1 DEF FileOK, ParsesAsWritten
<1>8. CASE UNCHANGED vars
  <2>1. UNCHANGED <<mode, file, line, prog, programs, launch>>
    BY <1>8 DEF vars, parsing
  <2>2. ASSUME NEW d, Dealt(d), ReadUpTo(d) PROVE Dealt(d)' /\ ReadUpTo(d)'
    BY <2>1, <2>2 DEF Dealt, ReadUpTo, ClosedAre, OpenIs, Is
  <2>3. ParsesAsWritten'
    BY <2>1 DEF FileOK, ParsesAsWritten, Is
  <2>4. (\E d : Dealt(d) /\ ReadUpTo(d)) => (\E d : Dealt(d) /\ ReadUpTo(d))'
    BY <2>2
  <2>5. Is("empty")' <=> Is("empty")
    BY <2>1 DEF Is
  <2> QED BY <2>1, <2>3, <2>4, <2>5 DEF FileOK
<1> QED BY <1>1, <1>2, <1>3, <1>4, <1>5, <1>6, <1>7, <1>8 DEF Next, Parse, ParseStep

\* Whatever the lines of a file are, it is accepted exactly when it is well formed
\* so far, and what is made of it are the programs and the launch it has, read as a
\* whole (parse_asm()).
THEOREM FilesAlwaysParsed == Spec => []ParsesAsWritten
<1>1. Init => FileOK
  BY DEF Init, AsmInit, FileOK, ParsesAsWritten
<1>2. LineOK /\ ParsedOK /\ FileOK /\ [Next]_vars => FileOK'
  BY FileNext
<1>3. FileOK => ParsesAsWritten
  BY DEF FileOK
<1> QED BY <1>1, <1>2, <1>3, SessionsAlwaysOK, PTL DEF Spec
=============================================================================
