----------------------------- MODULE LinkProofs -----------------------------
(***************************************************************************)
(* The commands of the host reach the register file whole and in order,    *)
(* and the answers come back whole: for every number of registers and      *)
(* bytes of a word, every queue of at least two places, and every line     *)
(* with at least two clocks from one byte to the next.                     *)
(***************************************************************************)
EXTENDS RegisterLink, SequenceTheorems, FiniteSetTheorems, TLAPS

-----------------------------------------------------------------------------
(* The inductive invariant. *)

Commands == [read : BOOLEAN, addr : Reg, word : Word]

\* The bytes of the commands p.
Sent(p) == FlattenSeq([i \in DOMAIN p |-> Bytes(p[i])])

\* The host waits, and its read has taken effect.
Replying == awaiting /\ pending = <<>>

\* The last clock of the state machine with a command: it takes no byte in it.
Busy ==
    \/ r_state = "OP"
    \/ r_state \in {"WR", "RD"} /\ r_bcnt = WordBytes

\* A read is the last command, and the host waits for it.
ReadIsLast ==
    \A i \in DOMAIN pending : pending[i].read <=> (awaiting /\ i = Len(pending))

\* An answer is whole, wherever its bytes are; without one there are none.
ReplyWhole ==
    IF Replying THEN Len(Reply) = WordBytes
    ELSE txq = <<>> /\ got = <<>> /\ (r_state = "RD" => r_bcnt = WordBytes)

\* The state machine takes a byte before the next one arrives.
KeepsUp == Len(rxq) <= 1 /\ (rxq # <<>> /\ Busy => gap > 0)

RegInv ==
    /\ TypeOK /\ StreamIntact
    /\ ReadIsLast /\ ReplyWhole /\ KeepsUp
    /\ r_state = "WR" => ~IsRead(r_op)

-----------------------------------------------------------------------------
(* Flattening a sequence of sequences.  Sets of the form 0 .. k, ordered by *)
(* inclusion, have least elements, which gives induction over the naturals. *)

\* A set that holds 0 and the successor of every natural it holds has them all.
LEMMA SetInduction ==
    ASSUME NEW S, 0 \in S, \A k \in Nat : k \in S => k + 1 \in S
    PROVE  \A n \in Nat : n \in S
  <1> SUFFICES ASSUME NEW n \in Nat, n \notin S PROVE FALSE
    OBVIOUS
  <1> DEFINE R == StrictSubsetOrdering(Nat)
             F == FiniteSubsetsOf(Nat)
             T == {0 .. k : k \in {m \in Nat : m \notin S}}
  <1>1. IsWellFoundedOn(R, F)
    BY FS_StrictSubsetOrderingWellFounded
  <1>2. T \subseteq F
    <2>1. \A k \in Nat : IsFiniteSet(0 .. k)
      BY FS_Interval
    <2> QED BY <2>1 DEF FiniteSubsetsOf
  <1>3. T # {}
    OBVIOUS
  <1>4. PICK x \in T : \A y \in T : ~(<<y, x>> \in R)
    <2> HIDE DEF R, F, T
    <2> QED BY <1>1, <1>2, <1>3, WFMin
  <1>5. PICK k \in Nat : k \notin S /\ x = 0 .. k
    BY <1>4
  <1>6. k # 0 /\ k - 1 \in Nat /\ k - 1 \notin S
    BY <1>5
  <1>7. (0 .. k - 1) \in T
    BY <1>6
  <1>8. (0 .. k - 1) \subseteq (0 .. k) /\ (0 .. k - 1) # (0 .. k)
    <2>1. k \in 0 .. k /\ k \notin 0 .. k - 1
      OBVIOUS
    <2> QED BY <2>1
  <1>9. <<0 .. k - 1, 0 .. k>> \in R
    BY <1>8 DEF StrictSubsetOrdering
  <1> QED BY <1>4, <1>5, <1>7, <1>9

\* The empty sequence adds nothing.
LEMMA EmptyFirst == \A x \in Seq(Byte) : <<>> \o x = x /\ x \o <<>> = x
  OBVIOUS

\* Three sequences can be joined in either order.
LEMMA Associative ==
    \A x, y, z \in Seq(Byte) : (x \o y) \o z = x \o (y \o z)
  BY ConcatAssociative

\* f joins the first i sequences of s, for every i up to n.
JoinsUpto(f, s, n) ==
    /\ f \in [0 .. n -> Seq(Byte)]
    /\ f[0] = <<>>
    /\ \A i \in 1 .. n : f[i] = f[i - 1] \o s[i]

\* The recursion by which FlattenSeq joins the sequences of s.
Joining(g, s) == [i \in 1 .. Len(s) |-> IF i = 1 THEN s[i] ELSE g[i - 1] \o s[i]]

\* The sequences of s can be joined.
LEMMA JoinExists ==
    ASSUME NEW s \in Seq(Seq(Byte))
    PROVE  \E f : JoinsUpto(f, s, Len(s))
  <1> DEFINE S == {n \in Nat : n <= Len(s) => \E f : JoinsUpto(f, s, n)}
  <1>1. 0 \in S
    <2>1. JoinsUpto([i \in 0 .. 0 |-> <<>>], s, 0)
      BY DEF JoinsUpto
    <2> QED BY <2>1
  <1>2. ASSUME NEW k \in Nat, k \in S PROVE k + 1 \in S
    <2>1. ASSUME NEW f, JoinsUpto(f, s, k), k + 1 <= Len(s)
          PROVE  \E g : JoinsUpto(g, s, k + 1)
      <3> DEFINE x == s[k + 1]
                 g == [i \in 0 .. k + 1 |-> IF i <= k THEN f[i] ELSE f[k] \o x]
      <3>1. x \in Seq(Byte) /\ f[k] \in Seq(Byte)
        BY <2>1 DEF JoinsUpto
      <3>2. f[k] \o x \in Seq(Byte)
        BY <3>1
      <3>3. g \in [0 .. k + 1 -> Seq(Byte)]
        BY <2>1, <3>2 DEF JoinsUpto
      <3>4. ASSUME NEW i \in 1 .. k + 1 PROVE g[i] = g[i - 1] \o s[i]
        <4>1. CASE i = k + 1
          <5>1. i \in 0 .. k + 1 /\ ~(i <= k) /\ i - 1 = k /\ k \in 0 .. k + 1 /\ k <= k
            BY <4>1
          <5> HIDE DEF x
          <5>2. g[i] = f[k] \o x /\ g[i - 1] = f[k]
            BY <5>1
          <5> QED BY <4>1, <5>2 DEF x
        <4>2. CASE i # k + 1
          <5>1. i \in 1 .. k /\ i - 1 \in 0 .. k
            BY <4>2
          <5>2. g[i] = f[i] /\ g[i - 1] = f[i - 1]
            BY <5>1
          <5> QED BY <2>1, <5>1, <5>2 DEF JoinsUpto
        <4> QED BY <4>1, <4>2
      <3>5. g[0] = <<>>
        BY <2>1 DEF JoinsUpto
      <3> HIDE DEF g
      <3>6. JoinsUpto(g, s, k + 1)
        BY <3>3, <3>4, <3>5 DEF JoinsUpto
      <3> QED BY <3>6
    <2>2. k + 1 <= Len(s) => k <= Len(s)
      OBVIOUS
    <2>3. k + 1 \in Nat
      OBVIOUS
    <2> QED BY <1>2, <2>1, <2>2, <2>3, Zenon
  <1> HIDE DEF S
  <1>3. Len(s) \in S
    BY <1>1, <1>2, SetInduction
  <1>4. Len(s) <= Len(s)
    OBVIOUS
  <1> QED BY <1>3, <1>4 DEF S

\* However they are joined, FlattenSeq gives the same.
LEMMA JoinIsFlatten ==
    ASSUME NEW s \in Seq(Seq(Byte)), NEW f, JoinsUpto(f, s, Len(s))
    PROVE  FlattenSeq(s) = f[Len(s)]
  <1>1. CASE Len(s) = 0
    <2>1. s = <<>>
      BY <1>1
    <2> QED BY <1>1, <2>1 DEF FlattenSeq, JoinsUpto
  <1>2. CASE Len(s) # 0
    <2> DEFINE n == Len(s)
               h == [i \in 1 .. n |-> f[i]]
               c == CHOOSE g : g = Joining(g, s)
    <2>1. n \in Nat \ {0}
      BY <1>2
    <2>2. h = Joining(h, s)
      <3>1. ASSUME NEW i \in 1 .. n
            PROVE  h[i] = IF i = 1 THEN s[i] ELSE h[i - 1] \o s[i]
        <4>1. f[i] = f[i - 1] \o s[i] /\ s[i] \in Seq(Byte) /\ f[0] = <<>>
          BY DEF JoinsUpto
        <4>2. CASE i = 1
          <5>1. i - 1 = 0 /\ i \in 1 .. n
            BY <4>2
          <5>2. f[i] = s[i]
            BY <4>1, <5>1, EmptyFirst
          <5> QED BY <4>2, <5>2
        <4>3. CASE i # 1
          <5>1. i - 1 \in 1 .. n
            BY <4>3
          <5> QED BY <4>1, <4>3, <5>1
        <4> QED BY <4>2, <4>3
      <3> QED BY <3>1 DEF Joining
    <2>3. c = Joining(c, s)
      <3> HIDE DEF h
      <3> QED BY <2>2, Zenon
    <2>4. FlattenSeq(s) = c[n]
      BY <1>2 DEF FlattenSeq, Joining
    <2> DEFINE S == {k \in Nat : k \in 1 .. n => c[k] = f[k]}
    <2>5. 0 \in S
      OBVIOUS
    <2> HIDE DEF c, h
    <2>6. ASSUME NEW k \in Nat, k \in S, k + 1 \in 1 .. n
          PROVE  c[k + 1] = f[k + 1]
      <3>1. c[k + 1] = IF k + 1 = 1 THEN s[k + 1] ELSE c[(k + 1) - 1] \o s[k + 1]
        <4>1. c[k + 1] = Joining(c, s)[k + 1]
          BY <2>3
        <4> QED BY <2>6, <4>1 DEF Joining
      <3>2. s[k + 1] \in Seq(Byte)
        BY <2>6
      <3>3. f[k + 1] = f[(k + 1) - 1] \o s[k + 1] /\ f[0] = <<>>
        BY <2>6, Zenon DEF JoinsUpto
      <3>4. CASE k = 0
        <4>1. (k + 1) - 1 = 0 /\ k + 1 = 1
          BY <3>4
        <4>2. f[k + 1] = s[k + 1]
          BY <3>2, <3>3, <4>1, EmptyFirst
        <4> QED BY <3>1, <4>1, <4>2
      <3>5. CASE k # 0
        <4>1. k \in 1 .. n /\ (k + 1) - 1 = k /\ k + 1 # 1
          BY <2>6, <3>5
        <4> QED BY <2>6, <3>1, <3>3, <4>1
      <3> QED BY <3>4, <3>5
    <2>7. \A k \in Nat : k \in S => k + 1 \in S
      BY <2>6
    <2> HIDE DEF S
    <2>8. n \in S
      BY <2>1, <2>5, <2>7, SetInduction
    <2> QED BY <2>1, <2>4, <2>8 DEF S
  <1> QED BY <1>1, <1>2

\* One more sequence of bytes is joined behind the others.
LEMMA FlattenAppend ==
    ASSUME NEW s \in Seq(Seq(Byte)), NEW x \in Seq(Byte)
    PROVE  /\ FlattenSeq(s) \in Seq(Byte)
           /\ FlattenSeq(Append(s, x)) = FlattenSeq(s) \o x
  <1> DEFINE n == Len(s)
             t == Append(s, x)
  <1>1. PICK f : JoinsUpto(f, s, n)
    BY JoinExists
  <1>2. FlattenSeq(s) = f[n] /\ f[n] \in Seq(Byte) /\ n \in Nat
    <2>1. n \in Nat /\ n \in 0 .. n
      OBVIOUS
    <2> QED BY <1>1, <2>1, JoinIsFlatten DEF JoinsUpto
  <1>3. t \in Seq(Seq(Byte)) /\ Len(t) = n + 1 /\ t[n + 1] = x
        /\ \A i \in 1 .. n : t[i] = s[i]
    BY AppendProperties
  <1> DEFINE g == [i \in 0 .. n + 1 |-> IF i <= n THEN f[i] ELSE f[n] \o x]
  <1> HIDE DEF n, t
  <1>4. g \in [0 .. n + 1 -> Seq(Byte)] /\ g[0] = <<>>
    <2>1. f[n] \o x \in Seq(Byte)
      BY <1>2
    <2> QED BY <1>1, <1>2, <2>1 DEF JoinsUpto
  <1>5. g[n + 1] = f[n] \o x /\ g[n] = f[n]
    <2>1. n + 1 \in 0 .. n + 1 /\ ~(n + 1 <= n) /\ n \in 0 .. n + 1 /\ n <= n
      BY <1>2
    <2> QED BY <2>1
  <1>6. ASSUME NEW i \in 1 .. n + 1 PROVE g[i] = g[i - 1] \o t[i]
    <2>1. CASE i = n + 1
      <3>1. i - 1 = n
        BY <1>2, <2>1
      <3> QED BY <1>3, <1>5, <2>1, <3>1
    <2>2. CASE i # n + 1
      <3>1. i \in 1 .. n /\ i - 1 \in 0 .. n
        BY <1>2, <2>2
      <3>2. g[i] = f[i] /\ g[i - 1] = f[i - 1]
        BY <1>2, <3>1
      <3> QED BY <1>1, <1>3, <3>1, <3>2 DEF JoinsUpto
    <2> QED BY <2>1, <2>2
  <1> HIDE DEF g
  <1>7. JoinsUpto(g, t, Len(t))
    BY <1>3, <1>4, <1>6 DEF JoinsUpto
  <1> QED BY <1>2, <1>3, <1>5, <1>7, JoinIsFlatten DEF t

\* The first sequence comes before the others.
LEMMA FlattenFirst ==
    ASSUME NEW s \in Seq(Seq(Byte)), s # <<>>
    PROVE  FlattenSeq(s) = s[1] \o FlattenSeq(Tail(s))
  <1> DEFINE n == Len(s)
             t == Tail(s)
             x == s[1]
  <1>1. /\ t \in Seq(Seq(Byte)) /\ Len(t) = n - 1 /\ n \in Nat \ {0} /\ x \in Seq(Byte)
        /\ \A i \in 1 .. n - 1 : t[i] = s[i + 1]
    BY HeadTailProperties, EmptySeq
  <1>2. PICK f : JoinsUpto(f, t, n - 1)
    BY <1>1, JoinExists
  <1>3. FlattenSeq(t) = f[n - 1]
    BY <1>1, <1>2, JoinIsFlatten
  <1> DEFINE g == [i \in 0 .. n |-> IF i = 0 THEN <<>> ELSE x \o f[i - 1]]
  <1> HIDE DEF n, t, x
  <1>4. \A i \in 0 .. n - 1 : f[i] \in Seq(Byte)
    BY <1>2 DEF JoinsUpto
  <1>5. g \in [0 .. n -> Seq(Byte)] /\ g[0] = <<>>
    <2>1. \A i \in 1 .. n : x \o f[i - 1] \in Seq(Byte)
      <3> TAKE i \in 1 .. n
      <3>1. f[i - 1] \in Seq(Byte)
        BY <1>1, <1>4
      <3> QED BY <1>1, <3>1
    <2>2. <<>> \in Seq(Byte)
      OBVIOUS
    <2> QED BY <1>1, <2>1, <2>2
  <1>6. ASSUME NEW i \in 1 .. n PROVE g[i] = g[i - 1] \o s[i]
    <2>1. g[i] = x \o f[i - 1]
      BY <1>1, SMTT(30)
    <2>2. CASE i = 1
      <3>1. i - 1 = 0
        BY <2>2
      <3>2. f[i - 1] = <<>> /\ g[i - 1] = <<>>
        BY <1>2, <1>5, <3>1 DEF JoinsUpto
      <3> QED BY <1>1, <2>1, <2>2, <3>2, EmptyFirst DEF x
    <2>3. CASE i # 1
      <3> DEFINE j == i - 1
      <3>1. j \in 1 .. n - 1 /\ j - 1 \in 0 .. n - 1 /\ j \in 0 .. n /\ j # 0 /\ j + 1 = i
        BY <1>1, <2>3
      <3> HIDE DEF j
      <3>2. f[j] = f[j - 1] \o t[j] /\ t[j] = s[i]
        BY <1>1, <1>2, <3>1 DEF JoinsUpto
      <3>3. g[j] = x \o f[j - 1]
        BY <3>1
      <3>4. f[j - 1] \in Seq(Byte) /\ t[j] \in Seq(Byte)
        BY <1>1, <1>4, <3>1
      <3>5. x \o (f[j - 1] \o t[j]) = (x \o f[j - 1]) \o t[j]
        BY <1>1, <3>4, Associative, Zenon
      <3>6. i - 1 = j
        BY DEF j
      <3> QED BY <2>1, <3>2, <3>3, <3>5, <3>6
    <2> QED BY <2>2, <2>3
  <1>7. g[n] = x \o f[n - 1]
    BY <1>1
  <1> HIDE DEF g
  <1>8. JoinsUpto(g, s, Len(s))
    BY <1>5, <1>6 DEF JoinsUpto, n
  <1> QED BY <1>3, <1>7, <1>8, JoinIsFlatten DEF n, t, x

-----------------------------------------------------------------------------
(* The commands and their bytes. *)

\* The sizes the lemmas need.
LEMMA Sizes ==
    /\ Depth \in Nat /\ Depth >= 2 /\ WordBytes \in Nat \ {0}
    /\ BytePace \in Nat /\ BytePace >= 2 /\ MaxWire \in Nat
  BY RegsAssumption, LinkAssumption

\* A command byte tells a read from a write, and gives the address back.
LEMMA OpFields ==
    ASSUME NEW a \in Reg
    PROVE  /\ a \in Byte /\ ~IsRead(a) /\ AddrOf(a) = a
           /\ AddrRange + a \in Byte /\ IsRead(AddrRange + a)
           /\ AddrOf(AddrRange + a) = a
  <1>1. AddrRange \in Nat /\ a \in Nat /\ a < AddrRange
    BY RegsAssumption DEF Reg
  <1> QED BY <1>1 DEF Byte, IsRead, AddrOf

\* Words are sequences of bytes.
LEMMA WordIsSeq ==
    ASSUME NEW w \in Word
    PROVE  w \in Seq(Byte) /\ Len(w) = WordBytes
  BY Sizes DEF Word

\* A read is one byte, a write is followed by its word.
LEMMA BytesOf ==
    ASSUME NEW c \in Commands
    PROVE  /\ Bytes(c) \in Seq(Byte)
           /\ c.read => Bytes(c) = <<AddrRange + c.addr>> /\ Len(Bytes(c)) = 1
           /\ ~c.read => Bytes(c) = <<c.addr>> \o c.word /\ Len(Bytes(c)) = WordBytes + 1
           /\ Bytes(c)[1] = IF c.read THEN AddrRange + c.addr ELSE c.addr
  <1>1. c.addr \in Byte /\ AddrRange + c.addr \in Byte /\ c.word \in Word
    BY OpFields DEF Commands
  <1>2. c.word \in Seq(Byte) /\ Len(c.word) = WordBytes
    BY <1>1, WordIsSeq
  <1>3. CASE c.read
    <2>1. Bytes(c) = <<AddrRange + c.addr>>
      BY <1>3 DEF Bytes
    <2> HIDE DEF Byte
    <2> QED BY <1>1, <1>3, <2>1
  <1>4. CASE ~c.read
    <2>1. Bytes(c) = <<c.addr>> \o c.word
      BY <1>4 DEF Bytes
    <2>2. <<c.addr>> \in Seq(Byte) /\ Len(<<c.addr>>) = 1 /\ <<c.addr>>[1] = c.addr
      BY <1>1
    <2>3. Bytes(c) \in Seq(Byte) /\ Len(Bytes(c)) = 1 + WordBytes /\ Bytes(c)[1] = c.addr
      BY <1>2, <2>1, <2>2, ConcatProperties, Sizes
    <2> QED BY <1>4, <2>1, <2>3, Sizes
  <1> QED BY <1>3, <1>4

\* The commands as sequences of bytes.
LEMMA ByteSeqs ==
    ASSUME NEW p \in Seq(Commands)
    PROVE  /\ [i \in DOMAIN p |-> Bytes(p[i])] \in Seq(Seq(Byte))
           /\ Len([i \in DOMAIN p |-> Bytes(p[i])]) = Len(p)
  <1>1. \A i \in 1 .. Len(p) : Bytes(p[i]) \in Seq(Byte)
    <2>1. \A i \in 1 .. Len(p) : p[i] \in Commands
      OBVIOUS
    <2> HIDE DEF Commands
    <2> QED BY <2>1, BytesOf
  <1>2. DOMAIN p = 1 .. Len(p) /\ Len(p) \in Nat
    OBVIOUS
  <1> QED BY <1>1, <1>2

\* No command, no byte.
LEMMA SentNothing == Sent(<<>>) = <<>>
  BY DEF Sent, FlattenSeq

\* The bytes of commands are a sequence of bytes.
LEMMA SentType ==
    ASSUME NEW p \in Seq(Commands)
    PROVE  Sent(p) \in Seq(Byte)
  <1> DEFINE s == [i \in DOMAIN p |-> Bytes(p[i])]
  <1>1. s \in Seq(Seq(Byte)) /\ <<>> \in Seq(Byte)
    BY ByteSeqs
  <1> HIDE DEF s
  <1>2. FlattenSeq(s) \in Seq(Byte)
    BY <1>1, FlattenAppend
  <1> QED BY <1>2 DEF Sent, s

\* The bytes of one command more.
LEMMA SentAppend ==
    ASSUME NEW p \in Seq(Commands), NEW c \in Commands
    PROVE  /\ Sent(p) \in Seq(Byte)
           /\ Sent(Append(p, c)) = Sent(p) \o Bytes(c)
  <1> DEFINE s == [i \in DOMAIN p |-> Bytes(p[i])]
             q == Append(p, c)
             t == [i \in DOMAIN q |-> Bytes(q[i])]
             x == Bytes(c)
  <1>1. s \in Seq(Seq(Byte)) /\ Len(s) = Len(p) /\ x \in Seq(Byte)
    BY ByteSeqs, BytesOf
  <1>2. q \in Seq(Commands) /\ Len(q) = Len(p) + 1 /\ q[Len(p) + 1] = c
        /\ \A i \in 1 .. Len(p) : q[i] = p[i]
    BY AppendProperties
  <1>3. t \in Seq(Seq(Byte)) /\ Len(t) = Len(q)
    BY <1>2, ByteSeqs
  <1>4. \A i \in 1 .. Len(p) : s[i] = Bytes(p[i])
    OBVIOUS
  <1>5. \A i \in 1 .. Len(p) + 1 : t[i] = Bytes(q[i])
    BY <1>2
  <1>6. /\ Append(s, x) \in Seq(Seq(Byte)) /\ Len(Append(s, x)) = Len(p) + 1
        /\ Append(s, x)[Len(p) + 1] = x
        /\ \A i \in 1 .. Len(p) : Append(s, x)[i] = s[i]
    <2> HIDE DEF s, x
    <2> QED BY <1>1, AppendProperties
  <1>7. t = Append(s, x)
    <2>1. \A i \in 1 .. Len(p) + 1 : t[i] = Append(s, x)[i]
      <3> TAKE i \in 1 .. Len(p) + 1
      <3>1. i = Len(p) + 1 \/ i \in 1 .. Len(p)
        OBVIOUS
      <3> HIDE DEF s, q, t
      <3> QED BY <1>2, <1>4, <1>5, <1>6, <3>1
    <2> HIDE DEF s, q, t, x
    <2> QED BY <1>2, <1>3, <1>6, <2>1, SeqEqual
  <1> HIDE DEF s, t, x
  <1>8. FlattenSeq(s) \in Seq(Byte) /\ FlattenSeq(Append(s, x)) = FlattenSeq(s) \o x
    BY <1>1, FlattenAppend
  <1> QED BY <1>7, <1>8 DEF Sent, s, t, x

\* The bytes of the first command come first.
LEMMA SentFirst ==
    ASSUME NEW p \in Seq(Commands), p # <<>>
    PROVE  Sent(p) = Bytes(p[1]) \o Sent(Tail(p))
  <1> DEFINE s == [i \in DOMAIN p |-> Bytes(p[i])]
             q == Tail(p)
             t == [i \in DOMAIN q |-> Bytes(q[i])]
             n == Len(p)
  <1>1. s \in Seq(Seq(Byte)) /\ Len(s) = n /\ n \in Nat \ {0}
    BY ByteSeqs, EmptySeq
  <1>2. q \in Seq(Commands) /\ Len(q) = n - 1 /\ \A i \in 1 .. n - 1 : q[i] = p[i + 1]
    BY HeadTailProperties
  <1>3. t \in Seq(Seq(Byte)) /\ Len(t) = n - 1
    BY <1>2, ByteSeqs
  <1>4. \A i \in 1 .. n : s[i] = Bytes(p[i])
    OBVIOUS
  <1>5. \A i \in 1 .. n - 1 : t[i] = Bytes(q[i])
    BY <1>2
  <1> HIDE DEF s, q, t
  <1>6. s # <<>>
    BY <1>1
  <1>7. /\ Tail(s) \in Seq(Seq(Byte)) /\ Len(Tail(s)) = n - 1
        /\ \A i \in 1 .. n - 1 : Tail(s)[i] = s[i + 1]
    BY <1>1, <1>6, HeadTailProperties
  <1>8. t = Tail(s)
    <2>1. \A i \in 1 .. n - 1 : t[i] = Tail(s)[i]
      <3> TAKE i \in 1 .. n - 1
      <3>1. i + 1 \in 1 .. n
        BY <1>1
      <3> HIDE DEF n
      <3> QED BY <1>2, <1>4, <1>5, <1>7, <3>1
    <2> HIDE DEF n
    <2> QED BY <1>3, <1>7, <2>1, SeqEqual
  <1>9. s[1] = Bytes(p[1])
    BY <1>1, <1>4
  <1>10. FlattenSeq(s) = s[1] \o FlattenSeq(Tail(s))
    BY <1>1, <1>6, FlattenFirst
  <1> QED BY <1>8, <1>9, <1>10 DEF Sent, s, q, t

-----------------------------------------------------------------------------
(* Sequences of bytes. *)

\* The first of the waiting bytes becomes the last of those that arrived.
LEMMA OneMoves ==
    ASSUME NEW x \in Seq(Byte), NEW y \in Seq(Byte), y # <<>>
    PROVE  /\ Append(x, Head(y)) \in Seq(Byte) /\ Tail(y) \in Seq(Byte)
           /\ Head(y) \in Byte
           /\ Append(x, Head(y)) \o Tail(y) = x \o y
  <1>1. Head(y) \in Byte /\ Tail(y) \in Seq(Byte)
    BY HeadTailProperties
  <1>2. y = <<Head(y)>> \o Tail(y)
    <2> HIDE DEF Byte
    <2> QED OBVIOUS
  <1>3. <<Head(y)>> \in Seq(Byte) /\ Append(x, Head(y)) = x \o <<Head(y)>>
    <2> HIDE DEF Byte
    <2> QED BY <1>1, AppendIsConcat
  <1>4. (x \o <<Head(y)>>) \o Tail(y) = x \o (<<Head(y)>> \o Tail(y))
    BY <1>1, <1>3, Associative, Zenon
  <1>5. Append(x, Head(y)) \in Seq(Byte)
    BY <1>1, AppendProperties
  <1> QED BY <1>1, <1>2, <1>3, <1>4, <1>5

\* Equal streams with beginnings of the same length agree in both parts.
LEMMA SplitsOnce ==
    ASSUME NEW x \in Seq(Byte), NEW y \in Seq(Byte), Len(x) = Len(y),
           NEW u \in Seq(Byte), NEW v \in Seq(Byte), x \o u = y \o v
    PROVE  x = y /\ u = v
  <1>1. x = y
    <2>1. \A i \in 1 .. Len(x) : x[i] = (x \o u)[i]
      BY ConcatProperties
    <2>2. \A i \in 1 .. Len(y) : y[i] = (y \o v)[i]
      BY ConcatProperties
    <2> QED BY <2>1, <2>2, SeqEqual
  <1> QED BY <1>1, ConcatSimplifications

-----------------------------------------------------------------------------
(* What the commands still to take effect say of the state. *)

\* The bytes of the word being sent that are still in its register.
Rest == IF r_state = "RD" THEN SubSeq(r_rd_data, 1, WordBytes - r_bcnt) ELSE <<>>

\* The parts of the stream and of the reply are sequences of bytes.
LEMMA Parts ==
    ASSUME TypeOK
    PROVE  /\ rxq \in Seq(Byte) /\ txq \in Seq(Byte) /\ wire \in Seq(Byte)
           /\ got \in Seq(Byte) /\ pending \in Seq(Commands)
           /\ r_wr_data \in Seq(Byte) /\ Len(r_wr_data) = WordBytes
           /\ r_rd_data \in Seq(Byte) /\ Len(r_rd_data) = WordBytes
           /\ Consumed \in Seq(Byte) /\ Rest \in Seq(Byte)
           /\ Reply = (got \o txq) \o Rest
  <1>1. /\ rxq \in Seq(Byte) /\ txq \in Seq(Byte) /\ wire \in Seq(Byte)
        /\ got \in Seq(Byte) /\ pending \in Seq(Commands)
        /\ r_op \in Byte /\ r_bcnt \in 0 .. WordBytes
    BY DEF TypeOK, FileTypeOK, Commands
  <1>2. /\ r_wr_data \in Seq(Byte) /\ Len(r_wr_data) = WordBytes
        /\ r_rd_data \in Seq(Byte) /\ Len(r_rd_data) = WordBytes
    BY WordIsSeq DEF TypeOK, FileTypeOK
  <1>3. Rest \in Seq(Byte)
    <2>1. SubSeq(r_rd_data, 1, WordBytes - r_bcnt) \in Seq(Byte)
      BY <1>1, <1>2, Sizes
    <2> QED BY <2>1 DEF Rest
  <1>4. Consumed \in Seq(Byte)
    <2>1. SubSeq(r_wr_data, WordBytes - r_bcnt + 1, WordBytes) \in Seq(Byte)
      BY <1>1, <1>2, Sizes
    <2>2. <<r_op>> \in Seq(Byte)
      <3> HIDE DEF Byte
      <3> QED BY <1>1
    <2>3. <<r_op>> \o SubSeq(r_wr_data, WordBytes - r_bcnt + 1, WordBytes) \in Seq(Byte)
      BY <2>1, <2>2, ConcatProperties
    <2> QED BY <2>2, <2>3 DEF Consumed
  <1>5. Reply = (got \o txq) \o Rest
    BY DEF Reply, Rest
  <1> QED BY <1>1, <1>2, <1>3, <1>4, <1>5

\* The stream, by what has been consumed and what has not.
LEMMA Framing ==
    ASSUME RegInv
    PROVE  /\ Consumed \o (rxq \o wire) = Sent(pending)
           /\ rxq \o wire \in Seq(Byte)
  <1>1. (Consumed \o rxq) \o wire = Sent(pending)
    BY DEF RegInv, StreamIntact, Sent
  <1>2. (Consumed \o rxq) \o wire = Consumed \o (rxq \o wire)
    <2>1. Consumed \in Seq(Byte) /\ rxq \in Seq(Byte) /\ wire \in Seq(Byte)
      BY Parts DEF RegInv
    <2> QED BY <2>1, Associative, Zenon
  <1>3. rxq \o wire \in Seq(Byte)
    BY Parts, ConcatProperties DEF RegInv
  <1> QED BY <1>1, <1>2, <1>3

\* Without a command there is no byte.
LEMMA NothingPending ==
    ASSUME RegInv, pending = <<>>
    PROVE  rxq = <<>> /\ wire = <<>> /\ r_state \notin {"OP", "WR"}
  <1>1. Consumed \in Seq(Byte) /\ rxq \in Seq(Byte) /\ wire \in Seq(Byte)
        /\ rxq \o wire \in Seq(Byte) /\ Consumed \o (rxq \o wire) = <<>>
    BY Parts, Framing, SentNothing DEF RegInv
  <1>2. Consumed = <<>> /\ rxq \o wire = <<>>
    BY <1>1, ConcatSimplifications
  <1>3. rxq = <<>> /\ wire = <<>>
    BY <1>1, <1>2, ConcatSimplifications
  <1>4. r_state \notin {"OP", "WR"}
    <2>1. Len(Consumed) = 0
      BY <1>2
    <2>2. r_op \in Byte /\ <<r_op>> \in Seq(Byte) /\ Len(<<r_op>>) = 1
      <3> HIDE DEF Byte
      <3> QED BY DEF RegInv, TypeOK, FileTypeOK
    <2>3. CASE r_state = "OP"
      BY <2>1, <2>2, <2>3 DEF Consumed
    <2>4. CASE r_state = "WR"
      <3> DEFINE k == SubSeq(r_wr_data, WordBytes - r_bcnt + 1, WordBytes)
      <3>1. k \in Seq(Byte)
        BY Parts, Sizes DEF RegInv, TypeOK, FileTypeOK
      <3>2. Consumed = <<r_op>> \o k
        BY <2>4 DEF Consumed
      <3> HIDE DEF k
      <3>3. Len(<<r_op>> \o k) = 1 + Len(k) /\ Len(k) \in Nat
        BY <2>2, <3>1, ConcatProperties
      <3> QED BY <2>1, <3>2, <3>3
    <2> QED BY <2>3, <2>4
  <1> QED BY <1>3, <1>4

\* The byte the state machine took first is the first of the first command.
LEMMA FirstPending ==
    ASSUME RegInv, r_state \in {"OP", "WR"}
    PROVE  /\ pending # <<>> /\ Head(pending) = pending[1] /\ pending[1] \in Commands
           /\ Tail(pending) \in Seq(Commands)
           /\ Bytes(pending[1])[1] = r_op
           /\ IsRead(r_op) <=> pending[1].read
           /\ AddrOf(r_op) = pending[1].addr /\ AddrOf(r_op) \in Reg
           /\ Consumed \o (rxq \o wire) = Bytes(pending[1]) \o Sent(Tail(pending))
  <1>1. pending # <<>>
    BY NothingPending
  <1>2. pending \in Seq(Commands) /\ Consumed \in Seq(Byte)
    BY Parts DEF RegInv
  <1>3. /\ Head(pending) = pending[1] /\ pending[1] \in Commands
        /\ Tail(pending) \in Seq(Commands) /\ 1 \in DOMAIN pending
    <2> HIDE DEF Commands
    <2> QED BY <1>1, <1>2
  <1>4. Consumed \o (rxq \o wire) = Bytes(pending[1]) \o Sent(Tail(pending))
    BY <1>1, <1>2, Framing, SentFirst
  <1>5. Consumed[1] = r_op /\ Len(Consumed) >= 1
    <2>1. r_op \in Byte /\ <<r_op>> \in Seq(Byte) /\ Len(<<r_op>>) = 1 /\ <<r_op>>[1] = r_op
      <3> HIDE DEF Byte
      <3> QED BY DEF RegInv, TypeOK, FileTypeOK
    <2>2. CASE r_state = "OP"
      BY <2>1, <2>2 DEF Consumed
    <2>3. CASE r_state = "WR"
      <3> DEFINE k == SubSeq(r_wr_data, WordBytes - r_bcnt + 1, WordBytes)
      <3>1. k \in Seq(Byte)
        BY Parts, Sizes DEF RegInv, TypeOK, FileTypeOK
      <3>2. Consumed = <<r_op>> \o k
        BY <2>3 DEF Consumed
      <3> HIDE DEF k
      <3>3. Len(<<r_op>> \o k) = 1 + Len(k) /\ Len(k) \in Nat /\ (<<r_op>> \o k)[1] = r_op
        BY <2>1, <3>1, ConcatProperties
      <3> QED BY <3>2, <3>3
    <2> QED BY <2>2, <2>3
  <1>6. (Consumed \o (rxq \o wire))[1] = r_op
    BY <1>2, <1>5, Framing, ConcatProperties
  <1>7. /\ Bytes(pending[1]) \in Seq(Byte) /\ Len(Bytes(pending[1])) >= 1
        /\ Sent(Tail(pending)) \in Seq(Byte)
    <2>1. Sent(Tail(pending)) \in Seq(Byte)
      BY <1>3, SentType
    <2>2. Bytes(pending[1]) \in Seq(Byte) /\ Len(Bytes(pending[1])) \in {1, WordBytes + 1}
      BY <1>3, BytesOf
    <2>3. Len(Bytes(pending[1])) >= 1
      <3> DEFINE n == Len(Bytes(pending[1]))
      <3>1. n \in {1, WordBytes + 1}
        BY <2>2
      <3> HIDE DEF n
      <3>2. n >= 1
        BY <3>1, Sizes
      <3> QED BY <3>2 DEF n
    <2> QED BY <2>1, <2>2, <2>3
  <1>8. (Bytes(pending[1]) \o Sent(Tail(pending)))[1] = Bytes(pending[1])[1]
    BY <1>7, ConcatProperties
  <1>9. Bytes(pending[1])[1] = r_op
    BY <1>4, <1>6, <1>8
  <1>10. pending[1].addr \in Reg
    BY <1>3 DEF Commands
  <1>11. r_op = IF pending[1].read THEN AddrRange + pending[1].addr ELSE pending[1].addr
    BY <1>3, <1>9, BytesOf
  <1>12. (IsRead(r_op) <=> pending[1].read) /\ AddrOf(r_op) = pending[1].addr
    BY <1>10, <1>11, OpFields
  <1> QED BY <1>1, <1>3, <1>4, <1>9, <1>10, <1>12

\* A read that takes effect is the last command there is.
LEMMA ReadPending ==
    ASSUME RegInv, r_state = "OP", IsRead(r_op)
    PROVE  awaiting /\ rxq = <<>> /\ wire = <<>> /\ Tail(pending) = <<>>
  <1>1. pending[1].read /\ 1 \in DOMAIN pending /\ pending \in Seq(Commands)
    <2> HIDE DEF Commands
    <2> QED BY FirstPending, Parts DEF RegInv
  <1>2. awaiting /\ Len(pending) = 1
    BY <1>1 DEF RegInv, ReadIsLast
  <1>3. Tail(pending) = <<>>
    <2>1. Tail(pending) \in Seq(Commands) /\ Len(Tail(pending)) = 0
      BY <1>1, <1>2, FirstPending, HeadTailProperties
    <2> QED BY <2>1, EmptySeq
  <1>4. /\ Bytes(pending[1]) \in Seq(Byte) /\ Len(Bytes(pending[1])) = 1
        /\ Sent(Tail(pending)) = <<>>
    BY <1>1, <1>3, FirstPending, BytesOf, SentNothing
  <1>5. Consumed = <<r_op>> /\ Consumed \in Seq(Byte) /\ Len(Consumed) = 1
    BY Parts DEF RegInv, Consumed
  <1>6. <<>> \in Seq(Byte) /\ Consumed \o (rxq \o wire) = Bytes(pending[1]) \o <<>>
    <2>1. Consumed \o (rxq \o wire) = Bytes(pending[1]) \o Sent(Tail(pending))
      BY FirstPending
    <2>2. <<>> \in Seq(Byte)
      OBVIOUS
    <2> QED BY <1>4, <2>1, <2>2
  <1>7. rxq \o wire = <<>>
    BY <1>4, <1>5, <1>6, Framing, SplitsOnce
  <1>8. rxq = <<>> /\ wire = <<>>
    BY <1>7, Parts, ConcatSimplifications DEF RegInv
  <1> QED BY <1>2, <1>3, <1>8

-----------------------------------------------------------------------------
(* What the line does to the two queues in a clock. *)

\* A sequence without its beginning.
LEMMA Beyond ==
    ASSUME NEW s \in Seq(Byte)
    PROVE  /\ SubSeq(s, 1, Len(s)) = s
           /\ s # <<>> => SubSeq(s, 2, Len(s)) = Tail(s)
  BY SubSeqFull, TailIsSubSeq

\* A byte that arrives joins those in the receive queue, which keeps room for
\* it if a byte that was there has been taken or the line rests.
LEMMA ReceiveMoves ==
    ASSUME RegInv, NEW arriving \in Arriving, arriving # <<>> => gap = 0 /\ wire # <<>>,
           ByteIn(arriving),
           NEW deq \in BOOLEAN, RxQueue(arriving, deq), deq => rxq # <<>>,
           rxq # <<>> => deq \/ gap > 0
    PROVE  /\ rxq' \in Seq(Byte) /\ Len(rxq') <= 1
           /\ wire' \in Seq(Byte) /\ Len(wire') <= MaxWire
           /\ gap' \in 0 .. BytePace - 1
           /\ rxq' \o wire' = (IF deq THEN Tail(rxq) ELSE rxq) \o wire
           /\ (deq \/ rxq = <<>>) /\ rxq' # <<>> => gap' > 0
           /\ rxq = <<>> /\ wire = <<>> => rxq' = <<>> /\ wire' = <<>>
  <1> DEFINE rest == IF deq THEN Tail(rxq) ELSE rxq
  <1>1. /\ rxq \in Seq(Byte) /\ wire \in Seq(Byte) /\ Len(rxq) <= 1 /\ Len(rxq) < Depth
        /\ Len(wire) <= MaxWire /\ gap \in 0 .. BytePace - 1
    BY Parts, Sizes DEF RegInv, TypeOK, KeepsUp
  <1>2. rest \in Seq(Byte) /\ Len(rest) <= 1 /\ (deq \/ rxq = <<>> => rest = <<>>)
    <2>1. CASE deq
      <3>1. Tail(rxq) \in Seq(Byte) /\ Len(Tail(rxq)) = Len(rxq) - 1 /\ Len(rxq) \in Nat \ {0}
        BY <1>1, <2>1, HeadTailProperties, EmptySeq
      <3>2. Len(Tail(rxq)) = 0
        BY <1>1, <3>1
      <3>3. Tail(rxq) = <<>>
        BY <3>1, <3>2, EmptySeq
      <3>4. rest = Tail(rxq)
        BY <2>1
      <3> HIDE DEF rest
      <3> QED BY <3>1, <3>2, <3>3, <3>4
    <2>2. CASE ~deq
      BY <1>1, <2>2
    <2> QED BY <2>1, <2>2
  <1>3. rxq' = IF arriving # <<>> THEN Append(rest, arriving[1]) ELSE rest
    BY <1>1 DEF RxQueue, Queue!After
  <1>4. CASE arriving = <<>>
    <2>1. rxq' = rest
      BY <1>3, <1>4
    <2>2. wire' = SubSeq(wire, 1, Len(wire))
      <3>1. Len(arriving) + 1 = 1
        BY <1>4
      <3> QED BY <3>1 DEF ByteIn
    <2>3. wire' = wire
      BY <1>1, <2>2, Beyond
    <2>4. gap' = IF gap > 0 THEN gap - 1 ELSE 0
      BY <1>4 DEF ByteIn
    <2>5. gap' \in 0 .. BytePace - 1
      BY <1>1, <2>4, Sizes
    <2> QED BY <1>1, <1>2, <2>1, <2>3, <2>5
  <1>5. CASE arriving # <<>>
    <2>1. arriving = <<Head(wire)>> /\ gap = 0 /\ wire # <<>>
      BY <1>5 DEF Arriving
    <2>2. deq \/ rxq = <<>>
      BY <2>1
    <2>3. rest = <<>>
      BY <1>2, <2>2
    <2>4. rxq' = Append(rest, Head(wire))
      BY <1>3, <1>5, <2>1
    <2>5. wire' = SubSeq(wire, 2, Len(wire))
      <3>1. Len(arriving) + 1 = 2
        BY <2>1
      <3> QED BY <3>1 DEF ByteIn
    <2>6. wire' = Tail(wire) /\ Len(Tail(wire)) <= MaxWire
      <3>1. Len(Tail(wire)) = Len(wire) - 1 /\ Len(wire) \in Nat
        BY <1>1, <2>1, HeadTailProperties
      <3>2. Len(wire) - 1 <= MaxWire
        BY <1>1, <3>1, Sizes
      <3> QED BY <1>1, <2>1, <2>5, <3>1, <3>2, Beyond
    <2>7. gap' = BytePace - 1 /\ gap' > 0 /\ gap' \in 0 .. BytePace - 1
      BY <1>5, Sizes DEF ByteIn
    <2> HIDE DEF rest
    <2>8. /\ Append(rest, Head(wire)) \in Seq(Byte) /\ Tail(wire) \in Seq(Byte)
          /\ Head(wire) \in Byte
          /\ Append(rest, Head(wire)) \o Tail(wire) = rest \o wire
      BY <1>1, <1>2, <2>1, OneMoves
    <2>9. Len(rxq') <= 1
      <3>1. Len(Append(rest, Head(wire))) = Len(rest) + 1 /\ Len(rest) = 0
        BY <1>2, <2>3, <2>8, AppendProperties
      <3> QED BY <2>4, <3>1
    <2> QED BY <2>1, <2>4, <2>6, <2>7, <2>8, <2>9 DEF rest
  <1> QED BY <1>4, <1>5

\* A byte that leaves the word joins the transmit queue.
LEMMA OneOut ==
    ASSUME NEW g \in Seq(Byte), NEW t \in Seq(Byte), NEW x \in Byte, NEW r \in Seq(Byte)
    PROVE  /\ Append(t, x) \in Seq(Byte) /\ Len(Append(t, x)) = Len(t) + 1
           /\ (g \o Append(t, x)) \o r = (g \o t) \o (<<x>> \o r)
  <1>1. <<x>> \in Seq(Byte) /\ Append(t, x) = t \o <<x>>
    <2> HIDE DEF Byte
    <2> QED BY AppendIsConcat
  <1>2. g \o (t \o <<x>>) = (g \o t) \o <<x>>
    BY <1>1, Associative, Zenon
  <1>3. g \o t \in Seq(Byte)
    BY ConcatProperties
  <1>4. ((g \o t) \o <<x>>) \o r = (g \o t) \o (<<x>> \o r)
    BY <1>1, <1>3, Associative, Zenon
  <1>5. Append(t, x) \in Seq(Byte) /\ Len(Append(t, x)) = Len(t) + 1
    BY AppendProperties
  <1> QED BY <1>1, <1>2, <1>4, <1>5

\* A byte the host gets was the next of the answer; with the last one it has
\* the whole answer, and nothing of it is left over.
LEMMA AnswerMoves ==
    ASSUME RegInv, NEW taken \in BOOLEAN, taken => txq # <<>>, ByteOut(taken),
           NEW enq \in BOOLEAN, TxQueue(enq, taken), enq => Len(txq) < Depth,
           Rest' \in Seq(Byte), Rest = IF enq THEN <<r_rd_data[1]>> \o Rest' ELSE Rest'
    PROVE  /\ txq' \in Seq(Byte) /\ Len(txq') <= Depth
           /\ got' \in Seq(Byte) /\ Len(got') < WordBytes
           /\ \/ /\ UNCHANGED <<awaiting, answer>>
                 /\ (got' \o txq') \o Rest' = Reply
              \/ /\ Replying /\ awaiting' = FALSE
                 /\ answer' = Reply /\ answer' \in Word
                 /\ got' = <<>> /\ txq' = <<>> /\ Rest' = <<>>
  <1> DEFINE x == r_rd_data[1]
  <1>1. /\ got \in Seq(Byte) /\ Len(got) < WordBytes /\ txq \in Seq(Byte) /\ Len(txq) <= Depth
        /\ Rest \in Seq(Byte) /\ Reply = (got \o txq) \o Rest /\ x \in Byte
    <2>1. Len(got) < WordBytes /\ Len(txq) <= Depth
      BY DEF RegInv, TypeOK, FileTypeOK
    <2>2. x \in Byte
      <3>1. r_rd_data \in [1 .. WordBytes -> Byte] /\ 1 \in 1 .. WordBytes
        BY Sizes DEF RegInv, TypeOK, FileTypeOK, Word
      <3> QED BY <3>1
    <2> HIDE DEF x
    <2> QED BY <2>1, <2>2, Parts DEF RegInv
  <1> HIDE DEF x
  <1>2. ASSUME NEW g \in Seq(Byte), NEW t \in Seq(Byte), g \o t = got \o txq
        PROVE  (g \o (IF enq THEN Append(t, x) ELSE t)) \o Rest' = Reply
    <2>1. CASE enq
      <3>1. (g \o Append(t, x)) \o Rest' = (g \o t) \o (<<x>> \o Rest')
        <4> DEFINE r == Rest'
        <4>1. r \in Seq(Byte) /\ x \in Byte
          BY <1>1
        <4> HIDE DEF r
        <4>2. (g \o Append(t, x)) \o r = (g \o t) \o (<<x>> \o r)
          <5>1. <<x>> \in Seq(Byte) /\ Append(t, x) = t \o <<x>>
            <6> HIDE DEF Byte
            <6> QED BY <4>1, AppendIsConcat
          <5>2. g \o (t \o <<x>>) = (g \o t) \o <<x>> /\ g \o t \in Seq(Byte)
            BY <5>1, Associative, ConcatProperties, Zenon
          <5>3. ((g \o t) \o <<x>>) \o r = (g \o t) \o (<<x>> \o r)
            BY <4>1, <5>1, <5>2, Associative, Zenon
          <5> QED BY <5>1, <5>2, <5>3
        <4> QED BY <4>2 DEF r
      <3> QED BY <1>1, <1>2, <2>1, <3>1 DEF x
    <2>2. CASE ~enq
      BY <1>1, <1>2, <2>2
    <2> QED BY <2>1, <2>2
  <1>3. CASE ~taken
    <2>1. txq' = (IF enq THEN Append(txq, x) ELSE txq) /\ UNCHANGED <<got, answer, awaiting>>
      BY <1>3 DEF TxQueue, Queue!After, ByteOut, x
    <2>2. txq' \in Seq(Byte) /\ Len(txq') <= Depth
      <3>1. Append(txq, x) \in Seq(Byte) /\ Len(Append(txq, x)) = Len(txq) + 1
        BY <1>1, OneOut
      <3>2. enq => Len(txq) + 1 <= Depth
        BY <1>1, Sizes
      <3> QED BY <1>1, <2>1, <3>1, <3>2
    <2>3. (got' \o txq') \o Rest' = Reply
      BY <1>1, <1>2, <2>1
    <2> QED BY <1>1, <2>1, <2>2, <2>3
  <1>4. CASE taken
    <2> DEFINE all == Append(got, Head(txq))
               q   == Tail(txq)
    <2>1. txq # <<>>
      BY <1>4
    <2>2. txq' = IF enq THEN Append(q, x) ELSE q
      BY <1>4, <2>1 DEF TxQueue, Queue!After, x
    <2>3. all \in Seq(Byte) /\ q \in Seq(Byte) /\ all \o q = got \o txq
      BY <1>1, <2>1, OneMoves
    <2>4. Len(all) = Len(got) + 1 /\ Len(q) = Len(txq) - 1
      BY <1>1, <2>1, HeadTailProperties, AppendProperties
    <2>5. IF Len(all) = WordBytes
          THEN got' = <<>> /\ answer' = all /\ awaiting' = FALSE
          ELSE got' = all /\ UNCHANGED <<answer, awaiting>>
      BY <1>4 DEF ByteOut
    <2>6. Replying /\ Len(Reply) = WordBytes
      BY <2>1 DEF RegInv, ReplyWhole
    <2> HIDE DEF all, q
    <2>7. txq' \in Seq(Byte) /\ Len(txq') <= Depth
      <3>1. Append(q, x) \in Seq(Byte) /\ Len(Append(q, x)) = Len(q) + 1
        BY <1>1, <2>3, OneOut
      <3>2. Len(q) + 1 <= Depth /\ Len(q) <= Depth
        BY <1>1, <2>3, <2>4, Sizes
      <3> QED BY <2>2, <2>3, <3>1, <3>2
    <2>8. CASE Len(all) # WordBytes
      <3>1. got' = all /\ UNCHANGED <<answer, awaiting>>
        BY <2>5, <2>8
      <3>2. (got' \o txq') \o Rest' = Reply
        BY <1>2, <2>2, <2>3, <3>1
      <3>3. Len(got') < WordBytes
        BY <1>1, <2>4, <2>8, <3>1, Sizes
      <3> QED BY <2>3, <2>7, <3>1, <3>2, <3>3
    <2>9. CASE Len(all) = WordBytes
      <3>1. Len(Reply) = (Len(all) + Len(q)) + Len(Rest)
        <4>1. all \o q \in Seq(Byte) /\ Len(all \o q) = Len(all) + Len(q)
          BY <2>3, ConcatProperties
        <4>2. Len((all \o q) \o Rest) = Len(all \o q) + Len(Rest)
          BY <1>1, <4>1, ConcatProperties
        <4> QED BY <1>1, <2>3, <4>1, <4>2
      <3>2. Len(q) = 0 /\ Len(Rest) = 0
        <4>1. Len(q) \in Nat /\ Len(Rest) \in Nat
          BY <1>1, <2>3, LenProperties
        <4>2. (WordBytes + Len(q)) + Len(Rest) = WordBytes
          BY <2>6, <2>9, <3>1
        <4>3. \A a, b, w \in Nat : (w + a) + b = w => a = 0 /\ b = 0
          OBVIOUS
        <4> QED BY <4>1, <4>2, <4>3, Sizes, ZenonT(30)
      <3>3. q = <<>> /\ Rest = <<>>
        BY <1>1, <2>3, <3>2, EmptySeq
      <3>4. ~enq
        <4>1. <<x>> \in Seq(Byte) /\ Len(<<x>>) = 1
          <5> HIDE DEF Byte
          <5> QED BY <1>1
        <4>2. Len(<<x>> \o Rest') = 1 + Len(Rest') /\ Len(Rest') \in Nat
          BY <4>1, ConcatProperties
        <4> QED BY <3>2, <4>2 DEF x
      <3>5. txq' = <<>> /\ Rest' = <<>>
        BY <2>2, <3>3, <3>4
      <3>6. Reply = all
        BY <1>1, <2>3, <3>3, EmptyFirst
      <3>7. got' = <<>> /\ answer' = all /\ awaiting' = FALSE
        BY <2>5, <2>9
      <3>8. all \in Word
        BY <2>3, <2>9, LenProperties DEF Word
      <3>9. got' \in Seq(Byte) /\ Len(got') < WordBytes
        BY <3>7, Sizes
      <3> QED BY <2>6, <2>7, <3>5, <3>6, <3>7, <3>8, <3>9
    <2> QED BY <2>8, <2>9
  <1> QED BY <1>3, <1>4

-----------------------------------------------------------------------------
(* The clocks in which no command takes effect. *)

\* The word after one more byte has been shifted in behind it.
LEMMA ShiftWord ==
    ASSUME NEW w \in Word, NEW b \in Byte
    PROVE  /\ Append(Tail(w), b) \in Word
           /\ Append(Tail(w), b) \in Seq(Byte) /\ Len(Append(Tail(w), b)) = WordBytes
           /\ \A i \in 1 .. WordBytes :
                 Append(Tail(w), b)[i] = IF i < WordBytes THEN w[i + 1] ELSE b
  <1> DEFINE t == Tail(w)
             v == Append(t, b)
  <1>1. w \in Seq(Byte) /\ Len(w) = WordBytes /\ w # <<>>
    BY WordIsSeq, Sizes
  <1>2. t \in Seq(Byte) /\ Len(t) = WordBytes - 1 /\ \A i \in 1 .. WordBytes - 1 : t[i] = w[i + 1]
    BY <1>1, HeadTailProperties
  <1> HIDE DEF t
  <1>3. /\ v \in Seq(Byte) /\ Len(v) = (WordBytes - 1) + 1
        /\ \A i \in 1 .. WordBytes - 1 : v[i] = t[i]
        /\ v[(WordBytes - 1) + 1] = b
    BY <1>2, AppendProperties
  <1>4. (WordBytes - 1) + 1 = WordBytes
    BY Sizes
  <1> HIDE DEF v
  <1>5. \A i \in 1 .. WordBytes : v[i] = IF i < WordBytes THEN w[i + 1] ELSE b
    <2> TAKE i \in 1 .. WordBytes
    <2>1. \/ i = WordBytes /\ ~(i < WordBytes)
          \/ i \in 1 .. WordBytes - 1 /\ i < WordBytes
      BY Sizes
    <2> QED BY <1>2, <1>3, <1>4, <2>1
  <1>6. v \in Word
    BY <1>3, <1>4, LenProperties DEF Word
  <1> QED BY <1>3, <1>4, <1>5, <1>6 DEF v, t

\* The last n bytes become the last n + 1.
LEMMA ShiftsIn ==
    ASSUME NEW w \in Word, NEW b \in Byte, NEW n \in 0 .. WordBytes - 1
    PROVE  /\ SubSeq(w, WordBytes - n + 1, WordBytes) \in Seq(Byte)
           /\ SubSeq(Append(Tail(w), b), WordBytes - (n + 1) + 1, WordBytes)
                = Append(SubSeq(w, WordBytes - n + 1, WordBytes), b)
  <1> DEFINE v == Append(Tail(w), b)
             m == WordBytes - n
             k == SubSeq(w, m + 1, WordBytes)
             l == SubSeq(v, m, WordBytes)
  <1>1. w \in Seq(Byte) /\ Len(w) = WordBytes
    BY WordIsSeq
  <1>2. v \in Seq(Byte) /\ Len(v) = WordBytes
        /\ \A i \in 1 .. WordBytes : v[i] = IF i < WordBytes THEN w[i + 1] ELSE b
    BY ShiftWord
  <1> HIDE DEF v
  <1>3. m \in 1 .. WordBytes /\ WordBytes \in Nat /\ n = WordBytes - m
    BY Sizes
  <1>4. WordBytes - (n + 1) + 1 = m
    BY Sizes
  <1> HIDE DEF m
  <1>5. k \in Seq(Byte) /\ Len(k) = n /\ \A i \in 1 .. n : k[i] = w[m + i]
    <2>1. \A i \in m + 1 .. WordBytes : w[i] \in Byte
      BY <1>1, <1>3, ElementOfSeq
    <2>2. /\ k \in Seq(Byte)
          /\ Len(k) = IF m + 1 <= WordBytes THEN WordBytes - (m + 1) + 1 ELSE 0
          /\ \A i \in 1 .. WordBytes - (m + 1) + 1 : k[i] = w[(m + 1) + i - 1]
      BY <1>3, <2>1, SubSeqProperties
    <2>3. /\ (IF m + 1 <= WordBytes THEN WordBytes - (m + 1) + 1 ELSE 0) = n
          /\ WordBytes - (m + 1) + 1 = n /\ \A i \in 1 .. n : (m + 1) + i - 1 = m + i
      BY <1>3
    <2> QED BY <2>2, <2>3
  <1>6. l \in Seq(Byte) /\ Len(l) = n + 1 /\ \A i \in 1 .. n + 1 : l[i] = v[(m + i) - 1]
    <2>1. \A i \in m .. WordBytes : v[i] \in Byte
      BY <1>2, <1>3, ElementOfSeq
    <2>2. /\ l \in Seq(Byte)
          /\ Len(l) = IF m <= WordBytes THEN WordBytes - m + 1 ELSE 0
          /\ \A i \in 1 .. WordBytes - m + 1 : l[i] = v[m + i - 1]
      BY <1>3, <2>1, SubSeqProperties
    <2>3. /\ (IF m <= WordBytes THEN WordBytes - m + 1 ELSE 0) = n + 1
          /\ WordBytes - m + 1 = n + 1 /\ \A i \in 1 .. n + 1 : m + i - 1 = (m + i) - 1
      BY <1>3
    <2> QED BY <2>2, <2>3
  <1> HIDE DEF k, l
  <1>7. /\ Append(k, b) \in Seq(Byte) /\ Len(Append(k, b)) = n + 1
        /\ \A i \in 1 .. n : Append(k, b)[i] = k[i]
        /\ Append(k, b)[n + 1] = b
    BY <1>5, AppendProperties
  <1>8. \A i \in 1 .. n + 1 : l[i] = Append(k, b)[i]
    <2> TAKE i \in 1 .. n + 1
    <2>1. CASE i = n + 1
      <3>1. (m + i) - 1 = WordBytes /\ WordBytes \in 1 .. WordBytes
        BY <1>3, <2>1
      <3> QED BY <1>2, <1>6, <1>7, <2>1, <3>1
    <2>2. CASE i # n + 1
      <3> DEFINE j == (m + i) - 1
      <3>1. i \in 1 .. n /\ j \in 1 .. WordBytes /\ j < WordBytes /\ j + 1 = m + i
        BY <1>3, <2>2
      <3>2. l[i] = v[j]
        BY <1>6
      <3> HIDE DEF j
      <3> QED BY <1>2, <1>5, <1>7, <3>1, <3>2
    <2> QED BY <2>1, <2>2
  <1>9. l = Append(k, b)
    BY <1>6, <1>7, <1>8, SeqEqual
  <1> QED BY <1>4, <1>5, <1>9 DEF k, l, m, v

\* The first n + 1 bytes of a word are its first and the first n of the word
\* rotated.
LEMMA ShiftsOut ==
    ASSUME NEW w \in Word, NEW n \in 0 .. WordBytes - 1
    PROVE  /\ w[1] \in Byte /\ Head(w) = w[1]
           /\ SubSeq(w, 1, n + 1) = <<w[1]>> \o SubSeq(Append(Tail(w), Head(w)), 1, n)
  <1> DEFINE b == w[1]
             v == Append(Tail(w), b)
             k == SubSeq(w, 2, n + 1)
             l == SubSeq(v, 1, n)
  <1>1. w \in Seq(Byte) /\ Len(w) = WordBytes /\ 1 \in 1 .. WordBytes
        /\ n + 1 \in 1 .. WordBytes /\ n \in Nat /\ WordBytes \in Nat
    BY WordIsSeq, Sizes
  <1>2. b \in Byte /\ Head(w) = b
    BY <1>1, ElementOfSeq
  <1> HIDE DEF b
  <1>3. v \in Seq(Byte) /\ Len(v) = WordBytes
        /\ \A i \in 1 .. WordBytes : v[i] = IF i < WordBytes THEN w[i + 1] ELSE b
    BY <1>2, ShiftWord
  <1> HIDE DEF v
  <1>4. SubSeq(w, 1, n + 1) = <<w[1]>> \o k
    <2>1. 1 \in 1 .. Len(w) /\ n + 1 \in 1 .. Len(w) /\ 1 + 1 = 2
      BY <1>1
    <2> QED BY <1>1, <2>1, SubSeqRecursiveFirst
  <1>5. k \in Seq(Byte) /\ Len(k) = n /\ \A i \in 1 .. n : k[i] = w[i + 1]
    <2>1. \A i \in 2 .. n + 1 : w[i] \in Byte
      BY <1>1, ElementOfSeq
    <2>2. /\ k \in Seq(Byte)
          /\ Len(k) = IF 2 <= n + 1 THEN (n + 1) - 2 + 1 ELSE 0
          /\ \A i \in 1 .. (n + 1) - 2 + 1 : k[i] = w[2 + i - 1]
      BY <1>1, <2>1, SubSeqProperties
    <2>3. /\ (IF 2 <= n + 1 THEN (n + 1) - 2 + 1 ELSE 0) = n
          /\ (n + 1) - 2 + 1 = n /\ \A i \in 1 .. n : 2 + i - 1 = i + 1
      BY <1>1
    <2> QED BY <2>2, <2>3
  <1>6. l \in Seq(Byte) /\ Len(l) = n /\ \A i \in 1 .. n : l[i] = v[i]
    <2>1. \A i \in 1 .. n : v[i] \in Byte
      BY <1>1, <1>3, ElementOfSeq
    <2>2. /\ l \in Seq(Byte)
          /\ Len(l) = IF 1 <= n THEN n - 1 + 1 ELSE 0
          /\ \A i \in 1 .. n - 1 + 1 : l[i] = v[1 + i - 1]
      BY <1>1, <2>1, SubSeqProperties
    <2>3. /\ (IF 1 <= n THEN n - 1 + 1 ELSE 0) = n
          /\ n - 1 + 1 = n /\ \A i \in 1 .. n : 1 + i - 1 = i
      BY <1>1
    <2> QED BY <2>2, <2>3
  <1> HIDE DEF k, l
  <1>7. \A i \in 1 .. n : l[i] = k[i]
    <2> TAKE i \in 1 .. n
    <2>1. i \in 1 .. WordBytes /\ i < WordBytes
      BY <1>1
    <2> QED BY <1>3, <1>5, <1>6, <2>1
  <1>8. k = l
    BY <1>5, <1>6, <1>7, SeqEqual
  <1> QED BY <1>2, <1>4, <1>8 DEF b, k, l, v

-----------------------------------------------------------------------------

\* What a clock without an effect does to the stream and to the reply: it takes
\* a byte of the queue or not (deq), and gives one to the other or not (enq).
Moves(arriving, taken, deq, enq) ==
    /\ RxQueue(arriving, deq) /\ TxQueue(enq, taken)
    /\ deq => rxq # <<>>
    /\ enq => Replying /\ Len(txq) < Depth
    /\ Consumed' = IF deq THEN Append(Consumed, Head(rxq)) ELSE Consumed
    /\ Rest = IF enq THEN <<r_rd_data[1]>> \o Rest' ELSE Rest'
    /\ rxq # <<>> => deq \/ gap > 0
    /\ Busy' => deq \/ rxq = <<>>
    /\ r_op' \in Byte /\ r_wr_data' \in Word /\ r_rd_data' \in Word
    /\ r_bcnt' \in 0 .. WordBytes /\ r_state' \in {"IDLE", "OP", "WR", "RD"}
    /\ r_state' = "WR" => ~IsRead(r_op')
    /\ ~Replying /\ r_state' = "RD" => r_bcnt' = WordBytes

\* The values of the registers of the state machine.
LEMMA Machine ==
    ASSUME RegInv
    PROVE  /\ r_op \in Byte /\ r_wr_data \in Word /\ r_rd_data \in Word
           /\ r_bcnt \in 0 .. WordBytes /\ r_state \in {"IDLE", "OP", "WR", "RD"}
           /\ r_state = "WR" => ~IsRead(r_op)
           /\ ~Replying /\ r_state = "RD" => r_bcnt = WordBytes
           /\ rxq \in Seq(Byte) /\ Consumed \in Seq(Byte)
           /\ rxq # <<>> /\ Busy => gap > 0
  BY Parts DEF RegInv, TypeOK, FileTypeOK, ReplyWhole, KeepsUp

\* A command byte is taken.
LEMMA LatchMoves ==
    ASSUME RegInv, NEW arriving, NEW taken, NEW status, LatchOp(arriving, taken, status)
    PROVE  Moves(arriving, taken, TRUE, FALSE)
  <1>1. /\ r_state = "IDLE" /\ rxq # <<>> /\ r_state' = "OP" /\ r_op' = Head(rxq)
        /\ RxQueue(arriving, TRUE) /\ TxQueue(FALSE, taken)
        /\ UNCHANGED <<r_wr_data, r_rd_data, r_bcnt>>
    BY DEF LatchOp
  <1>2. Head(rxq) \in Byte
    BY <1>1, Machine, HeadTailProperties
  <1>3. Consumed = <<>> /\ Consumed' = <<Head(rxq)>>
    BY <1>1 DEF Consumed
  <1>4. Consumed' = Append(Consumed, Head(rxq))
    BY <1>3
  <1>5. Rest = <<>> /\ Rest' = <<>>
    BY <1>1 DEF Rest
  <1> HIDE DEF Byte
  <1> QED BY <1>1, <1>2, <1>4, <1>5, Machine DEF Moves

\* A write begins.
LEMMA OpWriteMoves ==
    ASSUME RegInv, NEW arriving, NEW taken, NEW status, OpWrite(arriving, taken, status)
    PROVE  Moves(arriving, taken, FALSE, FALSE)
  <1>1. /\ r_state = "OP" /\ ~IsRead(r_op) /\ r_state' = "WR" /\ r_bcnt' = 0
        /\ RxQueue(arriving, FALSE) /\ TxQueue(FALSE, taken)
        /\ UNCHANGED <<r_op, r_wr_data, r_rd_data>>
    BY DEF OpWrite
  <1>2. <<r_op>> \in Seq(Byte)
    <2> HIDE DEF Byte
    <2> QED BY Machine
  <1>3. SubSeq(r_wr_data, WordBytes - 0 + 1, WordBytes) = <<>>
    BY Sizes, SubSeqEmpty
  <1>4. Consumed' = <<r_op>> \o SubSeq(r_wr_data, WordBytes - 0 + 1, WordBytes)
    BY <1>1 DEF Consumed
  <1>5. Consumed = <<r_op>> /\ Consumed' = Consumed
    BY <1>1, <1>2, <1>3, <1>4, EmptyFirst DEF Consumed
  <1>6. Rest = <<>> /\ Rest' = <<>>
    BY <1>1 DEF Rest
  <1>7. Busy /\ ~Busy'
    BY <1>1, Sizes DEF Busy
  <1>8. 0 \in 0 .. WordBytes
    BY Sizes
  <1> HIDE DEF Byte
  <1> QED BY <1>1, <1>5, <1>6, <1>7, <1>8, Machine DEF Moves

\* A byte of the word is taken.
LEMMA ShiftInMoves ==
    ASSUME RegInv, NEW arriving, NEW taken, NEW status, ShiftIn(arriving, taken, status)
    PROVE  Moves(arriving, taken, TRUE, FALSE)
  <1>1. /\ r_state = "WR" /\ r_bcnt # WordBytes /\ rxq # <<>>
        /\ r_wr_data' = Append(Tail(r_wr_data), Head(rxq)) /\ r_bcnt' = r_bcnt + 1
        /\ RxQueue(arriving, TRUE) /\ TxQueue(FALSE, taken)
        /\ UNCHANGED <<r_op, r_rd_data, r_state>>
    BY DEF ShiftIn
  <1>2. Head(rxq) \in Byte /\ r_bcnt \in 0 .. WordBytes - 1 /\ r_bcnt + 1 \in 0 .. WordBytes
    <2>1. Head(rxq) \in Byte
      BY <1>1, Machine, HeadTailProperties
    <2> QED BY <1>1, <2>1, Machine, Sizes
  <1>3. r_wr_data' \in Word
    BY <1>1, <1>2, Machine, ShiftWord
  <1> DEFINE k == SubSeq(r_wr_data, WordBytes - r_bcnt + 1, WordBytes)
  <1>4. Consumed = <<r_op>> \o k /\ Consumed' = <<r_op>> \o Append(k, Head(rxq))
    <2>1. /\ k \in Seq(Byte)
          /\ SubSeq(Append(Tail(r_wr_data), Head(rxq)), WordBytes - (r_bcnt + 1) + 1, WordBytes)
               = Append(k, Head(rxq))
      BY <1>2, Machine, ShiftsIn
    <2> QED BY <1>1, <2>1 DEF Consumed
  <1>5. k \in Seq(Byte)
    BY <1>2, Machine, ShiftsIn
  <1> HIDE DEF k
  <1>6. <<r_op>> \o Append(k, Head(rxq)) = Append(<<r_op>> \o k, Head(rxq))
    <2> DEFINE h == Head(rxq)
    <2>1. <<r_op>> \in Seq(Byte) /\ <<h>> \in Seq(Byte) /\ h \in Byte
      <3> HIDE DEF Byte, h
      <3>1. h \in Byte
        BY <1>2 DEF h
      <3> QED BY <3>1, Machine
    <2> HIDE DEF h
    <2>2. Append(k, h) = k \o <<h>> /\ <<r_op>> \o k \in Seq(Byte)
      BY <1>5, <2>1, AppendIsConcat, ConcatProperties
    <2>3. Append(<<r_op>> \o k, h) = (<<r_op>> \o k) \o <<h>>
      BY <2>1, <2>2, AppendIsConcat
    <2>4. (<<r_op>> \o k) \o <<h>> = <<r_op>> \o (k \o <<h>>)
      BY <1>5, <2>1, Associative, Zenon
    <2> QED BY <2>2, <2>3, <2>4 DEF h
  <1>7. Consumed' = Append(Consumed, Head(rxq))
    BY <1>4, <1>6
  <1>8. Rest = <<>> /\ Rest' = <<>>
    BY <1>1 DEF Rest
  <1> HIDE DEF Byte
  <1> QED BY <1>1, <1>2, <1>3, <1>7, <1>8, Machine DEF Moves

\* A byte of the answer goes out.
LEMMA ShiftOutMoves ==
    ASSUME RegInv, NEW arriving, NEW taken, NEW status, ShiftOut(arriving, taken, status)
    PROVE  Moves(arriving, taken, FALSE, TRUE)
  <1>1. /\ r_state = "RD" /\ r_bcnt # WordBytes /\ Len(txq) < Depth
        /\ r_rd_data' = Append(Tail(r_rd_data), Head(r_rd_data)) /\ r_bcnt' = r_bcnt + 1
        /\ RxQueue(arriving, FALSE) /\ TxQueue(TRUE, taken)
        /\ UNCHANGED <<r_op, r_wr_data, r_state>>
    BY DEF ShiftOut
  <1>2. Replying
    BY <1>1, Machine
  <1>3. rxq = <<>>
    BY <1>2, NothingPending DEF Replying
  <1> DEFINE n == WordBytes - (r_bcnt + 1)
  <1>4. n \in 0 .. WordBytes - 1 /\ n + 1 = WordBytes - r_bcnt /\ r_bcnt + 1 \in 0 .. WordBytes
    BY <1>1, Machine, Sizes, SMTT(30)
  <1>5. Rest = SubSeq(r_rd_data, 1, n + 1) /\ Rest' = SubSeq(r_rd_data', 1, n)
    BY <1>1, <1>4 DEF Rest
  <1> HIDE DEF n
  <1>6. /\ Head(r_rd_data) \in Byte
        /\ SubSeq(r_rd_data, 1, n + 1)
             = <<r_rd_data[1]>> \o SubSeq(Append(Tail(r_rd_data), Head(r_rd_data)), 1, n)
    BY <1>4, Machine, ShiftsOut
  <1>7. r_rd_data' \in Word
    BY <1>1, <1>6, Machine, ShiftWord
  <1>8. Rest = <<r_rd_data[1]>> \o Rest'
    BY <1>1, <1>5, <1>6
  <1>9. Consumed = <<>> /\ Consumed' = <<>>
    BY <1>1 DEF Consumed
  <1> HIDE DEF Byte
  <1> QED BY <1>1, <1>2, <1>3, <1>4, <1>7, <1>8, <1>9, Machine DEF Moves

\* The answer is out.
LEMMA AnsweredMoves ==
    ASSUME RegInv, NEW arriving, NEW taken, NEW status, Answered(arriving, taken, status)
    PROVE  Moves(arriving, taken, FALSE, FALSE)
  <1>1. /\ r_state = "RD" /\ r_bcnt = WordBytes /\ r_state' = "IDLE"
        /\ RxQueue(arriving, FALSE) /\ TxQueue(FALSE, taken)
        /\ UNCHANGED <<r_op, r_wr_data, r_rd_data, r_bcnt>>
    BY DEF Answered
  <1>2. Rest = <<>> /\ Rest' = <<>>
    <2>1. WordBytes - r_bcnt = 0
      BY <1>1, Sizes
    <2>2. SubSeq(r_rd_data, 1, 0) = <<>>
      BY SubSeqEmpty
    <2> QED BY <1>1, <2>1, <2>2 DEF Rest
  <1>3. Consumed = <<>> /\ Consumed' = <<>>
    BY <1>1 DEF Consumed
  <1>4. Busy /\ ~Busy'
    BY <1>1 DEF Busy
  <1> HIDE DEF Byte
  <1> QED BY <1>1, <1>2, <1>3, <1>4, Machine DEF Moves

\* The state machine waits.
LEMMA HoldMoves ==
    ASSUME RegInv, NEW arriving, NEW taken, NEW status, Hold(arriving, taken, status)
    PROVE  Moves(arriving, taken, FALSE, FALSE)
  <1>1. /\ RxQueue(arriving, FALSE) /\ TxQueue(FALSE, taken)
        /\ UNCHANGED <<r_op, r_wr_data, r_rd_data, r_bcnt, r_state>>
    BY DEF Hold
  <1>2. rxq = <<>>
    <2>1. rxq = <<>> \/ (r_state = "RD" /\ r_bcnt # WordBytes)
      BY DEF Hold
    <2>2. r_state = "RD" /\ r_bcnt # WordBytes => pending = <<>>
      BY Machine DEF Replying
    <2> QED BY <2>1, <2>2, NothingPending
  <1>3. Rest' = Rest /\ Consumed' = Consumed
    BY <1>1 DEF Rest, Consumed
  <1> HIDE DEF Byte
  <1> QED BY <1>1, <1>2, <1>3, Machine DEF Moves

\* Every clock without an effect.
LEMMA InternalMoves ==
    ASSUME RegInv, NEW arriving, NEW taken, NEW status, Internal(arriving, taken, status)
    PROVE  /\ \E deq, enq \in BOOLEAN : Moves(arriving, taken, deq, enq)
           /\ r_regs' = Sampled(status)
  <1>1. r_regs' = Sampled(status)
    BY DEF Internal, LatchOp, OpWrite, ShiftIn, ShiftOut, Answered, Hold
  <1> QED BY <1>1, LatchMoves, OpWriteMoves, ShiftInMoves, ShiftOutMoves, AnsweredMoves,
             HoldMoves, Zenon DEF Internal

-----------------------------------------------------------------------------

\* The first bytes of a word, all but n of them.
LEMMA AllBut ==
    ASSUME NEW w \in Word, NEW n \in 0 .. WordBytes
    PROVE  /\ SubSeq(w, 1, WordBytes - n) \in Seq(Byte)
           /\ Len(SubSeq(w, 1, WordBytes - n)) = WordBytes - n
  <1> DEFINE m == WordBytes - n
             k == SubSeq(w, 1, m)
  <1>1. w \in Seq(Byte) /\ Len(w) = WordBytes /\ m \in 0 .. WordBytes /\ m \in Nat
    BY WordIsSeq, Sizes
  <1> HIDE DEF m
  <1>2. \A i \in 1 .. m : w[i] \in Byte
    BY <1>1, Sizes, ElementOfSeq
  <1>3. k \in Seq(Byte) /\ Len(k) = IF 1 <= m THEN m - 1 + 1 ELSE 0
    BY <1>1, <1>2, SubSeqProperties
  <1>4. (IF 1 <= m THEN m - 1 + 1 ELSE 0) = m
    BY <1>1
  <1> QED BY <1>3, <1>4 DEF m, k

\* The registers keep their type when the channels show values.
LEMMA SampledType ==
    ASSUME RegInv, NEW status \in [ReadReg -> Value]
    PROVE  Sampled(status) \in [Reg -> Word]
  <1>1. r_regs \in [Reg -> Word] /\ Value \subseteq Word
    BY LinkAssumption DEF RegInv, TypeOK, FileTypeOK
  <1>2. \A a \in Reg : (IF a \in ReadReg THEN status[a] ELSE r_regs[a]) \in Word
    <2> HIDE DEF Word, Reg, ReadReg
    <2> QED BY <1>1
  <1> HIDE DEF Word, Reg, ReadReg
  <1> QED BY <1>2 DEF Sampled

\* A clock without an effect keeps the invariant; the answer stays whole or
\* reaches the host.
LEMMA InternalKeeps ==
    ASSUME RegInv, NEW arriving \in Arriving, NEW taken \in BOOLEAN,
           NEW status \in [ReadReg -> Value],
           arriving # <<>> => gap = 0 /\ wire # <<>>, taken => txq # <<>>,
           Internal(arriving, taken, status), UNCHANGED pending,
           ByteIn(arriving), ByteOut(taken)
    PROVE  /\ RegInv' /\ r_regs' = Sampled(status)
           /\ \/ /\ UNCHANGED <<answer, awaiting>>
                 /\ Replying => Reply' = Reply
              \/ Replying /\ awaiting' = FALSE /\ answer' = Reply
  <1>1. PICK deq \in BOOLEAN, enq \in BOOLEAN : Moves(arriving, taken, deq, enq)
    BY InternalMoves
  <1>2. r_regs' \in [Reg -> Word]
    BY InternalMoves, SampledType
  <1>3. /\ rxq' \in Seq(Byte) /\ Len(rxq') <= 1
        /\ wire' \in Seq(Byte) /\ Len(wire') <= MaxWire
        /\ gap' \in 0 .. BytePace - 1
        /\ rxq' \o wire' = (IF deq THEN Tail(rxq) ELSE rxq) \o wire
        /\ (deq \/ rxq = <<>>) /\ rxq' # <<>> => gap' > 0
    <2>1. RxQueue(arriving, deq) /\ (deq => rxq # <<>>) /\ (rxq # <<>> => deq \/ gap > 0)
      BY <1>1 DEF Moves
    <2> QED BY <2>1, ReceiveMoves
  <1>4. /\ r_op' \in Byte /\ r_wr_data' \in Word /\ r_rd_data' \in Word
        /\ r_bcnt' \in 0 .. WordBytes /\ r_state' \in {"IDLE", "OP", "WR", "RD"}
        /\ r_state' = "WR" => ~IsRead(r_op')
        /\ ~Replying /\ r_state' = "RD" => r_bcnt' = WordBytes
        /\ Busy' => deq \/ rxq = <<>>
        /\ deq => rxq # <<>>
        /\ enq => Replying
        /\ TxQueue(enq, taken)
        /\ Consumed' = IF deq THEN Append(Consumed, Head(rxq)) ELSE Consumed
    BY <1>1 DEF Moves
  <1>5. Rest' \in Seq(Byte) /\ (r_state' = "RD" => Len(Rest') = WordBytes - r_bcnt')
    <2>1. CASE r_state' = "RD"
      <3>1. Rest' = SubSeq(r_rd_data', 1, WordBytes - r_bcnt')
        BY <2>1 DEF Rest
      <3> QED BY <1>4, <3>1, AllBut
    <2>2. CASE r_state' # "RD"
      BY <2>2 DEF Rest
    <2> QED BY <2>1, <2>2
  <1>6. /\ txq' \in Seq(Byte) /\ Len(txq') <= Depth
        /\ got' \in Seq(Byte) /\ Len(got') < WordBytes
        /\ \/ /\ UNCHANGED <<awaiting, answer>>
              /\ (got' \o txq') \o Rest' = Reply
           \/ /\ Replying /\ awaiting' = FALSE
              /\ answer' = Reply /\ answer' \in Word
              /\ got' = <<>> /\ txq' = <<>> /\ Rest' = <<>>
    <2>1. (enq => Len(txq) < Depth) /\ Rest = IF enq THEN <<r_rd_data[1]>> \o Rest' ELSE Rest'
      BY <1>1 DEF Moves
    <2> QED BY <1>4, <1>5, <2>1, AnswerMoves
  <1>7. TypeOK'
    <2>1. awaiting' \in BOOLEAN /\ answer' \in Word
      BY <1>6 DEF RegInv, TypeOK
    <2>2. Len(rxq') <= Depth
      BY <1>3, Sizes
    <2>3. pending' \in Seq(Commands)
      BY Parts DEF RegInv
    <2> QED BY <1>2, <1>3, <1>4, <1>6, <2>1, <2>2, <2>3 DEF TypeOK, FileTypeOK, Commands
  <1>8. StreamIntact'
    <2> DEFINE c == Consumed'
               x == rxq'
               y == wire'
               rest == IF deq THEN Tail(rxq) ELSE rxq
    <2>1. Consumed \in Seq(Byte) /\ rxq \in Seq(Byte) /\ wire \in Seq(Byte)
      BY Parts DEF RegInv
    <2>2. c \in Seq(Byte) /\ rest \in Seq(Byte)
      BY <1>4, <2>1, OneMoves
    <2>3. c \o rest = Consumed \o rxq
      BY <1>4, <2>1, OneMoves
    <2>4. x \in Seq(Byte) /\ y \in Seq(Byte)
      BY <1>3
    <2>5. x \o y = rest \o wire
      BY <1>3
    <2> HIDE DEF c, x, y, rest
    <2>6. (c \o x) \o y = c \o (x \o y)
      BY <2>2, <2>4, Associative, Zenon
    <2>7. (c \o rest) \o wire = c \o (rest \o wire)
      BY <2>1, <2>2, Associative, ZenonT(30)
    <2>8. c \o x \o y = Consumed \o rxq \o wire
      BY <2>3, <2>5, <2>6, <2>7
    <2> QED BY <2>8 DEF c, x, y, RegInv, StreamIntact
  <1>9. Reply' = (got' \o txq') \o Rest'
    BY DEF Reply, Rest
  <1>10. ReadIsLast'
    <2>1. CASE UNCHANGED awaiting
      BY <2>1 DEF RegInv, ReadIsLast
    <2>2. CASE pending = <<>>
      BY <2>2 DEF ReadIsLast
    <2> QED BY <1>6, <2>1, <2>2 DEF Replying
  <1>11. ReplyWhole'
    <2>1. CASE UNCHANGED awaiting /\ Replying
      <3>1. Reply' = Reply
        BY <1>6, <1>9, <2>1 DEF Replying
      <3>2. Len(Reply) = WordBytes
        BY <2>1 DEF RegInv, ReplyWhole
      <3>3. Replying'
        BY <2>1 DEF Replying
      <3> QED BY <3>1, <3>2, <3>3 DEF ReplyWhole
    <2>2. CASE ~Replying
      <3>1. txq = <<>> /\ got = <<>>
        BY <2>2 DEF RegInv, ReplyWhole
      <3>2. ~taken /\ ~enq
        BY <1>4, <2>2, <3>1
      <3>3. txq' = <<>> /\ got' = <<>> /\ UNCHANGED awaiting
        BY <1>4, <3>1, <3>2 DEF TxQueue, Queue!After, ByteOut
      <3>4. ~Replying'
        BY <2>2, <3>3 DEF Replying
      <3> QED BY <1>4, <2>2, <3>3, <3>4 DEF ReplyWhole
    <2>3. CASE awaiting' = FALSE /\ got' = <<>> /\ txq' = <<>> /\ Rest' = <<>>
      <3>1. ASSUME r_state' = "RD" PROVE r_bcnt' = WordBytes
        <4>1. Len(Rest') = WordBytes - r_bcnt' /\ Len(Rest') = 0
          BY <1>5, <2>3, <3>1
        <4>2. WordBytes - r_bcnt' = 0 /\ r_bcnt' \in 0 .. WordBytes
          BY <1>4, <4>1
        <4> DEFINE b == r_bcnt'
        <4>3. WordBytes - b = 0 /\ b \in 0 .. WordBytes /\ WordBytes \in Nat
          BY <4>2, Sizes
        <4> HIDE DEF b
        <4>4. b = WordBytes
          BY <4>3
        <4> QED BY <4>4 DEF b
      <3>2. ~Replying'
        BY <2>3 DEF Replying
      <3> QED BY <2>3, <3>1, <3>2 DEF ReplyWhole
    <2> QED BY <1>6, <2>1, <2>2, <2>3, Zenon
  <1>12. KeepsUp'
    BY <1>3, <1>4 DEF KeepsUp
  <1>13. (r_state = "WR" => ~IsRead(r_op))'
    BY <1>4
  <1>14. \/ UNCHANGED <<answer, awaiting>> /\ (Replying => Reply' = Reply)
         \/ Replying /\ awaiting' = FALSE /\ answer' = Reply
    BY <1>6, <1>9
  <1>15. r_regs' = Sampled(status)
    BY InternalMoves
  <1> QED BY <1>7, <1>8, <1>10, <1>11, <1>12, <1>13, <1>14, <1>15 DEF RegInv

-----------------------------------------------------------------------------
(* The clocks in which a command takes effect. *)

\* The first command is done with.
LEMMA DoneWithFirst ==
    ASSUME RegInv, r_state \in {"OP", "WR"}, pending' = SubSeq(pending, 2, Len(pending))
    PROVE  /\ pending \in Seq(Commands) /\ pending # <<>>
           /\ pending' = Tail(pending) /\ pending' \in Seq(Commands)
           /\ Len(pending') = Len(pending) - 1 /\ Len(pending) \in Nat \ {0}
           /\ \A i \in 1 .. Len(pending) - 1 : pending'[i] = pending[i + 1]
  <1>1. pending \in Seq(Commands) /\ pending # <<>>
    BY Parts, FirstPending DEF RegInv
  <1>2. pending' = Tail(pending)
    <2> HIDE DEF Commands
    <2> QED BY <1>1, TailIsSubSeq
  <1>3. /\ Tail(pending) \in Seq(Commands)
        /\ Len(Tail(pending)) = Len(pending) - 1
        /\ \A i \in 1 .. Len(pending) - 1 : Tail(pending)[i] = pending[i + 1]
    BY <1>1, HeadTailProperties
  <1>4. Len(pending) \in Nat \ {0}
    BY <1>1, EmptySeq
  <1> QED BY <1>1, <1>2, <1>3, <1>4

\* Without an answer nothing reaches the host.
LEMMA NothingComes ==
    ASSUME RegInv, ~Replying, NEW taken \in BOOLEAN, taken => txq # <<>>,
           ByteOut(taken), TxQueue(FALSE, taken)
    PROVE  /\ txq = <<>> /\ got = <<>>
           /\ txq' = <<>> /\ got' = <<>> /\ UNCHANGED <<answer, awaiting>>
  <1>1. txq = <<>> /\ got = <<>>
    BY DEF RegInv, ReplyWhole
  <1> QED BY <1>1 DEF TxQueue, Queue!After, ByteOut

\* A read takes the word its register holds, and that is the whole answer.
LEMMA OpReadTakes ==
    ASSUME RegInv, NEW arriving \in Arriving, NEW taken \in BOOLEAN,
           NEW status \in [ReadReg -> Value],
           arriving # <<>> => gap = 0 /\ wire # <<>>, taken => txq # <<>>,
           OpRead(arriving, taken, status), pending' = SubSeq(pending, 2, Len(pending)),
           ByteIn(arriving), ByteOut(taken)
    PROVE  /\ Replying' /\ pending[1].read
           /\ Reply' = r_regs[pending[1].addr] /\ Reply' \in Word
           /\ UNCHANGED answer
           /\ RegInv'
  <1>1. /\ r_state = "OP" /\ IsRead(r_op) /\ r_state' = "RD" /\ r_bcnt' = 0
        /\ r_rd_data' \in IF AddrOf(r_op) \in Reg THEN {r_regs[AddrOf(r_op)]} ELSE Word
        /\ RxQueue(arriving, FALSE) /\ TxQueue(FALSE, taken)
        /\ r_regs' = Sampled(status) /\ UNCHANGED <<r_op, r_wr_data>>
    BY DEF OpRead
  <1>2. /\ pending # <<>> /\ pending[1].read
        /\ AddrOf(r_op) = pending[1].addr /\ AddrOf(r_op) \in Reg
    BY <1>1, FirstPending
  <1>3. awaiting /\ rxq = <<>> /\ wire = <<>> /\ pending' = <<>>
    BY <1>1, ReadPending, DoneWithFirst
  <1>4. /\ rxq' = <<>> /\ wire' = <<>>
        /\ gap' \in 0 .. BytePace - 1
    <2>1. (rxq # <<>> => FALSE \/ gap > 0) /\ (FALSE => rxq # <<>>)
      BY <1>3
    <2> QED BY <1>1, <1>3, <2>1, ReceiveMoves
  <1>5. txq' = <<>> /\ got' = <<>> /\ UNCHANGED <<answer, awaiting>>
    BY <1>1, <1>2, NothingComes DEF Replying
  <1>6. r_rd_data' = r_regs[pending[1].addr] /\ r_rd_data' \in Word
    <2>1. r_regs \in [Reg -> Word]
      BY DEF RegInv, TypeOK, FileTypeOK
    <2> HIDE DEF Reg, Word
    <2> QED BY <1>1, <1>2, <2>1
  <1>7. Rest' = r_rd_data' /\ r_rd_data' \in Seq(Byte) /\ Len(r_rd_data') = WordBytes
    <2> DEFINE w == r_rd_data'
    <2>1. w \in Word
      BY <1>6
    <2>2. Rest' = SubSeq(w, 1, WordBytes - 0)
      BY <1>1 DEF Rest
    <2> HIDE DEF w
    <2>3. w \in Seq(Byte) /\ Len(w) = WordBytes
      BY <2>1, WordIsSeq
    <2>4. SubSeq(w, 1, Len(w)) = w
      BY <2>3, Beyond
    <2>5. WordBytes - 0 = WordBytes
      BY Sizes
    <2> QED BY <2>2, <2>3, <2>4, <2>5 DEF w
  <1>8. Reply' = r_rd_data'
    <2>1. Reply' = (got' \o txq') \o Rest'
      BY DEF Reply, Rest
    <2>2. Reply' = (<<>> \o <<>>) \o r_rd_data'
      BY <1>5, <1>7, <2>1
    <2> DEFINE w == r_rd_data'
    <2>3. w \in Seq(Byte)
      BY <1>7
    <2> HIDE DEF w
    <2>4. (<<>> \o <<>>) \o w = w
      <3>1. <<>> \o <<>> = <<>>
        OBVIOUS
      <3> QED BY <2>3, <3>1, EmptyFirst
    <2> QED BY <2>2, <2>4 DEF w
  <1>9. Replying'
    BY <1>3, <1>5 DEF Replying
  <1>10. TypeOK'
    <2>1. r_regs' \in [Reg -> Word]
      BY <1>1, SampledType
    <2>2. /\ r_op' \in Byte /\ r_wr_data' \in Word /\ r_bcnt' \in 0 .. WordBytes
          /\ r_state' \in {"IDLE", "OP", "WR", "RD"}
      BY <1>1, Machine, Sizes
    <2>3. /\ awaiting' \in BOOLEAN /\ answer' \in Word /\ pending' \in Seq(Commands)
      BY <1>1, <1>5, DoneWithFirst DEF RegInv, TypeOK
    <2>4. rxq' \in Seq(Byte) /\ txq' \in Seq(Byte) /\ wire' \in Seq(Byte) /\ got' \in Seq(Byte)
          /\ Len(rxq') <= Depth /\ Len(txq') <= Depth /\ Len(wire') <= MaxWire
          /\ Len(got') < WordBytes
      BY <1>4, <1>5, Sizes
    <2> QED BY <1>4, <1>6, <2>1, <2>2, <2>3, <2>4 DEF TypeOK, FileTypeOK, Commands
  <1>11. StreamIntact'
    <2>1. Consumed' = <<>>
      BY <1>1 DEF Consumed
    <2>2. <<>> \o <<>> \o <<>> = <<>>
      OBVIOUS
    <2>3. Sent(pending') = <<>>
      BY <1>3, SentNothing
    <2> QED BY <1>4, <2>1, <2>2, <2>3 DEF StreamIntact, Sent
  <1>12. ReadIsLast' /\ KeepsUp' /\ ReplyWhole'
    <2>1. ReadIsLast'
      BY <1>3 DEF ReadIsLast
    <2>2. KeepsUp'
      BY <1>4 DEF KeepsUp
    <2>3. ReplyWhole'
      BY <1>7, <1>8, <1>9 DEF ReplyWhole
    <2> QED BY <2>1, <2>2, <2>3
  <1>13. (r_state = "WR" => ~IsRead(r_op))'
    BY <1>1
  <1> QED BY <1>2, <1>5, <1>6, <1>8, <1>9, <1>10, <1>11, <1>12, <1>13 DEF RegInv

\* The word a write stores is the word that was sent.
LEMMA StoresSent ==
    ASSUME RegInv, r_state = "WR", r_bcnt = WordBytes
    PROVE  /\ ~pending[1].read /\ AddrOf(r_op) = pending[1].addr
           /\ r_wr_data = pending[1].word
           /\ rxq \o wire = Sent(Tail(pending))
  <1> DEFINE c == pending[1]
  <1>1. /\ c \in Commands /\ ~c.read /\ Bytes(c)[1] = r_op
        /\ AddrOf(r_op) = c.addr /\ Tail(pending) \in Seq(Commands)
        /\ Consumed \o (rxq \o wire) = Bytes(c) \o Sent(Tail(pending))
    BY FirstPending, Machine
  <1> HIDE DEF c
  <1>2. /\ Bytes(c) \in Seq(Byte) /\ Bytes(c) = <<c.addr>> \o c.word
        /\ Len(Bytes(c)) = WordBytes + 1
        /\ c.addr = r_op
    BY <1>1, BytesOf
  <1>3. r_wr_data \in Seq(Byte) /\ Len(r_wr_data) = WordBytes
        /\ c.word \in Seq(Byte) /\ Len(c.word) = WordBytes
    BY <1>1, Parts, WordIsSeq DEF RegInv, Commands
  <1>4. r_op \in Byte /\ <<r_op>> \in Seq(Byte) /\ Len(<<r_op>>) = 1
    <2> HIDE DEF Byte
    <2> QED BY Machine
  <1>5. Consumed = <<r_op>> \o r_wr_data
    <2>1. WordBytes - r_bcnt + 1 = 1
      BY Sizes
    <2>2. Consumed = <<r_op>> \o SubSeq(r_wr_data, WordBytes - r_bcnt + 1, WordBytes)
      BY DEF Consumed
    <2>3. SubSeq(r_wr_data, 1, WordBytes) = r_wr_data
      BY <1>3, Beyond
    <2> QED BY <2>1, <2>2, <2>3
  <1>6. Consumed \in Seq(Byte) /\ Len(Consumed) = WordBytes + 1
    <2>1. Len(<<r_op>> \o r_wr_data) = 1 + WordBytes /\ <<r_op>> \o r_wr_data \in Seq(Byte)
      BY <1>3, <1>4, ConcatProperties
    <2> QED BY <1>5, <2>1, Sizes
  <1>7. Consumed = Bytes(c) /\ rxq \o wire = Sent(Tail(pending))
    <2>1. Sent(Tail(pending)) \in Seq(Byte) /\ rxq \o wire \in Seq(Byte)
      BY <1>1, SentType, Framing
    <2>2. Len(Consumed) = Len(Bytes(c))
      BY <1>2, <1>6
    <2> QED BY <1>1, <1>2, <1>6, <2>1, <2>2, SplitsOnce, ZenonT(30)
  <1>8. <<r_op>> \o r_wr_data = <<r_op>> \o c.word
    BY <1>2, <1>5, <1>7
  <1>9. r_wr_data = c.word
    BY <1>3, <1>4, <1>8, SplitsOnce
  <1> QED BY <1>1, <1>7, <1>9 DEF c

\* A write stores its word, and the next command comes first.
LEMMA StoreTakes ==
    ASSUME RegInv, NEW arriving \in Arriving, NEW taken \in BOOLEAN,
           NEW status \in [ReadReg -> Value],
           arriving # <<>> => gap = 0 /\ wire # <<>>, taken => txq # <<>>,
           Store(arriving, taken, status), pending' = SubSeq(pending, 2, Len(pending)),
           ByteIn(arriving), ByteOut(taken)
    PROVE  /\ ~Replying /\ ~Replying' /\ ~pending[1].read
           /\ UNCHANGED answer
           /\ r_regs' = [a \in Reg |-> IF a \notin ReadReg /\ a = pending[1].addr
                                       THEN pending[1].word ELSE Sampled(status)[a]]
           /\ RegInv'
  <1>1. /\ r_state = "WR" /\ r_bcnt = WordBytes /\ r_state' = "IDLE"
        /\ r_regs' = [a \in Reg |-> IF a \notin ReadReg /\ a = AddrOf(r_op)
                                    THEN r_wr_data ELSE Sampled(status)[a]]
        /\ RxQueue(arriving, FALSE) /\ TxQueue(FALSE, taken)
        /\ UNCHANGED <<r_op, r_wr_data, r_rd_data, r_bcnt>>
    BY DEF Store
  <1>2. /\ ~pending[1].read /\ AddrOf(r_op) = pending[1].addr
        /\ r_wr_data = pending[1].word
        /\ rxq \o wire = Sent(Tail(pending))
    BY <1>1, StoresSent
  <1>3. /\ pending \in Seq(Commands) /\ pending # <<>>
        /\ pending' = Tail(pending) /\ pending' \in Seq(Commands)
        /\ Len(pending') = Len(pending) - 1 /\ Len(pending) \in Nat \ {0}
        /\ \A i \in 1 .. Len(pending) - 1 : pending'[i] = pending[i + 1]
    BY <1>1, DoneWithFirst
  <1>4. /\ rxq' \in Seq(Byte) /\ Len(rxq') <= 1
        /\ wire' \in Seq(Byte) /\ Len(wire') <= MaxWire
        /\ gap' \in 0 .. BytePace - 1
        /\ rxq' \o wire' = rxq \o wire
    <2>1. (rxq # <<>> => FALSE \/ gap > 0) /\ (FALSE => rxq # <<>>)
      BY <1>1, Machine DEF Busy
    <2> QED BY <1>1, <2>1, ReceiveMoves
  <1>5. ~Replying
    BY <1>3 DEF Replying
  <1>6. txq' = <<>> /\ got' = <<>> /\ UNCHANGED <<answer, awaiting>>
    BY <1>1, <1>5, NothingComes
  <1>7. TypeOK'
    <2>1. r_regs' \in [Reg -> Word]
      <3>1. r_wr_data \in Word /\ Sampled(status) \in [Reg -> Word]
        BY Machine, SampledType
      <3> HIDE DEF Reg, ReadReg, Word
      <3> QED BY <1>1, <3>1
    <2>2. /\ r_op' \in Byte /\ r_wr_data' \in Word /\ r_rd_data' \in Word
          /\ r_bcnt' \in 0 .. WordBytes /\ r_state' \in {"IDLE", "OP", "WR", "RD"}
      BY <1>1, Machine
    <2>3. awaiting' \in BOOLEAN /\ answer' \in Word
      BY <1>6 DEF RegInv, TypeOK
    <2>4. txq' \in Seq(Byte) /\ got' \in Seq(Byte) /\ Len(rxq') <= Depth /\ Len(txq') <= Depth
          /\ Len(got') < WordBytes
      BY <1>4, <1>6, Sizes
    <2> QED BY <1>3, <1>4, <2>1, <2>2, <2>3, <2>4 DEF TypeOK, FileTypeOK, Commands
  <1>8. StreamIntact'
    <2>1. Consumed' = <<>>
      BY <1>1 DEF Consumed
    <2>2. (Consumed' \o rxq') \o wire' = rxq' \o wire'
      <3> DEFINE x == rxq'
      <3>1. x \in Seq(Byte)
        BY <1>4
      <3> HIDE DEF x
      <3>2. <<>> \o x = x
        BY <3>1, EmptyFirst
      <3> QED BY <2>1, <3>2 DEF x
    <2>3. (Consumed' \o rxq') \o wire' = Sent(pending')
      BY <1>2, <1>3, <1>4, <2>2
    <2> QED BY <2>3 DEF StreamIntact, Sent
  <1>9. ReadIsLast'
    <2>1. ASSUME NEW i \in DOMAIN pending'
          PROVE  pending'[i].read <=> (awaiting' /\ i = Len(pending'))
      <3>1. i \in 1 .. Len(pending) - 1
        BY <1>3
      <3>2. i + 1 \in DOMAIN pending /\ (i + 1 = Len(pending) <=> i = Len(pending'))
        BY <1>3, <3>1
      <3>3. pending[i + 1].read <=> (awaiting /\ i + 1 = Len(pending))
        BY <3>2 DEF RegInv, ReadIsLast
      <3>4. pending'[i] = pending[i + 1]
        BY <1>3, <3>1
      <3> QED BY <1>6, <3>2, <3>3, <3>4
    <2> QED BY <2>1 DEF ReadIsLast
  <1>10. ~Replying'
    <2>1. ASSUME Replying' PROVE FALSE
      <3>1. awaiting /\ Len(pending) = 1
        <4>1. pending' = <<>> /\ awaiting
          BY <1>6, <2>1 DEF Replying
        <4>2. Len(pending') = 0
          <5>1. Len(<<>>) = 0
            OBVIOUS
          <5> QED BY <4>1, <5>1, Zenon
        <4> DEFINE n == Len(pending)
        <4>3. n - 1 = 0 /\ n \in Nat
          BY <1>3, <4>2
        <4> HIDE DEF n
        <4>4. n = 1
          BY <4>3
        <4> QED BY <4>1, <4>4 DEF n
      <3>2. 1 \in DOMAIN pending
        BY <1>3
      <3>3. pending[1].read <=> (awaiting /\ 1 = Len(pending))
        BY <3>2 DEF RegInv, ReadIsLast
      <3> QED BY <1>2, <3>1, <3>3
    <2> QED BY <2>1
  <1>11. ReplyWhole' /\ KeepsUp'
    <2>1. r_state' # "RD" /\ ~Busy'
      BY <1>1 DEF Busy
    <2> QED BY <1>4, <1>6, <1>10, <2>1 DEF ReplyWhole, KeepsUp
  <1>12. (r_state = "WR" => ~IsRead(r_op))'
    BY <1>1
  <1>13. r_regs' = [a \in Reg |-> IF a \notin ReadReg /\ a = pending[1].addr
                                  THEN pending[1].word ELSE Sampled(status)[a]]
    BY <1>1, <1>2
  <1> QED BY <1>2, <1>5, <1>6, <1>7, <1>8, <1>9, <1>10, <1>11, <1>12, <1>13 DEF RegInv

-----------------------------------------------------------------------------
(* Every step keeps the invariant. *)

\* A command the host sends joins the stream.
LEMMA SendKeeps ==
    ASSUME RegInv, NEW c \in Commands, Send(c), awaiting' = c.read
    PROVE  RegInv'
  <1>1. /\ ~awaiting /\ Len(wire) + Len(Bytes(c)) <= MaxWire
        /\ wire' = wire \o Bytes(c) /\ pending' = Append(pending, c)
        /\ UNCHANGED <<file, gap, got, answer>>
    BY DEF Send
  <1>2. Bytes(c) \in Seq(Byte)
    BY BytesOf
  <1>3. /\ rxq \in Seq(Byte) /\ wire \in Seq(Byte) /\ pending \in Seq(Commands)
        /\ Consumed \in Seq(Byte)
    BY Parts DEF RegInv
  <1>4. /\ wire' \in Seq(Byte) /\ Len(wire') <= MaxWire
    BY <1>1, <1>2, <1>3, ConcatProperties
  <1>5. /\ pending' \in Seq(Commands) /\ Len(pending') = Len(pending) + 1
        /\ pending'[Len(pending) + 1] = c
        /\ \A i \in 1 .. Len(pending) : pending'[i] = pending[i]
    BY <1>1, <1>3, AppendProperties
  <1>6. TypeOK'
    <2>1. FileTypeOK'
      BY <1>1 DEF RegInv, TypeOK, file, FileTypeOK
    <2>2. /\ gap' \in 0 .. BytePace - 1 /\ got' \in Seq(Byte) /\ Len(got') < WordBytes
          /\ answer' \in Word
      BY <1>1 DEF RegInv, TypeOK
    <2>3. awaiting' \in BOOLEAN
      BY DEF Commands
    <2> QED BY <1>4, <1>5, <2>1, <2>2, <2>3 DEF TypeOK, Commands
  <1>7. StreamIntact'
    <2>1. Consumed' = Consumed /\ rxq' = rxq
      BY <1>1 DEF Consumed, file
    <2>2. Consumed \o rxq \in Seq(Byte)
      BY <1>3, ConcatProperties
    <2>3. (Consumed \o rxq) \o (wire \o Bytes(c)) = ((Consumed \o rxq) \o wire) \o Bytes(c)
      BY <1>2, <1>3, <2>2, Associative, Zenon
    <2>4. (Consumed \o rxq) \o wire = Sent(pending)
      BY DEF RegInv, StreamIntact, Sent
    <2>5. Sent(pending') = Sent(pending) \o Bytes(c)
      BY <1>1, <1>3, SentAppend
    <2>6. (Consumed' \o rxq') \o wire' = Sent(pending')
      BY <1>1, <2>1, <2>3, <2>4, <2>5
    <2> QED BY <2>6 DEF StreamIntact, Sent
  <1>8. ReadIsLast'
    <2>1. ASSUME NEW i \in DOMAIN pending'
          PROVE  pending'[i].read <=> (awaiting' /\ i = Len(pending'))
      <3>1. CASE i = Len(pending) + 1
        BY <1>5, <3>1
      <3>2. CASE i # Len(pending) + 1
        <4>1. i \in 1 .. Len(pending) /\ i # Len(pending')
          BY <1>3, <1>5, <3>2
        <4>2. pending'[i] = pending[i] /\ ~pending[i].read
          BY <1>1, <1>3, <1>5, <4>1 DEF RegInv, ReadIsLast
        <4> QED BY <4>1, <4>2
      <3> QED BY <3>1, <3>2
    <2> QED BY <2>1 DEF ReadIsLast
  <1>9. ReplyWhole'
    <2>1. ~Replying
      BY <1>1 DEF Replying
    <2>2. ~Replying'
      <3>1. pending' # <<>>
        BY <1>1, <1>3, AppendProperties
      <3> QED BY <3>1 DEF Replying
    <2>3. UNCHANGED <<txq, got, r_state, r_bcnt>>
      BY <1>1 DEF file
    <2> QED BY <2>1, <2>2, <2>3 DEF RegInv, ReplyWhole
  <1>10. KeepsUp'
    <2>1. UNCHANGED <<rxq, gap, r_state, r_bcnt>>
      BY <1>1 DEF file
    <2> QED BY <2>1 DEF RegInv, KeepsUp, Busy
  <1>11. (r_state = "WR" => ~IsRead(r_op))'
    BY <1>1 DEF RegInv, file
  <1> QED BY <1>6, <1>7, <1>8, <1>9, <1>10, <1>11 DEF RegInv

\* The commands of the host.
LEMMA Issues ==
    ASSUME \/ \E a \in Reg \ ReadReg, w \in Value : HostWrite(a, w)
           \/ \E a \in Reg : HostRead(a),
           RegInv
    PROVE  \E c \in Commands : Send(c) /\ awaiting' = c.read
  <1>1. ASSUME NEW a \in Reg \ ReadReg, NEW w \in Value, HostWrite(a, w)
        PROVE  \E c \in Commands : Send(c) /\ awaiting' = c.read
    <2> DEFINE c == Command(FALSE, a, w)
    <2>1. w \in Word
      BY LinkAssumption
    <2>2. c \in Commands /\ c.read = FALSE
      <3> HIDE DEF Reg, Word
      <3> QED BY <2>1 DEF Command, Commands
    <2> HIDE DEF c
    <2>3. Send(c) /\ UNCHANGED awaiting
      BY <1>1 DEF HostWrite, c
    <2>4. ~awaiting /\ awaiting \in BOOLEAN
      BY <2>3 DEF Send, RegInv, TypeOK
    <2> QED BY <2>2, <2>3, <2>4
  <1>2. ASSUME NEW a \in Reg, HostRead(a)
        PROVE  \E c \in Commands : Send(c) /\ awaiting' = c.read
    <2> DEFINE c == Command(TRUE, a, Zero)
    <2>1. Zero \in Word
      BY Sizes, RegsAssumption DEF Zero, Word, Byte
    <2>2. c \in Commands /\ c.read = TRUE
      <3> HIDE DEF Reg, Word
      <3> QED BY <2>1 DEF Command, Commands
    <2> HIDE DEF c
    <2>3. Send(c) /\ awaiting' = TRUE
      BY <1>2 DEF HostRead, c
    <2> QED BY <2>2, <2>3
  <1> QED BY <1>1, <1>2

\* The parts of a clock edge.
LEMMA ClockIs ==
    ASSUME Clock
    PROVE  \E arriving \in Arriving, taken \in BOOLEAN, status \in [ReadReg -> Value] :
             /\ arriving # <<>> => gap = 0 /\ wire # <<>>
             /\ taken => txq # <<>>
             /\ ByteIn(arriving) /\ ByteOut(taken)
             /\ \/ /\ OpRead(arriving, taken, status)
                   /\ pending' = SubSeq(pending, 2, Len(pending))
                \/ /\ Store(arriving, taken, status)
                   /\ pending' = SubSeq(pending, 2, Len(pending))
                \/ Internal(arriving, taken, status) /\ UNCHANGED pending
  BY Zenon DEF Clock, Edge, Effect

\* The host rests and the file is empty at first.
LEMMA RegInit == Init => RegInv
  <1> SUFFICES ASSUME Init PROVE RegInv
    OBVIOUS
  <1>1. /\ rxq = <<>> /\ txq = <<>> /\ r_regs = [a \in Reg |-> Zero] /\ r_op = 0
        /\ r_wr_data = Zero /\ r_rd_data = ResetWord /\ r_bcnt = 0 /\ r_state = "IDLE"
        /\ wire = <<>> /\ gap = 0 /\ awaiting = FALSE /\ got = <<>> /\ answer = Zero
        /\ pending = <<>>
    BY DEF Init, FileInit
  <1>2. 0 \in Byte /\ Zero \in Word /\ ResetWord \in Word
    BY Sizes, RegsAssumption, LinkAssumption DEF Zero, Word, Byte
  <1>3. TypeOK
    <2>1. r_regs \in [Reg -> Word]
      <3> HIDE DEF Reg, Word, Zero
      <3> QED BY <1>1, <1>2
    <2>2. /\ Len(rxq) <= Depth /\ Len(txq) <= Depth /\ Len(wire) <= MaxWire
          /\ gap \in 0 .. BytePace - 1 /\ Len(got) < WordBytes /\ r_bcnt \in 0 .. WordBytes
      BY <1>1, Sizes
    <2>3. rxq \in Seq(Byte) /\ txq \in Seq(Byte) /\ wire \in Seq(Byte) /\ got \in Seq(Byte)
          /\ pending \in Seq(Commands)
      BY <1>1
    <2> QED BY <1>1, <1>2, <2>1, <2>2, <2>3 DEF TypeOK, FileTypeOK, Commands
  <1>4. StreamIntact
    <2>1. Consumed = <<>>
      BY <1>1 DEF Consumed
    <2>2. <<>> \o <<>> \o <<>> = <<>>
      OBVIOUS
    <2> QED BY <1>1, <2>1, <2>2, SentNothing DEF StreamIntact, Sent
  <1>5. ReadIsLast /\ ReplyWhole /\ KeepsUp
    BY <1>1 DEF ReadIsLast, ReplyWhole, KeepsUp, Replying
  <1> QED BY <1>1, <1>3, <1>4, <1>5 DEF RegInv

\* A step of the host or a clock.
LEMMA RegStep == RegInv /\ [Next]_vars => RegInv'
  <1> SUFFICES ASSUME RegInv, [Next]_vars PROVE RegInv'
    OBVIOUS
  <1>1. CASE \/ \E a \in Reg \ ReadReg, w \in Value : HostWrite(a, w)
             \/ \E a \in Reg : HostRead(a)
    BY <1>1, Issues, SendKeeps
  <1>2. CASE Clock
    BY <1>2, ClockIs, InternalKeeps, OpReadTakes, StoreTakes
  <1>3. CASE UNCHANGED vars
    <2>1. UNCHANGED <<rxq, txq, r_regs, r_op, r_wr_data, r_rd_data, r_bcnt, r_state,
                      wire, gap, awaiting, got, answer, pending>>
      BY <1>3 DEF vars, file, host
    <2> QED BY <2>1 DEF RegInv, TypeOK, FileTypeOK, StreamIntact, Consumed, ReadIsLast,
                       ReplyWhole, Replying, Reply, KeepsUp, Busy
  <1> QED BY <1>1, <1>2, <1>3 DEF Next

\* The invariant holds always.
LEMMA RegAlways == Spec => []RegInv
  BY RegInit, RegStep, PTL DEF Spec

-----------------------------------------------------------------------------

\* Every register of the file and of the link keeps its type: no queue holds
\* more than Depth bytes, no byte count passes WordBytes.
THEOREM LinkTypeCorrect == Spec => []TypeOK
  <1>1. RegInv => TypeOK
    BY DEF RegInv
  <1> QED BY <1>1, RegAlways, PTL

\* No byte is lost or taken twice between the host and the state machine: the
\* framing of the commands holds for ever.
THEOREM StreamAlwaysIntact == Spec => []StreamIntact
  <1>1. RegInv => StreamIntact
    BY DEF RegInv
  <1> QED BY <1>1, RegAlways, PTL

\* A byte never finds the receive queue full.
THEOREM QueueAlwaysHasRoom == Spec => []QueueHasRoom
  <1>1. RegInv => QueueHasRoom
    BY Parts, Sizes DEF RegInv, KeepsUp, QueueHasRoom
  <1> QED BY <1>1, RegAlways, PTL

\* No byte of an answer is left over for the next read.
THEOREM NothingEverLeftOver == Spec => []NothingLeftOver
  <1>1. RegInv => NothingLeftOver
    BY DEF RegInv, ReplyWhole, Replying, NothingLeftOver
  <1> QED BY <1>1, RegAlways, PTL

-----------------------------------------------------------------------------
(* The register file serves the commands in order: what ServesCommands says *)
(* of each step.                                                            *)

ServesInOrder == File!Init /\ [][File!Next]_File!vars

\* The answer on its way, as the abstract file sees it.
OnItsWay == IF awaiting /\ pending = <<>> THEN <<Reply>> ELSE <<>>

\* The registers behind the host's are the same for both.
LEMMA SameRegisters ==
    ASSUME NEW status \in [ReadReg -> Value], NEW kept,
           r_regs' = [a \in Reg |-> IF a \in ReadReg THEN status[a] ELSE kept[a]]
    PROVE  File!Registers(kept)
  <1>1. File!StatusReg = ReadReg /\ File!Reg = Reg
    BY DEF File!StatusReg, ReadReg, File!Reg, Reg
  <1> HIDE DEF ReadReg, Reg, File!StatusReg, File!Reg
  <1> QED BY <1>1 DEF File!Registers

\* A command the host sends is issued.
LEMMA SendIssues ==
    ASSUME RegInv, NEW c \in Commands, Send(c), awaiting' = c.read
    PROVE  File!Issue
  <1>1. /\ ~awaiting /\ pending' = Append(pending, c) /\ UNCHANGED <<r_regs, answer>>
    BY DEF Send, file
  <1>2. pending \in Seq(Commands)
    BY Parts DEF RegInv
  <1> DEFINE p == Append(pending, c)
             n == Len(pending)
             k == SubSeq(p, 1, n)
  <1>3. /\ p \in Seq(Commands) /\ p # <<>> /\ Len(p) = n + 1 /\ n \in Nat
        /\ \A i \in 1 .. n : p[i] = pending[i]
        /\ p[n + 1] = c
    BY <1>2, AppendProperties
  <1> HIDE DEF p, n
  <1>4. k = pending
    <2>1. \A i \in 1 .. n : p[i] \in Commands
      BY <1>3, ElementOfSeq
    <2>2. /\ k \in Seq(Commands)
          /\ Len(k) = IF 1 <= n THEN n - 1 + 1 ELSE 0
          /\ \A i \in 1 .. n - 1 + 1 : k[i] = p[1 + i - 1]
      BY <1>3, <2>1, SubSeqProperties
    <2>3. /\ (IF 1 <= n THEN n - 1 + 1 ELSE 0) = n
          /\ n - 1 + 1 = n /\ \A i \in 1 .. n : 1 + i - 1 = i
      BY <1>3
    <2> HIDE DEF k
    <2>4. Len(k) = n /\ \A i \in 1 .. n : k[i] = p[i]
      BY <2>2, <2>3
    <2>5. Len(pending) = n
      BY DEF n
    <2> QED BY <1>2, <1>3, <2>2, <2>4, <2>5, SeqEqual
  <1>5. File!Command = Commands
    BY DEF File!Command, Commands, File!Reg, Reg
  <1>6. pending' = p
    BY <1>1 DEF p
  <1>7. OnItsWay = <<>> /\ OnItsWay' = <<>>
    BY <1>1, <1>3, <1>6 DEF OnItsWay
  <1>8. /\ Len(pending') = Len(pending) + 1
        /\ SubSeq(pending', 1, Len(pending)) = pending
        /\ pending'[Len(pending')] \in File!Command
    BY <1>3, <1>4, <1>5, <1>6 DEF n, k
  <1> QED BY <1>1, <1>7, <1>8 DEF File!Issue, OnItsWay

\* A read that takes effect is read.
LEMMA OpReadReads ==
    ASSUME RegInv, NEW arriving \in Arriving, NEW taken \in BOOLEAN,
           NEW status \in [ReadReg -> Value],
           arriving # <<>> => gap = 0 /\ wire # <<>>, taken => txq # <<>>,
           OpRead(arriving, taken, status), pending' = SubSeq(pending, 2, Len(pending)),
           ByteIn(arriving), ByteOut(taken)
    PROVE  File!Read
  <1>1. /\ Replying' /\ pending[1].read /\ Reply' = r_regs[pending[1].addr] /\ UNCHANGED answer
    BY OpReadTakes
  <1>2. pending # <<>> /\ Head(pending) = pending[1] /\ pending' = Tail(pending)
    BY FirstPending, DoneWithFirst DEF OpRead
  <1>3. OnItsWay' = <<r_regs[Head(pending).addr]>>
    BY <1>1, <1>2 DEF OnItsWay, Replying
  <1>4. File!Registers(r_regs)
    BY SameRegisters DEF OpRead, Sampled
  <1> QED BY <1>1, <1>2, <1>3, <1>4 DEF File!Read, OnItsWay

\* A write that takes effect is written.
LEMMA StoreWrites ==
    ASSUME RegInv, NEW arriving \in Arriving, NEW taken \in BOOLEAN,
           NEW status \in [ReadReg -> Value],
           arriving # <<>> => gap = 0 /\ wire # <<>>, taken => txq # <<>>,
           Store(arriving, taken, status), pending' = SubSeq(pending, 2, Len(pending)),
           ByteIn(arriving), ByteOut(taken)
    PROVE  File!Write
  <1>1. /\ ~Replying /\ ~Replying' /\ ~pending[1].read /\ UNCHANGED answer
        /\ r_regs' = [a \in Reg |-> IF a \notin ReadReg /\ a = pending[1].addr
                                    THEN pending[1].word ELSE Sampled(status)[a]]
    BY StoreTakes
  <1>2. pending # <<>> /\ Head(pending) = pending[1] /\ pending' = Tail(pending)
    BY FirstPending, DoneWithFirst DEF Store
  <1>3. OnItsWay = <<>> /\ OnItsWay' = <<>>
    BY <1>1 DEF OnItsWay, Replying
  <1> DEFINE kept == [r_regs EXCEPT ![pending[1].addr] = pending[1].word]
  <1>4. r_regs' = [a \in Reg |-> IF a \in ReadReg THEN status[a] ELSE kept[a]]
    <2>1. r_regs \in [Reg -> Word]
      BY DEF RegInv, TypeOK, FileTypeOK
    <2>2. ASSUME NEW a \in Reg
          PROVE  (IF a \notin ReadReg /\ a = pending[1].addr
                  THEN pending[1].word ELSE Sampled(status)[a])
                    = IF a \in ReadReg THEN status[a] ELSE kept[a]
      <3>1. kept[a] = IF a = pending[1].addr THEN pending[1].word ELSE r_regs[a]
        <4> HIDE DEF Reg, Word
        <4> QED BY <2>1
      <3>2. Sampled(status)[a] = IF a \in ReadReg THEN status[a] ELSE r_regs[a]
        <4> HIDE DEF Reg, ReadReg
        <4> QED BY DEF Sampled
      <3> HIDE DEF kept, Reg, ReadReg
      <3> QED BY <3>1, <3>2
    <2> HIDE DEF kept, Reg, ReadReg
    <2> QED BY <1>1, <2>2
  <1>5. File!Registers(kept)
    <2> HIDE DEF kept
    <2> QED BY <1>4, SameRegisters
  <1> QED BY <1>1, <1>2, <1>3, <1>5 DEF File!Write, OnItsWay

\* A clock without an effect delivers an answer, or changes nothing but the
\* status registers.
LEMMA InternalServes ==
    ASSUME RegInv, NEW arriving \in Arriving, NEW taken \in BOOLEAN,
           NEW status \in [ReadReg -> Value],
           arriving # <<>> => gap = 0 /\ wire # <<>>, taken => txq # <<>>,
           Internal(arriving, taken, status), UNCHANGED pending,
           ByteIn(arriving), ByteOut(taken)
    PROVE  File!Deliver \/ File!Status
  <1>1. /\ r_regs' = Sampled(status)
        /\ \/ /\ UNCHANGED <<answer, awaiting>>
              /\ Replying => Reply' = Reply
           \/ Replying /\ awaiting' = FALSE /\ answer' = Reply
    BY InternalKeeps
  <1>2. File!Registers(r_regs)
    BY <1>1, SameRegisters DEF Sampled
  <1>3. CASE UNCHANGED <<answer, awaiting>> /\ (Replying => Reply' = Reply)
    <2>1. OnItsWay' = OnItsWay
      BY <1>3 DEF OnItsWay, Replying
    <2> QED BY <1>2, <1>3, <2>1 DEF File!Status, OnItsWay
  <1>4. CASE Replying /\ awaiting' = FALSE /\ answer' = Reply
    <2>1. OnItsWay = <<Reply>> /\ OnItsWay' = <<>>
      BY <1>4 DEF OnItsWay, Replying
    <2>2. <<Reply>> # <<>> /\ Head(<<Reply>>) = Reply
      OBVIOUS
    <2> QED BY <1>2, <1>4, <2>1, <2>2 DEF File!Deliver, OnItsWay
  <1> QED BY <1>1, <1>3, <1>4

\* The file and the host start as the abstract file does.
LEMMA StartServes == Init => File!Init
  <1> SUFFICES ASSUME Init PROVE File!Init
    OBVIOUS
  <1>1. r_regs \in [Reg -> Word] /\ answer \in Word
    BY RegInit DEF RegInv, TypeOK, FileTypeOK
  <1>2. pending = <<>> /\ OnItsWay = <<>>
    BY DEF Init, OnItsWay
  <1> QED BY <1>1, <1>2 DEF File!Init, File!Reg, Reg, OnItsWay

\* Every step is one of the abstract file, or a stutter.
LEMMA StepServes == RegInv /\ [Next]_vars => [File!Next]_File!vars
  <1> SUFFICES ASSUME RegInv, [Next]_vars PROVE [File!Next]_File!vars
    OBVIOUS
  <1>1. CASE \/ \E a \in Reg \ ReadReg, w \in Value : HostWrite(a, w)
             \/ \E a \in Reg : HostRead(a)
    BY <1>1, Issues, SendIssues DEF File!Next
  <1>2. CASE Clock
    BY <1>2, ClockIs, InternalServes, OpReadReads, StoreWrites DEF File!Next
  <1>3. CASE UNCHANGED vars
    <2>1. UNCHANGED <<txq, r_regs, r_rd_data, r_bcnt, r_state, awaiting, got, answer, pending>>
      BY <1>3 DEF vars, file, host
    <2> QED BY <2>1 DEF File!vars, Reply
  <1> QED BY <1>1, <1>2, <1>3 DEF Next

\* Every command of the host takes effect once, whole and in the order it was
\* sent, and every answer it gets is the word of one moment.
THEOREM LinkServesInOrder == Spec => ServesInOrder
  BY RegInit, RegAlways, StartServes, StepServes, PTL DEF Spec, ServesInOrder

=============================================================================
