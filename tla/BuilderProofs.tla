--------------------------- MODULE BuilderProofs ----------------------------
(* How many shards a cache gets and which of them a hash selects, for every *)
(* width of usize, every default and every even minimum of bytes per shard. *)
EXTENDS Builder, AccountingProofs

USE BuilderAssumption
-----------------------------------------------------------------------------
\* The powers of two.
LEMMA PowerDef ==
  /\ Power \in [Nat -> Nat \ {0}]
  /\ Power[0] = 1
  /\ \A i \in Nat : Power[i + 1] = 2 * Power[i]
<1> DEFINE double == [p \in Nat \X (Nat \ {0}) |-> 2 * p[2]]
<1>1. double \in [Nat \X (Nat \ {0}) -> Nat \ {0}]
  OBVIOUS
<1>2. /\ \E f : Iterates(f, Nat, 1, double)
      /\ \A f : Iterates(f, Nat, 1, double) => f \in [Nat -> Nat \ {0}]
  <2> HIDE DEF double
  <2>1. 1 \in Nat \ {0} /\ Nat \subseteq Nat /\ \A i \in Nat : i # 0 => i - 1 \in Nat
    OBVIOUS
  <2> QED BY <1>1, <2>1, RecursionExists
<1>3. ASSUME NEW f, f = [i \in Nat |-> IF i = 0 THEN 1 ELSE 2 * f[i - 1]]
      PROVE  f \in [Nat -> Nat \ {0}]
  <2> DEFINE S == {i \in Nat : f[i] \in Nat \ {0}}
  <2>1. 0 \in S
    BY <1>3
  <2>2. ASSUME NEW n \in Nat, n \in S PROVE n + 1 \in S
    <3>1. f[n + 1] = 2 * f[(n + 1) - 1] /\ (n + 1) - 1 = n
      BY <1>3
    <3> QED BY <2>2, <3>1
  <2> HIDE DEF S
  <2>3. Nat \subseteq S
    BY <2>1, <2>2, Induct
  <2>4. \A i \in Nat : f[i] \in Nat \ {0}
    BY <2>3 DEF S
  <2>5. f = [i \in Nat |-> f[i]]
    BY <1>3
  <2> QED BY <2>4, <2>5
<1>4. \E f : f = [i \in Nat |-> IF i = 0 THEN 1 ELSE 2 * f[i - 1]]
  <2>1. PICK f : Iterates(f, Nat, 1, double)
    BY <1>2
  <2>2. f \in [Nat -> Nat \ {0}]
    BY <1>2, <2>1
  <2>3. f = [i \in Nat |-> IF i = 0 THEN 1 ELSE double[<<i, f[i - 1]>>]]
    BY <2>1 DEF Iterates
  <2>4. ASSUME NEW i \in Nat
        PROVE  f[i] = IF i = 0 THEN 1 ELSE 2 * f[i - 1]
    <3>1. CASE i # 0
      <4>1. f[i - 1] \in Nat \ {0}
        BY <2>2, <3>1
      <4>2. double[<<i, f[i - 1]>>] = 2 * f[i - 1]
        BY <4>1
      <4> QED BY <2>3, <3>1, <4>2
    <3> QED BY <2>3, <3>1
  <2>5. f = [i \in Nat |-> f[i]]
    BY <2>2
  <2> QED BY <2>4, <2>5
<1>5. Power = [i \in Nat |-> IF i = 0 THEN 1 ELSE 2 * Power[i - 1]]
  BY <1>4 DEF Power
<1>6. Power \in [Nat -> Nat \ {0}]
  BY <1>3, <1>5
<1>7. ASSUME NEW i \in Nat PROVE Power[i + 1] = 2 * Power[i]
  <2>1. i + 1 \in Nat /\ i + 1 # 0 /\ (i + 1) - 1 = i
    OBVIOUS
  <2> QED BY <1>5, <2>1
<1>8. Power[0] = 1
  BY <1>5
<1> QED BY <1>6, <1>7, <1>8

\* They grow, and faster than their exponent.
LEMMA PowerGrows ==
  ASSUME NEW i \in Nat
  PROVE  /\ Power[i] > i
         /\ \A j \in Nat : i <= j => Power[i] <= Power[j]
<1>1. Power[i] > i
  <2> DEFINE S == {n \in Nat : Power[n] > n}
  <2>1. 0 \in S
    BY PowerDef
  <2>2. ASSUME NEW n \in Nat, n \in S PROVE n + 1 \in S
    <3>1. Power[n + 1] = 2 * Power[n] /\ Power[n] \in Nat
      BY PowerDef
    <3> QED BY <2>2, <3>1
  <2> HIDE DEF S
  <2>3. i \in S
    BY <2>1, <2>2, Induct
  <2> QED BY <2>3 DEF S
<1>2. ASSUME NEW j \in Nat, i <= j PROVE Power[i] <= Power[j]
  <2> DEFINE S == {n \in Nat : i <= n => Power[i] <= Power[n]}
  <2>1. 0 \in S
    BY PowerDef
  <2>2. ASSUME NEW n \in Nat, n \in S PROVE n + 1 \in S
    <3>1. Power[n + 1] = 2 * Power[n] /\ Power[n] \in Nat /\ Power[i] \in Nat
      BY PowerDef
    <3>2. i <= n + 1 => i <= n \/ i = n + 1
      OBVIOUS
    <3> QED BY <2>2, <3>1, <3>2
  <2> HIDE DEF S
  <2>3. j \in S
    BY <2>1, <2>2, Induct
  <2> QED BY <1>2, <2>3 DEF S
<1> QED BY <1>1, <1>2

\* next_power_of_two: the least power that is at least n, when it fits.
LEMMA NextPowerOfTwoOf ==
  ASSUME NEW n \in Nat, n <= Power[Bits - 1]
  PROVE  \E i \in 0 .. Bits - 1 :
           /\ NextPowerOfTwo(n) = Power[i] /\ n <= Power[i]
           /\ i > 0 => Power[i - 1] < n
<1> DEFINE T == {i \in 0 .. n : Power[i] >= n}
<1>1. n \in T
  BY PowerGrows, PowerDef
<1>2. PICK i \in T : \A m \in T : i <= m
  <2>1. T \subseteq Nat
    OBVIOUS
  <2> HIDE DEF T
  <2> QED BY <1>1, <2>1, SmallestOf
<1>3. Min(T) = i
  <2>1. Min(T) = CHOOSE x \in T : \A y \in T : x <= y
    BY DEF Min
  <2>2. \A x \in T : (\A y \in T : x <= y) => x = i
    BY <1>2
  <2> QED BY <1>2, <2>1, <2>2
<1>4. i \in Nat /\ i <= n /\ Power[i] >= n
  BY <1>2
<1>5. ASSUME i > 0 PROVE Power[i - 1] < n
  <2>1. i - 1 \in 0 .. n /\ ~ (i <= i - 1)
    BY <1>4, <1>5
  <2>2. i - 1 \notin T
    BY <1>2, <2>1
  <2>3. Power[i - 1] \in Nat
    BY <2>1, PowerDef
  <2> QED BY <2>1, <2>2, <2>3
<1>6. i <= Bits - 1
  <2> SUFFICES ASSUME Bits <= i PROVE FALSE
    BY <1>4
  <2>1. Bits - 1 \in Nat /\ i - 1 \in Nat /\ Bits - 1 <= i - 1 /\ i > 0
    BY <1>4
  <2>2. Power[Bits - 1] <= Power[i - 1] /\ Power[Bits - 1] \in Nat /\ Power[i - 1] \in Nat
    BY <2>1, PowerGrows, PowerDef
  <2> QED BY <1>5, <2>1, <2>2
<1>7. Power[i] < Width
  <2>1. Bits - 1 \in Nat /\ (Bits - 1) + 1 = Bits
    OBVIOUS
  <2>2. Power[i] <= Power[Bits - 1] /\ Power[Bits] = 2 * Power[Bits - 1]
    BY <1>4, <1>6, <2>1, PowerGrows, PowerDef
  <2>3. Power[i] \in Nat /\ Power[Bits - 1] \in Nat \ {0}
    BY <1>4, <2>1, PowerDef
  <2> QED BY <2>2, <2>3 DEF Width
<1>8. NextPowerOfTwo(n) = Power[i]
  <2>1. Power[i] \in Nat /\ Width \in Nat \ {0}
    BY <1>4, PowerDef DEF Width
  <2>2. Power[i] % Width = Power[i]
    BY <1>7, <2>1
  <2> QED BY <1>3, <2>2 DEF NextPowerOfTwo
<1> QED BY <1>4, <1>5, <1>6, <1>8

-----------------------------------------------------------------------------
(* The mask. *)

\* What the lines of & say, of functions on pairs whose first is at most n.
Masks(g, n) ==
  /\ g \in [0 .. n -> [Nat -> Nat]]
  /\ \A x \in 0 .. n, y \in Nat :
       g[x][y] = IF x = 0 \/ y = 0 THEN 0
                 ELSE 2 * g[x \div 2][y \div 2] + (x % 2) * (y % 2)

\* Half of a number.
LEMMA Half ==
  ASSUME NEW x \in Nat
  PROVE  /\ x \div 2 \in Nat /\ x \div 2 <= x /\ (x > 0 => x \div 2 < x)
         /\ x % 2 \in {0, 1} /\ x = 2 * (x \div 2) + (x % 2)
OBVIOUS

\* The equation for & holds of it: the functions up to each n extend each other.
LEMMA AndDef ==
  /\ And \in [Nat -> [Nat -> Nat]]
  /\ \A x, y \in Nat :
       And[x][y] = IF x = 0 \/ y = 0 THEN 0
                   ELSE 2 * And[x \div 2][y \div 2] + (x % 2) * (y % 2)
<1>1. ASSUME NEW n \in Nat PROVE \E g : Masks(g, n)
  <2> DEFINE S == {m \in Nat : \E g : Masks(g, m)}
  <2>1. 0 \in S
    <3> DEFINE g == [u \in 0 .. 0 |-> [v \in Nat |-> 0]]
    <3>1. g \in [0 .. 0 -> [Nat -> Nat]]
      OBVIOUS
    <3>2. \A x \in 0 .. 0, y \in Nat : x = 0 /\ g[x][y] = 0
      OBVIOUS
    <3> HIDE DEF g
    <3>3. Masks(g, 0)
      BY <3>1, <3>2 DEF Masks
    <3> QED BY <3>3
  <2>2. ASSUME NEW m \in Nat, m \in S PROVE m + 1 \in S
    <3>1. PICK g : Masks(g, m)
      BY <2>2
    <3> DEFINE value(x, y) ==
                 IF x = 0 \/ y = 0 THEN 0
                 ELSE 2 * g[x \div 2][y \div 2] + (x % 2) * (y % 2)
               h == [u \in 0 .. m + 1 |-> [v \in Nat |-> value(u, v)]]
    <3>2. ASSUME NEW x \in 0 .. m + 1, NEW y \in Nat
          PROVE  /\ value(x, y) \in Nat
                 /\ h[x][y] = value(x, y)
                 /\ x \in 0 .. m => h[x][y] = g[x][y]
      <4>1. h[x][y] = value(x, y)
        OBVIOUS
      <4>2. CASE x = 0 \/ y = 0
        <5>1. value(x, y) = 0
          BY <4>2
        <5>2. x \in 0 .. m => g[x][y] = 0
          BY <3>1, <4>2 DEF Masks
        <5> QED BY <4>1, <5>1, <5>2
      <4>3. CASE ~ (x = 0 \/ y = 0)
        <5>1. x \div 2 \in 0 .. m /\ y \div 2 \in Nat /\ x % 2 \in Nat /\ y % 2 \in Nat
          BY <4>3
        <5>2. g[x \div 2][y \div 2] \in Nat
          BY <3>1, <5>1 DEF Masks
        <5>3. (x % 2) * (y % 2) \in Nat
          BY <5>1
        <5>4. value(x, y) = 2 * g[x \div 2][y \div 2] + (x % 2) * (y % 2)
          BY <4>3
        <5>5. x \in 0 .. m => g[x][y] = 2 * g[x \div 2][y \div 2] + (x % 2) * (y % 2)
          BY <3>1, <4>3 DEF Masks
        <5> HIDE DEF value, h
        <5> QED BY <4>1, <5>2, <5>3, <5>4, <5>5
      <4> QED BY <4>2, <4>3
    <3>3. h \in [0 .. m + 1 -> [Nat -> Nat]]
      <4> HIDE DEF value
      <4> QED BY <3>2
    <3>4. ASSUME NEW x \in 0 .. m + 1, NEW y \in Nat
          PROVE  h[x][y] = IF x = 0 \/ y = 0 THEN 0
                           ELSE 2 * h[x \div 2][y \div 2] + (x % 2) * (y % 2)
      <4>1. ~ (x = 0 \/ y = 0) =>
              x \div 2 \in 0 .. m /\ x \div 2 \in 0 .. m + 1 /\ y \div 2 \in Nat
        OBVIOUS
      <4>2. ~ (x = 0 \/ y = 0) => h[x \div 2][y \div 2] = g[x \div 2][y \div 2]
        <5> HIDE DEF h, value
        <5> QED BY <3>2, <4>1
      <4>3. h[x][y] = value(x, y)
        BY <3>2
      <4> HIDE DEF h
      <4> QED BY <4>2, <4>3
    <3> HIDE DEF h
    <3>5. Masks(h, m + 1)
      BY <3>3, <3>4 DEF Masks
    <3> QED BY <3>5
  <2> HIDE DEF S
  <2>3. n \in S
    BY <2>1, <2>2, Induct
  <2> QED BY <2>3 DEF S
<1>2. ASSUME NEW n \in Nat, NEW m \in Nat, NEW g, NEW h, Masks(g, n), Masks(h, m),
             NEW x \in Nat, x <= n, x <= m, NEW y \in Nat
      PROVE  g[x][y] = h[x][y]
  <2> DEFINE S == {j \in Nat : \A u \in 0 .. j, v \in Nat :
                                 u <= n /\ u <= m => g[u][v] = h[u][v]}
  <2>1. 0 \in S
    BY <1>2 DEF Masks
  <2>2. ASSUME NEW j \in Nat, j \in S PROVE j + 1 \in S
    <3> SUFFICES ASSUME NEW u \in 0 .. j + 1, NEW v \in Nat, u <= n, u <= m
                 PROVE  g[u][v] = h[u][v]
      OBVIOUS
    <3>1. u \in 0 .. n /\ u \in 0 .. m
      OBVIOUS
    <3>2. CASE u = 0 \/ v = 0
      BY <1>2, <3>1, <3>2 DEF Masks
    <3>3. CASE ~ (u = 0 \/ v = 0)
      <4>1. u \div 2 \in 0 .. j /\ v \div 2 \in Nat /\ u \div 2 <= n /\ u \div 2 <= m
        BY <3>3
      <4>2. g[u \div 2][v \div 2] = h[u \div 2][v \div 2]
        BY <2>2, <4>1
      <4>3. g[u][v] = 2 * g[u \div 2][v \div 2] + (u % 2) * (v % 2)
        BY <1>2, <3>1, <3>3 DEF Masks
      <4>4. h[u][v] = 2 * h[u \div 2][v \div 2] + (u % 2) * (v % 2)
        BY <1>2, <3>1, <3>3 DEF Masks
      <4> QED BY <4>2, <4>3, <4>4
    <3> QED BY <3>2, <3>3
  <2> HIDE DEF S
  <2>3. x \in S
    BY <2>1, <2>2, Induct
  <2> QED BY <1>2, <2>3 DEF S
<1> DEFINE G == [n \in Nat |-> CHOOSE g : Masks(g, n)]
           f == [x \in Nat |-> [y \in Nat |-> G[x][x][y]]]
<1>3. ASSUME NEW n \in Nat PROVE Masks(G[n], n)
  <2>1. G[n] = CHOOSE g : Masks(g, n)
    OBVIOUS
  <2> HIDE DEF G
  <2> QED BY <1>1, <2>1
<1> HIDE DEF G
<1>4. ASSUME NEW x \in Nat, NEW y \in Nat
      PROVE  f[x][y] = IF x = 0 \/ y = 0 THEN 0
                       ELSE 2 * f[x \div 2][y \div 2] + (x % 2) * (y % 2)
  <2>1. f[x][y] = G[x][x][y]
    OBVIOUS
  <2>2. CASE x = 0 \/ y = 0
    <3>1. PICK g : g = G[x]
      OBVIOUS
    <3>2. Masks(g, x) /\ x \in 0 .. x
      BY <1>3, <3>1
    <3>3. g[x][y] = 0
      BY <2>2, <3>2 DEF Masks
    <3> HIDE DEF f
    <3> QED BY <2>1, <2>2, <3>1, <3>3
  <2>3. CASE ~ (x = 0 \/ y = 0)
    <3>1. x \in 0 .. x /\ x \div 2 \in Nat /\ y \div 2 \in Nat /\ x \div 2 <= x
      BY Half
    <3>2. f[x \div 2][y \div 2] = G[x \div 2][x \div 2][y \div 2]
      BY <3>1
    <3> HIDE DEF f
    <3>3. G[x][x \div 2][y \div 2] = G[x \div 2][x \div 2][y \div 2]
      <4>1. Masks(G[x], x) /\ Masks(G[x \div 2], x \div 2) /\ x \div 2 <= x \div 2
        BY <1>3, <3>1
      <4> QED BY <1>2, <3>1, <4>1
    <3>4. G[x][x][y] = 2 * G[x][x \div 2][y \div 2] + (x % 2) * (y % 2)
      <4>1. PICK g : g = G[x]
        OBVIOUS
      <4>2. Masks(g, x)
        BY <1>3, <4>1
      <4>3. g[x][y] = 2 * g[x \div 2][y \div 2] + (x % 2) * (y % 2)
        BY <2>3, <3>1, <4>2 DEF Masks
      <4> QED BY <4>1, <4>3
    <3> QED BY <2>1, <2>3, <3>2, <3>3, <3>4
  <2> QED BY <2>2, <2>3
<1>5. \E a : a = [x \in Nat |-> [y \in Nat |->
                      IF x = 0 \/ y = 0 THEN 0
                      ELSE 2 * a[x \div 2][y \div 2] + (x % 2) * (y % 2)]]
  <2>1. f = [x \in Nat |-> [y \in Nat |-> f[x][y]]]
    OBVIOUS
  <2> HIDE DEF f
  <2>2. f = [x \in Nat |-> [y \in Nat |->
               IF x = 0 \/ y = 0 THEN 0
               ELSE 2 * f[x \div 2][y \div 2] + (x % 2) * (y % 2)]]
    <3>1. ASSUME NEW x \in Nat
          PROVE  [y \in Nat |-> f[x][y]]
                   = [y \in Nat |-> IF x = 0 \/ y = 0 THEN 0
                                    ELSE 2 * f[x \div 2][y \div 2] + (x % 2) * (y % 2)]
      BY <1>4
    <3> QED BY <2>1, <3>1, Zenon
  <2> QED BY <2>2
<1> HIDE DEF f
<1>6. And = [x \in Nat |-> [y \in Nat |->
               IF x = 0 \/ y = 0 THEN 0
               ELSE 2 * And[x \div 2][y \div 2] + (x % 2) * (y % 2)]]
  BY <1>5 DEF And
<1>7. ASSUME NEW x \in Nat, NEW y \in Nat
      PROVE  And[x][y] = IF x = 0 \/ y = 0 THEN 0
                         ELSE 2 * And[x \div 2][y \div 2] + (x % 2) * (y % 2)
  BY <1>6
<1>8. \A x, y \in Nat : And[x][y] \in Nat
  <2> DEFINE S == {j \in Nat : \A u \in 0 .. j, v \in Nat : And[u][v] \in Nat}
  <2>1. 0 \in S
    BY <1>7
  <2>2. ASSUME NEW j \in Nat, j \in S PROVE j + 1 \in S
    <3> SUFFICES ASSUME NEW u \in 0 .. j + 1, NEW v \in Nat, ~ (u = 0 \/ v = 0)
                 PROVE  And[u][v] \in Nat
      BY <1>7
    <3>1. u \div 2 \in 0 .. j /\ v \div 2 \in Nat /\ (u % 2) * (v % 2) \in Nat
      OBVIOUS
    <3>2. And[u \div 2][v \div 2] \in Nat
      BY <2>2, <3>1
    <3>3. And[u][v] = 2 * And[u \div 2][v \div 2] + (u % 2) * (v % 2)
      BY <1>7
    <3> QED BY <3>1, <3>2, <3>3
  <2> HIDE DEF S
  <2>3. Nat \subseteq S
    BY <2>1, <2>2, Induct
  <2>4. ASSUME NEW x \in Nat, NEW y \in Nat PROVE And[x][y] \in Nat
    <3>1. x \in S /\ x \in 0 .. x
      BY <2>3
    <3> QED BY <3>1 DEF S
  <2> QED BY <2>4
<1>9. And \in [Nat -> [Nat -> Nat]]
  <2>1. And = [x \in Nat |-> [y \in Nat |-> And[x][y]]]
    BY <1>6
  <2> QED BY <1>8, <2>1
<1> QED BY <1>7, <1>9

\* The mask Power[i] - 1 keeps the low i bits: what it yields is below Power[i],
\* and a number below Power[i] it leaves alone.
LEMMA MaskOf ==
  ASSUME NEW i \in Nat, NEW x \in Nat
  PROVE  /\ And[x][Power[i] - 1] \in 0 .. Power[i] - 1
         /\ x < Power[i] => And[x][Power[i] - 1] = x
<1> DEFINE S == {n \in Nat : \A y \in Nat :
                   /\ And[y][Power[n] - 1] \in 0 .. Power[n] - 1
                   /\ y < Power[n] => And[y][Power[n] - 1] = y}
<1>1. 0 \in S
  <2>1. Power[0] = 1 /\ Power[0] - 1 = 0
    BY PowerDef
  <2>2. \A y \in Nat : And[y][0] = 0
    BY AndDef
  <2>3. \A y \in Nat : y < 1 => y = 0
    OBVIOUS
  <2> QED BY <2>1, <2>2, <2>3
<1>2. ASSUME NEW n \in Nat, n \in S PROVE n + 1 \in S
  <2> SUFFICES ASSUME NEW y \in Nat
               PROVE  /\ And[y][Power[n + 1] - 1] \in 0 .. Power[n + 1] - 1
                      /\ y < Power[n + 1] => And[y][Power[n + 1] - 1] = y
    OBVIOUS
  <2>1. PICK p \in Nat \ {0} : p = Power[n]
    BY PowerDef
  <2>2. Power[n + 1] = 2 * p
    BY <2>1, PowerDef
  <2>3. /\ 2 * p - 1 \in Nat /\ 2 * p - 1 # 0
        /\ (2 * p - 1) \div 2 = p - 1 /\ (2 * p - 1) % 2 = 1
    OBVIOUS
  <2>4. CASE y = 0
    <3>1. PICK q \in Nat : q = 2 * p - 1
      BY <2>3
    <3>2. And[y][q] = 0
      BY <2>4, AndDef
    <3> QED BY <2>2, <2>4, <3>1, <3>2
  <2>5. CASE y # 0
    <3>1. /\ y \div 2 \in Nat /\ y % 2 \in {0, 1} /\ y = 2 * (y \div 2) + (y % 2)
          /\ (y % 2) * 1 = y % 2
      BY Half
    <3>2. And[y][2 * p - 1] = 2 * And[y \div 2][p - 1] + (y % 2)
      <4>1. PICK q \in Nat : q = 2 * p - 1
        BY <2>3
      <4>2. q # 0 /\ q \div 2 = p - 1 /\ q % 2 = 1
        BY <2>3, <4>1
      <4>3. And[y][q] = 2 * And[y \div 2][q \div 2] + (y % 2) * (q % 2)
        BY <2>5, <4>2, AndDef
      <4> QED BY <3>1, <4>1, <4>2, <4>3
    <3>3. /\ And[y \div 2][p - 1] \in 0 .. p - 1
          /\ y \div 2 < p => And[y \div 2][p - 1] = y \div 2
      BY <1>2, <2>1, <3>1
    <3>4. y < 2 * p => y \div 2 < p
      BY <3>1
    <3>5. PICK a \in 0 .. p - 1 : a = And[y \div 2][p - 1]
      BY <3>3
    <3>6. 2 * a + (y % 2) \in 0 .. 2 * p - 1
      BY <3>1
    <3> QED BY <2>2, <3>1, <3>2, <3>3, <3>4, <3>5, <3>6
  <2> QED BY <2>4, <2>5
<1> HIDE DEF S
<1>3. i \in S
  BY <1>1, <1>2, Induct
<1> QED BY <1>3 DEF S
-----------------------------------------------------------------------------
(* The builder. *)

\* Either nothing is built yet, or the shards are as many as compute_shard_count
\* says for the builder's fields, which no longer change.
BuilderInv ==
  /\ max_size \in usize
  /\ shard_count \in usize \cup {None}
  /\ shards \in {None, ComputeShardCount(max_size,
                         IF shard_count = None THEN DefaultShardCount ELSE shard_count)}

\* The minimum and the maximum of two numbers.
LEMMA OfTwo ==
  ASSUME NEW a \in Nat, NEW b \in Nat
  PROVE  /\ Min({a, b}) = IF a <= b THEN a ELSE b
         /\ Max({a, b}) = IF a <= b THEN b ELSE a
<1>1. Min({a, b}) = CHOOSE x \in {a, b} : \A y \in {a, b} : x <= y
  BY DEF Min
<1>2. Max({a, b}) = CHOOSE x \in {a, b} : \A y \in {a, b} : x >= y
  BY DEF Max
<1>3. PICK l \in {a, b} : l = IF a <= b THEN a ELSE b
  OBVIOUS
<1>4. PICK g \in {a, b} : g = IF a <= b THEN b ELSE a
  OBVIOUS
<1>5. \A y \in {a, b} : l <= y /\ y <= g
  BY <1>3, <1>4
<1>6. Min({a, b}) \in {a, b} /\ \A y \in {a, b} : Min({a, b}) <= y
  BY <1>1, <1>5
<1>7. Max({a, b}) \in {a, b} /\ \A y \in {a, b} : Max({a, b}) >= y
  BY <1>2, <1>5
<1> QED BY <1>6, <1>7

\* Half of usize is a power of two, and half of what any capacity gives.
LEMMA HalfOfWidth ==
  /\ Width \in Nat \ {0} /\ Power[Bits - 1] \in Nat \ {0}
  /\ Width = 2 * Power[Bits - 1]
<1>1. Bits - 1 \in Nat /\ (Bits - 1) + 1 = Bits
  OBVIOUS
<1> QED BY <1>1, PowerDef DEF Width

\* The number of shards is a power of two that usize holds; it is at least what
\* was asked for and allowed, and less than twice that, or 1.
LEMMA ComputeShardCountOf ==
  ASSUME NEW capacity \in usize, NEW desired \in usize,
         NEW wanted, wanted = Min({desired, AtLeastOne(capacity \div MinShardSize)})
  PROVE  \E i \in 0 .. Bits - 1 :
           /\ ComputeShardCount(capacity, desired) = Power[i]
           /\ wanted \in Nat /\ wanted <= Power[i]
           /\ wanted <= AtLeastOne(capacity \div MinShardSize)
           /\ i > 0 => Power[i - 1] < wanted
<1>1. PICK most \in Nat : most = capacity \div MinShardSize
  BY HalfOfWidth DEF usize
<1>2. PICK w \in Nat : w = Power[Bits - 1]
  BY HalfOfWidth
<1>3. w > 0 /\ Width = 2 * w
  BY <1>2, HalfOfWidth
<1>4. most < w
  <2>1. PICK h \in Nat \ {0} : MinShardSize = 2 * h
    <3>1. MinShardSize = 2 * (MinShardSize \div 2) /\ MinShardSize \div 2 \in Nat \ {0}
      OBVIOUS
    <3> QED BY <3>1
  <2>2. MinShardSize * most <= capacity /\ capacity < 2 * w
    BY <1>1, <1>3 DEF usize
  <2>3. 2 * most <= MinShardSize * most
    BY <2>1
  <2> QED BY <2>2, <2>3, HalfOfWidth DEF usize
<1>5. AtLeastOne(most) = IF most <= 1 THEN 1 ELSE most
  BY OfTwo DEF AtLeastOne
<1>6. AtLeastOne(most) \in Nat /\ AtLeastOne(most) <= w
  BY <1>3, <1>4, <1>5
<1>7. wanted = IF desired <= AtLeastOne(most) THEN desired ELSE AtLeastOne(most)
  BY <1>1, <1>6, OfTwo DEF usize
<1>8. wanted \in Nat /\ wanted <= AtLeastOne(most) /\ wanted <= w
  BY <1>6, <1>7 DEF usize
<1>9. PICK i \in 0 .. Bits - 1 :
        /\ NextPowerOfTwo(wanted) = Power[i] /\ wanted <= Power[i]
        /\ i > 0 => Power[i - 1] < wanted
  BY <1>2, <1>8, NextPowerOfTwoOf
<1>10. AtLeastOne(Power[i]) = Power[i]
  <2>1. PICK p \in Nat \ {0} : p = Power[i]
    BY PowerDef
  <2>2. Max({p, 1}) = p
    BY OfTwo
  <2> QED BY <2>1, <2>2 DEF AtLeastOne
<1>11. ComputeShardCount(capacity, desired) = Power[i]
  BY <1>1, <1>9, <1>10 DEF ComputeShardCount
<1> QED BY <1>1, <1>8, <1>9, <1>11

LEMMA BuilderInvariant == Spec => []BuilderInv
<1>1. Init => BuilderInv
  BY DEF Init, BuilderInv
<1>2. BuilderInv /\ [Next]_vars => BuilderInv'
  <2> SUFFICES ASSUME BuilderInv, [Next]_vars PROVE BuilderInv'
    OBVIOUS
  <2>1. ASSUME NEW count \in usize, SetShards(count) PROVE BuilderInv'
    BY <2>1 DEF SetShards, BuilderInv
  <2>2. CASE Build
    BY <2>2 DEF Build, BuilderInv
  <2>3. CASE UNCHANGED vars
    BY <2>3 DEF vars, BuilderInv
  <2> QED BY <2>1, <2>2, <2>3 DEF Next
<1> QED BY <1>1, <1>2, PTL DEF Spec

\* What the fields of the builder are once its shards are.
LEMMA BuiltShards ==
  ASSUME BuilderInv, Built,
         NEW desired, desired = IF shard_count = None THEN DefaultShardCount ELSE shard_count,
         NEW wanted, wanted = Min({desired, AtLeastOne(max_size \div MinShardSize)})
  PROVE  \E i \in 0 .. Bits - 1 :
           /\ shards = Power[i]
           /\ wanted \in Nat /\ wanted <= Power[i]
           /\ wanted <= AtLeastOne(max_size \div MinShardSize)
           /\ i > 0 => Power[i - 1] < wanted
<1>1. shards = ComputeShardCount(max_size, desired)
  BY DEF BuilderInv, Built
<1>2. max_size \in usize /\ desired \in usize
  BY DEF BuilderInv, usize
<1> QED BY <1>1, <1>2, ComputeShardCountOf

\* Every hash selects a shard of the cache and every shard is selected by some
\* hash, for any capacity and any number of shards asked for: the mask by
\* shard_count - 1 neither runs past the shards nor leaves one idle.
THEOREM AllShardsServe == Spec => []EveryShardServes
<1>1. BuilderInv => EveryShardServes
  <2> SUFFICES ASSUME BuilderInv, Built
               PROVE  {ShardOfHash(hash) : hash \in usize} = 0 .. shards - 1
    BY DEF EveryShardServes
  <2>1. PICK i \in 0 .. Bits - 1 : shards = Power[i]
    BY BuiltShards
  <2>2. i \in Nat /\ Power[i] \in Nat \ {0} /\ Power[i] <= Width
    <3>1. i <= Bits /\ i \in Nat
      OBVIOUS
    <3> QED BY <3>1, PowerDef, PowerGrows DEF Width
  <2>3. ASSUME NEW hash \in usize PROVE ShardOfHash(hash) \in 0 .. shards - 1
    <3>1. hash \in Nat
      BY HalfOfWidth DEF usize
    <3> QED BY <2>1, <2>2, <3>1, MaskOf DEF ShardOfHash
  <2>4. ASSUME NEW s \in 0 .. shards - 1 PROVE s \in usize /\ ShardOfHash(s) = s
    <3>1. s \in Nat /\ s < Power[i]
      BY <2>1, <2>2
    <3>2. s \in usize
      BY <2>2, <3>1, HalfOfWidth DEF usize
    <3> QED BY <2>1, <2>2, <3>1, <3>2, MaskOf DEF ShardOfHash
  <2> QED BY <2>3, <2>4
<1> QED BY <1>1, BuilderInvariant, PTL

\* A quotient is at least what its divisor times is no more than the dividend.
LEMMA QuotientAtLeast ==
  ASSUME NEW a \in Nat, NEW b \in Nat \ {0}, NEW q \in Nat, b * q <= a
  PROVE  q <= a \div b
<1>1. a \div b \in Nat /\ a = b * (a \div b) + (a % b) /\ a % b \in 0 .. b - 1
  OBVIOUS
<1>2. PICK d \in Nat, r \in 0 .. b - 1 : d = a \div b /\ a = b * d + r
  BY <1>1
<1>3. SUFFICES ASSUME d < q PROVE FALSE
  BY <1>2
<1>4. b * (d + 1) <= b * q
  <2>1. PICK e \in Nat : q = (d + 1) + e
    <3>1. q - (d + 1) \in Nat /\ q = (d + 1) + (q - (d + 1))
      BY <1>3
    <3> QED BY <3>1
  <2>2. b * q = b * (d + 1) + b * e /\ b * e \in Nat
    BY <2>1
  <2> QED BY <2>2
<1>5. b * (d + 1) = b * d + b
  OBVIOUS
<1> QED BY <1>2, <1>4, <1>5

\* Rounding the number of shards up to a power of two costs a shard at most half
\* of MIN_SHARD_SIZE, and never gives fewer shards than were asked for and allowed.
THEOREM ShardsKeepHalfTheMinimum == Spec => []ShardsHaveHalfTheMinimum
<1>1. BuilderInv => ShardsHaveHalfTheMinimum
  <2> SUFFICES ASSUME BuilderInv, Built PROVE ShardsHaveHalfTheMinimum
    BY DEF ShardsHaveHalfTheMinimum
  <2>1. PICK desired :
          desired = IF shard_count = None THEN DefaultShardCount ELSE shard_count
    OBVIOUS
  <2>2. PICK wanted : wanted = Min({desired, AtLeastOne(max_size \div MinShardSize)})
    OBVIOUS
  <2>3. PICK i \in 0 .. Bits - 1 :
          /\ shards = Power[i]
          /\ wanted \in Nat /\ wanted <= Power[i]
          /\ wanted <= AtLeastOne(max_size \div MinShardSize)
          /\ i > 0 => Power[i - 1] < wanted
    BY <2>1, <2>2, BuiltShards
  <2>4. ASSUME shards > 1 PROVE 2 * SizePerShard >= MinShardSize
    <3>1. max_size \in Nat
      BY HalfOfWidth DEF BuilderInv, usize
    <3>2. PICK most \in Nat : most = max_size \div MinShardSize
      BY <3>1
    <3>3. most * MinShardSize <= max_size
      BY <3>1, <3>2
    <3>4. i > 0
      BY <2>3, <2>4, PowerDef
    <3>5. i - 1 \in Nat /\ (i - 1) + 1 = i
      BY <3>4
    <3>6. PICK half \in Nat \ {0} : half = Power[i - 1]
      BY <3>5, PowerDef
    <3>7. shards = 2 * half
      BY <2>3, <3>5, <3>6, PowerDef
    <3>8. AtLeastOne(most) = IF most <= 1 THEN 1 ELSE most
      BY OfTwo DEF AtLeastOne
    <3>9. half < most
      BY <2>3, <3>2, <3>4, <3>6, <3>8
    <3>10. PICK h \in Nat \ {0} : MinShardSize = 2 * h
      <4>1. MinShardSize = 2 * (MinShardSize \div 2) /\ MinShardSize \div 2 \in Nat \ {0}
        OBVIOUS
      <4> QED BY <4>1
    <3>11. (2 * half) * h <= max_size
      <4>1. PICK e \in Nat : most = half + e
        <5>1. most - half \in Nat /\ most = half + (most - half)
          BY <3>9
        <5> QED BY <5>1
      <4>2. most * MinShardSize = half * MinShardSize + e * MinShardSize
        BY <4>1
      <4>3. e * MinShardSize \in Nat /\ half * MinShardSize = (2 * half) * h
        BY <3>10
      <4> QED BY <3>1, <3>3, <4>2, <4>3
    <3>12. h <= max_size \div (2 * half)
      <4>1. 2 * half \in Nat \ {0}
        OBVIOUS
      <4> QED BY <3>1, <3>11, <4>1, QuotientAtLeast
    <3>13. PICK q \in Nat : q = max_size \div (2 * half)
      <4>1. PICK b \in Nat \ {0} : b = 2 * half
        OBVIOUS
      <4>2. max_size \div b \in Nat
        BY <3>1
      <4> QED BY <4>1, <4>2
    <3> QED BY <3>7, <3>10, <3>12, <3>13 DEF SizePerShard
  <2>5. shards >= wanted
    BY <2>3
  <2> QED BY <2>1, <2>2, <2>4, <2>5 DEF ShardsHaveHalfTheMinimum
<1> QED BY <1>1, BuilderInvariant, PTL
=============================================================================
