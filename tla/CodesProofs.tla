---------------------------- MODULE CodesProofs ----------------------------
(***************************************************************************)
(* Proofs about codes of any length, in any words, typed in any way.       *)
(***************************************************************************)
EXTENDS Codes, SequenceTheorems, WellFoundedInduction, TLAPS

-----------------------------------------------------------------------------
(* Induction: the least number that fails would follow one that does not.   *)

\* A set of numbers that has the first and with each the next has them all.
LEMMA AllNumbers ==
    ASSUME NEW n \in Nat, NEW T, 1 \in T, \A k \in 1 .. n - 1 : k \in T => k + 1 \in T
    PROVE  1 .. n \subseteq T
<1> DEFINE Below == OpToRel(<, Nat)
           Failing == (1 .. n) \ T
<1> SUFFICES ASSUME Failing # {} PROVE FALSE
  OBVIOUS
<1>1. Failing \subseteq Nat
  OBVIOUS
<1>2. PICK k \in Failing : \A j \in Failing : ~(<<j, k>> \in Below)
  <2>1. IsWellFoundedOn(Below, Nat)
    BY NatLessThanWellFounded
  <2> HIDE DEF Below, Failing
  <2> QED BY <1>1, <2>1, WFMin
<1>3. Below = {pair \in Nat \X Nat : pair[1] < pair[2]}
  BY DEF OpToRel
<1> HIDE DEF Below
<1>4. \A j \in Failing : ~(j < k)
  <2> HIDE DEF Failing
  <2> QED BY <1>1, <1>2, <1>3
<1>5. k - 1 \in T /\ k - 1 \in 1 .. n - 1
  BY <1>4
<1>6. (k - 1) + 1 \in T
  BY <1>5
<1> QED BY <1>6

-----------------------------------------------------------------------------
(* What FlattenSeq computes.                                                *)

\* h is the first k results of concatenating the sequences s.
Joins(s, h, k) ==
    \A i \in 1 .. k : h[i] = IF i = 1 THEN s[i] ELSE h[i - 1] \o s[i]

LEMMA JoinsExist ==
    ASSUME NEW S, NEW s, NEW n \in Nat \ {0}, \A i \in 1 .. n : s[i] \in Seq(S)
    PROVE  \E h \in [1 .. n -> Seq(S)] : Joins(s, h, n)
<1> DEFINE T == {k \in 1 .. n : \E h \in [1 .. k -> Seq(S)] : Joins(s, h, k)}
<1>1. 1 \in T
  <2> DEFINE h == [i \in 1 .. 1 |-> s[1]]
  <2>1. h \in [1 .. 1 -> Seq(S)] /\ Joins(s, h, 1)
    BY DEF Joins
  <2> QED BY <2>1
<1>2. ASSUME NEW k \in 1 .. n - 1, k \in T PROVE k + 1 \in T
  <2>1. PICK h \in [1 .. k -> Seq(S)] : Joins(s, h, k)
    BY <1>2
  <2> DEFINE g == [i \in 1 .. k + 1 |-> IF i = k + 1 THEN h[k] \o s[i] ELSE h[i]]
  <2>2. g \in [1 .. k + 1 -> Seq(S)]
    BY <2>1
  <2>3. \A i \in 1 .. k + 1 : g[i] = IF i = k + 1 THEN h[k] \o s[i] ELSE h[i]
    OBVIOUS
  <2>4. k \in 1 .. n /\ k + 1 \in 1 .. n /\ k # 0
    OBVIOUS
  <2> HIDE DEF g
  <2>5. ASSUME NEW i \in 1 .. k + 1
        PROVE  g[i] = IF i = 1 THEN s[i] ELSE g[i - 1] \o s[i]
    <3>1. CASE i = k + 1
      <4>1. i - 1 = k /\ i # 1 /\ k \in 1 .. k + 1 /\ k # k + 1
        BY <2>4, <3>1
      <4> QED BY <2>3, <3>1, <4>1
    <3>2. CASE i # k + 1
      <4>1. i \in 1 .. k /\ i - 1 # k + 1 /\ (i # 1 => i - 1 \in 1 .. k + 1)
        BY <2>4, <3>2
      <4>2. h[i] = IF i = 1 THEN s[i] ELSE h[i - 1] \o s[i]
        BY <2>1, <4>1 DEF Joins
      <4> QED BY <2>3, <3>2, <4>1, <4>2
    <3> QED BY <3>1, <3>2
  <2>6. Joins(s, g, k + 1)
    BY <2>5 DEF Joins
  <2> QED BY <2>2, <2>4, <2>6
<1> HIDE DEF T
<1>3. 1 .. n \subseteq T
  BY <1>1, <1>2, AllNumbers
<1> QED BY <1>3 DEF T

LEMMA FlattenJoins ==
    ASSUME NEW S, NEW s, NEW n \in Nat \ {0}, Len(s) = n,
           \A i \in 1 .. n : s[i] \in Seq(S)
    PROVE  \E h \in [1 .. n -> Seq(S)] : Joins(s, h, n) /\ FlattenSeq(s) = h[n]
<1> DEFINE Is(h) == h = [i \in 1 .. n |-> IF i = 1 THEN s[i] ELSE h[i - 1] \o s[i]]
           f == CHOOSE h : Is(h)
<1>1. FlattenSeq(s) = f[n]
  BY DEF FlattenSeq
<1>2. PICK h \in [1 .. n -> Seq(S)] : Joins(s, h, n)
  BY JoinsExist
<1>3. Is(h)
  BY <1>2 DEF Joins
<1>4. Is(f)
  <2> HIDE DEF Is
  <2> QED BY <1>3
<1>5. Joins(s, f, n) /\ f = [i \in 1 .. n |-> f[i]]
  BY <1>4 DEF Joins
<1> HIDE DEF f, Is
<1>6. f \in [1 .. n -> Seq(S)]
  <2> DEFINE T == {k \in 1 .. n : f[k] \in Seq(S)}
  <2>1. 1 \in T
    <3>1. 1 \in 1 .. n
      OBVIOUS
    <3>2. f[1] = s[1]
      BY <1>5, <3>1 DEF Joins
    <3> QED BY <3>1, <3>2
  <2>2. ASSUME NEW k \in 1 .. n - 1, k \in T PROVE k + 1 \in T
    <3>1. k + 1 \in 1 .. n /\ k + 1 # 1 /\ (k + 1) - 1 = k
      OBVIOUS
    <3>2. f[k + 1] = f[k] \o s[k + 1]
      BY <1>5, <3>1 DEF Joins
    <3>3. f[k] \in Seq(S) /\ s[k + 1] \in Seq(S)
      BY <2>2, <3>1
    <3>4. f[k] \o s[k + 1] \in Seq(S)
      BY <3>3
    <3>5. f[k + 1] \in Seq(S)
      BY <3>2, <3>4
    <3> QED BY <3>1, <3>5
  <2> HIDE DEF T
  <2>3. 1 .. n \subseteq T
    BY <2>1, <2>2, AllNumbers
  <2> QED BY <1>5, <2>3 DEF T
<1> QED BY <1>1, <1>5, <1>6

-----------------------------------------------------------------------------
(* What NormalizeCode writes.                                               *)

Symbols == Letters \cup AnyDigit \cup {Hyphen}

\* No hyphen at the start or behind another, no digit straight after a letter.
Tidy(c) ==
    /\ c \in Seq(Symbols)
    /\ \A i \in 1 .. Len(c) : c[i] = Hyphen => i > 1 /\ c[i - 1] # Hyphen
    /\ \A i \in 2 .. Len(c) : c[i] \in AnyDigit => c[i - 1] \notin Letters

\* The form codes are written in: tidy, and no hyphen at the end.
Normal(c) == Tidy(c) /\ (c # <<>> => c[Len(c)] # Hyphen)

\* What has been written when the last rune folds to r.
Written(c, r) ==
    /\ Tidy(c)
    /\ IF r = Separator THEN c = <<>> \/ c[Len(c)] = Hyphen
       ELSE c # <<>> /\ c[Len(c)] = r

LEMMA SymbolsDiffer ==
    /\ Letters \cap AnyDigit = {}
    /\ Hyphen \notin Letters \cup AnyDigit
    /\ Separator \notin Letters \cup AnyDigit
BY CodesAssumption

LEMMA AppendedSymbol ==
    ASSUME NEW S, NEW c \in Seq(S), NEW x \in S
    PROVE  /\ Append(c, x) \in Seq(S) /\ c \o <<x>> = Append(c, x)
           /\ Len(c) \in Nat /\ Len(Append(c, x)) = Len(c) + 1
           /\ Append(c, x)[Len(c) + 1] = x
           /\ \A i \in 1 .. Len(c) : Append(c, x)[i] = c[i]
           /\ c # <<>> <=> Len(c) > 0
OBVIOUS

LEMMA TidyGrows ==
    ASSUME NEW c, Tidy(c), NEW x \in Symbols,
           x = Hyphen => c # <<>> /\ c[Len(c)] # Hyphen,
           x \in AnyDigit /\ c # <<>> => c[Len(c)] \notin Letters
    PROVE  Tidy(Append(c, x)) /\ Append(c, x)[Len(Append(c, x))] = x /\ Append(c, x) # <<>>
<1> DEFINE n == Len(c)
           d == Append(c, x)
<1>1. /\ d \in Seq(Symbols) /\ n \in Nat /\ Len(d) = n + 1 /\ d[n + 1] = x /\ d # <<>>
      /\ \A i \in 1 .. n : d[i] = c[i]
      /\ c # <<>> <=> n > 0
  BY AppendedSymbol DEF Tidy
<1>2. /\ \A i \in 1 .. n : c[i] = Hyphen => i > 1 /\ c[i - 1] # Hyphen
      /\ \A i \in 2 .. n : c[i] \in AnyDigit => c[i - 1] \notin Letters
  BY DEF Tidy
<1>3. /\ x = Hyphen => n > 0 /\ c[n] # Hyphen
      /\ x \in AnyDigit /\ n > 0 => c[n] \notin Letters
  BY <1>1
<1> HIDE DEF n, d
<1>4. ASSUME NEW i \in 1 .. n + 1, d[i] = Hyphen PROVE i > 1 /\ d[i - 1] # Hyphen
  <2>1. CASE i = n + 1
    BY <1>1, <1>3, <1>4, <2>1
  <2>2. CASE i # n + 1
    <3>1. i \in 1 .. n
      BY <1>1, <2>2
    <3>2. i > 1 /\ c[i - 1] # Hyphen
      BY <1>1, <1>2, <1>4, <3>1
    <3> QED BY <1>1, <3>1, <3>2
  <2> QED BY <2>1, <2>2
<1>5. ASSUME NEW i \in 2 .. n + 1, d[i] \in AnyDigit PROVE d[i - 1] \notin Letters
  <2>1. CASE i = n + 1
    BY <1>1, <1>3, <1>5, <2>1
  <2>2. CASE i # n + 1
    <3>1. i \in 2 .. n /\ i \in 1 .. n /\ i - 1 \in 1 .. n
      BY <1>1, <2>2
    <3> QED BY <1>1, <1>2, <1>5, <3>1
  <2> QED BY <2>1, <2>2
<1> QED BY <1>1, <1>4, <1>5 DEF Tidy, d

LEMMA WritesTidily ==
    ASSUME NEW typed \in Seq(DOMAIN Plain), NEW i \in 1 .. Len(typed),
           NEW c, Written(c, Before(typed, i))
    PROVE  /\ Written(c \o Writes(typed, i), Plain[typed[i]])
           /\ Writes(typed, i) \in Seq(Symbols)
<1> DEFINE r == Plain[typed[i]]
           b == Before(typed, i)
           d == Writes(typed, i)
<1>1. r \in Letters \cup AnyDigit \cup {Separator}
  <2>1. typed[i] \in DOMAIN Plain
    OBVIOUS
  <2> QED BY <2>1, CodesAssumption
<1>2. b \in Letters \cup AnyDigit \cup {Separator}
  <2>1. CASE i = 1
    BY <2>1 DEF Before
  <2>2. CASE i # 1
    <3>1. typed[i - 1] \in DOMAIN Plain
      BY <2>2
    <3> QED BY <2>2, <3>1, CodesAssumption DEF Before
  <2> QED BY <2>1, <2>2
<1>3. /\ r \in AnyDigit /\ b \in Letters => d = <<Hyphen, r>>
      /\ r \in Letters => d = <<r>>
      /\ r \in AnyDigit /\ b \notin Letters => d = <<r>>
      /\ r = Separator /\ b # Separator => d = <<Hyphen>>
      /\ r = Separator /\ b = Separator => d = <<>>
  BY SymbolsDiffer DEF Writes
<1>4. Tidy(c) /\ c \in Seq(Symbols) /\ Written(c, b)
  BY DEF Written, Tidy
<1> HIDE DEF r, b, d
<1>5. CASE r \in AnyDigit /\ b \in Letters
  <2> DEFINE e == Append(c, Hyphen)
  <2>1. Hyphen \in Symbols /\ r \in Symbols
    BY <1>5 DEF Symbols
  <2>2. c # <<>> /\ c[Len(c)] \in Letters
    BY <1>4, <1>5, SymbolsDiffer DEF Written
  <2>3. Tidy(e) /\ e[Len(e)] = Hyphen /\ e # <<>>
    BY <1>4, <2>1, <2>2, SymbolsDiffer, TidyGrows
  <2>4. Tidy(Append(e, r)) /\ Append(e, r)[Len(Append(e, r))] = r /\ Append(e, r) # <<>>
    <3> HIDE DEF e
    <3> QED BY <1>5, <2>1, <2>3, SymbolsDiffer, TidyGrows
  <2>5. c \o <<Hyphen, r>> = Append(e, r) /\ <<Hyphen, r>> \in Seq(Symbols)
    BY <1>4, <2>1
  <2> QED BY <1>3, <1>5, <2>4, <2>5, SymbolsDiffer DEF Written, d, r
<1>6. CASE r \in Letters \/ (r \in AnyDigit /\ b \notin Letters)
  <2>1. r \in Symbols /\ r # Hyphen
    BY <1>6, SymbolsDiffer DEF Symbols
  <2>2. r \in AnyDigit /\ c # <<>> => c[Len(c)] \notin Letters
    BY <1>2, <1>4, <1>6, SymbolsDiffer DEF Written
  <2>3. Tidy(Append(c, r)) /\ Append(c, r)[Len(Append(c, r))] = r /\ Append(c, r) # <<>>
    BY <1>4, <2>1, <2>2, TidyGrows
  <2>4. c \o <<r>> = Append(c, r) /\ <<r>> \in Seq(Symbols)
    BY <1>4, <2>1
  <2> QED BY <1>3, <1>6, <2>3, <2>4, SymbolsDiffer DEF Written, d, r
<1>7. CASE r = Separator /\ b # Separator
  <2>1. Hyphen \in Symbols
    BY DEF Symbols
  <2>2. c # <<>> /\ c[Len(c)] # Hyphen
    BY <1>2, <1>4, <1>7, SymbolsDiffer DEF Written
  <2>3. Tidy(Append(c, Hyphen)) /\ Append(c, Hyphen)[Len(Append(c, Hyphen))] = Hyphen
    BY <1>4, <2>1, <2>2, SymbolsDiffer, TidyGrows
  <2>4. c \o <<Hyphen>> = Append(c, Hyphen) /\ <<Hyphen>> \in Seq(Symbols)
    BY <1>4, <2>1
  <2> QED BY <1>3, <1>7, <2>3, <2>4 DEF Written, d, r
<1>8. CASE r = Separator /\ b = Separator
  <2>1. c \o <<>> = c /\ <<>> \in Seq(Symbols)
    BY <1>4
  <2> QED BY <1>3, <1>4, <1>8, <2>1 DEF d, r, b, Written
<1> QED BY <1>1, <1>5, <1>6, <1>7, <1>8

LEMMA WritesSymbols ==
    ASSUME NEW typed \in Seq(DOMAIN Plain), NEW i \in 1 .. Len(typed)
    PROVE  /\ Plain[typed[i]] \in Letters \cup AnyDigit \cup {Separator}
           /\ Writes(typed, i) \in Seq(Symbols)
<1>1. typed[i] \in DOMAIN Plain
  OBVIOUS
<1>2. Plain[typed[i]] \in Letters \cup AnyDigit \cup {Separator}
  BY <1>1, CodesAssumption
<1>3. Writes(typed, i) \in {<<Hyphen, Plain[typed[i]]>>, <<Plain[typed[i]]>>, <<Hyphen>>, <<>>}
  BY <1>2 DEF Writes
<1>4. \A x \in Symbols : <<Hyphen, x>> \in Seq(Symbols) /\ <<x>> \in Seq(Symbols)
  <2>1. Hyphen \in Symbols
    BY DEF Symbols
  <2> QED BY <2>1
<1>5. <<>> \in Seq(Symbols) /\ <<Hyphen>> \in Seq(Symbols)
  BY <1>4 DEF Symbols
<1>6. Plain[typed[i]] \in Symbols \/ Plain[typed[i]] = Separator
  BY <1>2 DEF Symbols
<1>7. Plain[typed[i]] = Separator => Writes(typed, i) \in {<<Hyphen>>, <<>>}
  BY SymbolsDiffer DEF Writes
<1> QED BY <1>2, <1>3, <1>4, <1>5, <1>6, <1>7

\* What is written before the last hyphen is dropped.
Flattened(typed) == FlattenSeq([i \in DOMAIN typed |-> Writes(typed, i)])

LEMMA FlattenedIsTidy ==
    ASSUME NEW typed \in Seq(DOMAIN Plain)
    PROVE  Tidy(Flattened(typed))
<1> DEFINE n == Len(typed)
           s == [i \in DOMAIN typed |-> Writes(typed, i)]
<1>1. n \in Nat /\ DOMAIN typed = 1 .. n /\ Len(s) = n
  OBVIOUS
<1>2. Tidy(<<>>) /\ Written(<<>>, Separator)
  BY DEF Tidy, Written
<1>3. CASE n = 0
  <2>1. s = <<>>
    BY <1>1, <1>3
  <2>2. FlattenSeq(s) = <<>>
    BY <2>1 DEF FlattenSeq
  <2> QED BY <1>2, <2>2 DEF Flattened
<1>4. CASE n # 0
  <2>1. \A i \in 1 .. n : s[i] = Writes(typed, i) /\ s[i] \in Seq(Symbols)
    BY <1>1, WritesSymbols
  <2>2. PICK h \in [1 .. n -> Seq(Symbols)] : Joins(s, h, n) /\ FlattenSeq(s) = h[n]
    <3>1. n \in Nat \ {0} /\ Len(s) = n
      BY <1>1, <1>4
    <3>2. \A i \in 1 .. n : s[i] \in Seq(Symbols)
      BY <2>1
    <3> HIDE DEF s, n
    <3> QED BY ONLY <3>1, <3>2, FlattenJoins, Z3
  <2> DEFINE T == {k \in 1 .. n : Written(h[k], Plain[typed[k]])}
  <2>3. 1 \in T
    <3>1. 1 \in 1 .. n /\ Before(typed, 1) = Separator
      BY <1>1, <1>4 DEF Before
    <3>2. h[1] = Writes(typed, 1)
      BY <2>1, <2>2, <3>1 DEF Joins
    <3>3. Written(<<>> \o Writes(typed, 1), Plain[typed[1]])
      BY <1>2, <3>1, WritesTidily
    <3>4. <<>> \o Writes(typed, 1) = Writes(typed, 1)
      BY <3>1, WritesSymbols
    <3> QED BY <3>1, <3>2, <3>3, <3>4
  <2>4. ASSUME NEW k \in 1 .. n - 1, k \in T PROVE k + 1 \in T
    <3>1. k + 1 \in 1 .. n /\ k + 1 # 1 /\ (k + 1) - 1 = k
      BY <1>1
    <3>2. h[k + 1] = h[k] \o Writes(typed, k + 1)
      BY <2>1, <2>2, <3>1 DEF Joins
    <3>3. Before(typed, k + 1) = Plain[typed[k]]
      BY <3>1 DEF Before
    <3>4. Written(h[k], Plain[typed[k]])
      BY <2>4
    <3>5. Written(h[k] \o Writes(typed, k + 1), Plain[typed[k + 1]])
      BY <3>1, <3>3, <3>4, WritesTidily
    <3> QED BY <3>1, <3>2, <3>5
  <2> HIDE DEF T
  <2>5. 1 .. n \subseteq T
    BY <1>1, <2>3, <2>4, AllNumbers
  <2>6. Written(h[n], Plain[typed[n]])
    BY <1>1, <1>4, <2>5 DEF T
  <2> QED BY <2>2, <2>6 DEF Written, Flattened
<1> QED BY <1>3, <1>4

\* Whatever was typed, what comes out is in the form codes are written in.
LEMMA NormalizedIsNormal ==
    ASSUME NEW typed \in Seq(DOMAIN Plain)
    PROVE  Normal(NormalizeCode(typed))
<1> DEFINE c == Flattened(typed)
<1>1. NormalizeCode(typed) = WithoutLastHyphen(c)
  BY DEF NormalizeCode, Flattened
<1>2. Tidy(c)
  BY FlattenedIsTidy
<1>3. c \in Seq(Symbols)
  BY <1>2 DEF Tidy
<1> HIDE DEF c
<1>4. CASE c = <<>> \/ c[Len(c)] # Hyphen
  BY <1>1, <1>2, <1>4 DEF WithoutLastHyphen, Last, Normal
<1>5. CASE c # <<>> /\ c[Len(c)] = Hyphen
  <2> DEFINE d == SubSeq(c, 1, Len(c) - 1)
  <2>1. WithoutLastHyphen(c) = d
    BY <1>5 DEF WithoutLastHyphen, Last, Front
  <2>2. Len(c) \in Nat \ {0} /\ d \in Seq(Symbols) /\ Len(d) = Len(c) - 1
    <3>1. Len(c) \in Nat /\ Len(c) # 0
      BY <1>3, <1>5
    <3>2. \A k \in 0 .. Len(c) : SubSeq(c, 1, k) \in Seq(Symbols) /\ Len(SubSeq(c, 1, k)) = k
      BY <1>3
    <3>3. Len(c) - 1 \in 0 .. Len(c)
      BY <3>1
    <3> QED BY <3>1, <3>2, <3>3
  <2>3. \A i \in 1 .. Len(d) : d[i] = c[i]
    BY <1>3, <2>2
  <2>4. c[Len(c) - 1] # Hyphen
    BY <1>2, <1>5, <2>2 DEF Tidy
  <2>5. d # <<>> => d[Len(d)] = c[Len(c) - 1]
    BY <2>2, <2>3
  <2> HIDE DEF d
  <2>6. \A i \in 1 .. Len(d) : d[i] = Hyphen => i > 1 /\ d[i - 1] # Hyphen
    <3> SUFFICES ASSUME NEW i \in 1 .. Len(d), d[i] = Hyphen PROVE i > 1 /\ d[i - 1] # Hyphen
      OBVIOUS
    <3>1. i \in 1 .. Len(c)
      BY <2>2
    <3>2. i > 1 /\ c[i - 1] # Hyphen
      BY <1>2, <2>3, <3>1 DEF Tidy
    <3>3. i - 1 \in 1 .. Len(d)
      BY <2>2, <3>2
    <3> QED BY <2>3, <3>2, <3>3
  <2>7. \A i \in 2 .. Len(d) : d[i] \in AnyDigit => d[i - 1] \notin Letters
    <3> SUFFICES ASSUME NEW i \in 2 .. Len(d), d[i] \in AnyDigit PROVE d[i - 1] \notin Letters
      OBVIOUS
    <3>1. i \in 2 .. Len(c) /\ i \in 1 .. Len(d) /\ i - 1 \in 1 .. Len(d)
      BY <2>2
    <3> QED BY <1>2, <2>3, <3>1 DEF Tidy
  <2> QED BY <1>1, <2>1, <2>2, <2>4, <2>5, <2>6, <2>7 DEF Normal, Tidy
<1> QED BY <1>4, <1>5

-----------------------------------------------------------------------------
(* Codes in that form come out as they went in.                             *)

LEMMA SymbolsFold ==
    \A x \in Symbols : /\ x \in DOMAIN Plain
                       /\ Plain[x] = IF x = Hyphen THEN Separator ELSE x
BY CodesAssumption DEF Symbols

LEMMA NormalIsWritten ==
    ASSUME NEW c, Normal(c), NEW i \in 1 .. Len(c)
    PROVE  Writes(c, i) = <<c[i]>>
<1>1. /\ c \in Seq(Symbols) /\ Len(c) \in Nat
      /\ c[i] = Hyphen => i > 1 /\ c[i - 1] # Hyphen
      /\ i > 1 /\ c[i] \in AnyDigit => c[i - 1] \notin Letters
  BY DEF Normal, Tidy
<1>2. c[i] \in Symbols /\ (i > 1 => c[i - 1] \in Symbols)
  BY <1>1
<1>3. Plain[c[i]] = IF c[i] = Hyphen THEN Separator ELSE c[i]
  BY <1>2, SymbolsFold
<1>4. Before(c, i) = IF i = 1 \/ c[i - 1] = Hyphen THEN Separator ELSE c[i - 1]
  BY <1>2, SymbolsFold DEF Before
<1>5. CASE c[i] = Hyphen
  BY <1>1, <1>2, <1>3, <1>4, <1>5, SymbolsDiffer DEF Writes, Symbols
<1>6. CASE c[i] \in Letters
  BY <1>3, <1>6, SymbolsDiffer DEF Writes
<1>7. CASE c[i] \in AnyDigit
  <2>1. Before(c, i) \notin Letters
    BY <1>1, <1>4, <1>7, SymbolsDiffer
  <2> QED BY <1>3, <1>7, <2>1, SymbolsDiffer DEF Writes
<1> QED BY <1>2, <1>5, <1>6, <1>7 DEF Symbols

\* A code that is in the form codes are written in is not changed.
LEMMA NormalIsKept ==
    ASSUME NEW c, Normal(c)
    PROVE  NormalizeCode(c) = c
<1> DEFINE n == Len(c)
           s == [i \in DOMAIN c |-> Writes(c, i)]
<1>1. c \in Seq(Symbols) /\ n \in Nat /\ DOMAIN c = 1 .. n /\ Len(s) = n
  BY DEF Normal, Tidy
<1>2. FlattenSeq(s) = c
  <2>1. CASE n = 0
    <3>1. s = <<>> /\ c = <<>>
      BY <1>1, <2>1
    <3>2. FlattenSeq(s) = <<>>
      BY <3>1 DEF FlattenSeq
    <3> QED BY <3>1, <3>2
  <2>2. CASE n # 0
    <3>1. \A i \in 1 .. n : s[i] = <<c[i]>> /\ s[i] \in Seq(Symbols)
      <4>1. \A i \in 1 .. n : s[i] = <<c[i]>>
        BY <1>1, NormalIsWritten
      <4>2. \A i \in 1 .. n : c[i] \in Symbols
        BY <1>1
      <4>3. \A x \in Symbols : <<x>> \in Seq(Symbols)
        OBVIOUS
      <4>4. ASSUME NEW i \in 1 .. n PROVE s[i] \in Seq(Symbols)
        <5>1. <<c[i]>> \in Seq(Symbols)
          BY <4>2, <4>3
        <5> QED BY <4>1, <5>1
      <4> QED BY <4>1, <4>4
    <3>2. PICK h \in [1 .. n -> Seq(Symbols)] : Joins(s, h, n) /\ FlattenSeq(s) = h[n]
      <4>1. n \in Nat \ {0} /\ Len(s) = n
        BY <1>1, <2>2
      <4>2. \A i \in 1 .. n : s[i] \in Seq(Symbols)
        BY <3>1
      <4> HIDE DEF s, n
      <4> QED BY ONLY <4>1, <4>2, FlattenJoins
    <3> DEFINE T == {k \in 1 .. n : h[k] = SubSeq(c, 1, k)}
    <3>3. 1 \in T
      <4>1. 1 \in 1 .. n
        BY <1>1, <2>2
      <4>2. h[1] = <<c[1]>>
        BY <3>1, <3>2, <4>1 DEF Joins
      <4>3. SubSeq(c, 1, 1) = <<c[1]>>
        <5>1. SubSeq(c, 1, 1) \in Seq(Symbols) /\ <<c[1]>> \in Seq(Symbols)
          BY <1>1, <4>1
        <5>2. /\ Len(SubSeq(c, 1, 1)) = 1 /\ Len(<<c[1]>>) = 1
              /\ SubSeq(c, 1, 1)[1] = c[1]
          BY <1>1, <4>1
        <5> DEFINE d == SubSeq(c, 1, 1)
                   e == <<c[1]>>
        <5>3. e[1] = c[1]
          OBVIOUS
        <5> HIDE DEF d, e
        <5>4. d \in Seq(Symbols) /\ e \in Seq(Symbols) /\ Len(d) = 1 /\ Len(e) = 1 /\ d[1] = e[1]
          BY <5>1, <5>2, <5>3 DEF d, e
        <5>5. \A i \in 1 .. 1 : d[i] = e[i]
          BY <5>4
        <5> QED BY <5>4, <5>5, SeqEqual DEF d, e
      <4> QED BY <4>1, <4>2, <4>3
    <3>4. ASSUME NEW k \in 1 .. n - 1, k \in T PROVE k + 1 \in T
      <4>1. k + 1 \in 1 .. n /\ k + 1 # 1 /\ (k + 1) - 1 = k
        BY <1>1
      <4>2. h[k + 1] = h[k] \o <<c[k + 1]>>
        BY <3>1, <3>2, <4>1 DEF Joins
      <4>3. h[k] = SubSeq(c, 1, k)
        BY <3>4
      <4>4. SubSeq(c, 1, k) \o <<c[k + 1]>> = SubSeq(c, 1, k + 1)
        BY <1>1, <4>1
      <4> QED BY <4>1, <4>2, <4>3, <4>4
    <3> HIDE DEF T
    <3>5. 1 .. n \subseteq T
      BY <1>1, <3>3, <3>4, AllNumbers
    <3>6. h[n] = SubSeq(c, 1, n)
      BY <1>1, <2>2, <3>5 DEF T
    <3>7. SubSeq(c, 1, n) = c
      BY <1>1
    <3> QED BY <3>2, <3>6, <3>7
  <2> QED BY <2>1, <2>2
<1>3. NormalizeCode(c) = WithoutLastHyphen(c)
  BY <1>2 DEF NormalizeCode
<1> QED BY <1>3 DEF WithoutLastHyphen, Last, Normal

\* What CheckCode accepts it accepts again in the form it was understood in, as the
\* same code: the interface and -receive hand Fetch the code as typed or as
\* understood, and Fetch checks it once more (NormalizeCode, CheckCode, Fetch).
THEOREM CheckedTwiceIsTheSame ==
    \A typed \in Seq(DOMAIN Plain) :
        CheckCode(typed) =>
            LET understood == NormalizeCode(typed) IN
            CheckCode(understood) /\ NormalizeCode(understood) = understood
<1> SUFFICES ASSUME NEW typed \in Seq(DOMAIN Plain), CheckCode(typed)
             PROVE  /\ CheckCode(NormalizeCode(typed))
                    /\ NormalizeCode(NormalizeCode(typed)) = NormalizeCode(typed)
  OBVIOUS
<1>1. NormalizeCode(NormalizeCode(typed)) = NormalizeCode(typed)
  BY NormalizedIsNormal, NormalIsKept
<1> QED BY <1>1 DEF CheckCode

-----------------------------------------------------------------------------
(* The codes the program makes up.                                          *)

LEMMA Concatenation ==
    ASSUME NEW S, NEW c \in Seq(S), NEW d \in Seq(S), NEW n, n = Len(c), NEW m, m = Len(d)
    PROVE  /\ c \o d \in Seq(S) /\ Len(c \o d) = n + m
           /\ \A i \in 1 .. n : (c \o d)[i] = c[i]
           /\ \A i \in 1 .. m : (c \o d)[n + i] = d[i]
OBVIOUS

LEMMA WithHyphen ==
    ASSUME NEW c \in Seq(Symbols), NEW n, n = Len(c)
    PROVE  /\ c \o <<Hyphen>> \in Seq(Symbols) /\ Len(c \o <<Hyphen>>) = n + 1
           /\ \A i \in 1 .. n : (c \o <<Hyphen>>)[i] = c[i]
           /\ (c \o <<Hyphen>>)[n + 1] = Hyphen
<1>1. Hyphen \in Symbols
  BY DEF Symbols
<1> QED BY <1>1, AppendedSymbol

\* u-v-w, symbol by symbol.
Joined(c, u, v, w) ==
    /\ c \in Seq(Symbols) /\ Len(c) = Len(u) + Len(v) + Len(w) + 2
    /\ \A i \in 1 .. Len(u) : c[i] = u[i]
    /\ c[Len(u) + 1] = Hyphen
    /\ \A i \in 1 .. Len(v) : c[Len(u) + 1 + i] = v[i]
    /\ c[Len(u) + Len(v) + 2] = Hyphen
    /\ \A i \in 1 .. Len(w) : c[Len(u) + Len(v) + 2 + i] = w[i]

LEMMA JoinCodeJoins ==
    ASSUME NEW u \in Seq(Symbols), NEW v \in Seq(Symbols), NEW w \in Seq(Symbols)
    PROVE  Joined(JoinCode(<<u, v>>, w), u, v, w)
<1> DEFINE p == u \o <<Hyphen>>
           q == p \o v
           r == q \o <<Hyphen>>
           c == r \o w
           l == Len(u)
           m == Len(v)
           n == Len(w)
<1>1. l \in Nat /\ m \in Nat /\ n \in Nat
  OBVIOUS
<1>2. c = JoinCode(<<u, v>>, w)
  BY DEF JoinCode
<1> HIDE DEF l, m, n
<1>3. /\ p \in Seq(Symbols) /\ Len(p) = l + 1
      /\ \A i \in 1 .. l : p[i] = u[i]
      /\ p[l + 1] = Hyphen
  BY WithHyphen DEF l
<1> HIDE DEF p
<1>4. /\ q \in Seq(Symbols) /\ Len(q) = l + 1 + m
      /\ \A i \in 1 .. l + 1 : q[i] = p[i]
      /\ \A i \in 1 .. m : q[l + 1 + i] = v[i]
  <2>1. v \in Seq(Symbols) /\ m = Len(v)
    BY DEF m
  <2> DEFINE k == l + 1
  <2>2. p \in Seq(Symbols) /\ k = Len(p)
    BY <1>3
  <2> HIDE DEF k, m
  <2>3. /\ p \o v \in Seq(Symbols) /\ Len(p \o v) = k + m
        /\ \A i \in 1 .. k : (p \o v)[i] = p[i]
        /\ \A i \in 1 .. m : (p \o v)[k + i] = v[i]
    BY ONLY <2>1, <2>2, Concatenation
  <2> QED BY <2>3 DEF k
<1> HIDE DEF q
<1>5. /\ r \in Seq(Symbols) /\ Len(r) = l + 1 + m + 1
      /\ \A i \in 1 .. l + 1 + m : r[i] = q[i]
      /\ r[l + 1 + m + 1] = Hyphen
  BY <1>4, WithHyphen
<1> HIDE DEF r
<1>6. /\ c \in Seq(Symbols) /\ Len(c) = l + 1 + m + 1 + n
      /\ \A i \in 1 .. l + 1 + m + 1 : c[i] = r[i]
      /\ \A i \in 1 .. n : c[l + 1 + m + 1 + i] = w[i]
  <2>1. w \in Seq(Symbols) /\ n = Len(w)
    BY DEF n
  <2> DEFINE k == l + 1 + m + 1
  <2>2. r \in Seq(Symbols) /\ k = Len(r)
    BY <1>5
  <2> HIDE DEF k, n
  <2>3. /\ r \o w \in Seq(Symbols) /\ Len(r \o w) = k + n
        /\ \A i \in 1 .. k : (r \o w)[i] = r[i]
        /\ \A i \in 1 .. n : (r \o w)[k + i] = w[i]
    BY ONLY <2>1, <2>2, Concatenation
  <2> QED BY <2>3 DEF k
<1> HIDE DEF c
<1>7. l + 1 + m + 1 = l + m + 2 /\ l + 1 + m + 1 + n = l + m + n + 2
  BY <1>1
<1>8. ASSUME NEW i \in 1 .. l PROVE c[i] = u[i]
  <2>1. i \in 1 .. l + 1 /\ i \in 1 .. l + 1 + m /\ i \in 1 .. l + 1 + m + 1
    BY <1>1
  <2> QED BY <1>3, <1>4, <1>5, <1>6, <2>1
<1>9. c[l + 1] = Hyphen
  <2>1. l + 1 \in 1 .. l + 1 /\ l + 1 \in 1 .. l + 1 + m /\ l + 1 \in 1 .. l + 1 + m + 1
    BY <1>1
  <2> QED BY <1>3, <1>4, <1>5, <1>6, <2>1
<1>10. ASSUME NEW i \in 1 .. m PROVE c[l + 1 + i] = v[i]
  <2>1. l + 1 + i \in 1 .. l + 1 + m /\ l + 1 + i \in 1 .. l + 1 + m + 1
    BY <1>1
  <2> QED BY <1>4, <1>5, <1>6, <2>1
<1>11. c[l + m + 2] = Hyphen
  <2>1. l + 1 + m + 1 \in 1 .. l + 1 + m + 1
    BY <1>1
  <2> QED BY <1>5, <1>6, <1>7, <2>1
<1>12. \A i \in 1 .. n : c[l + m + 2 + i] = w[i]
  BY <1>6, <1>7
<1> QED BY <1>2, <1>6, <1>7, <1>8, <1>9, <1>10, <1>11, <1>12 DEF Joined, l, m, n

\* Every place of a joined code is in one of its parts, or one of the hyphens.
LEMMA PlacesOfJoin ==
    ASSUME NEW a \in Nat, NEW b \in Nat, NEW m \in Nat, NEW k \in 1 .. a + b + m + 2
    PROVE  \/ k \in 1 .. a
           \/ k = a + 1
           \/ \E i \in 1 .. b : k = a + 1 + i
           \/ k = a + b + 2
           \/ \E i \in 1 .. m : k = a + b + 2 + i
<1>1. CASE k \in a + 2 .. a + b + 1
  <2>1. k - a - 1 \in 1 .. b /\ k = a + 1 + (k - a - 1)
    BY <1>1
  <2> QED BY <2>1
<1>2. CASE k > a + b + 2
  <2>1. k - a - b - 2 \in 1 .. m /\ k = a + b + 2 + (k - a - b - 2)
    BY <1>2
  <2> QED BY <2>1
<1> QED BY <1>1, <1>2

LEMMA JoinedIsNormal ==
    ASSUME NEW c, NEW u \in Seq(Letters), NEW v \in Seq(Letters), NEW w \in Seq(AnyDigit),
           u # <<>>, v # <<>>, w # <<>>, Joined(c, u, v, w)
    PROVE  Normal(c) /\ Hyphens(c) = {Len(u) + 1, Len(u) + Len(v) + 2}
<1> DEFINE a == Len(u)
           b == Len(v)
           m == Len(w)
           N == a + b + m + 2
<1>1. a \in Nat \ {0} /\ b \in Nat \ {0} /\ m \in Nat \ {0}
  <2>1. Len(u) \in Nat /\ Len(v) \in Nat /\ Len(w) \in Nat
    OBVIOUS
  <2>2. Len(u) # 0 /\ Len(v) # 0 /\ Len(w) # 0
    OBVIOUS
  <2> QED BY <2>1, <2>2
<1>2. /\ \A i \in 1 .. a : u[i] \in Letters
      /\ \A i \in 1 .. b : v[i] \in Letters
      /\ \A i \in 1 .. m : w[i] \in AnyDigit
  OBVIOUS
<1>3. c \in Seq(Symbols) /\ Len(c) = N
  BY DEF Joined
<1>4. /\ \A i \in 1 .. a : c[i] \in Letters
      /\ c[a + 1] = Hyphen
      /\ \A i \in 1 .. b : c[a + 1 + i] \in Letters
      /\ c[a + b + 2] = Hyphen
      /\ \A i \in 1 .. m : c[a + b + 2 + i] \in AnyDigit
  BY <1>2 DEF Joined
<1> HIDE DEF a, b, m
<1>5. \A k \in 1 .. N : \/ k \in 1 .. a
                        \/ k = a + 1
                        \/ \E i \in 1 .. b : k = a + 1 + i
                        \/ k = a + b + 2
                        \/ \E i \in 1 .. m : k = a + b + 2 + i
  BY <1>1, PlacesOfJoin
<1>6. \A k \in 1 .. N : c[k] = Hyphen <=> k \in {a + 1, a + b + 2}
  <2> SUFFICES ASSUME NEW k \in 1 .. N PROVE c[k] = Hyphen <=> k \in {a + 1, a + b + 2}
    OBVIOUS
  <2>1. CASE k \in {a + 1, a + b + 2}
    BY <1>4, <2>1
  <2>2. CASE k \notin {a + 1, a + b + 2}
    <3>1. c[k] \in Letters \cup AnyDigit
      BY <1>4, <1>5, <2>2
    <3> QED BY <2>2, <3>1, SymbolsDiffer
  <2> QED BY <2>1, <2>2
<1>7. c[a] \in Letters /\ c[a + b + 1] \in Letters
  <2>1. a \in 1 .. a /\ b \in 1 .. b /\ a + 1 + b = a + b + 1
    BY <1>1
  <2> QED BY <1>4, <2>1
<1>8. ASSUME NEW k \in 1 .. N, c[k] = Hyphen PROVE k > 1 /\ c[k - 1] # Hyphen
  <2>1. k > 1 /\ (k - 1 = a \/ k - 1 = a + b + 1)
    BY <1>1, <1>6, <1>8
  <2> QED BY <1>7, <2>1, SymbolsDiffer
<1>9. ASSUME NEW k \in 2 .. N, c[k] \in AnyDigit PROVE c[k - 1] \notin Letters
  <2>1. k \in 1 .. N /\ c[k] \notin Letters /\ c[k] # Hyphen
    BY <1>9, SymbolsDiffer
  <2>2. PICK i \in 1 .. m : k = a + b + 2 + i
    BY <1>4, <1>5, <2>1
  <2>3. CASE i = 1
    <3>1. k - 1 = a + b + 2
      BY <1>1, <2>2, <2>3
    <3> QED BY <1>4, <3>1, SymbolsDiffer
  <2>4. CASE i # 1
    <3>1. i - 1 \in 1 .. m /\ k - 1 = a + b + 2 + (i - 1)
      BY <1>1, <2>2, <2>4
    <3>2. c[a + b + 2 + (i - 1)] \in AnyDigit
      BY <1>4, <3>1
    <3> QED BY <3>1, <3>2, SymbolsDiffer
  <2> QED BY <2>3, <2>4
<1>10. c[N] # Hyphen
  <2>1. N \in 1 .. N /\ N # a + 1 /\ N # a + b + 2
    BY <1>1
  <2> QED BY <1>6, <2>1
<1>11. Hyphens(c) = {a + 1, a + b + 2}
  <2>1. DOMAIN c = 1 .. N
    BY <1>3
  <2>2. a + 1 \in 1 .. N /\ a + b + 2 \in 1 .. N
    BY <1>1
  <2> QED BY <1>6, <2>1, <2>2 DEF Hyphens
<1> QED BY <1>3, <1>8, <1>9, <1>10, <1>11 DEF Normal, Tidy, a, b

\* What of c is, item by item, the sequence v, is v.
LEMMA Slice ==
    ASSUME NEW S, NEW c \in Seq(S), NEW v \in Seq(S), NEW first \in 1 .. Len(c) + 1,
           NEW last \in Nat, last = first + Len(v) - 1, last <= Len(c),
           \A k \in 1 .. Len(v) : c[first + k - 1] = v[k]
    PROVE  SubSeq(c, first, last) = v
<1> DEFINE d == SubSeq(c, first, last)
           n == Len(v)
<1>1. n \in Nat /\ Len(c) \in Nat /\ first \in 1 .. Len(c) + 1 /\ last \in first - 1 .. Len(c)
  OBVIOUS
<1>2. \A k \in first .. last : k \in 1 .. Len(c)
  BY ONLY <1>1
<1>3. \A k \in first .. last : c[k] \in S
  BY <1>2, ElementOfSeq
<1>4. /\ d \in Seq(S)
      /\ Len(d) = IF first <= last THEN last - first + 1 ELSE 0
      /\ \A k \in 1 .. last - first + 1 : d[k] = c[first + k - 1]
  BY <1>1, <1>3, SubSeqProperties
<1>5. Len(d) = n
  BY ONLY <1>1, <1>4, last = first + n - 1
<1>6. \A k \in 1 .. n : d[k] = v[k]
  <2>1. last - first + 1 = n
    BY <1>1
  <2>2. \A k \in 1 .. n : c[first + k - 1] = v[k]
    OBVIOUS
  <2> HIDE DEF d, n
  <2> QED BY <1>4, <2>1, <2>2
<1> HIDE DEF d
<1>7. d = v
  BY <1>4, <1>5, <1>6, SeqEqual
<1> QED BY <1>7 DEF d

LEMMA JoinedParts ==
    ASSUME NEW c, NEW u \in Seq(Symbols), NEW v \in Seq(Symbols), NEW w \in Seq(Symbols),
           Joined(c, u, v, w), Hyphens(c) = {Len(u) + 1, Len(u) + Len(v) + 2}
    PROVE  Parts(c) = <<u, v, w>>
<1> DEFINE a == Len(u)
           b == Len(v)
           m == Len(w)
           i == CHOOSE k \in Hyphens(c) : \A l \in Hyphens(c) : k <= l
           j == CHOOSE k \in Hyphens(c) : \A l \in Hyphens(c) : k >= l
<1>1. a \in Nat /\ b \in Nat /\ m \in Nat
  OBVIOUS
<1>2. Parts(c) = <<SubSeq(c, 1, i - 1), SubSeq(c, i + 1, j - 1), SubSeq(c, j + 1, Len(c))>>
  BY DEF Parts
<1>3. Hyphens(c) = {a + 1, a + b + 2}
  OBVIOUS
<1>4. /\ c \in Seq(Symbols) /\ Len(c) = a + b + m + 2
      /\ \A k \in 1 .. a : c[k] = u[k]
      /\ \A k \in 1 .. b : c[a + 1 + k] = v[k]
      /\ \A k \in 1 .. m : c[a + b + 2 + k] = w[k]
  BY DEF Joined
<1>5. /\ u \in Seq(Symbols) /\ Len(u) = a
      /\ v \in Seq(Symbols) /\ Len(v) = b
      /\ w \in Seq(Symbols) /\ Len(w) = m
  OBVIOUS
<1> HIDE DEF a, b, m
<1>6. i = a + 1
  <2>1. a + 1 \in Hyphens(c) /\ \A l \in Hyphens(c) : a + 1 <= l
    BY ONLY <1>1, <1>3
  <2>2. i \in Hyphens(c) /\ \A l \in Hyphens(c) : i <= l
    BY <2>1
  <2> HIDE DEF i
  <2> QED BY ONLY <1>1, <1>3, <2>2
<1>7. j = a + b + 2
  <2>1. a + b + 2 \in Hyphens(c) /\ \A l \in Hyphens(c) : a + b + 2 >= l
    BY ONLY <1>1, <1>3
  <2>2. j \in Hyphens(c) /\ \A l \in Hyphens(c) : j >= l
    BY <2>1
  <2> HIDE DEF j
  <2> QED BY ONLY <1>1, <1>3, <2>2
<1> HIDE DEF i, j
<1>len. Len(c) = a + b + m + 2
  BY ONLY <1>4
<1>8. SubSeq(c, 1, a) = u
  <2> DEFINE f == 1
             l == a
  <2>1. f \in 1 .. Len(c) + 1 /\ l \in Nat /\ l = f + a - 1 /\ l <= Len(c)
    BY ONLY <1>1, <1>len
  <2>2. \A k \in 1 .. a : f + k - 1 = k
    BY ONLY <1>1
  <2> HIDE DEF f, l
  <2>3. \A k \in 1 .. a : c[f + k - 1] = u[k]
    BY ONLY <1>4, <2>2
  <2>4. c \in Seq(Symbols) /\ u \in Seq(Symbols) /\ l = f + Len(u) - 1
    BY ONLY <1>4, <1>5, <2>1
  <2>5. \A k \in 1 .. Len(u) : c[f + k - 1] = u[k]
    BY ONLY <1>5, <2>3
  <2>6. SubSeq(c, f, l) = u
    BY ONLY <2>1, <2>4, <2>5, Slice
  <2> QED BY <2>6 DEF f, l
<1>9. SubSeq(c, a + 2, a + b + 1) = v
  <2> DEFINE f == a + 2
             l == a + b + 1
  <2>1. f \in 1 .. Len(c) + 1 /\ l \in Nat /\ l = f + b - 1 /\ l <= Len(c)
    BY ONLY <1>1, <1>len
  <2>2. \A k \in 1 .. b : f + k - 1 = a + 1 + k
    BY ONLY <1>1
  <2> HIDE DEF f, l
  <2>3. \A k \in 1 .. b : c[f + k - 1] = v[k]
    BY ONLY <1>4, <2>2
  <2>4. c \in Seq(Symbols) /\ v \in Seq(Symbols) /\ l = f + Len(v) - 1
    BY ONLY <1>4, <1>5, <2>1
  <2>5. \A k \in 1 .. Len(v) : c[f + k - 1] = v[k]
    BY ONLY <1>5, <2>3
  <2>6. SubSeq(c, f, l) = v
    BY ONLY <2>1, <2>4, <2>5, Slice
  <2> QED BY <2>6 DEF f, l
<1>10. SubSeq(c, a + b + 3, Len(c)) = w
  <2> DEFINE f == a + b + 3
             l == Len(c)
  <2>1. f \in 1 .. Len(c) + 1 /\ l \in Nat /\ l = f + m - 1 /\ l <= Len(c)
    BY ONLY <1>1, <1>len
  <2>2. \A k \in 1 .. m : f + k - 1 = a + b + 2 + k
    BY ONLY <1>1
  <2> HIDE DEF f, l
  <2>3. \A k \in 1 .. m : c[f + k - 1] = w[k]
    BY ONLY <1>4, <2>2
  <2>4. c \in Seq(Symbols) /\ w \in Seq(Symbols) /\ l = f + Len(w) - 1
    BY ONLY <1>4, <1>5, <2>1
  <2>5. \A k \in 1 .. Len(w) : c[f + k - 1] = w[k]
    BY ONLY <1>5, <2>3
  <2>6. SubSeq(c, f, l) = w
    BY ONLY <2>1, <2>4, <2>5, Slice
  <2> QED BY <2>6 DEF f, l
<1>11. i - 1 = a /\ i + 1 = a + 2 /\ j - 1 = a + b + 1 /\ j + 1 = a + b + 3
  BY <1>1, <1>6, <1>7
<1> QED BY <1>2, <1>8, <1>9, <1>10, <1>11

\* Every code the program makes up, of two words of the list and a nameplate of the
\* server's, is accepted as it stands and as it was made, and what Fetch looks up by it
\* is that nameplate (NewSecretWords, JoinCode, CheckCode, Nameplate).
THEOREM MadeCodesAreUnderstood ==
    \A words \in WordList \X WordList, nameplate \in Seq(AnyDigit) :
        LET made == JoinCode(words, nameplate) IN
        IsNumber(nameplate) /\ Len(made) <= MaxCodeLen
            => /\ CheckCode(made) /\ NormalizeCode(made) = made
               /\ Nameplate(made) = nameplate
<1> SUFFICES ASSUME NEW u \in WordList, NEW v \in WordList, NEW w \in Seq(AnyDigit),
                    IsNumber(w), Len(JoinCode(<<u, v>>, w)) <= MaxCodeLen
             PROVE  /\ CheckCode(JoinCode(<<u, v>>, w))
                    /\ NormalizeCode(JoinCode(<<u, v>>, w)) = JoinCode(<<u, v>>, w)
                    /\ Nameplate(JoinCode(<<u, v>>, w)) = w
  OBVIOUS
<1> DEFINE c == JoinCode(<<u, v>>, w)
<1>1. /\ u \in Seq(Letters) /\ u # <<>> /\ v \in Seq(Letters) /\ v # <<>>
  BY CodesAssumption
<1>2. w # <<>> /\ Len(w) >= 2
  BY DEF IsNumber
<1>3. u \in Seq(Symbols) /\ v \in Seq(Symbols) /\ w \in Seq(Symbols)
  <2>1. Letters \subseteq Symbols /\ AnyDigit \subseteq Symbols
    BY DEF Symbols
  <2> QED BY <1>1, <2>1
<1>4. Joined(c, u, v, w)
  BY <1>3, JoinCodeJoins
<1>5. Len(c) <= MaxCodeLen
  OBVIOUS
<1> HIDE DEF c
<1>6. Normal(c) /\ Hyphens(c) = {Len(u) + 1, Len(u) + Len(v) + 2}
  BY <1>1, <1>2, <1>4, JoinedIsNormal
<1>7. Parts(c) = <<u, v, w>>
  BY <1>3, <1>4, <1>6, JoinedParts
<1>8. NormalizeCode(c) = c
  BY <1>6, NormalIsKept
<1>9. ValidCode(c)
  <2>1. Len(u) \in Nat /\ Len(v) \in Nat
    BY <1>1
  <2>2. \E i, j \in Hyphens(c) : i < j /\ Hyphens(c) = {i, j}
    BY <1>6, <2>1
  <2>3. IsWord(u) /\ IsWord(v)
    BY <1>1 DEF IsWord
  <2> QED BY <1>5, <1>7, <2>2, <2>3 DEF ValidCode
<1>10. KnownWords(c) /\ Nameplate(c) = w
  BY <1>7 DEF KnownWords, Nameplate
<1> QED BY <1>8, <1>9, <1>10 DEF CheckCode, c

=============================================================================
