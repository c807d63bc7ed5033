--------------------------- MODULE HomeFilesProofs ---------------------------
(***************************************************************************)
(* Proofs about Setup and ConfigFile, what PMG writes into the user's home.  *)
(*                                                                         *)
(* Setup, for every set of homes and systems and any number of commands,     *)
(* faults and edits: a text is followed by what dropping lines does to it     *)
(* (the lemmas on Without, by induction over its length), a startup file by   *)
(* what may become of it (Becomes), the files together by FilesInv, and each  *)
(* command by what it has achieved at each step (InstallInv, RemovalInv).     *)
(*                                                                         *)
(* ConfigFile, for every template, every set of keys in the files, of         *)
(* variables and of flags, and any number of starts, changes and crashes:     *)
(* what a start promises at its end rests on what each of its reads saw.      *)
(* LockedInv follows the start under locking editions only: the value it has *)
(* of a key is what one of them says.  OpenInv follows the start without a   *)
(* managed file, and FileInv says what the user's file has to tell it: each   *)
(* key as it was last set.                                                   *)
(***************************************************************************)
EXTENDS Setup, ConfigFile, SequenceTheorems, NaturalsInduction, WellFoundedInduction, TLAPS

-----------------------------------------------------------------------------
(* Texts without some of their lines                                        *)

\* A set of numbers has a first.
LEMMA LeastNumber ==
  ASSUME NEW T, T \subseteq Nat, T # {}
  PROVE  \E x \in T : \A y \in T : x <= y
<1>1. \E x \in T : \A y \in T : ~(<<y, x>> \in OpToRel(<, Nat))
  BY NatLessThanWellFounded, WFMin, Zenon
<1>2. \A x, y \in T : ~(<<y, x>> \in OpToRel(<, Nat)) => x <= y
  BY DEF OpToRel
<1> QED
  BY <1>1, <1>2

\* The prefixes of lines of up to n, without those of S.
Filters(f, lines, S, n) ==
  f = [i \in 0..n |->
         IF i = 0 THEN <<>>
         ELSE IF lines[i] \in S THEN f[i - 1] ELSE Append(f[i - 1], lines[i])]

LEMMA FiltersExist ==
  ASSUME NEW lines, NEW S, NEW n \in Nat
  PROVE  \E f : Filters(f, lines, S, n)
<1> DEFINE T == {m \in Nat : ~\E f : Filters(f, lines, S, m)}
<1>1. SUFFICES T = {}
  OBVIOUS
<1>2. SUFFICES ASSUME T # {} PROVE FALSE
  OBVIOUS
<1>3. PICK x \in T : \A y \in T : x <= y
  BY <1>2, LeastNumber
<1>4. x # 0
  <2>1. Filters([i \in 0..0 |-> <<>>], lines, S, 0)
    BY DEF Filters
  <2> QED
    BY <2>1
<1>5. x \in Nat /\ x - 1 \in Nat /\ x - 1 \notin T
  BY <1>3, <1>4
<1>6. PICK g : Filters(g, lines, S, x - 1)
  BY <1>5
<1>7. DOMAIN g = 0..(x - 1)
      /\ \A i \in 0..(x - 1) :
           g[i] = IF i = 0 THEN <<>>
                  ELSE IF lines[i] \in S THEN g[i - 1] ELSE Append(g[i - 1], lines[i])
  <2>1. g = [i \in 0..(x - 1) |->
               IF i = 0 THEN <<>>
               ELSE IF lines[i] \in S THEN g[i - 1] ELSE Append(g[i - 1], lines[i])]
    BY <1>6 DEF Filters
  <2> QED
    BY <2>1
<1> DEFINE new == IF lines[x] \in S THEN g[x - 1] ELSE Append(g[x - 1], lines[x])
           h == [i \in 0..x |-> IF i < x THEN g[i] ELSE new]
<1>8. /\ \A i \in 0..(x - 1) : h[i] = g[i]
      /\ h[x] = new
  BY <1>5
<1>9. ASSUME NEW i \in 0..x
      PROVE  h[i] = IF i = 0 THEN <<>>
                    ELSE IF lines[i] \in S THEN h[i - 1] ELSE Append(h[i - 1], lines[i])
  <2> HIDE DEF h, new
  <2>1. CASE i = x
    BY <2>1, <1>5, <1>4, <1>8 DEF new
  <2>2. CASE i # x
    <3>1. i \in 0..(x - 1) /\ (i # 0 => i - 1 \in 0..(x - 1))
      BY <2>2, <1>5
    <3> QED
      BY <3>1, <1>7, <1>8
  <2> QED
    BY <2>1, <2>2
<1>10. Filters(h, lines, S, x)
  <2>1. h = [i \in 0..x |->
               IF i = 0 THEN <<>>
               ELSE IF lines[i] \in S THEN h[i - 1] ELSE Append(h[i - 1], lines[i])]
    <3> HIDE DEF new
    <3> DEFINE H(i) == IF i < x THEN g[i] ELSE new
               K(i) == IF i = 0 THEN <<>>
                       ELSE IF lines[i] \in S THEN h[i - 1] ELSE Append(h[i - 1], lines[i])
    <3>1. \A i \in 0..x : H(i) = K(i)
      BY <1>9
    <3> HIDE DEF K
    <3>2. [i \in 0..x |-> H(i)] = [i \in 0..x |-> K(i)]
      BY <3>1
    <3> QED
      BY <3>2 DEF K
  <2> QED
    BY <2>1 DEF Filters
<1> QED
  BY <1>3, <1>10

\* What Without is, by its prefixes.
FilterOf(f, lines, S) ==
  /\ f[0] = <<>>
  /\ \A i \in 1..Len(lines) :
       f[i] = IF lines[i] \in S THEN f[i - 1] ELSE Append(f[i - 1], lines[i])
  /\ Without(lines, S) = f[Len(lines)]

LEMMA WithoutIs ==
  ASSUME NEW lines, NEW S, Len(lines) \in Nat
  PROVE  \E f : FilterOf(f, lines, S)
<1> DEFINE n == Len(lines)
           f == CHOOSE f : Filters(f, lines, S, n)
<1>1. Filters(f, lines, S, n)
  BY FiltersExist
<1>2. Without(lines, S) = f[n]
  BY DEF Without, Filters
<1> HIDE DEF f
<1>3. \A i \in 0..n :
        f[i] = IF i = 0 THEN <<>>
               ELSE IF lines[i] \in S THEN f[i - 1] ELSE Append(f[i - 1], lines[i])
  <2>1. f = [i \in 0..n |->
               IF i = 0 THEN <<>>
               ELSE IF lines[i] \in S THEN f[i - 1] ELSE Append(f[i - 1], lines[i])]
    BY <1>1 DEF Filters
  <2> QED
    BY <2>1
<1> QED
  BY <1>2, <1>3 DEF FilterOf

\* Induction over the length of a sequence, over the set of those that fail.
LEMMA NoShortest ==
  ASSUME NEW X, NEW Bad, Bad \subseteq Seq(X), <<>> \notin Bad,
         \A s \in Seq(X), e \in X : Append(s, e) \in Bad => s \in Bad
  PROVE  Bad = {}
<1> SUFFICES ASSUME Bad # {} PROVE FALSE
  OBVIOUS
<1> DEFINE T == {n \in Nat : \E s \in Bad : Len(s) = n}
<1>1. T \subseteq Nat /\ T # {}
  BY LenProperties
<1>2. PICK n \in T : \A m \in T : n <= m
  BY <1>1, LeastNumber
<1>3. PICK s \in Bad : Len(s) = n
  BY <1>2
<1>4. s \in Seq(X) /\ n \in Nat /\ n # 0
  BY <1>3, EmptySeq
<1> DEFINE front == [i \in 1..(n - 1) |-> s[i]]
<1>5. /\ front \in Seq(X) /\ Len(front) = n - 1 /\ s[n] \in X
      /\ s = Append(front, s[n])
  BY <1>3, <1>4
<1>6. front \in Bad
  BY <1>3, <1>5
<1>7. n - 1 \in T
  BY <1>4, <1>5, <1>6
<1> QED
  BY <1>2, <1>4, <1>7

LEMMA WithoutShort ==
  ASSUME NEW lines, Len(lines) = 0, NEW S
  PROVE  Without(lines, S) = <<>>
<1>1. Len(lines) \in Nat
  OBVIOUS
<1>2. PICK f : FilterOf(f, lines, S)
  BY <1>1, WithoutIs
<1> QED
  BY <1>2 DEF FilterOf

LEMMA WithoutNothing ==
  ASSUME NEW S
  PROVE  Without(<<>>, S) = <<>>
<1>1. Len(<<>>) = 0
  OBVIOUS
<1> QED
  BY <1>1, WithoutShort

LEMMA WithoutSnoc ==
  ASSUME NEW X, NEW s \in Seq(X), NEW e \in X, NEW S
  PROVE  Without(Append(s, e), S)
           = IF e \in S THEN Without(s, S) ELSE Append(Without(s, S), e)
<1> DEFINE n == Len(s)
           t == Append(s, e)
<1>1. /\ n \in Nat /\ Len(t) = n + 1 /\ t[n + 1] = e
      /\ \A i \in 1..n : t[i] = s[i]
  OBVIOUS
<1> HIDE DEF t
<1>0. Len(t) \in Nat /\ Len(s) \in Nat
  BY <1>1
<1>a. PICK f : FilterOf(f, t, S)
  BY <1>0, WithoutIs
<1>b. PICK g : FilterOf(g, s, S)
  BY <1>0, WithoutIs
<1>2. /\ f[0] = <<>>
      /\ \A i \in 1..Len(t) : f[i] = IF t[i] \in S THEN f[i - 1] ELSE Append(f[i - 1], t[i])
      /\ Without(t, S) = f[Len(t)]
  BY <1>a DEF FilterOf
<1>3. /\ g[0] = <<>>
      /\ \A i \in 1..n : g[i] = IF s[i] \in S THEN g[i - 1] ELSE Append(g[i - 1], s[i])
      /\ Without(s, S) = g[n]
  BY <1>b DEF FilterOf
<1> DEFINE T == {i \in Nat : i <= n /\ f[i] # g[i]}
<1>4. T = {}
  <2> SUFFICES ASSUME T # {} PROVE FALSE
    OBVIOUS
  <2>1. PICK i \in T : \A j \in T : i <= j
    BY LeastNumber
  <2>2. i # 0
    BY <1>2, <1>3, <2>1
  <2>3. i - 1 \in Nat /\ f[i - 1] = g[i - 1]
    BY <1>1, <2>1, <2>2
  <2>4. i \in 1..n /\ i \in 1..Len(t)
    BY <1>1, <2>1, <2>2
  <2>5. f[i] = g[i]
    BY <1>1, <1>2, <1>3, <2>3, <2>4
  <2> QED
    BY <2>1, <2>5
<1>5. f[n] = g[n]
  BY <1>1, <1>4
<1>6. n + 1 \in 1..Len(t) /\ (n + 1) - 1 = n
  BY <1>1
<1> HIDE DEF n
<1>7. Without(t, S) = IF e \in S THEN Without(s, S) ELSE Append(Without(s, S), e)
  BY <1>1, <1>2, <1>3, <1>5, <1>6
<1> QED
  BY <1>7 DEF t

LEMMA WithoutType ==
  ASSUME NEW X, NEW s \in Seq(X), NEW S
  PROVE  Without(s, S) \in Seq(X \ S)
<1> DEFINE Bad == {t \in Seq(X) : Without(t, S) \notin Seq(X \ S)}
<1>1. <<>> \notin Bad
  <2>1. Without(<<>>, S) = <<>> /\ <<>> \in Seq(X \ S)
    BY WithoutNothing
  <2> QED
    BY <2>1
<1>2. ASSUME NEW t \in Seq(X), NEW e \in X, t \notin Bad
      PROVE  Append(t, e) \notin Bad
  <2>1. Without(t, S) \in Seq(X \ S)
    BY <1>2
  <2>2. Without(Append(t, e), S)
           = IF e \in S THEN Without(t, S) ELSE Append(Without(t, S), e)
    BY WithoutSnoc
  <2> DEFINE w == Without(t, S)
  <2> HIDE DEF w
  <2>3. w \in Seq(X \ S) /\ e \notin S => Append(w, e) \in Seq(X \ S)
    OBVIOUS
  <2>4. Without(Append(t, e), S) \in Seq(X \ S)
    BY <2>1, <2>2, <2>3 DEF w
  <2> QED
    BY <2>4
<1>3. Bad \subseteq Seq(X)
  OBVIOUS
<1> HIDE DEF Bad
<1>4. Bad = {}
  BY <1>1, <1>2, <1>3, NoShortest
<1> QED
  BY <1>4 DEF Bad

\* What is dropped is gone, and nothing else.
LEMMA WithoutSet ==
  ASSUME NEW X, NEW s \in Seq(X), NEW S
  PROVE  ToSet(Without(s, S)) = ToSet(s) \ S
<1> DEFINE Bad == {t \in Seq(X) : ToSet(Without(t, S)) # ToSet(t) \ S}
<1>0. ToSet(<<>>) = {}
  BY DEF ToSet
<1>a. ASSUME NEW Y, NEW t \in Seq(Y), NEW e \in Y
      PROVE  ToSet(Append(t, e)) = ToSet(t) \cup {e}
  <2>1. /\ Append(t, e) \in Seq(Y) /\ Len(Append(t, e)) = Len(t) + 1 /\ Len(t) \in Nat
        /\ DOMAIN t = 1..Len(t) /\ DOMAIN Append(t, e) = 1..(Len(t) + 1)
        /\ \A i \in 1..Len(t) : Append(t, e)[i] = t[i]
        /\ Append(t, e)[Len(t) + 1] = e
    OBVIOUS
  <2>2. \A i \in 1..(Len(t) + 1) : i \in 1..Len(t) \/ i = Len(t) + 1
    BY <2>1
  <2>3. ToSet(t) \subseteq ToSet(Append(t, e)) /\ e \in ToSet(Append(t, e))
    BY <2>1 DEF ToSet
  <2>4. ToSet(Append(t, e)) \subseteq ToSet(t) \cup {e}
    BY <2>1, <2>2 DEF ToSet
  <2> QED
    BY <2>3, <2>4
<1>1. <<>> \notin Bad
  BY WithoutNothing, <1>0
<1>2. ASSUME NEW t \in Seq(X), NEW e \in X, t \notin Bad
      PROVE  Append(t, e) \notin Bad
  <2>1. ToSet(Without(t, S)) = ToSet(t) \ S /\ Without(t, S) \in Seq(X \ S)
    BY <1>2, WithoutType
  <2>2. Without(Append(t, e), S)
           = IF e \in S THEN Without(t, S) ELSE Append(Without(t, S), e)
    BY WithoutSnoc
  <2>3. ToSet(Append(t, e)) = ToSet(t) \cup {e}
    BY <1>a
  <2>4. e \notin S => ToSet(Append(Without(t, S), e)) = ToSet(Without(t, S)) \cup {e}
    BY <1>a, <2>1
  <2>5. ToSet(Without(Append(t, e), S)) = ToSet(Append(t, e)) \ S
    BY <2>1, <2>2, <2>3, <2>4
  <2> QED
    BY <2>5
<1>3. Bad \subseteq Seq(X)
  OBVIOUS
<1> HIDE DEF Bad
<1>4. Bad = {}
  BY <1>1, <1>2, <1>3, NoShortest
<1> QED
  BY <1>4 DEF Bad

LEMMA WithoutTwice ==
  ASSUME NEW X, NEW s \in Seq(X), NEW A, NEW B
  PROVE  Without(Without(s, A), B) = Without(s, A \cup B)
<1> DEFINE Bad == {t \in Seq(X) : Without(Without(t, A), B) # Without(t, A \cup B)}
<1>1. <<>> \notin Bad
  BY WithoutNothing
<1>2. ASSUME NEW t \in Seq(X), NEW e \in X, t \notin Bad
      PROVE  Append(t, e) \notin Bad
  <2>1. Without(Without(t, A), B) = Without(t, A \cup B)
    BY <1>2
  <2>2. /\ Without(Append(t, e), A) = IF e \in A THEN Without(t, A) ELSE Append(Without(t, A), e)
        /\ Without(Append(t, e), A \cup B)
             = IF e \in A \cup B THEN Without(t, A \cup B) ELSE Append(Without(t, A \cup B), e)
    BY WithoutSnoc
  <2>3. ASSUME e \notin A
        PROVE  Without(Append(Without(t, A), e), B)
                 = IF e \in B THEN Without(Without(t, A), B) ELSE Append(Without(Without(t, A), B), e)
    <3> DEFINE w == Without(t, A)
    <3>1. w \in Seq(X \ A) /\ e \in X \ A
      BY <2>3, WithoutType
    <3> HIDE DEF w
    <3>2. Without(Append(w, e), B) = IF e \in B THEN Without(w, B) ELSE Append(Without(w, B), e)
      BY <3>1, WithoutSnoc
    <3> QED
      BY <3>2 DEF w
  <2>4. Without(Without(Append(t, e), A), B) = Without(Append(t, e), A \cup B)
    BY <2>1, <2>2, <2>3
  <2> QED
    BY <2>4
<1>3. Bad \subseteq Seq(X)
  OBVIOUS
<1> HIDE DEF Bad
<1>4. Bad = {}
  BY <1>1, <1>2, <1>3, NoShortest
<1> QED
  BY <1>4 DEF Bad

LEMMA WithoutConcat ==
  ASSUME NEW X, NEW r \in Seq(X), NEW s \in Seq(X), NEW S
  PROVE  Without(r \o s, S) = Without(r, S) \o Without(s, S)
<1> DEFINE Bad == {t \in Seq(X) : Without(r \o t, S) # Without(r, S) \o Without(t, S)}
<1>0. Without(r, S) \in Seq(X \ S)
  BY WithoutType
<1>1. <<>> \notin Bad
  <2>1. r \o <<>> = r /\ Without(r, S) \o <<>> = Without(r, S)
    BY <1>0, ConcatEmptySeq
  <2> QED
    BY <2>1, WithoutNothing
<1>2. ASSUME NEW t \in Seq(X), NEW e \in X, t \notin Bad
      PROVE  Append(t, e) \notin Bad
  <2>1. Without(r \o t, S) = Without(r, S) \o Without(t, S)
    BY <1>2
  <2>2. r \o Append(t, e) = Append(r \o t, e) /\ r \o t \in Seq(X)
    OBVIOUS
  <2>3. Without(Append(r \o t, e), S)
          = IF e \in S THEN Without(r \o t, S) ELSE Append(Without(r \o t, S), e)
    <3> DEFINE u == r \o t
    <3>1. u \in Seq(X)
      OBVIOUS
    <3> HIDE DEF u
    <3>2. Without(Append(u, e), S) = IF e \in S THEN Without(u, S) ELSE Append(Without(u, S), e)
      BY <3>1, WithoutSnoc
    <3> QED
      BY <3>2 DEF u
  <2>4. Without(Append(t, e), S) = IF e \in S THEN Without(t, S) ELSE Append(Without(t, S), e)
    BY WithoutSnoc
  <2>5. Without(t, S) \in Seq(X \ S)
    BY WithoutType
  <2>6. e \notin S => Without(r, S) \o Append(Without(t, S), e)
                        = Append(Without(r, S) \o Without(t, S), e)
    BY <1>0, <2>5
  <2>7. Without(r \o Append(t, e), S) = Without(r, S) \o Without(Append(t, e), S)
    BY <2>1, <2>2, <2>3, <2>4, <2>6
  <2> QED
    BY <2>7
<1>3. Bad \subseteq Seq(X)
  OBVIOUS
<1> HIDE DEF Bad
<1>4. Bad = {}
  BY <1>1, <1>2, <1>3, NoShortest
<1> QED
  BY <1>4 DEF Bad

\* A text of dropped lines only comes to nothing.
LEMMA WithoutAll ==
  ASSUME NEW X, NEW s \in Seq(X), NEW S, X \subseteq S
  PROVE  Without(s, S) = <<>>
<1>1. Without(s, S) \in Seq(X \ S) /\ X \ S = {}
  BY WithoutType
<1>2. \A t \in Seq({}) : t = <<>>
  OBVIOUS
<1> QED
  BY <1>1, <1>2

LEMMA OneLine ==
  ASSUME NEW X, NEW e \in X
  PROVE  <<e>> \in Seq(X)
<1>1. \A i \in DOMAIN <<e>> : <<e>>[i] = e
  OBVIOUS
<1>2. DOMAIN <<e>> = 1..1
  OBVIOUS
<1>3. <<e>> \in [1..1 -> X]
  BY <1>1, <1>2
<1> QED
  BY <1>3

LEMMA SetOfSnoc ==
  ASSUME NEW X, NEW s \in Seq(X), NEW e \in X
  PROVE  ToSet(Append(s, e)) = ToSet(s) \cup {e}
<1>1. /\ Append(s, e) \in Seq(X) /\ Len(Append(s, e)) = Len(s) + 1 /\ Len(s) \in Nat
      /\ DOMAIN s = 1..Len(s) /\ DOMAIN Append(s, e) = 1..(Len(s) + 1)
      /\ \A i \in 1..Len(s) : Append(s, e)[i] = s[i]
      /\ Append(s, e)[Len(s) + 1] = e
  OBVIOUS
<1>2. \A i \in 1..(Len(s) + 1) : i \in 1..Len(s) \/ i = Len(s) + 1
  BY <1>1
<1>3. ToSet(s) \subseteq ToSet(Append(s, e)) /\ e \in ToSet(Append(s, e))
  BY <1>1 DEF ToSet
<1>4. ToSet(Append(s, e)) \subseteq ToSet(s) \cup {e}
  BY <1>1, <1>2 DEF ToSet
<1> QED
  BY <1>3, <1>4

\* A line is in a text at most once.
Once(l, s) == \A i, j \in DOMAIN s : s[i] = l /\ s[j] = l => i = j

LEMMA OnceSnoc ==
  ASSUME NEW X, NEW s \in Seq(X), NEW e \in X, NEW l
  PROVE  Once(l, Append(s, e)) <=> Once(l, s) /\ (e = l => l \notin ToSet(s))
<1>1. /\ Len(s) \in Nat /\ DOMAIN s = 1..Len(s) /\ DOMAIN Append(s, e) = 1..(Len(s) + 1)
      /\ \A i \in 1..Len(s) : Append(s, e)[i] = s[i]
      /\ Append(s, e)[Len(s) + 1] = e
  OBVIOUS
<1>2. \A i \in 1..(Len(s) + 1) : i \in 1..Len(s) \/ i = Len(s) + 1
  BY <1>1
<1>3. l \in ToSet(s) <=> \E i \in 1..Len(s) : s[i] = l
  BY <1>1 DEF ToSet
<1>4. ASSUME Once(l, Append(s, e)) PROVE Once(l, s) /\ (e = l => l \notin ToSet(s))
  BY <1>1, <1>2, <1>3, <1>4 DEF Once
<1>5. ASSUME Once(l, s), e = l => l \notin ToSet(s) PROVE Once(l, Append(s, e))
  BY <1>1, <1>2, <1>3, <1>5 DEF Once
<1> QED
  BY <1>4, <1>5

\* Dropping lines repeats none.
LEMMA OnceWithout ==
  ASSUME NEW X, NEW s \in Seq(X), NEW S, NEW l, Once(l, s)
  PROVE  Once(l, Without(s, S))
<1> DEFINE Bad == {t \in Seq(X) : Once(l, t) /\ ~Once(l, Without(t, S))}
<1>1. <<>> \notin Bad
  BY WithoutNothing DEF Once
<1>2. ASSUME NEW t \in Seq(X), NEW e \in X, t \notin Bad
      PROVE  Append(t, e) \notin Bad
  <2> SUFFICES ASSUME Once(l, Append(t, e)) PROVE Once(l, Without(Append(t, e), S))
    OBVIOUS
  <2>1. Once(l, t) /\ (e = l => l \notin ToSet(t))
    BY OnceSnoc
  <2> DEFINE w == Without(t, S)
  <2>2. w \in Seq(X \ S) /\ ToSet(w) = ToSet(t) \ S /\ Once(l, w)
    BY <1>2, <2>1, WithoutType, WithoutSet
  <2>3. Without(Append(t, e), S) = IF e \in S THEN w ELSE Append(w, e)
    BY WithoutSnoc
  <2> HIDE DEF w
  <2>4. e \notin S => Once(l, Append(w, e))
    <3> SUFFICES ASSUME e \in X \ S PROVE Once(l, Append(w, e))
      OBVIOUS
    <3> QED
      BY <2>1, <2>2, OnceSnoc
  <2> QED
    BY <2>2, <2>3, <2>4
<1>3. Bad \subseteq Seq(X)
  OBVIOUS
<1> HIDE DEF Bad
<1>4. Bad = {}
  BY <1>1, <1>2, <1>3, NoShortest
<1> QED
  BY <1>4 DEF Bad

-----------------------------------------------------------------------------
(* What may become of a startup file                                         *)

\* What PMG takes for its own, and may drop.
Droppable == PmgLines \cup {"names .pmg.rc"}

AnyLine == PmgLines \cup OwnLines

Kinds == {"alias", "shim"}

LEMMA TheLines ==
  /\ \A l : l \in PmgLines <=> l \in {"alias comment", "alias", "shim comment", "path"}
  /\ Block["alias"] = <<"alias comment", "alias">> /\ Block["shim"] = <<"shim comment", "path">>
  /\ Marks["alias"] = {"alias", "names .pmg.rc"} /\ Marks["shim"] = {"shim comment", "path"}
  /\ Drops["alias"] = {"alias", "names .pmg.rc", "alias comment"}
  /\ Drops["shim"] = {"shim comment", "path"}
<1>1. \A a, b : ToSet(<<a, b>>) = {a, b}
  BY DEF ToSet
<1>2. Block["alias"] = <<"alias comment", "alias">> /\ Block["shim"] = <<"shim comment", "path">>
  BY DEF Block
<1>3. Marks["alias"] = {"alias", "names .pmg.rc"} /\ Marks["shim"] = {"shim comment", "path"}
  BY DEF Marks
<1>4. PmgLines = {"alias comment", "alias"} \cup {"shim comment", "path"}
  BY <1>1, <1>2 DEF PmgLines
<1>5. Drops["alias"] = Marks["alias"] \cup {"alias comment"} /\ Drops["shim"] = Marks["shim"]
  BY DEF Drops
<1> QED
  BY <1>2, <1>3, <1>4, <1>5

\* It stays, loses droppable lines, or gets a block it has no mark of.
Becomes(s, t) ==
  \/ t = s
  \/ \E D : D \subseteq Droppable /\ t = Without(s, D)
  \/ \E kind \in Kinds : ToSet(s) \cap Marks[kind] = {} /\ t = s \o Block[kind]

LEMMA SourcingIsNotOurs == "sources .bashrc" \notin PmgLines
<1>1. PmgLines = {"alias comment", "alias", "shim comment", "path"}
  BY TheLines
<1> QED
  BY <1>1

LEMMA DroppableType == Droppable \subseteq AnyLine
  BY DEF Droppable, AnyLine, OwnLines

LEMMA BlockAdded ==
  ASSUME NEW s \in Seq(AnyLine), NEW kind \in Kinds
  PROVE  \E a, b \in Droppable :
           /\ s \o Block[kind] = Append(Append(s, a), b)
           /\ b \in Marks[kind] /\ a # b
           /\ a \notin {"path", "alias"} /\ {a, b} \subseteq PmgLines
<1>1. \A a, b \in AnyLine : s \o <<a, b>> = Append(Append(s, a), b)
  OBVIOUS
<1>2. CASE kind = "alias"
  <2>1. s \o Block[kind] = Append(Append(s, "alias comment"), "alias")
    BY <1>1, <1>2, TheLines DEF AnyLine
  <2> QED
    BY <2>1, <1>2, TheLines DEF Droppable
<1>3. CASE kind = "shim"
  <2>1. s \o Block[kind] = Append(Append(s, "shim comment"), "path")
    BY <1>1, <1>3, TheLines DEF AnyLine
  <2> QED
    BY <2>1, <1>3, TheLines DEF Droppable
<1> QED
  BY <1>2, <1>3 DEF Kinds

\* The user's lines are the same then, and none of PMG's is there twice.
LEMMA BecomesKeeps ==
  ASSUME NEW s \in Seq(AnyLine), NEW t, Becomes(s, t)
  PROVE  /\ t \in Seq(AnyLine)
         /\ Without(t, Droppable) = Without(s, Droppable)
         /\ \A l \in {"path", "alias"} : Once(l, s) => Once(l, t)
<1>1. CASE t = s
  BY <1>1
<1>2. CASE \E D : D \subseteq Droppable /\ t = Without(s, D)
  <2>1. PICK D : D \subseteq Droppable /\ t = Without(s, D)
    BY <1>2
  <2>2. t \in Seq(AnyLine \ D) /\ \A l : Once(l, s) => Once(l, t)
    BY <2>1, WithoutType, OnceWithout
  <2>3. t \in Seq(AnyLine)
    BY <2>2
  <2>4. Without(t, Droppable) = Without(s, D \cup Droppable) /\ D \cup Droppable = Droppable
    BY <2>1, WithoutTwice
  <2> QED
    BY <2>2, <2>3, <2>4
<1>3. CASE \E kind \in Kinds : ToSet(s) \cap Marks[kind] = {} /\ t = s \o Block[kind]
  <2>1. PICK kind \in Kinds : ToSet(s) \cap Marks[kind] = {} /\ t = s \o Block[kind]
    BY <1>3
  <2>2. PICK a, b \in Droppable : /\ t = Append(Append(s, a), b)
                                  /\ b \in Marks[kind] /\ a # b
                                  /\ a \notin {"path", "alias"} /\ {a, b} \subseteq PmgLines
    BY <2>1, BlockAdded
  <2>3. a \in AnyLine /\ b \in AnyLine
    BY <2>2, DroppableType
  <2> DEFINE u == Append(s, a)
  <2>4. u \in Seq(AnyLine) /\ t = Append(u, b) /\ t \in Seq(AnyLine)
    BY <2>2, <2>3
  <2>5. Without(u, Droppable) = Without(s, Droppable)
    BY <2>3, WithoutSnoc
  <2>6. ToSet(u) = ToSet(s) \cup {a}
    BY <2>3, SetOfSnoc
  <2>7. \A l : Once(l, u) <=> Once(l, s) /\ (a = l => l \notin ToSet(s))
    BY <2>3, OnceSnoc
  <2> HIDE DEF u
  <2>8. Without(Append(u, b), Droppable) = Without(u, Droppable)
    BY <2>3, <2>4, WithoutSnoc
  <2>9. \A l : Once(l, Append(u, b)) <=> Once(l, u) /\ (b = l => l \notin ToSet(u))
    BY <2>3, <2>4, OnceSnoc
  <2> QED
    BY <2>1, <2>2, <2>4, <2>5, <2>6, <2>7, <2>8, <2>9
<1> QED
  BY <1>1, <1>2, <1>3 DEF Becomes

Candidates == UNION {CandidateRcFiles(s) : s \in Shells}

\* The user's lines are in their files, PMG's only in startup files, none twice.
FilesInv ==
  /\ "" \notin DOMAIN rc
  /\ \A f \in DOMAIN rc :
       /\ rc[f] \in Seq(AnyLine)
       /\ \A l \in {"path", "alias"} : Once(l, rc[f])
       /\ f \notin Candidates => ToSet(rc[f]) \cap PmgLines = {}
  /\ \A f \in DOMAIN own :
       f \in DOMAIN rc /\ Without(rc[f], Droppable) = Without(own[f], Droppable)

FilesStep ==
  /\ UNCHANGED own
  /\ DOMAIN rc \subseteq DOMAIN rc' /\ "" \notin DOMAIN rc'
  /\ \A f \in DOMAIN rc' :
       /\ f \in DOMAIN rc => Becomes(rc[f], rc'[f])
       /\ f \notin DOMAIN rc => Becomes(<<>>, rc'[f])
       /\ f \notin Candidates => f \in DOMAIN rc /\ ToSet(rc'[f]) \subseteq ToSet(rc[f])

LEMMA FilesStepInv ==
  ASSUME FilesInv, FilesStep
  PROVE  FilesInv'
<1>1. ASSUME NEW f \in DOMAIN rc'
      PROVE  /\ rc'[f] \in Seq(AnyLine)
             /\ \A l \in {"path", "alias"} : Once(l, rc'[f])
             /\ f \notin Candidates => ToSet(rc'[f]) \cap PmgLines = {}
             /\ f \in DOMAIN rc => Without(rc'[f], Droppable) = Without(rc[f], Droppable)
  <2>1. CASE f \in DOMAIN rc
    <3>1. rc[f] \in Seq(AnyLine) /\ Becomes(rc[f], rc'[f])
      BY <2>1 DEF FilesInv, FilesStep
    <3>2. /\ rc'[f] \in Seq(AnyLine)
          /\ Without(rc'[f], Droppable) = Without(rc[f], Droppable)
          /\ \A l \in {"path", "alias"} : Once(l, rc[f]) => Once(l, rc'[f])
      BY <3>1, BecomesKeeps
    <3> QED
      BY <2>1, <3>2 DEF FilesInv, FilesStep
  <2>2. CASE f \notin DOMAIN rc
    <3>1. <<>> \in Seq(AnyLine) /\ \A l : Once(l, <<>>)
      BY DEF Once
    <3>2. Becomes(<<>>, rc'[f]) /\ f \in Candidates
      BY <2>2 DEF FilesStep
    <3>3. rc'[f] \in Seq(AnyLine) /\ \A l \in {"path", "alias"} : Once(l, rc'[f])
      BY <3>1, <3>2, BecomesKeeps
    <3> QED
      BY <2>2, <3>2, <3>3
  <2> QED
    BY <2>1, <2>2
<1>2. "" \notin DOMAIN rc'
  BY DEF FilesStep
<1>3. ASSUME NEW f \in DOMAIN own'
      PROVE  f \in DOMAIN rc' /\ Without(rc'[f], Droppable) = Without(own'[f], Droppable)
  <2>1. own' = own /\ f \in DOMAIN own /\ f \in DOMAIN rc /\ f \in DOMAIN rc'
    BY DEF FilesInv, FilesStep
  <2>2. Without(rc[f], Droppable) = Without(own[f], Droppable)
    BY <2>1 DEF FilesInv
  <2> QED
    BY <1>1, <2>1, <2>2
<1> QED
  BY <1>1, <1>2, <1>3 DEF FilesInv

-----------------------------------------------------------------------------
(* Which files an install writes                                            *)

LEMMA FirstLoginIs ==
  FirstLogin = IF Exists(".bash_profile") THEN ".bash_profile"
               ELSE IF Exists(".bash_login") THEN ".bash_login"
               ELSE IF Exists(".profile") THEN ".profile" ELSE ""
<1> DEFINE found == {i \in DOMAIN LoginFiles : Exists(LoginFiles[i])}
<1>1. /\ DOMAIN LoginFiles = 1..3 /\ LoginFiles[1] = ".bash_profile"
      /\ LoginFiles[2] = ".bash_login" /\ LoginFiles[3] = ".profile"
  BY DEF LoginFiles
<1>2. /\ 1 \in found <=> Exists(".bash_profile")
      /\ 2 \in found <=> Exists(".bash_login")
      /\ 3 \in found <=> Exists(".profile")
      /\ found \subseteq {1, 2, 3}
  BY <1>1
<1>3. FirstLogin = IF found = {} THEN "" ELSE LoginFiles[Min(found)]
  BY DEF FirstLogin
<1> HIDE DEF found
<1>4. ASSUME NEW i \in {1, 2, 3}, i \in found, \A j \in found : i <= j
      PROVE  Min(found) = i
  <2>1. \A x \in found : (\A y \in found : x <= y) => x = i
    BY <1>2, <1>4
  <2>2. Min(found) = CHOOSE x \in found : \A y \in found : x <= y
    BY DEF Min
  <2> QED
    BY <1>4, <2>1, <2>2
<1>5. CASE 1 \in found
  <2>1. Min(found) = 1
    BY <1>2, <1>4, <1>5
  <2> QED
    BY <1>1, <1>2, <1>3, <1>5, <2>1
<1>6. CASE 1 \notin found /\ 2 \in found
  <2>1. Min(found) = 2
    BY <1>2, <1>4, <1>6
  <2> QED
    BY <1>1, <1>2, <1>3, <1>6, <2>1
<1>7. CASE 1 \notin found /\ 2 \notin found /\ 3 \in found
  <2>1. Min(found) = 3
    BY <1>2, <1>4, <1>7
  <2> QED
    BY <1>1, <1>2, <1>3, <1>7, <2>1
<1>8. CASE 1 \notin found /\ 2 \notin found /\ 3 \notin found
  BY <1>2, <1>3, <1>8
<1> QED
  BY <1>5, <1>6, <1>7, <1>8

Targets == UNION {InstallRcFiles(s) : s \in Shells}

LEMMA LoginSet == ToSet(LoginFiles) = {".bash_profile", ".bash_login", ".profile"}
  BY DEF LoginFiles, ToSet

LEMMA CandidatesAre ==
  Candidates = {".bashrc", ".bash_profile", ".bash_login", ".profile", ".zshrc", "config.fish"}
<1>1. ToSet(LoginFiles) = {".bash_profile", ".bash_login", ".profile"}
  BY LoginSet
<1>2. /\ CandidateRcFiles("bash") = {".bashrc"} \cup ToSet(LoginFiles)
      /\ CandidateRcFiles("zsh") = {".zshrc"} /\ CandidateRcFiles("fish") = {"config.fish"}
  BY DEF CandidateRcFiles, Single
<1>3. Candidates = CandidateRcFiles("bash") \cup CandidateRcFiles("zsh") \cup CandidateRcFiles("fish")
  BY DEF Candidates, Shells
<1> QED
  BY <1>1, <1>2, <1>3

\* The login file an install is about: the first, or on macOS one to make.
Login ==
  IF FirstLogin = "" /\ IsPrimary("bash") /\ system.os = "darwin" THEN ".bash_profile" ELSE FirstLogin

LEMMA TargetsAre ==
  /\ \A s \in {"zsh", "fish"} :
       Single[s] \in Targets <=> Exists(Single[s]) \/ IsPrimary(s)
  /\ Exists(".bashrc") => ".bashrc" \in Targets
  /\ Login # "" /\ (~Exists(".bashrc") \/ ~ReferencesBashrc(Login)) => Login \in Targets
  /\ IsPrimary("bash") => ".bashrc" \in Targets \/ (Login # "" /\ Login \in Targets)
  /\ \A f \in Targets :
       \/ f \in {".zshrc", "config.fish"}
       \/ f = ".bashrc" /\ (Exists(f) \/ (Login = "" /\ IsPrimary("bash")))
       \/ f = Login /\ Login # ""
<1>1. Targets = BashInstallRcFiles \cup InstallRcFiles("zsh") \cup InstallRcFiles("fish")
  <2>1. InstallRcFiles("bash") = BashInstallRcFiles
    BY DEF InstallRcFiles
  <2> QED
    BY <2>1 DEF Targets, Shells
<1>2. /\ InstallRcFiles("zsh") = {f \in {".zshrc"} : Exists(f) \/ IsPrimary("zsh")}
      /\ InstallRcFiles("fish") = {f \in {"config.fish"} : Exists(f) \/ IsPrimary("fish")}
      /\ Single["zsh"] = ".zshrc" /\ Single["fish"] = "config.fish"
  BY DEF InstallRcFiles, Single
<1> DEFINE files == {f \in {".bashrc"} : Exists(f)}
                    \cup {f \in {Login} \ {""} : ~Exists(".bashrc") \/ ~ReferencesBashrc(f)}
<1>3. BashInstallRcFiles = IF files # {} THEN files
                           ELSE IF IsPrimary("bash") THEN {".bashrc"} ELSE {}
  BY DEF BashInstallRcFiles, Login
<1>4. Login \in {"", ".bash_profile", ".bash_login", ".profile"}
  BY FirstLoginIs DEF Login
<1>5. files = {} => Login = "" /\ ~Exists(".bashrc")
  OBVIOUS
<1>6. \A f : f \in files <=> \/ f = ".bashrc" /\ Exists(".bashrc")
                             \/ /\ f = Login /\ Login # ""
                                /\ ~Exists(".bashrc") \/ ~ReferencesBashrc(Login)
  OBVIOUS
<1> HIDE DEF files
<1>7. BashInstallRcFiles \subseteq {".bashrc", ".bash_profile", ".bash_login", ".profile"}
  BY <1>3, <1>4, <1>6
<1> QED
  BY <1>1, <1>2, <1>3, <1>4, <1>5, <1>6, <1>7

\* An install that nothing disturbs writes its targets, and only adds to them.
Written(kind) ==
  /\ DOMAIN rc' = DOMAIN rc \cup Targets
  /\ \A f \in Targets : ToSet(rc'[f]) \cap Marks[kind] # {}
  /\ \A f \in DOMAIN rc : /\ ToSet(rc[f]) \subseteq ToSet(rc'[f])
                          /\ ToSet(rc'[f]) \subseteq ToSet(rc[f]) \cup PmgLines
  /\ \A f \in DOMAIN rc' \ DOMAIN rc : ToSet(rc'[f]) \subseteq PmgLines

LEMMA AddLinesIs ==
  ASSUME NEW kind \in Kinds, NEW f, f \in DOMAIN rc => rc[f] \in Seq(AnyLine)
  PROVE  LET t == AddLines(kind, f)
         IN /\ ToSet(t) \cap Marks[kind] # {}
            /\ f \notin DOMAIN rc => Becomes(<<>>, t) /\ ToSet(t) \subseteq PmgLines
            /\ f \in DOMAIN rc => /\ Becomes(rc[f], t)
                                  /\ ToSet(rc[f]) \subseteq ToSet(t)
                                  /\ ToSet(t) \subseteq ToSet(rc[f]) \cup PmgLines
<1>1. ASSUME NEW s \in Seq(AnyLine)
      PROVE  /\ ToSet(s) \subseteq ToSet(s \o Block[kind])
             /\ ToSet(s \o Block[kind]) \subseteq ToSet(s) \cup PmgLines
             /\ ToSet(s \o Block[kind]) \cap Marks[kind] # {}
  <2>1. PICK a, b \in Droppable : /\ s \o Block[kind] = Append(Append(s, a), b)
                                  /\ b \in Marks[kind] /\ {a, b} \subseteq PmgLines
    BY BlockAdded
  <2>2. a \in AnyLine /\ b \in AnyLine
    BY DroppableType
  <2> DEFINE u == Append(s, a)
  <2>3. u \in Seq(AnyLine) /\ ToSet(u) = ToSet(s) \cup {a}
    BY <2>2, SetOfSnoc
  <2> HIDE DEF u
  <2>4. ToSet(Append(u, b)) = ToSet(u) \cup {b}
    BY <2>2, <2>3, SetOfSnoc
  <2> QED
    BY <2>1, <2>3, <2>4 DEF u
<1>2. CASE f \notin DOMAIN rc
  <2>1. AddLines(kind, f) = Block[kind]
    BY <1>2 DEF AddLines, Exists
  <2>2. <<>> \o Block[kind] = Block[kind] /\ ToSet(<<>>) = {} /\ <<>> \in Seq(AnyLine)
    <3>1. Block[kind] \in Seq(AnyLine)
      <4>1. \A a, b \in AnyLine : <<a, b>> \in Seq(AnyLine)
        OBVIOUS
      <4>2. {"alias comment", "alias", "shim comment", "path"} \subseteq AnyLine
        BY TheLines DEF AnyLine
      <4>3. /\ <<"alias comment", "alias">> \in Seq(AnyLine)
            /\ <<"shim comment", "path">> \in Seq(AnyLine)
        BY <4>1, <4>2
      <4>4. Block["alias"] \in Seq(AnyLine) /\ Block["shim"] \in Seq(AnyLine)
        BY <4>3, TheLines
      <4> QED
        BY <4>4 DEF Kinds
    <3>2. <<>> \o Block[kind] = Block[kind]
      BY <3>1, ConcatEmptySeq
    <3> QED
      BY <3>2 DEF ToSet
  <2>3. Becomes(<<>>, Block[kind])
    BY <2>2 DEF Becomes
  <2>4. /\ ToSet(<<>> \o Block[kind]) \subseteq ToSet(<<>>) \cup PmgLines
        /\ ToSet(<<>> \o Block[kind]) \cap Marks[kind] # {}
    BY <1>1, <2>2
  <2> QED
    BY <1>2, <2>1, <2>2, <2>3, <2>4
<1>3. CASE f \in DOMAIN rc /\ ToSet(rc[f]) \cap Marks[kind] # {}
  BY <1>3 DEF AddLines, HasLine, Exists, Becomes
<1>4. CASE f \in DOMAIN rc /\ ToSet(rc[f]) \cap Marks[kind] = {}
  <2>1. AddLines(kind, f) = rc[f] \o Block[kind]
    BY <1>4 DEF AddLines, HasLine, Exists
  <2>2. Becomes(rc[f], rc[f] \o Block[kind])
    BY <1>4 DEF Becomes
  <2> QED
    BY <1>1, <1>4, <2>1, <2>2
<1> QED
  BY <1>2, <1>3, <1>4

LEMMA WriteLinesIs ==
  ASSUME FilesInv, NEW kind \in Kinds, WriteLines(kind), UNCHANGED own
  PROVE  FilesStep /\ (clean' => clean /\ Written(kind))
<1>1. PICK failed \in SUBSET Targets : \E made \in SUBSET (failed \ DOMAIN rc) :
        /\ rc' = [f \in DOMAIN rc \cup (Targets \ failed) \cup made |->
                    IF f \in Targets \ failed THEN AddLines(kind, f)
                    ELSE IF f \in made THEN <<>> ELSE rc[f]]
        /\ Either(failed = {})
  BY DEF WriteLines, Targets
<1>2. PICK made \in SUBSET (failed \ DOMAIN rc) :
        rc' = [f \in DOMAIN rc \cup (Targets \ failed) \cup made |->
                 IF f \in Targets \ failed THEN AddLines(kind, f)
                 ELSE IF f \in made THEN <<>> ELSE rc[f]]
  BY <1>1
<1>3. DOMAIN rc' = DOMAIN rc \cup (Targets \ failed) \cup made
  BY <1>2
<1>4. /\ \A f \in Targets \ failed : rc'[f] = AddLines(kind, f)
      /\ \A f \in made : rc'[f] = <<>>
      /\ \A f \in DOMAIN rc : f \notin Targets \ failed => rc'[f] = rc[f]
  BY <1>2
<1>5. Targets \subseteq Candidates
  BY TargetsAre, CandidatesAre, FirstLoginIs DEF Login
<1>6. "" \notin Candidates
  BY CandidatesAre
<1>7. \A f \in DOMAIN rc : rc[f] \in Seq(AnyLine)
  BY DEF FilesInv
<1>8. FilesStep
  <2>1. DOMAIN rc \subseteq DOMAIN rc' /\ "" \notin DOMAIN rc'
    BY <1>3, <1>5, <1>6 DEF FilesInv
  <2>2. ASSUME NEW f \in DOMAIN rc'
        PROVE  /\ f \in DOMAIN rc => Becomes(rc[f], rc'[f])
               /\ f \notin DOMAIN rc => Becomes(<<>>, rc'[f])
               /\ f \notin Candidates => f \in DOMAIN rc /\ ToSet(rc'[f]) \subseteq ToSet(rc[f])
    <3>1. CASE f \in Targets \ failed
      BY <3>1, <1>4, <1>5, <1>7, AddLinesIs
    <3>2. CASE f \in made
      <4>1. rc'[f] = <<>> /\ f \notin DOMAIN rc /\ f \in Candidates
        BY <3>2, <1>4, <1>5
      <4> QED
        BY <4>1 DEF Becomes
    <3>3. CASE f \in DOMAIN rc /\ f \notin Targets \ failed
      BY <3>3, <1>4 DEF Becomes
    <3> QED
      BY <3>1, <3>2, <3>3, <1>3
  <2> QED
    BY <2>1, <2>2 DEF FilesStep
<1>9. ASSUME clean' PROVE clean /\ Written(kind)
  <2>1. clean /\ failed = {}
    BY <1>1, <1>9 DEF Either
  <2>2. made = {} /\ DOMAIN rc' = DOMAIN rc \cup Targets
    BY <2>1, <1>3
  <2>3. \A f \in Targets : ToSet(rc'[f]) \cap Marks[kind] # {}
    BY <2>1, <1>4, <1>7, AddLinesIs
  <2>4. ASSUME NEW f \in DOMAIN rc
        PROVE  /\ ToSet(rc[f]) \subseteq ToSet(rc'[f])
               /\ ToSet(rc'[f]) \subseteq ToSet(rc[f]) \cup PmgLines
    <3>1. CASE f \in Targets
      BY <3>1, <2>1, <1>4, <1>7, AddLinesIs
    <3>2. CASE f \notin Targets
      BY <3>2, <1>4
    <3> QED
      BY <3>1, <3>2
  <2>5. \A f \in DOMAIN rc' \ DOMAIN rc : ToSet(rc'[f]) \subseteq PmgLines
    BY <2>1, <2>2, <1>4, AddLinesIs
  <2> QED
    BY <2>1, <2>2, <2>3, <2>4, <2>5 DEF Written
<1> QED
  BY <1>8, <1>9

-----------------------------------------------------------------------------
(* What removes lines, and the user's edits                                  *)

LEMMA DropLinesIs ==
  ASSUME FilesInv, NEW kind \in Kinds, DropLines(kind), UNCHANGED own
  PROVE  /\ FilesStep
         /\ \A f \in DOMAIN rc' : f \in DOMAIN rc /\ ToSet(rc'[f]) \subseteq ToSet(rc[f])
         /\ clean' => /\ clean
                      /\ \A f \in DOMAIN rc' :
                           f \in Candidates => ToSet(rc'[f]) \cap Drops[kind] = {}
<1>1. PICK failed \in SUBSET (Candidates \cap DOMAIN rc) :
        /\ rc' = [f \in DOMAIN rc |->
                    IF f \in (Candidates \cap DOMAIN rc) \ failed THEN Keeps(kind, rc[f]) ELSE rc[f]]
        /\ Either(failed = {})
  BY DEF DropLines, Candidates
<1> DEFINE targets == Candidates \cap DOMAIN rc
<1>2. DOMAIN rc' = DOMAIN rc
      /\ \A f \in DOMAIN rc :
           rc'[f] = IF f \in targets \ failed THEN Without(rc[f], Drops[kind]) ELSE rc[f]
  BY <1>1 DEF Keeps
<1>3. Drops[kind] \subseteq Droppable
  BY TheLines DEF Kinds, Droppable
<1>4. ASSUME NEW f \in DOMAIN rc
      PROVE  /\ Becomes(rc[f], rc'[f])
             /\ ToSet(rc'[f]) \subseteq ToSet(rc[f])
             /\ f \in targets \ failed => ToSet(rc'[f]) \cap Drops[kind] = {}
  <2>1. CASE f \in targets \ failed
    <3>1. rc'[f] = Without(rc[f], Drops[kind])
      BY <1>2, <2>1
    <3>2. rc[f] \in Seq(AnyLine)
      BY DEF FilesInv
    <3>3. ToSet(rc'[f]) = ToSet(rc[f]) \ Drops[kind]
      BY <3>1, <3>2, WithoutSet
    <3> QED
      BY <1>3, <3>1, <3>3 DEF Becomes
  <2>2. CASE f \notin targets \ failed
    BY <1>2, <2>2 DEF Becomes
  <2> QED
    BY <2>1, <2>2
<1>5. FilesStep
  BY <1>2, <1>4 DEF FilesStep, FilesInv
<1>6. clean' => clean /\ failed = {}
  BY <1>1 DEF Either
<1> QED
  BY <1>2, <1>4, <1>5, <1>6

LEMMA UserDeletesIs ==
  ASSUME FilesInv, NEW f, NEW l \in {"path", "alias"}, UserDeletes(f, l)
  PROVE  FilesStep
<1>1. /\ f \in DOMAIN rc
      /\ own' = own
      /\ rc' = [rc EXCEPT ![f] = Without(rc[f], {l})]
  BY DEF UserDeletes, HasLine, Exists
<1>2. /\ DOMAIN rc' = DOMAIN rc
      /\ \A g \in DOMAIN rc : rc'[g] = IF g = f THEN Without(rc[f], {l}) ELSE rc[g]
  BY <1>1
<1>3. {l} \subseteq Droppable
  BY TheLines DEF Droppable
<1>4. ToSet(Without(rc[f], {l})) = ToSet(rc[f]) \ {l}
  <2>1. rc[f] \in Seq(AnyLine)
    BY <1>1 DEF FilesInv
  <2> QED
    BY <2>1, WithoutSet
<1>5. ASSUME NEW g \in DOMAIN rc
      PROVE  Becomes(rc[g], rc'[g]) /\ ToSet(rc'[g]) \subseteq ToSet(rc[g])
  BY <1>2, <1>3, <1>4 DEF Becomes
<1> QED
  BY <1>1, <1>2, <1>5 DEF FilesStep, FilesInv

\* A text of the user's has no line of PMG's.
LEMMA OwnText ==
  ASSUME NEW s \in Seq(OwnLines)
  PROVE  /\ s \in Seq(AnyLine)
         /\ \A l \in {"path", "alias"} : Once(l, s)
         /\ ToSet(s) \cap PmgLines = {}
<1>1. OwnLines \cap PmgLines = {} /\ OwnLines \subseteq AnyLine
  BY TheLines DEF OwnLines, AnyLine
<1>2. \A i \in DOMAIN s : s[i] \in OwnLines
  OBVIOUS
<1>3. ToSet(s) \subseteq OwnLines
  BY <1>2 DEF ToSet
<1>4. {"path", "alias"} \subseteq PmgLines
  BY TheLines
<1>5. \A l \in {"path", "alias"} : \A i \in DOMAIN s : s[i] # l
  BY <1>1, <1>2, <1>4
<1>6. \A l \in {"path", "alias"} : Once(l, s)
  BY <1>5 DEF Once
<1> QED
  BY <1>1, <1>3, <1>6

LEMMA UserWritesIs ==
  ASSUME FilesInv, NEW f \in ToSet(LoginFiles) \cup {".bashrc"}, NEW l \in {"user", "sources .bashrc"},
         UserWrites(f, l)
  PROVE  FilesInv'
<1>1. /\ f \notin DOMAIN rc
      /\ rc' = [g \in DOMAIN rc \cup {f} |-> IF g = f THEN <<l>> ELSE rc[g]]
      /\ own' = [g \in DOMAIN own \cup {f} |-> IF g = f THEN <<l>> ELSE own[g]]
  BY DEF UserWrites, Exists
<1>2. <<l>> \in Seq(OwnLines)
  <2>1. l \in OwnLines
    BY DEF OwnLines
  <2> QED
    BY <2>1, OneLine
<1>3. f # ""
  BY LoginSet
<1>4. /\ DOMAIN rc' = DOMAIN rc \cup {f} /\ rc'[f] = <<l>>
      /\ \A g \in DOMAIN rc : rc'[g] = rc[g]
      /\ DOMAIN own' = DOMAIN own \cup {f} /\ own'[f] = <<l>>
      /\ \A g \in DOMAIN own : g # f => own'[g] = own[g]
  BY <1>1
<1>5. /\ rc'[f] \in Seq(AnyLine)
      /\ \A m \in {"path", "alias"} : Once(m, rc'[f])
      /\ ToSet(rc'[f]) \cap PmgLines = {}
  BY <1>2, <1>4, OwnText
<1>6. ASSUME NEW g \in DOMAIN own'
      PROVE  g \in DOMAIN rc' /\ Without(rc'[g], Droppable) = Without(own'[g], Droppable)
  BY <1>4 DEF FilesInv
<1>7. ASSUME NEW g \in DOMAIN rc'
      PROVE  /\ rc'[g] \in Seq(AnyLine)
             /\ \A m \in {"path", "alias"} : Once(m, rc'[g])
             /\ g \notin Candidates => ToSet(rc'[g]) \cap PmgLines = {}
  BY <1>4, <1>5 DEF FilesInv
<1>8. "" \notin DOMAIN rc'
  BY <1>3, <1>4 DEF FilesInv
<1> QED
  BY <1>6, <1>7, <1>8 DEF FilesInv

-----------------------------------------------------------------------------
(* The files at every step                                                   *)

LEMMA FilesAtFirst == SetupInit => FilesInv
<1> SUFFICES ASSUME SetupInit PROVE FilesInv
  OBVIOUS
<1>1. PICK h \in Homes : rc = h.rc /\ own = h.rc
  BY DEF SetupInit
<1>2. "" \notin DOMAIN rc /\ \A f \in DOMAIN rc : rc[f] \in Seq(OwnLines)
  BY <1>1, SetupAssumption
<1> QED
  BY <1>1, <1>2, OwnText DEF FilesInv

LEMMA FilesKept == FilesInv /\ [SetupNext]_setupVars => FilesInv'
<1> SUFFICES ASSUME FilesInv, [SetupNext]_setupVars PROVE FilesInv'
  OBVIOUS
<1>1. ASSUME UNCHANGED <<rc, own>> PROVE FilesInv'
  BY <1>1 DEF FilesInv
<1>2. "alias" \in Kinds /\ "shim" \in Kinds
  BY DEF Kinds
<1>3. CASE AddPathToShells
  <2>1. WriteLines("shim") /\ UNCHANGED own
    BY <1>3 DEF AddPathToShells, Environment
  <2> QED
    BY <1>2, <2>1, WriteLinesIs, FilesStepInv
<1>4. CASE SourceRcFile
  <2>1. WriteLines("alias") /\ UNCHANGED own
    BY <1>4 DEF SourceRcFile, Environment
  <2> QED
    BY <1>2, <2>1, WriteLinesIs, FilesStepInv
<1>5. CASE RemoveSourceLines
  <2>1. DropLines("alias") /\ UNCHANGED own
    BY <1>5 DEF RemoveSourceLines, Environment
  <2> QED
    BY <1>2, <2>1, DropLinesIs, FilesStepInv
<1>6. CASE RemovePathFromShells
  <2>1. DropLines("shim") /\ UNCHANGED own
    BY <1>6 DEF RemovePathFromShells, Environment
  <2> QED
    BY <1>2, <2>1, DropLinesIs, FilesStepInv
<1>7. CASE \E f \in ToSet(LoginFiles) \cup {".bashrc"}, l \in {"user", "sources .bashrc"} : UserWrites(f, l)
  BY <1>7, UserWritesIs
<1>8. CASE \E f \in DOMAIN rc, l \in {"path", "alias"} : UserDeletes(f, l)
  BY <1>8, UserDeletesIs, FilesStepInv
<1>9. CASE \/ StartInstall \/ WriteConfig \/ WriteShims \/ InstallHeartbeat \/ CreateAliasFile
           \/ StartRemove \/ RemoveHeartbeat \/ RemoveAliasFile \/ RemoveShims
           \/ Killed \/ SessionChanges \/ UNCHANGED setupVars
  <2>1. UNCHANGED <<rc, own>>
    BY <1>9 DEF StartInstall, Start, WriteConfig, WriteShims, InstallHeartbeat, CreateAliasFile,
       StartRemove, RemoveHeartbeat, RemoveAliasFile, RemoveShims, Killed, SessionChanges,
       setupVars, diskVars, Environment
  <2> QED
    BY <1>1, <2>1
<1> QED
  BY <1>3, <1>4, <1>5, <1>6, <1>7, <1>8, <1>9 DEF SetupNext

-----------------------------------------------------------------------------
(* The user's jobs                                                           *)

\* A text that has none of the lines keeps all.
LEMMA WithoutNone ==
  ASSUME NEW X, NEW s \in Seq(X), NEW S, X \cap S = {}
  PROVE  Without(s, S) = s
<1> DEFINE Bad == {t \in Seq(X) : Without(t, S) # t}
<1>1. <<>> \notin Bad
  BY WithoutNothing
<1>2. ASSUME NEW t \in Seq(X), NEW e \in X, t \notin Bad
      PROVE  Append(t, e) \notin Bad
  <2>1. Without(Append(t, e), S) = IF e \in S THEN Without(t, S) ELSE Append(Without(t, S), e)
    BY WithoutSnoc
  <2> QED
    BY <1>2, <2>1
<1>3. Bad \subseteq Seq(X)
  OBVIOUS
<1> HIDE DEF Bad
<1>4. Bad = {}
  BY <1>1, <1>2, <1>3, NoShortest
<1> QED
  BY <1>4 DEF Bad

Jobs == {"job", "pmg"}

JobsInv ==
  /\ crontab \in Seq(Jobs)
  /\ misread \/ Without(crontab, {"pmg"}) = system.jobs

LEMMA RewriteIs ==
  ASSUME JobsInv, NEW added \in {<<>>, <<"pmg">>}, RewriteCrontab(added), UNCHANGED system
  PROVE  JobsInv'
<1>1. PICK read \in {"whole", "nothing", "part"}, written \in BOOLEAN :
        /\ crontab' = IF ~written THEN crontab
                      ELSE Without(IF read = "whole" THEN crontab ELSE <<>>, {"pmg"}) \o added
        /\ misread' = (misread \/ (read = "nothing" /\ written))
        /\ read = "part" => ~written
  BY DEF RewriteCrontab, StripPMGLines
<1>2. "pmg" \in Jobs /\ <<>> \in Seq(Jobs)
  BY DEF Jobs
<1>3. added \in Seq(Jobs) /\ Without(added, {"pmg"}) = <<>>
  <2>1. <<"pmg">> \in Seq(Jobs) /\ <<"pmg">> \in Seq({"pmg"})
    BY <1>2, OneLine
  <2>2. Without(<<"pmg">>, {"pmg"}) = <<>>
    BY <2>1, WithoutAll
  <2> QED
    BY <1>2, <2>1, <2>2, WithoutNothing
<1>4. CASE ~written
  BY <1>1, <1>4 DEF JobsInv
<1>5. CASE written
  <2> DEFINE before == IF read = "whole" THEN crontab ELSE <<>>
             kept == Without(before, {"pmg"})
  <2>1. before \in Seq(Jobs)
    BY <1>2 DEF JobsInv
  <2> HIDE DEF before
  <2>2. kept \in Seq(Jobs \ {"pmg"}) /\ kept \in Seq(Jobs)
    <3>1. kept \in Seq(Jobs \ {"pmg"})
      BY <2>1, WithoutType
    <3> QED
      BY <3>1
  <2>3. Without(kept, {"pmg"}) = kept
    BY <2>2, WithoutNone
  <2> HIDE DEF kept
  <2>4. Without(kept \o added, {"pmg"}) = kept
    <3>1. Without(kept \o added, {"pmg"}) = Without(kept, {"pmg"}) \o Without(added, {"pmg"})
      BY <1>3, <2>2, WithoutConcat
    <3>2. kept \o <<>> = kept
      BY <2>2
    <3> QED
      BY <1>3, <2>3, <3>1, <3>2
  <2>5. crontab' = kept \o added
    BY <1>1, <1>5 DEF kept, before
  <2>6. crontab' \in Seq(Jobs) /\ Without(crontab', {"pmg"}) = kept
    BY <1>3, <2>2, <2>4, <2>5
  <2>7. read = "whole" => before = crontab
    BY DEF before
  <2>8. misread' \/ read = "whole"
    BY <1>1, <1>5
  <2>9. misread => misread'
    BY <1>1
  <2> QED
    BY <2>6, <2>7, <2>8, <2>9 DEF JobsInv, kept
<1> QED
  BY <1>4, <1>5

LEMMA JobsAtFirst == SetupInit => JobsInv
<1> SUFFICES ASSUME SetupInit PROVE JobsInv
  OBVIOUS
<1>1. PICK s \in Systems, h \in Homes, e \in BOOLEAN :
        /\ system = [os |-> s.os, shell |-> s.shell, enrolled |-> e, jobs |-> h.crontab]
        /\ crontab = h.crontab
  BY DEF SetupInit
<1>2. crontab \in Seq({"job"}) /\ system.jobs = crontab
  BY <1>1, SetupAssumption
<1>3. Without(crontab, {"pmg"}) = crontab
  BY <1>2, WithoutNone
<1>4. crontab \in Seq(Jobs)
  BY <1>2 DEF Jobs
<1> QED
  BY <1>2, <1>3, <1>4 DEF JobsInv

LEMMA JobsKept == JobsInv /\ [SetupNext]_setupVars => JobsInv'
<1> SUFFICES ASSUME JobsInv, [SetupNext]_setupVars PROVE JobsInv'
  OBVIOUS
<1>1. ASSUME UNCHANGED <<crontab, misread, system>> PROVE JobsInv'
  BY <1>1 DEF JobsInv
<1>2. CASE InstallHeartbeat
  <2>1. UNCHANGED system /\ (InstallTimer \/ RewriteCrontab(<<"pmg">>))
    BY <1>2 DEF InstallHeartbeat, Environment
  <2>2. InstallTimer => UNCHANGED <<crontab, misread>>
    BY DEF InstallTimer
  <2> QED
    BY <1>1, <2>1, <2>2, RewriteIs
<1>3. CASE RemoveHeartbeat
  <2>1. UNCHANGED system /\ (RemoveTimer \/ RewriteCrontab(<<>>))
    BY <1>3 DEF RemoveHeartbeat, Environment
  <2>2. RemoveTimer => UNCHANGED <<crontab, misread>>
    BY DEF RemoveTimer
  <2> QED
    BY <1>1, <2>1, <2>2, RewriteIs
<1>4. CASE \/ StartInstall \/ WriteConfig \/ WriteShims \/ AddPathToShells \/ CreateAliasFile \/ SourceRcFile
           \/ StartRemove \/ RemoveAliasFile \/ RemoveSourceLines \/ RemoveShims \/ RemovePathFromShells
           \/ Killed \/ UNCHANGED setupVars
  <2>1. UNCHANGED <<crontab, misread, system>>
    BY <1>4 DEF StartInstall, Start, WriteConfig, WriteShims, AddPathToShells, CreateAliasFile, SourceRcFile,
       StartRemove, RemoveAliasFile, RemoveSourceLines, RemoveShims, RemovePathFromShells,
       Killed, setupVars, diskVars, Environment
  <2> QED
    BY <1>1, <2>1
<1>5. CASE \/ SessionChanges
           \/ \E f \in ToSet(LoginFiles) \cup {".bashrc"}, l \in {"user", "sources .bashrc"} : UserWrites(f, l)
           \/ \E f \in DOMAIN rc, l \in {"path", "alias"} : UserDeletes(f, l)
  <2>1. UserEdits
    BY <1>5 DEF SessionChanges, UserWrites, UserDeletes
  <2> QED
    BY <1>1, <2>1 DEF UserEdits
<1> QED
  BY <1>2, <1>3, <1>4, <1>5 DEF SetupNext

\* Whatever fails, whenever PMG is killed and whatever the user does meanwhile, no command
\* touches a line of the user's, the order of the lines, or the user's cron jobs.
THEOREM FilesSurvive == SetupSpec => []UsersFilesSurvive
<1>1. SetupInit => FilesInv /\ JobsInv
  BY FilesAtFirst, JobsAtFirst
<1>2. FilesInv /\ JobsInv /\ [SetupNext]_setupVars => (FilesInv /\ JobsInv)'
  BY FilesKept, JobsKept
<1>3. FilesInv /\ JobsInv => UsersFilesSurvive
  BY DEF FilesInv, JobsInv, UsersFilesSurvive, Droppable, Exists
<1> QED
  BY <1>1, <1>2, <1>3, PTL DEF SetupSpec

-----------------------------------------------------------------------------
(* What a removal has achieved at each of its steps                          *)

Unscheduled ==
  IF systemd THEN timer = [service |-> FALSE, timer |-> FALSE, enabled |-> FALSE]
  ELSE "pmg" \notin ToSet(crontab)

Rid(lines) == \A f \in DOMAIN rc : ToSet(rc[f]) \cap lines = {}

Unaliased == {"alias comment", "alias"}

StepInv ==
  /\ system.shell \in Shells
  /\ step # "idle" => last = "none"

RemovalInv ==
  /\ clean =>
       /\ step \in {"unalias", "unsource", "unshim", "unpath"} => Unscheduled
       /\ step \in {"unsource", "unshim", "unpath"} => ~aliasFile
       /\ step \in {"unshim", "unpath"} => Rid(Unaliased)
       /\ step = "unpath" => shims = {}
  /\ last = "removed" => Unscheduled /\ ~aliasFile /\ shims = {} /\ Rid(PmgLines)

InstallSteps == {"config", "shims", "paths", "schedule", "aliases", "sources"}
RemovalSteps == {"unschedule", "unalias", "unsource", "unshim", "unpath"}

LEMMA StepKept == StepInv /\ [SetupNext]_setupVars => StepInv'
<1> SUFFICES ASSUME StepInv, [SetupNext]_setupVars PROVE StepInv'
  OBVIOUS
<1>1. CASE StartInstall \/ StartRemove
  BY <1>1 DEF StartInstall, StartRemove, Start, Environment, StepInv
<1>2. CASE \/ WriteConfig \/ WriteShims \/ AddPathToShells \/ InstallHeartbeat \/ CreateAliasFile
           \/ SourceRcFile \/ RemoveHeartbeat \/ RemoveAliasFile \/ RemoveSourceLines
           \/ RemoveShims \/ RemovePathFromShells \/ Killed
  <2>1. step # "idle" /\ UNCHANGED system
    BY <1>2 DEF At, WriteConfig, WriteShims, AddPathToShells, InstallHeartbeat, CreateAliasFile,
       SourceRcFile, RemoveHeartbeat, RemoveAliasFile, RemoveSourceLines, RemoveShims,
       RemovePathFromShells, Killed, Environment
  <2>2. last' = last \/ step' = "idle"
    BY <1>2 DEF Onward, End, WriteConfig, WriteShims, AddPathToShells, InstallHeartbeat, CreateAliasFile,
       SourceRcFile, RemoveHeartbeat, RemoveAliasFile, RemoveSourceLines, RemoveShims,
       RemovePathFromShells, Killed
  <2> QED
    BY <2>1, <2>2 DEF StepInv
<1>3. CASE \/ SessionChanges
           \/ \E f \in ToSet(LoginFiles) \cup {".bashrc"}, l \in {"user", "sources .bashrc"} : UserWrites(f, l)
           \/ \E f \in DOMAIN rc, l \in {"path", "alias"} : UserDeletes(f, l)
  <2>1. UserEdits
    BY <1>3 DEF SessionChanges, UserWrites, UserDeletes
  <2> QED
    BY <2>1 DEF UserEdits, StepInv
<1>4. CASE UNCHANGED setupVars
  BY <1>4 DEF setupVars, StepInv
<1> QED
  BY <1>1, <1>2, <1>3, <1>4 DEF SetupNext

\* Outside a removal there is nothing to show, but at its end.
LEMMA InstallingActs ==
  ASSUME StepInv,
         \/ StartInstall \/ WriteConfig \/ WriteShims \/ AddPathToShells \/ InstallHeartbeat
         \/ CreateAliasFile \/ SourceRcFile \/ StartRemove \/ Killed
  PROVE  step' \notin RemovalSteps \ {"unschedule"} /\ last' # "removed"
<1>1. CASE StartInstall \/ StartRemove
  BY <1>1 DEF StartInstall, StartRemove, Start, RemovalSteps
<1>2. CASE WriteConfig \/ WriteShims \/ CreateAliasFile \/ SourceRcFile \/ Killed
  BY <1>2 DEF WriteConfig, WriteShims, CreateAliasFile, SourceRcFile, Killed, Onward, End, At,
     RemovalSteps, StepInv
<1>3. CASE AddPathToShells \/ InstallHeartbeat
  BY <1>3 DEF AddPathToShells, InstallHeartbeat, Onward, At, RemovalSteps, StepInv
<1> QED
  BY <1>1, <1>2, <1>3

LEMMA UnscheduledSame == UNCHANGED <<systemd, timer, crontab>> => (Unscheduled' <=> Unscheduled)
  BY DEF Unscheduled

LEMMA EitherIs ==
  ASSUME NEW fine \in BOOLEAN, Either(fine), clean'
  PROVE  clean /\ fine
BY DEF Either

LEMMA RemoveHeartbeatIs ==
  ASSUME JobsInv, RemoveHeartbeat
  PROVE  clean' => Unscheduled'
<1> SUFFICES ASSUME clean' PROVE Unscheduled'
  OBVIOUS
<1>1. systemd' = systemd /\ IF systemd THEN RemoveTimer ELSE RewriteCrontab(<<>>)
  BY DEF RemoveHeartbeat, Environment
<1>2. CASE systemd
  <2>1. PICK disabled \in BOOLEAN, gone \in 0..2 :
          /\ timer' = [service |-> timer.service /\ gone < 1, timer |-> timer.timer /\ gone < 2,
                       enabled |-> timer.enabled /\ ~disabled]
          /\ Either(disabled /\ gone = 2)
    BY <1>1, <1>2 DEF RemoveTimer
  <2>2. disabled /\ gone = 2
    BY <2>1, EitherIs
  <2>3. ~(gone < 1) /\ ~(gone < 2)
    BY <2>2
  <2>4. /\ (timer.service /\ gone < 1) = FALSE /\ (timer.timer /\ gone < 2) = FALSE
        /\ (timer.enabled /\ ~disabled) = FALSE
    BY <2>2, <2>3, Zenon
  <2>5. timer' = [service |-> FALSE, timer |-> FALSE, enabled |-> FALSE]
    BY <2>1, <2>4, Zenon
  <2> QED
    BY <1>1, <1>2, <2>5 DEF Unscheduled
<1>3. CASE ~systemd
  <2>1. crontab' = Without(crontab, {"pmg"}) \o <<>>
    BY <1>1, <1>3 DEF RewriteCrontab, StripPMGLines, Either
  <2> DEFINE kept == Without(crontab, {"pmg"})
  <2>2. kept \in Seq(Jobs \ {"pmg"}) /\ ToSet(kept) = ToSet(crontab) \ {"pmg"}
    BY WithoutType, WithoutSet DEF JobsInv
  <2> HIDE DEF kept
  <2>3. kept \o <<>> = kept
    BY <2>2
  <2> QED
    BY <1>1, <1>3, <2>1, <2>2, <2>3 DEF Unscheduled, kept
<1> QED
  BY <1>2, <1>3

\* The lines of a kind are dropped wherever they are.
LEMMA RidOf ==
  ASSUME FilesInv, NEW kind \in Kinds, DropLines(kind), UNCHANGED own, clean'
  PROVE  Rid(Drops[kind] \cap PmgLines)'
<1>1. FilesInv'
  BY DropLinesIs, FilesStepInv
<1>2. \A f \in DOMAIN rc' : f \in Candidates => ToSet(rc'[f]) \cap Drops[kind] = {}
  BY DropLinesIs
<1>3. \A f \in DOMAIN rc' : f \notin Candidates => ToSet(rc'[f]) \cap PmgLines = {}
  BY <1>1 DEF FilesInv
<1>4. \A f \in DOMAIN rc' : ToSet(rc'[f]) \cap (Drops[kind] \cap PmgLines) = {}
  BY <1>2, <1>3
<1> QED
  BY <1>4 DEF Rid, Drops, PmgLines, Marks, Block

LEMMA RemovalKept ==
  ASSUME FilesInv, JobsInv, StepInv, RemovalInv, [SetupNext]_setupVars
  PROVE  RemovalInv'
<1>1. CASE \/ StartInstall \/ WriteConfig \/ WriteShims \/ AddPathToShells \/ InstallHeartbeat
           \/ CreateAliasFile \/ SourceRcFile \/ StartRemove \/ Killed
  BY <1>1, InstallingActs DEF RemovalInv, RemovalSteps
<1>2. CASE RemoveHeartbeat
  <2>1. step' = "unalias" /\ last' # "removed"
    BY <1>2 DEF RemoveHeartbeat, Onward, StepInv, At
  <2> QED
    BY <1>2, <2>1, RemoveHeartbeatIs DEF RemovalInv
<1>3. CASE RemoveAliasFile
  <2>1. step = "unalias" /\ step' = "unsource" /\ last' # "removed"
    BY <1>3 DEF RemoveAliasFile, Onward, StepInv, At
  <2>2. clean' => clean /\ ~aliasFile'
    BY <1>3 DEF RemoveAliasFile, Either
  <2>3. Unscheduled' <=> Unscheduled
    BY <1>3, UnscheduledSame DEF RemoveAliasFile, Environment
  <2> QED
    BY <2>1, <2>2, <2>3 DEF RemovalInv
<1>4. CASE RemoveSourceLines
  <2>1. /\ step = "unsource" /\ step' = "unshim" /\ last' # "removed"
        /\ DropLines("alias") /\ UNCHANGED <<own, aliasFile>>
    BY <1>4 DEF RemoveSourceLines, Onward, StepInv, At, Environment
  <2>2. "alias" \in Kinds /\ Drops["alias"] \cap PmgLines = Unaliased
    BY TheLines DEF Kinds, Unaliased
  <2>3. clean' => clean
    BY <2>1, <2>2, DropLinesIs
  <2>4. clean' => Rid(Drops["alias"] \cap PmgLines)'
    BY <2>1, <2>2, RidOf
  <2>5. clean' => Rid(Unaliased)'
    BY <2>2, <2>4 DEF Rid
  <2>6. Unscheduled' <=> Unscheduled
    BY <1>4, UnscheduledSame DEF RemoveSourceLines, Environment
  <2> QED
    BY <2>1, <2>3, <2>5, <2>6 DEF RemovalInv
<1>5. CASE RemoveShims
  <2>1. step = "unshim" /\ step' = "unpath" /\ last' # "removed" /\ UNCHANGED <<rc, aliasFile>>
    BY <1>5 DEF RemoveShims, Onward, StepInv, At
  <2>2. clean' => clean /\ shims' = {}
    BY <1>5 DEF RemoveShims, Either
  <2>3. Unscheduled' <=> Unscheduled
    BY <1>5, UnscheduledSame DEF RemoveShims, Environment
  <2>4. Rid(Unaliased)' <=> Rid(Unaliased)
    BY <2>1 DEF Rid, Unaliased
  <2> QED
    BY <2>1, <2>2, <2>3, <2>4 DEF RemovalInv
<1>6. CASE RemovePathFromShells
  <2>1. /\ step = "unpath" /\ step' = "idle" /\ UNCHANGED <<own, aliasFile, shims>>
        /\ DropLines("shim") /\ last' = IF clean' THEN "removed" ELSE "none"
    BY <1>6 DEF RemovePathFromShells, End, At, Environment
  <2>2. "shim" \in Kinds /\ PmgLines = Unaliased \cup (Drops["shim"] \cap PmgLines)
    BY TheLines DEF Kinds, Unaliased
  <2>3. clean' => clean
    BY <2>1, <2>2, DropLinesIs
  <2>4. clean' => Rid(Drops["shim"] \cap PmgLines)'
    BY <2>1, <2>2, RidOf
  <2>5. Rid(Unaliased) => Rid(Unaliased)'
    BY <2>1, <2>2, DropLinesIs DEF Rid, Unaliased
  <2>6. Rid(Unaliased)' /\ Rid(Drops["shim"] \cap PmgLines)' => Rid(PmgLines)'
    BY <2>2 DEF Rid
  <2>7. Unscheduled' <=> Unscheduled
    BY <1>6, UnscheduledSame DEF RemovePathFromShells, Environment
  <2> QED
    BY <2>1, <2>3, <2>4, <2>5, <2>6, <2>7 DEF RemovalInv
<1>7. CASE \/ SessionChanges
           \/ \E f \in ToSet(LoginFiles) \cup {".bashrc"}, l \in {"user", "sources .bashrc"} : UserWrites(f, l)
           \/ \E f \in DOMAIN rc, l \in {"path", "alias"} : UserDeletes(f, l)
  <2>1. UserEdits
    BY <1>7 DEF SessionChanges, UserWrites, UserDeletes
  <2> QED
    BY <2>1 DEF UserEdits, RemovalInv
<1>8. CASE UNCHANGED setupVars
  <2>1. (Rid(Unaliased)' <=> Rid(Unaliased)) /\ (Rid(PmgLines)' <=> Rid(PmgLines))
    BY <1>8 DEF setupVars, diskVars, Rid, Unaliased, PmgLines, Block
  <2>2. Unscheduled' <=> Unscheduled
    BY <1>8, UnscheduledSame DEF setupVars, diskVars
  <2> QED
    BY <1>8, <2>1, <2>2 DEF setupVars, diskVars, RemovalInv
<1> QED
  BY <1>1, <1>2, <1>3, <1>4, <1>5, <1>6, <1>7, <1>8 DEF SetupNext

-----------------------------------------------------------------------------
(* What an install has achieved at each of its steps                         *)

Marked(start, kind) == \E f \in FilesRead(start) : HasLine(f, Marks[kind])

\* The files of an install are there, the main shell reads one, and every shell that
\* reads any finds a mark of the kind.
Reached(kind) ==
  /\ Targets \subseteq DOMAIN rc
  /\ FilesRead(system.shell) # {} \/ FilesRead("bash login") # {}
  /\ \A start \in Starts : FilesRead(start) # {} => Marked(start, kind)

InstallInv ==
  /\ shims \subseteq ToSet(PackageManagers)
  /\ clean =>
       /\ step \in {"paths", "schedule", "aliases", "sources"} => shims = ToSet(PackageManagers)
       /\ step \in {"schedule", "aliases", "sources"} => Reached("shim")
       /\ step = "sources" => aliasFile
  /\ last = "installed" =>
       /\ aliasFile /\ shims = ToSet(PackageManagers)
       /\ Reached("shim") /\ Reached("alias")

LEMMA LoginNext == (FirstLogin = IF Exists(".bash_profile") THEN ".bash_profile"
               ELSE IF Exists(".bash_login") THEN ".bash_login"
               ELSE IF Exists(".profile") THEN ".profile" ELSE "")'
BY FirstLoginIs, PTL

LEMMA ReachedSame ==
  ASSUME NEW kind \in Kinds, UNCHANGED <<system, rc>>
  PROVE  Reached(kind)' <=> Reached(kind)
<1>1. \A f : Exists(f)' <=> Exists(f)
  BY DEF Exists
<1>2. FirstLogin' = FirstLogin
  BY <1>1, FirstLoginIs, LoginNext
<1>3. Targets' = Targets
  <2>1. BashInstallRcFiles' = BashInstallRcFiles
    BY <1>1, <1>2, Zenon DEF BashInstallRcFiles, IsPrimary, ReferencesBashrc, Exists
  <2>2. \A s : InstallRcFiles(s)' = InstallRcFiles(s)
    BY <1>1, <2>1 DEF InstallRcFiles, IsPrimary
  <2> QED
    BY <2>2 DEF Targets
<1>4. ASSUME NEW s PROVE FilesRead(s)' = FilesRead(s)
  BY <1>1, <1>2 DEF FilesRead, StartupFile, Sources, ReferencesBashrc
<1>5. \A f, l : HasLine(f, l)' <=> HasLine(f, l)
  BY <1>1 DEF HasLine
<1> QED
  BY <1>3, <1>4, <1>5 DEF Reached, Marked, Marks

LEMMA TargetsNext ==
  ( /\ \A s \in {"zsh", "fish"} : Single[s] \in Targets <=> Exists(Single[s]) \/ IsPrimary(s)
    /\ \A f \in Targets :
         \/ f \in {".zshrc", "config.fish"}
         \/ f = ".bashrc" /\ (Exists(f) \/ (Login = "" /\ IsPrimary("bash")))
         \/ f = Login /\ Login # "" )'
<1>1. /\ \A s \in {"zsh", "fish"} : Single[s] \in Targets <=> Exists(Single[s]) \/ IsPrimary(s)
      /\ \A f \in Targets :
           \/ f \in {".zshrc", "config.fish"}
           \/ f = ".bashrc" /\ (Exists(f) \/ (Login = "" /\ IsPrimary("bash")))
           \/ f = Login /\ Login # ""
  BY TargetsAre
<1> QED
  BY <1>1, PTL

LEMMA ReadIs ==
  ASSUME NEW start \in Starts, NEW f
  PROVE  f \in FilesRead(start) <=>
           Exists(f) /\ (f = StartupFile(start) \/ (f = ".bashrc" /\ Sources(start)))
BY DEF FilesRead

\* The files of an install, with PMG's lines in them.
LEMMA WrittenReaches ==
  ASSUME NEW kind \in Kinds, "" \notin DOMAIN rc', Written(kind), UNCHANGED system,
         system.shell \in Shells
  PROVE  Reached(kind)'
<1> DEFINE There(f) == f \in DOMAIN rc'
           Sourcing(f) == There(f) /\ "sources .bashrc" \in ToSet(rc'[f])
<1>1. \A f : There(f) <=> Exists(f) \/ f \in Targets
  BY DEF Written, Exists
<1>2. \A f : Sourcing(f) <=> ReferencesBashrc(f)
  <2>1. "sources .bashrc" \notin PmgLines
    BY SourcingIsNotOurs
  <2>2. ASSUME NEW f, Exists(f) PROVE Sourcing(f) <=> ReferencesBashrc(f)
    BY <1>1, <2>1, <2>2 DEF Written, ReferencesBashrc, Exists
  <2>3. ASSUME NEW f, ~Exists(f) PROVE ~Sourcing(f) /\ ~ReferencesBashrc(f)
    BY <1>1, <2>1, <2>3 DEF Written, ReferencesBashrc, Exists
  <2> QED
    BY <2>2, <2>3
<1>3. FirstLogin' = Login
  <2>1. FirstLogin' = IF There(".bash_profile") THEN ".bash_profile"
                      ELSE IF There(".bash_login") THEN ".bash_login"
                      ELSE IF There(".profile") THEN ".profile" ELSE ""
    BY LoginNext DEF Exists
  <2>2. \A f \in {".bash_profile", ".bash_login", ".profile"} :
          f \in Targets => f = Login /\ Login # ""
    BY TargetsAre
  <2>3. CASE FirstLogin # ""
    <3>1. Login = FirstLogin
      BY <2>3 DEF Login
    <3> HIDE DEF There
    <3> QED
      BY <1>1, <2>1, <2>2, <2>3, <3>1, FirstLoginIs
  <2>4. CASE FirstLogin = ""
    <3>1. /\ ~Exists(".bash_profile") /\ ~Exists(".bash_login") /\ ~Exists(".profile")
          /\ Login \in {"", ".bash_profile"}
      BY <2>4, FirstLoginIs DEF Login
    <3>2. Login # "" => Login \in Targets
      BY <3>1, TargetsAre DEF ReferencesBashrc
    <3> HIDE DEF There
    <3> QED
      BY <1>1, <2>1, <2>2, <3>1, <3>2
  <2> QED
    BY <2>3, <2>4
<1>4. Login' = Login
  BY <1>3 DEF Login, IsPrimary
<1>5. Login = "" \/ There(Login)
  <2>1. Login \in {"", ".bash_profile", ".bash_login", ".profile"} /\ (FirstLogin # "" => Exists(FirstLogin))
    BY FirstLoginIs DEF Login
  <2>2. FirstLogin = "" /\ Login # "" => ~Exists(Login)
    BY FirstLoginIs DEF Login
  <2>3. FirstLogin = "" /\ Login # "" => Login \in Targets
    BY <2>2, TargetsAre DEF ReferencesBashrc
  <2>4. FirstLogin # "" => Login = FirstLogin
    BY DEF Login
  <2> QED
    BY <1>1, <2>1, <2>3, <2>4
<1>6. Targets' \subseteq DOMAIN rc'
  <2> SUFFICES ASSUME NEW f \in Targets' PROVE There(f)
    OBVIOUS
  <2>1. \/ f \in {".zshrc", "config.fish"}
        \/ f = ".bashrc" /\ (There(f) \/ (Login = "" /\ IsPrimary("bash")))
        \/ f = Login /\ Login # ""
    BY <1>4, TargetsNext DEF Exists, IsPrimary
  <2>2. ASSUME NEW s \in {"zsh", "fish"}, f = Single[s] PROVE There(f)
    BY <1>1, <2>2, TargetsNext, TargetsAre DEF Exists, IsPrimary
  <2>3. Single["zsh"] = ".zshrc" /\ Single["fish"] = "config.fish"
    BY DEF Single
  <2>4. f \in {".zshrc", "config.fish"} => There(f)
    BY <2>2, <2>3
  <2>5. Login = "" /\ IsPrimary("bash") => ".bashrc" \in Targets
    BY TargetsAre
  <2> HIDE DEF There
  <2> QED
    BY <1>1, <1>5, <2>1, <2>4, <2>5
<1> DEFINE Startup(start) == CASE start = "bash" -> ".bashrc" [] start = "bash login" -> Login
                               [] OTHER -> Single[start]
           Reads(start, f) == /\ There(f)
                              /\ \/ f = Startup(start)
                                 \/ f = ".bashrc" /\ start = "bash login" /\ Sourcing(Login)
<1>7. \A start, f : f \in FilesRead(start)' <=> Reads(start, f)
  BY <1>3 DEF FilesRead, StartupFile, Sources, ReferencesBashrc, Exists
<1>8. \A f \in Targets : HasLine(f, Marks[kind])'
  BY <1>1 DEF HasLine, Written, Exists, Marks
<1>9. ASSUME NEW start \in {"zsh", "fish", "bash"}, FilesRead(start)' # {}
      PROVE  \E f \in Targets : f \in FilesRead(start)'
  <2>1. There(Startup(start)) /\ Reads(start, Startup(start))
    BY <1>7, <1>9
  <2>2. Startup(start) \in Targets
    <3>1. CASE start = "bash"
      BY <1>1, <2>1, <3>1, TargetsAre
    <3>2. CASE start \in {"zsh", "fish"}
      <4>1. Startup(start) = Single[start]
        BY <3>2
      <4> QED
        BY <1>1, <2>1, <3>2, <4>1, TargetsAre
    <3> QED
      BY <3>1, <3>2
  <2> QED
    BY <1>7, <2>1, <2>2
<1>10. ASSUME FilesRead("bash login")' # {}
       PROVE  \E f \in Targets : f \in FilesRead("bash login")'
  <2>1. Startup("bash login") = Login
    OBVIOUS
  <2>2. Login # ""
    BY <1>7, <1>10, <2>1
  <2>3. There(Login)
    BY <1>5, <2>2
  <2>4. CASE Login \in Targets
    BY <1>7, <2>1, <2>3, <2>4
  <2>5. CASE Login \notin Targets
    <3>1. Exists(".bashrc") /\ ReferencesBashrc(Login) /\ ".bashrc" \in Targets
      BY <2>2, <2>5, TargetsAre
    <3>2. Reads("bash login", ".bashrc")
      BY <1>1, <1>2, <3>1
    <3> QED
      BY <1>7, <3>1, <3>2
  <2> QED
    BY <2>4, <2>5
<1>11. ASSUME NEW start \in Starts, FilesRead(start)' # {}
       PROVE  Marked(start, kind)'
  <2>1. \E f \in Targets : f \in FilesRead(start)'
    BY <1>9, <1>10, <1>11 DEF Starts
  <2> QED
    BY <1>8, <2>1 DEF Marked
<1>12. FilesRead(system.shell)' # {} \/ FilesRead("bash login")' # {}
  <2>1. CASE system.shell = "bash"
    <3>1. IsPrimary("bash")
      BY <2>1 DEF IsPrimary
    <3>2. There(".bashrc") \/ (Login # "" /\ There(Login))
      BY <1>1, <3>1, TargetsAre
    <3>3. Reads("bash", ".bashrc") \/ Reads("bash login", Login)
      BY <3>2
    <3> QED
      BY <1>7, <2>1, <3>3
  <2>2. CASE system.shell \in {"zsh", "fish"}
    <3>1. There(Single[system.shell])
      BY <1>1, <2>2, TargetsAre DEF IsPrimary
    <3>2. Reads(system.shell, Single[system.shell])
      BY <2>2, <3>1
    <3> QED
      BY <1>7, <3>2
  <2> QED
    BY <2>1, <2>2 DEF Shells
<1> QED
  BY <1>6, <1>11, <1>12 DEF Reached

\* More lines of PMG's in the files take nothing from what was reached.
LEMMA ReachedGrows ==
  ASSUME NEW reached \in Kinds, NEW kind \in Kinds, Reached(reached), Written(kind), UNCHANGED system
  PROVE  Reached(reached)'
<1>1. DOMAIN rc' = DOMAIN rc
  BY DEF Reached, Written
<1>2. \A f : Exists(f)' <=> Exists(f)
  BY <1>1 DEF Exists
<1>3. \A f : ReferencesBashrc(f)' <=> ReferencesBashrc(f)
  BY <1>1, SourcingIsNotOurs DEF ReferencesBashrc, Written, Exists
<1>4. \A f : HasLine(f, Marks[reached]) => HasLine(f, Marks[reached])'
  BY <1>1 DEF HasLine, Written, Exists, Marks
<1>5. FirstLogin' = FirstLogin
  BY <1>2, FirstLoginIs, LoginNext
<1>6. Targets' = Targets
  <2>1. BashInstallRcFiles' = BashInstallRcFiles
    BY <1>2, <1>3, <1>5, Zenon DEF BashInstallRcFiles, IsPrimary
  <2>2. \A s : InstallRcFiles(s)' = InstallRcFiles(s)
    BY <1>2, <2>1 DEF InstallRcFiles, IsPrimary
  <2> QED
    BY <2>2 DEF Targets
<1>7. \A s : FilesRead(s)' = FilesRead(s)
  BY <1>2, <1>3, <1>5 DEF FilesRead, StartupFile, Sources
<1> QED
  BY <1>1, <1>4, <1>6, <1>7 DEF Reached, Marked

-----------------------------------------------------------------------------
(* The PATH                                                                  *)

\* The lines of a file that put the shims first.
LEMMA PrependIs ==
  ASSUME FilesInv, NEW f, NEW path
  PROVE  \E p \in Seq({"path"}) :
           /\ Prepend(f, path) = IF Exists(f) THEN p \o path ELSE path
           /\ HasLine(f, {"path"}) => p # <<>>
<1>1. CASE Exists(f)
  <2> DEFINE p == Without(rc[f], ToSet(rc[f]) \ {"path"})
  <2>1. rc[f] \in Seq(AnyLine)
    BY <1>1 DEF FilesInv, Exists
  <2>2. rc[f] \in Seq(ToSet(rc[f]))
    <3>1. \A i \in 1..Len(rc[f]) : rc[f][i] \in ToSet(rc[f])
      BY <2>1 DEF ToSet
    <3> QED
      BY <2>1, <3>1
  <2>3. p \in Seq(ToSet(rc[f]) \ (ToSet(rc[f]) \ {"path"}))
    BY <2>2, WithoutType
  <2>4. ToSet(p) = ToSet(rc[f]) \ (ToSet(rc[f]) \ {"path"})
    BY <2>1, WithoutSet
  <2>5. Prepend(f, path) = p \o path
    BY <1>1 DEF Prepend
  <2> HIDE DEF p
  <2>6. p \in Seq({"path"})
    BY <2>3
  <2>7. HasLine(f, {"path"}) => p # <<>>
    BY <2>4 DEF HasLine, ToSet
  <2> QED
    BY <1>1, <2>5, <2>6, <2>7
<1>2. CASE ~Exists(f)
  <2>1. <<>> \in Seq({"path"})
    OBVIOUS
  <2> QED
    BY <1>2, <2>1 DEF Prepend, HasLine
<1> QED
  BY <1>1, <1>2

\* The shims first, if a file that is read says so, and then the system.
LEMMA PathIs ==
  ASSUME FilesInv, NEW start \in Starts
  PROVE  \E p \in Seq({"path"}) :
           /\ Path(start) = p \o <<"system">>
           /\ (\E f \in FilesRead(start) : HasLine(f, {"path"})) => p # <<>>
<1> DEFINE first == Prepend(StartupFile(start), <<"system">>)
<1> HIDE DEF first
<1>1. PICK a \in Seq({"path"}) :
        /\ first = IF Exists(StartupFile(start)) THEN a \o <<"system">> ELSE <<"system">>
        /\ HasLine(StartupFile(start), {"path"}) => a # <<>>
  BY PrependIs DEF first
<1>2. PICK b \in Seq({"path"}) :
        /\ Prepend(".bashrc", first) = IF Exists(".bashrc") THEN b \o first ELSE first
        /\ HasLine(".bashrc", {"path"}) => b # <<>>
  BY PrependIs
<1>3. Path(start) = IF Sources(start) THEN Prepend(".bashrc", first) ELSE first
  BY DEF Path, first
<1> DEFINE c == IF Exists(StartupFile(start)) THEN a ELSE <<>>
           d == IF Sources(start) /\ Exists(".bashrc") THEN b ELSE <<>>
<1>4. <<>> \in Seq({"path"}) /\ c \in Seq({"path"}) /\ d \in Seq({"path"})
  OBVIOUS
<1>5. first = c \o <<"system">> /\ Path(start) = d \o first
  <2>1. <<"system">> \in Seq({"system"}) /\ <<>> \o <<"system">> = <<"system">>
    OBVIOUS
  <2>2. first = c \o <<"system">>
    BY <1>1, <2>1
  <2>3. first \in Seq({"path", "system"})
    BY <1>4, <2>1, <2>2
  <2>4. <<>> \o first = first
    BY <2>3
  <2> QED
    BY <1>2, <1>3, <2>2, <2>4
<1>6. HasLine(StartupFile(start), {"path"}) => c # <<>>
  BY <1>1 DEF HasLine
<1>7. Sources(start) /\ HasLine(".bashrc", {"path"}) => d # <<>>
  BY <1>2 DEF HasLine
<1> HIDE DEF c, d
<1>8. Path(start) = (d \o c) \o <<"system">> /\ d \o c \in Seq({"path"})
  BY <1>4, <1>5
<1>9. c # <<>> \/ d # <<>> => d \o c # <<>>
  BY <1>4
<1>10. ASSUME NEW f \in FilesRead(start), HasLine(f, {"path"})
       PROVE  c # <<>> \/ d # <<>>
  BY <1>6, <1>7, <1>10, ReadIs
<1> QED
  BY <1>8, <1>9, <1>10

LEMMA PathLeads ==
  ASSUME FilesInv, NEW start \in Starts, Marked(start, "shim")
  PROVE  /\ Head(Path(start)) = "path" \/ Deleted(start)
         /\ Head(FilterPMGFromPath(Path(start))) = "system"
<1>1. PICK p \in Seq({"path"}) :
        /\ Path(start) = p \o <<"system">>
        /\ (\E f \in FilesRead(start) : HasLine(f, {"path"})) => p # <<>>
  BY PathIs
<1>2. Head(Path(start)) = "path" \/ Deleted(start)
  <2>1. CASE p # <<>>
    <3>1. Len(p) \in Nat \ {0} /\ p[1] = "path"
      BY <2>1
    <3>2. (p \o <<"system">>)[1] = p[1]
      BY <3>1
    <3> QED
      BY <1>1, <3>1, <3>2
  <2>2. CASE p = <<>>
    <3>1. PICK f \in FilesRead(start) : HasLine(f, {"shim comment", "path"})
      BY TheLines DEF Marked
    <3>2. ~HasLine(f, {"path"})
      BY <1>1, <2>2
    <3>3. HasLine(f, {"shim comment"})
      BY <3>1, <3>2 DEF HasLine
    <3> QED
      BY <3>2, <3>3 DEF Deleted
  <2> QED
    BY <2>1, <2>2
<1>3. FilterPMGFromPath(Path(start)) = <<"system">>
  <2> DEFINE X == {"path", "system"}
             q == <<"system">>
  <2>1. p \in Seq(X) /\ <<"system">> \in Seq(X) /\ <<"system">> \in Seq({"system"})
    <3>1. "system" \in X /\ "system" \in {"system"}
      OBVIOUS
    <3>2. p \in Seq(X)
      OBVIOUS
    <3> QED
      BY <3>1, <3>2, OneLine
  <2>2. Without(p, {"path"}) = <<>>
    BY WithoutAll
  <2>3. Without(<<"system">>, {"path"}) = <<"system">>
    <3>1. {"system"} \cap {"path"} = {}
      OBVIOUS
    <3> QED
      BY <2>1, <3>1, WithoutNone
  <2>4. Without(p \o q, {"path"}) = Without(p, {"path"}) \o Without(q, {"path"})
    <3>1. q \in Seq(X)
      BY <2>1
    <3> HIDE DEF X, q
    <3> QED
      BY <2>1, <3>1, WithoutConcat
  <2>5. <<>> \o <<"system">> = <<"system">>
    BY <2>1
  <2> QED
    BY <1>1, <2>2, <2>3, <2>4, <2>5 DEF FilterPMGFromPath
<1> QED
  BY <1>2, <1>3

-----------------------------------------------------------------------------
(* Either command from whatever the last one left                            *)

\* A removal promises nothing of what an install leaves.
LEMMA RemovingActs ==
  ASSUME StepInv,
         \/ StartInstall \/ StartRemove \/ WriteConfig \/ RemoveHeartbeat \/ RemoveAliasFile
         \/ RemoveSourceLines \/ RemovePathFromShells \/ Killed
  PROVE  /\ step' \notin {"paths", "schedule", "aliases", "sources"} /\ last' # "installed"
         /\ shims' = shims
<1>1. CASE StartInstall \/ StartRemove
  BY <1>1 DEF StartInstall, StartRemove, Start, diskVars
<1>2. CASE WriteConfig \/ Killed
  BY <1>2 DEF WriteConfig, Killed, Onward, End, At, StepInv, diskVars
<1>3. CASE RemoveHeartbeat \/ RemoveAliasFile \/ RemoveSourceLines \/ RemovePathFromShells
  BY <1>3 DEF RemoveHeartbeat, RemoveAliasFile, RemoveSourceLines, RemovePathFromShells,
     Onward, End, At, StepInv
<1> QED
  BY <1>1, <1>2, <1>3

LEMMA InstallKept ==
  ASSUME FilesInv, StepInv, InstallInv, [SetupNext]_setupVars
  PROVE  InstallInv'
<1> DEFINE All == ToSet(PackageManagers)
<1>1. "alias" \in Kinds /\ "shim" \in Kinds
  BY DEF Kinds
<1>2. ASSUME UNCHANGED <<system, rc>>
      PROVE  (Reached("shim")' <=> Reached("shim")) /\ (Reached("alias")' <=> Reached("alias"))
  BY <1>1, <1>2, ReachedSame
<1>3. CASE \/ StartInstall \/ StartRemove \/ WriteConfig \/ RemoveHeartbeat \/ RemoveAliasFile
           \/ RemoveSourceLines \/ RemovePathFromShells \/ Killed
  BY <1>3, RemovingActs DEF InstallInv
<1>4. CASE WriteShims
  <2>1. PICK k \in 0..Len(PackageManagers) :
          /\ shims' = shims \cup {PackageManagers[i] : i \in 1..k}
          /\ Either(k = Len(PackageManagers))
          /\ IF k = Len(PackageManagers) THEN Onward("paths") ELSE End("none")
    BY <1>4 DEF WriteShims
  <2>2. /\ Len(PackageManagers) \in Nat
        /\ All = {PackageManagers[i] : i \in 1..Len(PackageManagers)}
    <3>1. Len(PackageManagers) \in Nat /\ DOMAIN PackageManagers = 1..Len(PackageManagers)
      <4>1. PackageManagers \in Seq(ToSet(PackageManagers))
        BY SetupAssumption
      <4> QED
        BY <4>1, LenProperties
    <3> QED
      BY <3>1 DEF ToSet
  <2>3. \A i \in 1..k : i \in 1..Len(PackageManagers)
    BY <2>2
  <2>4. shims' \subseteq All /\ (k = Len(PackageManagers) => shims' = All)
    BY <2>1, <2>2, <2>3 DEF InstallInv
  <2>5. clean' => k = Len(PackageManagers)
    BY <2>1, EitherIs
  <2>6. last' # "installed" /\ step' \in {"paths", "idle"}
    BY <1>4, <2>1 DEF WriteShims, At, Onward, End, StepInv
  <2> HIDE DEF All
  <2> QED
    BY <2>4, <2>5, <2>6 DEF InstallInv, All
<1>5. CASE AddPathToShells
  <2>1. /\ step = "paths" /\ step' \in {"schedule", "aliases"} /\ last' # "installed"
        /\ WriteLines("shim") /\ UNCHANGED <<own, system, shims>>
    BY <1>5 DEF AddPathToShells, Onward, At, StepInv, Environment
  <2>2. clean' => clean /\ Written("shim")
    BY <1>1, <2>1, WriteLinesIs
  <2>3. "" \notin DOMAIN rc'
    BY <1>1, <2>1, WriteLinesIs DEF FilesStep
  <2>4. clean' => Reached("shim")'
    BY <1>1, <2>1, <2>2, <2>3, WrittenReaches DEF StepInv
  <2> QED
    BY <2>1, <2>2, <2>4 DEF InstallInv
<1>6. CASE InstallHeartbeat
  <2>1. /\ step = "schedule" /\ step' = "aliases" /\ last' # "installed"
        /\ UNCHANGED <<system, rc, shims>>
    BY <1>6 DEF InstallHeartbeat, Onward, At, StepInv, Environment
  <2>2. clean' => clean
    BY <1>6 DEF InstallHeartbeat, InstallTimer, RewriteCrontab, Either
  <2> QED
    BY <1>2, <2>1, <2>2 DEF InstallInv
<1>7. CASE CreateAliasFile
  <2>1. step = "aliases" /\ last' # "installed" /\ UNCHANGED <<system, rc, shims>>
    BY <1>7 DEF CreateAliasFile, Onward, End, At, StepInv, Environment
  <2>2. clean' => clean /\ step' = "sources" /\ aliasFile'
    BY <1>7 DEF CreateAliasFile, Onward, Either
  <2> QED
    BY <1>2, <2>1, <2>2 DEF InstallInv
<1>8. CASE SourceRcFile
  <2>1. /\ step = "sources" /\ step' = "idle" /\ last' = IF clean' THEN "installed" ELSE "none"
        /\ WriteLines("alias") /\ UNCHANGED <<own, system, shims, aliasFile>>
    BY <1>8 DEF SourceRcFile, End, At, Environment
  <2>2. clean' => clean /\ Written("alias")
    BY <1>1, <2>1, WriteLinesIs
  <2>3. "" \notin DOMAIN rc'
    BY <1>1, <2>1, WriteLinesIs DEF FilesStep
  <2>4. clean' => Reached("alias")'
    BY <1>1, <2>1, <2>2, <2>3, WrittenReaches DEF StepInv
  <2>5. clean' => Reached("shim")'
    <3>1. clean' => Reached("shim")
      BY <2>1, <2>2 DEF InstallInv
    <3> QED
      BY <1>1, <2>1, <2>2, <3>1, ReachedGrows
  <2> QED
    BY <2>1, <2>2, <2>4, <2>5 DEF InstallInv
<1>9. CASE RemoveShims
  <2>1. step' = "unpath" /\ last' # "installed" /\ shims' \subseteq shims
    BY <1>9 DEF RemoveShims, Onward, At, StepInv
  <2> QED
    BY <2>1 DEF InstallInv
<1>10. CASE \/ SessionChanges
            \/ \E f \in ToSet(LoginFiles) \cup {".bashrc"}, l \in {"user", "sources .bashrc"} : UserWrites(f, l)
            \/ \E f \in DOMAIN rc, l \in {"path", "alias"} : UserDeletes(f, l)
  <2>1. UserEdits
    BY <1>10 DEF SessionChanges, UserWrites, UserDeletes
  <2> QED
    BY <2>1 DEF UserEdits, InstallInv
<1>11. CASE UNCHANGED setupVars
  <2>1. UNCHANGED <<system, rc, shims, aliasFile, step, clean, last>>
    BY <1>11 DEF setupVars, diskVars
  <2> QED
    BY <1>2, <2>1 DEF InstallInv
<1> QED
  BY <1>3, <1>4, <1>5, <1>6, <1>7, <1>8, <1>9, <1>10, <1>11 DEF SetupNext

SetupInv == FilesInv /\ JobsInv /\ StepInv /\ RemovalInv /\ InstallInv

LEMMA SetupAtFirst == SetupInit => SetupInv
<1> SUFFICES ASSUME SetupInit PROVE SetupInv
  OBVIOUS
<1>1. StepInv
  <2>1. \E s \in Systems : system.shell = s.shell
    BY DEF SetupInit
  <2>2. step = "idle"
    BY DEF SetupInit
  <2> QED
    BY <2>1, <2>2, SetupAssumption DEF StepInv
<1>2. RemovalInv /\ InstallInv
  BY DEF SetupInit, RemovalInv, InstallInv
<1> QED
  BY <1>1, <1>2, FilesAtFirst, JobsAtFirst DEF SetupInv

LEMMA InstallReaches == FilesInv /\ StepInv /\ InstallInv => SetupConverges
<1> SUFFICES ASSUME FilesInv, StepInv, InstallInv PROVE SetupConverges
  OBVIOUS
<1>1. \A f \in DOMAIN rc, l \in {"path", "alias"} :
        \A i, j \in DOMAIN rc[f] : rc[f][i] = l /\ rc[f][j] = l => i = j
  BY DEF FilesInv, Once
<1>2. ASSUME last = "installed"
      PROVE  /\ aliasFile /\ shims = ToSet(PackageManagers)
             /\ Reached("shim") /\ Reached("alias")
  BY <1>2 DEF InstallInv
<1>3. ASSUME last = "installed"
      PROVE  \E s \in Starts : FilesRead(s) # {} /\ s \in {system.shell, "bash login"}
  <2>1. FilesRead(system.shell) # {} \/ FilesRead("bash login") # {}
    BY <1>2, <1>3 DEF Reached
  <2> QED
    BY <2>1 DEF Starts, StepInv, Shells
<1>4. ASSUME last = "installed", NEW s \in Starts, FilesRead(s) # {}
      PROVE  /\ \E f \in FilesRead(s) : HasLine(f, Marks["alias"])
             /\ Head(Path(s)) = "path" \/ Deleted(s)
             /\ Head(FilterPMGFromPath(Path(s))) = "system"
  <2>1. Marked(s, "alias") /\ Marked(s, "shim")
    BY <1>2, <1>4 DEF Reached
  <2> QED
    BY <2>1, PathLeads DEF Marked
<1> QED
  BY <1>1, <1>2, <1>3, <1>4 DEF SetupConverges

LEMMA RemovalReaches == RemovalInv => RemovalIsComplete
  BY DEF RemovalInv, RemovalIsComplete, Unscheduled, Rid, HasLine

\* Whatever earlier commands left behind, failed half way or killed, and whatever the user
\* changed since: an install that nothing disturbs leaves every shell that reads a startup
\* file with the aliases and with the shims in front, and a removal leaves nothing of PMG's.
THEOREM SetupReverses == SetupSpec => []SetupIsReversible
<1>1. SetupInv /\ [SetupNext]_setupVars => SetupInv'
  BY FilesKept, JobsKept, StepKept, RemovalKept, InstallKept DEF SetupInv
<1>2. SetupInv => SetupIsReversible
  BY InstallReaches, RemovalReaches DEF SetupInv, SetupIsReversible
<1> QED
  BY <1>1, <1>2, SetupAtFirst, PTL DEF SetupSpec

-----------------------------------------------------------------------------
(* The configuration                                                        *)


\* What a start takes from a file for a key of the template.
Told(keys, k) ==
  IF k \in DOMAIN keys THEN keys[k]
  ELSE IF k = "proxy" /\ "proxy_mode" \in DOMAIN keys THEN keys["proxy_mode"]
  ELSE Template[k]

\* What f says of a key, or else the value given.
Or(f, k, otherwise) == IF k \in DOMAIN f THEN f[k] ELSE otherwise

\* The same, where the old name of proxy counts for today's.
Renamed(f, k, otherwise) ==
  Or(f, k, IF k = "proxy" /\ "proxy_mode" \in DOMAIN f THEN f["proxy_mode"] ELSE otherwise)

\* Of a managed file, which may not parse.
ToldBy(f, k) == IF f = Torn THEN Defaults[k] ELSE Told(f.keys, k)

\* What viper has for the old name, of a file and an environment.
OldNameOf(keys, env) == Override(OldName(keys), OldName(env))

Settled(k) == Or(wanted, k, Template[k])

Locking(f) == f = Torn \/ f.lockdown = "true"
UnderLock  == \A e \in editions : Locking(e)

\* The keys of the files that are in place.
IsFile(f)  == f = NoFile \/ f = Torn \/ f.form = "yaml"
IsYours(f) == f = NoFile \/ f = Torn \/ f = Yaml(f.keys)

TypeInv ==
  /\ IsFile(managed)
  /\ IsYours(user)
  /\ at \in {"idle", "resolve", "lockdown", "load", "legacy", "flags", "ready", "relay"}
  /\ at # "idle" => cmd \in Commands /\ managed \in editions
  /\ at \in {"legacy", "flags", "ready"} => DOMAIN Template \cup {"insecure"} \subseteq DOMAIN effective

\* The user's file tells of each key what was last wanted of it.
FileInv ==
  ~damaged => /\ user # Torn
              /\ \A k \in DOMAIN Template : Told(user.keys, k) = Settled(k)

\* A start that finds no managed file.
OpenInv ==
  editions = {NoFile} =>
    /\ at \in {"lockdown", "load", "legacy", "flags", "ready"} => ~isManaged
    /\ at \in {"load", "legacy", "flags", "ready"} => ~locked
    /\ at = "legacy" =>
         /\ legacy = OldNameOf(user.keys, cmd.env)
         /\ \A k \in DOMAIN Template :
              effective[k] = Or(cmd.env, k, Or(user.keys, k, Template[k]))
    /\ at = "flags" /\ ~damaged =>
         \A k \in DOMAIN Template : effective[k] = Or(Variables, k, Settled(k))
    /\ at = "ready" /\ ~damaged =>
         \A k \in DOMAIN Template :
           effective[k] = Or(cmd.flags, k, Or(Variables, k, Settled(k)))

\* What a start under lock may have for a key when the files are read.
Shown(k) ==
  \/ \E e \in editions : effective[k] = ToldBy(e, k)
  \/ /\ editions # {managed} /\ k = "proxy"
     /\ \/ effective[k] = Template[k]
        \/ \E e \in editions : /\ {"proxy", "proxy_mode"} \subseteq DOMAIN e.keys
                               /\ effective[k] = e.keys["proxy_mode"]

\* A start that finds locking files only.
LockedInv ==
  UnderLock =>
    /\ at \in {"lockdown", "load", "legacy", "flags", "ready"} => isManaged
    /\ at \in {"load", "legacy", "flags", "ready"} => locked
    /\ at \in {"legacy", "flags", "ready"} => ~effective["insecure"]
    /\ at = "legacy" =>
         \E e \in editions :
           /\ e # Torn /\ legacy = OldNameOf(e.keys, <<>>)
           /\ \A k \in DOMAIN Template : effective[k] = Or(e.keys, k, Template[k])
    /\ at \in {"flags", "ready"} => \A k \in DOMAIN Template : Shown(k)

ConfigInv == TypeInv /\ FileInv /\ OpenInv /\ LockedInv

-----------------------------------------------------------------------------
(* What the operators say of a key                                           *)

\* What a file says of today's keys, the old name of one included.
LEMMA SaysIs ==
  ASSUME NEW keys
  PROVE  LET said == Says(keys)
             renamed == "proxy_mode" \in DOMAIN keys /\ "proxy" \notin DOMAIN keys
         IN /\ DOMAIN said = (DOMAIN Template \cap DOMAIN keys)
                             \cup (IF renamed THEN {"proxy"} ELSE {})
            /\ \A k \in DOMAIN said :
                 said[k] = IF k = "proxy" /\ renamed THEN keys["proxy_mode"] ELSE keys[k]
<1>1. CASE "proxy_mode" \in DOMAIN keys /\ "proxy" \notin DOMAIN keys
  <2>1. Says(keys) = [k \in (DOMAIN Template \cap DOMAIN keys) \cup {"proxy"} |->
                        IF k = "proxy" THEN keys["proxy_mode"] ELSE keys[k]]
    BY <1>1 DEF Says, Override, Restrict
  <2> QED
    BY <2>1, <1>1
<1>2. CASE ~("proxy_mode" \in DOMAIN keys /\ "proxy" \notin DOMAIN keys)
  <2>1. Says(keys) = [k \in DOMAIN Template \cap DOMAIN keys |-> keys[k]]
    BY <1>2 DEF Says, Restrict
  <2> QED
    BY <2>1, <1>2
<1> QED
  BY <1>1, <1>2

\* What is said is what the key, or the old name of it, has.
LEMMA SaysOr ==
  ASSUME NEW keys, NEW k \in DOMAIN Template, NEW o
  PROVE  Or(Says(keys), k, o) = Renamed(keys, k, o)
<1> DEFINE said == Says(keys)
<1>1. DOMAIN said = (DOMAIN Template \cap DOMAIN keys)
                    \cup (IF "proxy_mode" \in DOMAIN keys /\ "proxy" \notin DOMAIN keys
                          THEN {"proxy"} ELSE {})
  BY SaysIs
<1>2. k \in DOMAIN said =>
        said[k] = IF k = "proxy" /\ "proxy_mode" \in DOMAIN keys /\ "proxy" \notin DOMAIN keys
                  THEN keys["proxy_mode"] ELSE keys[k]
  BY SaysIs
<1> HIDE DEF said
<1>3. Or(said, k, o) = Renamed(keys, k, o)
  BY <1>1, <1>2 DEF Or, Renamed
<1> QED
  BY <1>3 DEF said

\* The template overridden by what a file says is what the file tells.
LEMMA SaysTold ==
  ASSUME NEW keys, NEW k \in DOMAIN Template
  PROVE  Or(Says(keys), k, Template[k]) = Told(keys, k)
<1>1. Renamed(keys, k, Template[k]) = Told(keys, k)
  BY DEF Renamed, Or, Told
<1> QED
  BY <1>1, SaysOr

\* Of the keys of the template none is lost where the others are left out.
LEMMA KnownOr ==
  ASSUME NEW keys, NEW k \in DOMAIN Template, NEW o
  PROVE  Or(Known(keys), k, o) = Or(keys, k, o)
  BY DEF Known, Restrict, Or

\* The old name that viper has is the environment's, or else the file's.
LEMMA OldNameIs ==
  ASSUME NEW keys, NEW env
  PROVE  /\ "proxy_mode" \in DOMAIN OldNameOf(keys, env)
              <=> "proxy_mode" \in DOMAIN keys \cup DOMAIN env
         /\ "proxy_mode" \in DOMAIN keys \cup DOMAIN env =>
              OldNameOf(keys, env)["proxy_mode"] = Or(env, "proxy_mode", keys["proxy_mode"])
<1>1. ASSUME NEW f
      PROVE  /\ DOMAIN OldName(f) = {"proxy_mode"} \cap DOMAIN f
             /\ "proxy_mode" \in DOMAIN f => OldName(f)["proxy_mode"] = f["proxy_mode"]
  BY DEF OldName, Restrict
<1>2. DOMAIN OldNameOf(keys, env) = DOMAIN OldName(keys) \cup DOMAIN OldName(env)
  BY DEF OldNameOf, Override
<1>3. \A k \in DOMAIN OldNameOf(keys, env) :
        OldNameOf(keys, env)[k] = IF k \in DOMAIN OldName(env) THEN OldName(env)[k] ELSE OldName(keys)[k]
  BY DEF OldNameOf, Override
<1> QED
  BY <1>1, <1>2, <1>3 DEF Or

\* One function over another is the first one, or else the second.
LEMMA OverrideIsOr ==
  ASSUME NEW base, NEW over, NEW k \in DOMAIN base \cup DOMAIN over
  PROVE  /\ k \in DOMAIN Override(base, over)
         /\ Override(base, over)[k] = Or(over, k, base[k])
  BY DEF Override, Or

LEMMA OrOverride ==
  ASSUME NEW base, NEW over, NEW k, NEW o
  PROVE  Or(Override(base, over), k, o) = Or(over, k, Or(base, k, o))
  BY DEF Override, Or

\* What is written under today's names is what the file tells afterwards.
LEMMA ToldOverride ==
  ASSUME NEW keys, NEW over, "proxy_mode" \notin DOMAIN over, NEW k \in DOMAIN Template
  PROVE  Told(Override(keys, over), k) = Or(over, k, Told(keys, k))
  BY DEF Override, Or, Told

\* The old name counts only where today's is missing.
LEMMA ToldOldName ==
  ASSUME NEW keys, NEW v, NEW k \in DOMAIN Template, "proxy_mode" \notin DOMAIN Template
  PROVE  Told(Override(keys, [x \in {"proxy_mode"} |-> v]), k)
           = IF k = "proxy" /\ "proxy" \notin DOMAIN keys THEN v ELSE Told(keys, k)
  BY DEF Override, Told

\* The merge of the template leaves a file's own settings, and the old name none.
LEMMA ToldMerged ==
  ASSUME NEW keys, NEW k \in DOMAIN Template
  PROVE  Told(MergeYAML(keys), k) = Or(keys, k, Template[k])
  BY DEF MergeYAML, Override, Or, Told

\* A file without a key tells the defaults.
LEMMA ToldNothing ==
  ASSUME NEW k \in DOMAIN Template
  PROVE  Told(<<>>, k) = Template[k]
  BY DEF Told

LEMMA FilesDiffer ==
  /\ Torn # NoFile /\ NoFile.form = "none" /\ Torn.form = "torn"
  /\ NoFile.keys = <<>> /\ Torn.keys = <<>>
  /\ ~Locking(NoFile) /\ Locking(Torn)
  /\ \A keys : /\ Yaml(keys).keys = keys /\ Yaml(keys).form = "yaml"
               /\ Yaml(keys) # Torn /\ Yaml(keys) # NoFile
  BY DEF Torn, NoFile, Yaml, File, Locking

-----------------------------------------------------------------------------
(* A start                                                                  *)

LEMMA FileInvUnchanged ==
  ASSUME FileInv, UNCHANGED <<user, ghostVars>>
  PROVE  FileInv'
  BY DEF FileInv, Settled, ghostVars

\* Where no start is under way nothing is promised of it.
LEMMA NoStart ==
  ASSUME at' \in {"idle", "resolve", "relay"}
  PROVE  OpenInv' /\ LockedInv'
  BY DEF OpenInv, LockedInv

LEMMA InitInv ==
  ASSUME ConfigAssumption, ConfigInit
  PROVE  ConfigInv
<1>1. TypeInv
  BY FilesDiffer DEF TypeInv, ConfigInit, IsFile, IsYours, ConfigAssumption
<1>2. FileInv
  BY SaysTold DEF FileInv, ConfigInit, Settled
<1>3. OpenInv /\ LockedInv
  BY DEF OpenInv, LockedInv, ConfigInit
<1> QED
  BY <1>1, <1>2, <1>3 DEF ConfigInv

LEMMA StartCommandInv ==
  ASSUME ConfigInv, NEW c \in Commands, StartCommand(c)
  PROVE  ConfigInv'
<1> USE DEF StartCommand, Goto
<1>1. TypeInv'
  BY DEF ConfigInv, TypeInv
<1>2. FileInv'
  BY FileInvUnchanged DEF ConfigInv
<1>3. OpenInv' /\ LockedInv'
  BY NoStart
<1> QED
  BY <1>1, <1>2, <1>3 DEF ConfigInv

LEMMA ResolveConfigFileInv ==
  ASSUME ConfigInv, ResolveConfigFile
  PROVE  ConfigInv'
<1> USE DEF ResolveConfigFile, Goto
<1>1. TypeInv'
  BY DEF ConfigInv, TypeInv
<1>2. FileInv'
  BY FileInvUnchanged DEF ConfigInv
<1>3. OpenInv'
  BY DEF ConfigInv, TypeInv, OpenInv
<1>4. LockedInv'
  BY FilesDiffer DEF ConfigInv, TypeInv, LockedInv, UnderLock
<1> QED
  BY <1>1, <1>2, <1>3, <1>4 DEF ConfigInv

LEMMA DecideLockdownInv ==
  ASSUME ConfigInv, DecideLockdown
  PROVE  ConfigInv'
<1> USE DEF DecideLockdown, Goto
<1>1. TypeInv'
  BY DEF ConfigInv, TypeInv
<1>2. FileInv'
  BY FileInvUnchanged DEF ConfigInv
<1>3. OpenInv'
  BY DEF ConfigInv, TypeInv, OpenInv
<1>4. LockedInv'
  BY FilesDiffer DEF ConfigInv, TypeInv, LockedInv, UnderLock, Locking, EnablesLockdown
<1> QED
  BY <1>1, <1>2, <1>3, <1>4 DEF ConfigInv

\* A file, the environment and the insecure switch over the template.
LEMMA LoadedAt ==
  ASSUME NEW keys, NEW env, NEW s, DOMAIN s = {"insecure"},
         NEW loaded,
         loaded = Override(Override(Override(Template, Known(keys)), Known(env)), s)
  PROVE  /\ DOMAIN Template \cup {"insecure"} \subseteq DOMAIN loaded
         /\ \A k \in DOMAIN Template : loaded[k] = Or(env, k, Or(keys, k, Template[k]))
         /\ loaded["insecure"] = s["insecure"]
<1> DEFINE file == Override(Template, Known(keys))
           both == Override(file, Known(env))
<1>1. /\ DOMAIN file = DOMAIN Template
      /\ \A k \in DOMAIN Template : file[k] = Or(keys, k, Template[k])
  BY DEF Override, Known, Restrict, Or
<1> HIDE DEF file
<1>2. /\ DOMAIN both = DOMAIN Template
      /\ \A k \in DOMAIN Template : both[k] = Or(env, k, file[k])
  BY <1>1 DEF Override, Known, Restrict, Or
<1>3. loaded = Override(both, s)
  BY DEF file
<1> HIDE DEF both
<1>4. /\ DOMAIN loaded = DOMAIN both \cup {"insecure"}
      /\ \A k \in DOMAIN both : k # "insecure" => loaded[k] = both[k]
      /\ loaded["insecure"] = s["insecure"]
  BY <1>3 DEF Override
<1>5. "insecure" \notin DOMAIN Template
  BY ConfigAssumption DEF ConfigAssumption
<1> QED
  BY <1>1, <1>2, <1>4, <1>5

\* A file that does not parse leaves DefaultConfig.
LEMMA TornAt ==
  ASSUME NEW s, DOMAIN s = {"insecure"}, NEW loaded,
         loaded = Override(Defaults, s)
  PROVE  /\ DOMAIN Template \cup {"insecure"} \subseteq DOMAIN loaded
         /\ \A k \in DOMAIN Template : loaded[k] = Defaults[k]
         /\ loaded["insecure"] = s["insecure"]
  BY ConfigAssumption DEF Override, ConfigAssumption

LEMMA InsecureIs ==
  /\ DOMAIN Insecure = {"insecure"}
  /\ locked => Env = <<>> /\ ~Insecure["insecure"]
  /\ ~locked => Env = cmd.env
<1>1. DOMAIN Insecure = {"insecure"}
  BY DEF Insecure
<1>2. Insecure["insecure"] = ("insecure" \in DOMAIN Env /\ Env["insecure"])
  BY DEF Insecure
<1>3. locked => Env = <<>>
  BY DEF Env
<1>4. "insecure" \notin DOMAIN <<>>
  OBVIOUS
<1>5. ~locked => Env = cmd.env
  BY DEF Env
<1> QED
  BY <1>1, <1>2, <1>3, <1>4, <1>5

LEMMA LoadViperConfigInv ==
  ASSUME ConfigAssumption, ConfigInv, LoadViperConfig
  PROVE  ConfigInv'
<1>1. FileInv'
  BY FileInvUnchanged DEF ConfigInv, LoadViperConfig
<1>a. /\ at = "load"
      /\ UNCHANGED <<managed, user, cmd, isManaged, locked, editions, ghostVars>>
      /\ cmd \in Commands /\ managed \in editions /\ IsFile(managed) /\ IsYours(user)
  BY DEF ConfigInv, TypeInv, LoadViperConfig
<1>b. editions = {NoFile} => ~isManaged /\ ~locked
  BY <1>a DEF ConfigInv, OpenInv
<1>c. UnderLock => isManaged /\ locked
  BY <1>a DEF ConfigInv, LockedInv
<1>2. CASE Active.form = "torn"
  <2>1. at' = "flags" /\ effective' = Override(Defaults, Insecure)
    BY <1>2 DEF LoadViperConfig
  <2>2. /\ DOMAIN Template \cup {"insecure"} \subseteq DOMAIN effective'
        /\ \A k \in DOMAIN Template : effective'[k] = Defaults[k]
        /\ effective'["insecure"] = Insecure["insecure"]
    BY <2>1, TornAt, InsecureIs
  <2>3. TypeInv'
    BY <2>1, <2>2, <1>a DEF TypeInv
  <2>4. OpenInv'
    <3>1. editions = {NoFile} => user.form = "torn"
      BY <1>b, <1>2 DEF Active
    <3>2. editions = {NoFile} => damaged
      BY <3>1, <1>a, FilesDiffer DEF ConfigInv, FileInv, IsYours
    <3> QED
      BY <2>1, <3>2, <1>a, <1>b DEF OpenInv, ghostVars
  <2>5. LockedInv'
    <3>1. UnderLock => managed = Torn
      BY <1>c, <1>2, <1>a, FilesDiffer DEF Active, IsFile
    <3>2. UnderLock => \A k \in DOMAIN Template : effective'[k] = ToldBy(managed, k)
      BY <3>1, <2>2 DEF ToldBy
    <3>3. UnderLock => \A k \in DOMAIN Template : Shown(k)'
      BY <3>2, <1>a DEF Shown
    <3>4. UnderLock => ~effective'["insecure"]
      BY <2>2, <1>c, InsecureIs
    <3>5. UnderLock' = UnderLock
      BY <1>a DEF UnderLock
    <3> QED
      BY <2>1, <3>3, <3>4, <3>5, <1>a, <1>c DEF LockedInv
  <2> QED
    BY <1>1, <2>3, <2>4, <2>5 DEF ConfigInv
<1>3. CASE Active.form # "torn"
  <2>1. /\ at' = "legacy"
        /\ legacy' = OldNameOf(Active.keys, Env)
        /\ effective' = Override(Override(Override(Template, Known(Active.keys)), Known(Env)), Insecure)
    BY <1>3 DEF OldNameOf, LoadViperConfig
  <2>2. /\ DOMAIN Template \cup {"insecure"} \subseteq DOMAIN effective'
        /\ \A k \in DOMAIN Template :
             effective'[k] = Or(Env, k, Or(Active.keys, k, Template[k]))
        /\ effective'["insecure"] = Insecure["insecure"]
    BY <2>1, LoadedAt, InsecureIs
  <2>3. TypeInv'
    BY <2>1, <2>2, <1>a DEF TypeInv
  <2>4. OpenInv'
    <3>1. editions = {NoFile} => Active = user /\ Env = cmd.env
      BY <1>b, InsecureIs DEF Active
    <3>2. editions = {NoFile} =>
            /\ legacy' = OldNameOf(user.keys, cmd.env)
            /\ \A k \in DOMAIN Template :
                 effective'[k] = Or(cmd.env, k, Or(user.keys, k, Template[k]))
      BY <2>1, <2>2, <3>1
    <3> QED
      BY <2>1, <3>2, <1>a, <1>b DEF OpenInv
  <2>5. LockedInv'
    <3>1. UnderLock => Active = managed /\ Env = <<>> /\ ~Insecure["insecure"]
      BY <1>c, InsecureIs DEF Active
    <3>2. \A k, o : Or(<<>>, k, o) = o
      BY DEF Or
    <3>3. UnderLock => \A k \in DOMAIN Template :
                         effective'[k] = Or(managed.keys, k, Template[k])
      BY <2>2, <3>1, <3>2
    <3>4. UnderLock' = UnderLock
      BY <1>a DEF UnderLock
    <3>5. UnderLock => managed # Torn /\ legacy' = OldNameOf(managed.keys, <<>>) /\ ~effective'["insecure"]
      BY <1>3, <2>1, <2>2, <3>1, FilesDiffer
    <3>6. UnderLock =>
            \E e \in editions :
              /\ e # Torn /\ legacy' = OldNameOf(e.keys, <<>>)
              /\ \A k \in DOMAIN Template : effective'[k] = Or(e.keys, k, Template[k])
      BY <3>3, <3>5, <1>a
    <3> QED
      BY <2>1, <3>4, <3>5, <3>6, <1>a, <1>c DEF LockedInv
  <2> QED
    BY <1>1, <2>3, <2>4, <2>5 DEF ConfigInv
<1> QED
  BY <1>2, <1>3

\* With the old name of proxy where neither the file nor a variable has today's.
LEMMA ApplyProxyLegacyFallbackInv ==
  ASSUME ConfigAssumption, ConfigInv, ApplyProxyLegacyFallback
  PROVE  ConfigInv'
<1> DEFINE Migrates == "proxy" \notin DOMAIN Active.keys \cup DOMAIN Env /\ "proxy_mode" \in DOMAIN legacy
<1>a. /\ at = "legacy" /\ at' = "flags"
      /\ UNCHANGED <<managed, user, cmd, isManaged, locked, legacy, editions, ghostVars>>
      /\ cmd \in Commands /\ managed \in editions /\ IsFile(managed) /\ IsYours(user)
      /\ DOMAIN Template \cup {"insecure"} \subseteq DOMAIN effective
  BY DEF ApplyProxyLegacyFallback, Goto, ConfigInv, TypeInv
<1>b. /\ DOMAIN effective' = DOMAIN effective
      /\ \A k \in DOMAIN effective :
           effective'[k] = IF k = "proxy" /\ Migrates THEN legacy["proxy_mode"] ELSE effective[k]
  BY DEF ApplyProxyLegacyFallback
<1>c. "insecure" # "proxy" /\ "proxy" \in DOMAIN Template
  BY DEF ConfigAssumption
<1>1. FileInv'
  BY FileInvUnchanged, <1>a DEF ConfigInv
<1>2. TypeInv'
  BY <1>a, <1>b DEF TypeInv
<1>3. OpenInv'
  <2> SUFFICES ASSUME editions = {NoFile}
               PROVE  /\ ~isManaged /\ ~locked
                      /\ ~damaged => \A k \in DOMAIN Template :
                                       effective'[k] = Or(Variables, k, Settled(k))
    BY <1>a DEF OpenInv, Settled, Variables, ghostVars
  <2>1. /\ ~isManaged /\ ~locked
        /\ legacy = OldNameOf(user.keys, cmd.env)
        /\ \A k \in DOMAIN Template : effective[k] = Or(cmd.env, k, Or(user.keys, k, Template[k]))
    BY <1>a DEF ConfigInv, OpenInv
  <2>2. Active = user /\ Env = cmd.env
    BY <2>1, InsecureIs DEF Active
  <2>3. ~damaged => \A k \in DOMAIN Template : Told(user.keys, k) = Settled(k)
    BY DEF ConfigInv, FileInv
  <2>4. \A k \in DOMAIN Template : effective'[k] = Or(Variables, k, Told(user.keys, k))
    <3> SUFFICES ASSUME NEW k \in DOMAIN Template
                 PROVE  effective'[k] = Or(Variables, k, Told(user.keys, k))
      OBVIOUS
    <3>1. effective'[k] = IF k = "proxy" /\ Migrates THEN legacy["proxy_mode"]
                          ELSE Or(cmd.env, k, Or(user.keys, k, Template[k]))
      BY <1>a, <1>b, <2>1
    <3>2. Migrates <=> /\ "proxy" \notin DOMAIN user.keys \cup DOMAIN cmd.env
                       /\ "proxy_mode" \in DOMAIN user.keys \cup DOMAIN cmd.env
      BY <2>1, <2>2, OldNameIs
    <3>3. Migrates => legacy["proxy_mode"] = Or(cmd.env, "proxy_mode", user.keys["proxy_mode"])
      BY <2>1, <3>2, OldNameIs
    <3> HIDE DEF Migrates
    <3>4. CASE "proxy" \in DOMAIN user.keys
      <4>1. Or(Variables, k, Told(user.keys, k)) = Or(cmd.env, k, Told(user.keys, k))
        BY <3>4, KnownOr DEF Variables
      <4> QED
        BY <3>1, <3>2, <3>4, <4>1 DEF Told, Or
    <3>5. CASE "proxy" \notin DOMAIN user.keys
      <4>1. Or(Variables, k, Told(user.keys, k)) = Renamed(cmd.env, k, Told(user.keys, k))
        BY <3>5, SaysOr DEF Variables
      <4> QED
        BY <3>1, <3>2, <3>3, <3>5, <4>1 DEF Told, Or, Renamed
    <3> QED
      BY <3>4, <3>5
  <2> QED
    BY <2>1, <2>3, <2>4
<1>4. LockedInv'
  <2> SUFFICES ASSUME UnderLock
               PROVE  /\ isManaged /\ locked /\ ~effective'["insecure"]
                      /\ \A k \in DOMAIN Template : Shown(k)'
    BY <1>a DEF LockedInv, UnderLock
  <2>1. /\ isManaged /\ locked /\ ~effective["insecure"]
        /\ \E e \in editions :
             /\ e # Torn /\ legacy = OldNameOf(e.keys, <<>>)
             /\ \A k \in DOMAIN Template : effective[k] = Or(e.keys, k, Template[k])
    BY <1>a DEF ConfigInv, LockedInv
  <2>2. PICK e \in editions :
          /\ e # Torn /\ legacy = OldNameOf(e.keys, <<>>)
          /\ \A k \in DOMAIN Template : effective[k] = Or(e.keys, k, Template[k])
    BY <2>1
  <2>3. /\ Migrates <=> "proxy" \notin DOMAIN managed.keys /\ "proxy_mode" \in DOMAIN e.keys
        /\ Migrates => legacy["proxy_mode"] = e.keys["proxy_mode"]
    <3>1. "proxy_mode" \in DOMAIN legacy <=> "proxy_mode" \in DOMAIN e.keys
      BY <2>2, OldNameIs
    <3>2. "proxy_mode" \in DOMAIN e.keys => legacy["proxy_mode"] = e.keys["proxy_mode"]
      BY <2>2, OldNameIs DEF Or
    <3> QED
      BY <2>1, <3>1, <3>2, InsecureIs DEF Active
  <2> HIDE DEF Migrates
  <2>4. ~effective'["insecure"]
    BY <1>a, <1>b, <1>c, <2>1
  <2>5. ASSUME NEW k \in DOMAIN Template
        PROVE  Shown(k)'
    <3>1. effective'[k] = IF k = "proxy" /\ Migrates THEN legacy["proxy_mode"]
                          ELSE Or(e.keys, k, Template[k])
      BY <1>a, <1>b, <2>2
    <3>2. \/ effective'[k] = ToldBy(e, k)
          \/ e # managed /\ k = "proxy" /\ effective'[k] = Template[k]
          \/ /\ e # managed /\ k = "proxy" /\ {"proxy", "proxy_mode"} \subseteq DOMAIN e.keys
             /\ effective'[k] = e.keys["proxy_mode"]
      BY <3>1, <2>2, <2>3 DEF Or, Told, ToldBy
    <3>3. e # managed => editions # {managed}
      BY <2>2
    <3> QED
      BY <3>2, <3>3, <2>2, <1>a DEF Shown
  <2> QED
    BY <2>1, <2>4, <2>5
<1> QED
  BY <1>1, <1>2, <1>3, <1>4 DEF ConfigInv

LEMMA RejectManagedFlagOverridesInv ==
  ASSUME ConfigInv, RejectManagedFlagOverrides
  PROVE  ConfigInv'
<1> USE DEF RejectManagedFlagOverrides, Goto
<1>1. TypeInv'
  BY DEF ConfigInv, TypeInv
<1>2. FileInv'
  BY FileInvUnchanged DEF ConfigInv
<1>3. OpenInv' /\ LockedInv'
  BY NoStart
<1> QED
  BY <1>1, <1>2, <1>3 DEF ConfigInv

\* Under lock no flag that is left sets a key of the template.
LEMMA ApplyFlagsInv ==
  ASSUME ConfigAssumption, ConfigInv, ApplyFlags
  PROVE  ConfigInv'
<1>a. /\ at = "flags" /\ at' = "ready"
      /\ ~locked \/ DOMAIN cmd.flags \cap Governed = {}
      /\ effective' = Override(effective, cmd.flags)
      /\ UNCHANGED <<managed, user, cmd, isManaged, locked, legacy, editions, ghostVars>>
      /\ cmd \in Commands
      /\ DOMAIN Template \cup {"insecure"} \subseteq DOMAIN effective
  BY DEF ApplyFlags, Goto, ConfigInv, TypeInv
<1>b. /\ DOMAIN Template \cup {"insecure"} \subseteq DOMAIN effective'
      /\ \A k \in DOMAIN Template \cup {"insecure"} :
           effective'[k] = Or(cmd.flags, k, effective[k])
  BY <1>a, OverrideIsOr
<1>1. FileInv'
  BY FileInvUnchanged, <1>a DEF ConfigInv
<1>2. TypeInv'
  BY <1>a, <1>b DEF ConfigInv, TypeInv
<1>3. OpenInv'
  BY <1>a, <1>b DEF ConfigInv, OpenInv, Settled, Variables, ghostVars
<1>4. LockedInv'
  <2> SUFFICES ASSUME UnderLock
               PROVE  /\ isManaged /\ locked /\ ~effective'["insecure"]
                      /\ \A k \in DOMAIN Template : Shown(k)'
    BY <1>a DEF LockedInv, UnderLock
  <2>1. /\ isManaged /\ locked /\ ~effective["insecure"]
        /\ \A k \in DOMAIN Template : Shown(k)
    BY <1>a DEF ConfigInv, LockedInv
  <2>2. \A k \in DOMAIN Template \cup {"insecure"} : k \notin DOMAIN cmd.flags
    BY <1>a, <2>1 DEF ConfigAssumption
  <2>3. \A k \in DOMAIN Template \cup {"insecure"} : effective'[k] = effective[k]
    BY <1>b, <2>2 DEF Or
  <2> QED
    BY <2>1, <2>3, <1>a DEF Shown
<1> QED
  BY <1>1, <1>2, <1>3, <1>4 DEF ConfigInv

-----------------------------------------------------------------------------
(* The writers                                                              *)

\* What a command at its end may leave: the file whole, with all that is wanted, or damaged.
LEMMA WriteInv ==
  ASSUME ConfigInv, at # "idle", Fixed' = Fixed, at' \in {"idle", "relay"},
         IsYours(user'), FileInv'
  PROVE  ConfigInv'
<1>1. UNCHANGED <<managed, cmd, editions>>
  BY DEF Fixed
<1>2. TypeInv'
  BY <1>1 DEF ConfigInv, TypeInv
<1>3. OpenInv' /\ LockedInv'
  BY NoStart
<1> QED
  BY <1>2, <1>3 DEF ConfigInv

LEMMA SaveInv ==
  ASSUME ConfigInv, NEW keys, NEW earlier, IsYours(earlier), NEW to \in {"idle", "relay"},
         Save(keys, earlier, to), Fixed' = Fixed,
         ~damaged => \A k \in DOMAIN Template : Told(keys, k) = Or(wanted', k, Template[k])
  PROVE  ConfigInv'
<1>1. at = "ready" /\ at' \in {"idle", "relay"}
  BY DEF Save, Goto
<1>2. CASE user' = Yaml(keys) /\ UNCHANGED damaged
  <2>1. IsYours(user')
    BY <1>2, FilesDiffer DEF IsYours
  <2>2. FileInv'
    BY <1>2, FilesDiffer DEF FileInv, Settled
  <2> QED
    BY <1>1, <2>1, <2>2, WriteInv
<1>3. CASE user' \in {user, earlier, Torn, Yaml(<<>>)} /\ damaged' = TRUE
  <2>1. IsYours(user')
    BY <1>3, FilesDiffer DEF IsYours, ConfigInv, TypeInv
  <2>2. FileInv'
    BY <1>3 DEF FileInv
  <2> QED
    BY <1>1, <2>1, <2>2, WriteInv
<1> QED
  BY <1>2, <1>3 DEF Save

LEMMA RefuseInv ==
  ASSUME ConfigInv, Refuse, Fixed' = Fixed
  PROVE  ConfigInv'
<1>1. at = "ready" /\ at' = "idle" /\ UNCHANGED <<user, ghostVars>>
  BY DEF Refuse, Goto
<1>2. IsYours(user')
  BY <1>1 DEF ConfigInv, TypeInv
<1>3. FileInv'
  BY <1>1, FileInvUnchanged DEF ConfigInv
<1> QED
  BY <1>1, <1>2, <1>3, WriteInv

\* Where nothing is damaged the file tells what is settled, the missing file included.
LEMMA FileTells ==
  ASSUME ConfigInv, ~damaged
  PROVE  user # Torn /\ \A k \in DOMAIN Template : Told(user.keys, k) = Settled(k)
  BY DEF ConfigInv, FileInv

LEMMA SetConfigValueInv ==
  ASSUME ConfigAssumption, ConfigInv, SetConfigValue
  PROVE  ConfigInv'
<1> DEFINE keys == IF user = NoFile THEN Template ELSE user.keys
           one  == [x \in {cmd.key} |-> cmd.value]
<1>1. Fixed' = Fixed
  BY DEF SetConfigValue
<1>2. \/ Refuse
      \/ /\ cmd.key \in DOMAIN keys
         /\ Save(Override(keys, one), Yaml(keys), "idle")
         /\ wanted' = Override(wanted, Wish(keys, cmd.key, cmd.value))
  BY DEF SetConfigValue
<1>3. ~damaged => \A k \in DOMAIN Template : Told(keys, k) = Settled(k)
  <2>1. \A k \in DOMAIN Template : Told(Template, k) = Template[k]
    BY DEF Told
  <2> QED
    BY <2>1, FileTells, ToldNothing, FilesDiffer
<1> HIDE DEF keys
<1>4. CASE Refuse
  BY <1>1, <1>4, RefuseInv
<1>5. CASE /\ cmd.key \in DOMAIN keys
           /\ Save(Override(keys, one), Yaml(keys), "idle")
           /\ wanted' = Override(wanted, Wish(keys, cmd.key, cmd.value))
  <2>1. ASSUME NEW k \in DOMAIN Template, ~damaged
        PROVE  Told(Override(keys, one), k) = Or(wanted', k, Template[k])
    <3>1. Or(wanted', k, Template[k]) = Or(Wish(keys, cmd.key, cmd.value), k, Told(keys, k))
      BY <1>3, <1>5, <2>1, OrOverride DEF Settled
    <3>2. CASE cmd.key # "proxy_mode"
      <4>1. Wish(keys, cmd.key, cmd.value) = one
        BY <3>2 DEF Wish
      <4>2. Told(Override(keys, one), k) = Or(one, k, Told(keys, k))
        BY <3>2, ToldOverride
      <4> QED
        BY <3>1, <4>1, <4>2
    <3>3. CASE cmd.key = "proxy_mode"
      <4>1. Told(Override(keys, one), k)
              = IF k = "proxy" /\ "proxy" \notin DOMAIN keys THEN cmd.value ELSE Told(keys, k)
        <5>1. one = [x \in {"proxy_mode"} |-> cmd.value]
          BY <3>3
        <5>2. "proxy_mode" \notin DOMAIN Template
          BY DEF ConfigAssumption
        <5> HIDE DEF one
        <5> QED
          BY <5>1, <5>2, ToldOldName
      <4>2. CASE "proxy" \in DOMAIN keys
        <5>1. Wish(keys, cmd.key, cmd.value) = <<>>
          BY <3>3, <4>2 DEF Wish
        <5>2. Or(<<>>, k, Told(keys, k)) = Told(keys, k)
          BY DEF Or
        <5> QED
          BY <3>1, <4>1, <4>2, <5>1, <5>2
      <4>3. CASE "proxy" \notin DOMAIN keys
        <5>1. Wish(keys, cmd.key, cmd.value) = [proxy |-> cmd.value]
          BY <3>3, <4>3 DEF Wish
        <5>2. Or([proxy |-> cmd.value], k, Told(keys, k))
                = IF k = "proxy" THEN cmd.value ELSE Told(keys, k)
          BY DEF Or
        <5> QED
          BY <3>1, <4>1, <4>3, <5>1, <5>2
      <4> QED
        BY <4>2, <4>3
    <3> QED
      BY <3>2, <3>3
  <2>2. IsYours(Yaml(keys))
    BY FilesDiffer DEF IsYours
  <2> QED
    BY <1>1, <1>5, <2>1, <2>2, SaveInv
<1> QED
  BY <1>2, <1>4, <1>5

\* What the merge of the template leaves of the wishes is what the merged file tells.
LEMMA MergedTells ==
  ASSUME ConfigInv, ~damaged, NEW k \in DOMAIN Template
  PROVE  Told(MergeYAML(user.keys), k) = Or(MergedWishes, k, Template[k])
<1>1. Told(user.keys, k) = Settled(k)
  BY FileTells
<1>2. Told(MergeYAML(user.keys), k) = Or(user.keys, k, Template[k])
  BY ToldMerged
<1>3. CASE "proxy_mode" \in DOMAIN user.keys /\ "proxy" \notin DOMAIN user.keys
  <2>1. MergedWishes = Restrict(wanted, DOMAIN wanted \ {"proxy"})
    BY <1>3 DEF MergedWishes
  <2>2. Or(MergedWishes, k, Template[k]) = IF k = "proxy" THEN Template[k] ELSE Settled(k)
    BY <2>1 DEF Restrict, Or, Settled
  <2> QED
    BY <1>1, <1>2, <1>3, <2>2 DEF Told, Or
<1>4. CASE ~("proxy_mode" \in DOMAIN user.keys /\ "proxy" \notin DOMAIN user.keys)
  <2>1. Or(MergedWishes, k, Template[k]) = Settled(k)
    BY <1>4 DEF MergedWishes, Settled
  <2> QED
    BY <1>1, <1>2, <1>4, <2>1 DEF Told, Or
<1> QED
  BY <1>3, <1>4

LEMMA WriteTemplateConfigInv ==
  ASSUME ConfigInv, WriteTemplateConfig
  PROVE  ConfigInv'
<1>1. Fixed' = Fixed
  BY DEF WriteTemplateConfig
<1>2. CASE Refuse
  BY <1>1, <1>2, RefuseInv
<1>3. CASE Save(MergeYAML(user.keys), user, "idle") /\ wanted' = MergedWishes
  <2>1. IsYours(user)
    BY DEF ConfigInv, TypeInv
  <2>2. ~damaged => \A k \in DOMAIN Template :
                      Told(MergeYAML(user.keys), k) = Or(wanted', k, Template[k])
    BY <1>3, MergedTells
  <2> QED
    BY <1>1, <1>3, <2>1, <2>2, SaveInv
<1> QED
  BY <1>2, <1>3 DEF WriteTemplateConfig

LEMMA EditInv ==
  ASSUME ConfigAssumption, ConfigInv, Edit
  PROVE  ConfigInv'
<1>1. Fixed' = Fixed
  BY DEF Edit
<1>2. CASE Refuse
  BY <1>1, <1>2, RefuseInv
<1>3. CASE Save(Template, user, "idle") /\ wanted' = Template
  <2>1. IsYours(user)
    BY DEF ConfigInv, TypeInv
  <2>2. \A k \in DOMAIN Template : Told(Template, k) = Or(Template, k, Template[k])
    BY DEF Told, Or
  <2> QED
    BY <1>1, <1>3, <2>1, <2>2, SaveInv
<1>4. CASE \E f \in UserFiles :
             /\ Goto("ready", "idle")
             /\ user' = f
             /\ wanted' = Says(f.keys)
             /\ damaged' = (f = Torn)
  <2>1. PICK f \in UserFiles : /\ Goto("ready", "idle")
                               /\ user' = f
                               /\ wanted' = Says(f.keys)
                               /\ damaged' = (f = Torn)
    BY <1>4
  <2>2. IsYours(user')
    BY <2>1 DEF IsYours, ConfigAssumption
  <2>3. FileInv'
    BY <2>1, SaysTold DEF FileInv, Settled
  <2>4. at # "idle" /\ at' \in {"idle", "relay"}
    BY <2>1 DEF Goto
  <2> QED
    BY <1>1, <2>2, <2>3, <2>4, WriteInv
<1> QED
  BY <1>2, <1>3, <1>4 DEF Edit

\* A section that is written besides is wanted and told.
LEMMA SectionTold ==
  ASSUME NEW section, "proxy_mode" \notin DOMAIN section, NEW keys, NEW wishes,
         NEW k \in DOMAIN Template, Told(keys, k) = Or(wishes, k, Template[k])
  PROVE  Told(Override(keys, section), k) = Or(Override(wishes, section), k, Template[k])
  BY ToldOverride, OrOverride

\* What enroll writes tells what it leaves of the wishes.
LEMMA EnrolledTells ==
  ASSUME ConfigAssumption, NEW keys, NEW wishes, NEW k \in DOMAIN Template,
         Told(keys, k) = Or(wishes, k, Template[k])
  PROVE  Told(Enrolled(keys), k) = Or(EnrolledWishes(wishes), k, Template[k])
<1>1. \A x : /\ x \in DOMAIN Enrolled(keys) <=> x \in (DOMAIN keys \ AutoSync) \cup {"cloud", "autoSync"}
             /\ x \in DOMAIN Enrolled(keys) =>
                  Enrolled(keys)[x] = IF x \in {"cloud", "autoSync"} THEN TRUE ELSE keys[x]
  <2> DEFINE rest == Restrict(keys, DOMAIN keys \ AutoSync)
             section == [cloud |-> TRUE, autoSync |-> TRUE]
  <2>1. DOMAIN rest = DOMAIN keys \ AutoSync /\ \A x \in DOMAIN rest : rest[x] = keys[x]
    BY DEF Restrict
  <2>2. /\ DOMAIN section = {"cloud", "autoSync"}
        /\ section["cloud"] = TRUE /\ section["autoSync"] = TRUE
    OBVIOUS
  <2>3. Enrolled(keys) = Override(rest, section)
    BY DEF Enrolled
  <2> HIDE DEF rest, section
  <2> QED
    BY <2>1, <2>2, <2>3 DEF Override
<1>2. \A x : /\ x \in DOMAIN EnrolledWishes(wishes) <=> x \in (DOMAIN wishes \ AutoSync) \cup {"cloud"}
             /\ x \in DOMAIN EnrolledWishes(wishes) =>
                  EnrolledWishes(wishes)[x] = IF x = "cloud" THEN TRUE ELSE wishes[x]
  <2> DEFINE rest == Restrict(wishes, DOMAIN wishes \ AutoSync)
             section == [cloud |-> TRUE]
  <2>1. DOMAIN rest = DOMAIN wishes \ AutoSync /\ \A x \in DOMAIN rest : rest[x] = wishes[x]
    BY DEF Restrict
  <2>2. DOMAIN section = {"cloud"} /\ section["cloud"] = TRUE
    OBVIOUS
  <2>3. EnrolledWishes(wishes) = Override(rest, section)
    BY DEF EnrolledWishes
  <2> HIDE DEF rest, section
  <2> QED
    BY <2>1, <2>2, <2>3 DEF Override
<1>3. CASE k = "cloud"
  BY <1>1, <1>2, <1>3 DEF Told, Or
<1>4. CASE k = "autoSync"
  BY <1>1, <1>2, <1>4 DEF Told, Or, AutoSync, ConfigAssumption
<1>5. CASE k = "syncTimes"
  BY <1>1, <1>2, <1>5 DEF Told, Or, AutoSync
<1>6. CASE k \notin {"cloud", "autoSync", "syncTimes"}
  BY <1>1, <1>2, <1>6 DEF Told, Or, AutoSync
<1> QED
  BY <1>3, <1>4, <1>5, <1>6

LEMMA PatchCloudConfigInv ==
  ASSUME ConfigAssumption, ConfigInv, PatchCloudConfig
  PROVE  ConfigInv'
<1> DEFINE keys   == Merged(user.keys)
           wishes == IF isManaged THEN wanted ELSE MergedWishes
<1>1. Fixed' = Fixed
  BY DEF PatchCloudConfig
<1>2. CASE Refuse
  BY <1>1, <1>2, RefuseInv
<1>3. CASE Save(Enrolled(keys), Yaml(keys), "relay") /\ wanted' = EnrolledWishes(wishes)
  <2>1. ASSUME ~damaged, NEW k \in DOMAIN Template
        PROVE  Told(keys, k) = Or(wishes, k, Template[k])
    BY <2>1, FileTells, MergedTells DEF Merged, Settled
  <2>2. IsYours(Yaml(keys))
    BY FilesDiffer DEF IsYours
  <2> HIDE DEF keys, wishes
  <2>3. ASSUME ~damaged, NEW k \in DOMAIN Template
        PROVE  Told(Enrolled(keys), k) = Or(wanted', k, Template[k])
    <3>1. Told(keys, k) = Or(wishes, k, Template[k])
      BY <2>1, <2>3
    <3>2. Told(Enrolled(keys), k) = Or(EnrolledWishes(wishes), k, Template[k])
      BY <3>1, EnrolledTells
    <3> QED
      BY <1>3, <3>2
  <2> QED
    BY <1>1, <1>3, <2>2, <2>3, SaveInv
<1> QED
  BY <1>2, <1>3 DEF PatchCloudConfig

LEMMA PatchRelayConfigInv ==
  ASSUME ConfigInv, PatchRelayConfig
  PROVE  ConfigInv'
<1> DEFINE relay == [relay |-> TRUE]
<1>1. Fixed' = Fixed /\ at = "relay" /\ at' = "idle"
  BY DEF PatchRelayConfig
<1>2. CASE /\ user' = Yaml(Override(user.keys, relay))
           /\ wanted' = Override(wanted, relay)
           /\ UNCHANGED damaged
  <2>1. "proxy_mode" \notin DOMAIN relay
    OBVIOUS
  <2> HIDE DEF relay
  <2>2. ~damaged => \A k \in DOMAIN Template :
                      Told(Override(user.keys, relay), k)
                        = Or(Override(wanted, relay), k, Template[k])
    BY <2>1, FileTells, SectionTold DEF Settled
  <2>3. FileInv'
    BY <1>2, <2>2, FilesDiffer DEF FileInv, Settled
  <2>4. IsYours(user')
    BY <1>2, FilesDiffer DEF IsYours
  <2> QED
    BY <1>1, <2>3, <2>4, WriteInv
<1>3. CASE user' \in {user, Torn, Yaml(<<>>)} /\ damaged' = TRUE
  <2>1. IsYours(user')
    BY <1>3, FilesDiffer DEF IsYours, ConfigInv, TypeInv
  <2>2. FileInv'
    BY <1>3 DEF FileInv
  <2> QED
    BY <1>1, <2>1, <2>2, WriteInv
<1> QED
  BY <1>2, <1>3 DEF PatchRelayConfig

LEMMA RemoveUserConfigFileInv ==
  ASSUME ConfigInv, RemoveUserConfigFile
  PROVE  ConfigInv'
<1>1. /\ Fixed' = Fixed /\ at = "ready" /\ at' = "idle"
      /\ user' = NoFile /\ wanted' = <<>>
  BY DEF RemoveUserConfigFile, Goto
<1>2. IsYours(user')
  BY <1>1 DEF IsYours
<1>3. \A k : Or(<<>>, k, Template[k]) = Template[k]
  BY DEF Or
<1>4. FileInv'
  BY <1>1, <1>3, FilesDiffer, ToldNothing DEF FileInv, Settled
<1> QED
  BY <1>1, <1>2, <1>4, WriteInv

\* The administrator's file joins the editions: whatever a start has read was in one.
LEMMA AdministerInv ==
  ASSUME ConfigAssumption, ConfigInv, NEW f \in ManagedFiles \cup {NoFile, Torn}, Administer(f)
  PROVE  ConfigInv'
<1>a. /\ f # managed /\ managed' = f /\ editions' = editions \cup {f}
      /\ UNCHANGED <<user, cmd, at, startVars, ghostVars>>
  BY DEF Administer
<1>b. at # "idle" => managed \in editions
  BY DEF ConfigInv, TypeInv
<1>1. TypeInv'
  BY <1>a DEF ConfigInv, TypeInv, startVars, IsFile, ConfigAssumption
<1>2. FileInv'
  BY <1>a, FileInvUnchanged DEF ConfigInv
<1>3. OpenInv'
  <2>1. at # "idle" => editions' # {NoFile}
    BY <1>a, <1>b
  <2> QED
    BY <1>a, <2>1 DEF OpenInv
<1>4. LockedInv'
  <2> SUFFICES ASSUME UnderLock', at # "idle"
               PROVE  LockedInv'
    BY <1>a DEF LockedInv
  <2>1. UnderLock
    BY <1>a DEF UnderLock
  <2>2. editions' # {managed'}
    BY <1>a, <1>b
  <2>3. ASSUME NEW k \in DOMAIN Template, Shown(k)
        PROVE  Shown(k)'
    BY <1>a, <2>2, <2>3 DEF Shown, startVars
  <2>4. UNCHANGED <<at, isManaged, locked, legacy, effective>> /\ editions \subseteq editions'
    BY <1>a DEF startVars
  <2> QED
    BY <2>1, <2>3, <2>4 DEF ConfigInv, LockedInv
<1> QED
  BY <1>1, <1>2, <1>3, <1>4 DEF ConfigInv

-----------------------------------------------------------------------------
(* The theorem                                                              *)

LEMMA ConfigKept ==
  ASSUME ConfigAssumption, ConfigInv, [ConfigNext]_configVars
  PROVE  ConfigInv'
<1>1. CASE UNCHANGED configVars
  <2>1. UNCHANGED <<managed, user, cmd, at, isManaged, locked, legacy, effective, editions,
                    wanted, damaged>>
    BY <1>1 DEF configVars, startVars, ghostVars
  <2>2. TypeInv' /\ FileInv'
    BY <2>1 DEF ConfigInv, TypeInv, FileInv, Settled
  <2>3. OpenInv'
    BY <2>1 DEF ConfigInv, OpenInv, Settled, Variables
  <2>4. LockedInv'
    BY <2>1 DEF ConfigInv, LockedInv, UnderLock, Shown
  <2> QED
    BY <2>2, <2>3, <2>4 DEF ConfigInv
<1>2. CASE \E c \in Commands : StartCommand(c)
  BY <1>2, StartCommandInv
<1>3. CASE ResolveConfigFile \/ DecideLockdown \/ LoadViperConfig \/ ApplyProxyLegacyFallback
  BY <1>3, ResolveConfigFileInv, DecideLockdownInv, LoadViperConfigInv,
     ApplyProxyLegacyFallbackInv
<1>4. CASE RejectManagedFlagOverrides \/ ApplyFlags
  BY <1>4, RejectManagedFlagOverridesInv, ApplyFlagsInv
<1>5. CASE Run
  BY <1>5, RefuseInv DEF Run
<1>6. CASE SetConfigValue \/ WriteTemplateConfig \/ Edit
  BY <1>6, SetConfigValueInv, WriteTemplateConfigInv, EditInv
<1>7. CASE PatchCloudConfig \/ PatchRelayConfig \/ RemoveUserConfigFile
  BY <1>7, PatchCloudConfigInv, PatchRelayConfigInv, RemoveUserConfigFileInv
<1>8. CASE \E f \in ManagedFiles \cup {NoFile, Torn} : Administer(f)
  BY <1>8, AdministerInv
<1> QED
  BY <1>1, <1>2, <1>3, <1>4, <1>5, <1>6, <1>7, <1>8 DEF ConfigNext

\* However the administrator's file comes, changes and goes while a start reads it, and
\* whatever commands ran before it: under lock the start runs with what the managed files
\* say, and without a managed file with what its variables and flags say and else with what
\* the user last set, but for the settings of cloud.auto_sync, which enroll takes back.
THEOREM SettingsAreKept == ConfigSpec => []ConfigurationHolds
<1>1. ConfigInit => ConfigInv
  BY ConfigAssumption, InitInv
<1>2. ConfigInv /\ [ConfigNext]_configVars => ConfigInv'
  BY ConfigAssumption, ConfigKept
<1>3. ConfigInv => ConfigurationHolds
  <2> SUFFICES ASSUME ConfigInv
               PROVE  ConfigurationHolds
    OBVIOUS
  <2>1. LockdownHolds
    <3> SUFFICES ASSUME at = "ready", \A e \in editions : e = Torn \/ e.lockdown = "true"
                 PROVE  /\ ~effective["insecure"]
                        /\ \A k \in DOMAIN Template :
                             \/ \E e \in editions : effective[k] = Read(e, k)
                             \/ /\ editions # {managed} /\ k = "proxy"
                                /\ \/ effective[k] = Template[k]
                                   \/ \E e \in editions :
                                        /\ {"proxy", "proxy_mode"} \subseteq DOMAIN e.keys
                                        /\ effective[k] = e.keys["proxy_mode"]
      BY DEF LockdownHolds
    <3>1. UnderLock
      BY DEF UnderLock, Locking
    <3>2. ~effective["insecure"] /\ \A k \in DOMAIN Template : Shown(k)
      BY <3>1 DEF ConfigInv, LockedInv
    <3>3. \A k \in DOMAIN Template : \A e \in editions : ToldBy(e, k) = Read(e, k)
      BY SaysTold, OverrideIsOr DEF ToldBy, Read
    <3> QED
      BY <3>2, <3>3 DEF Shown
  <2>2. SettingsHold
    <3> SUFFICES ASSUME at = "ready", editions = {NoFile}, ~damaged, NEW k \in DOMAIN Template
                 PROVE  effective[k]
                          = Override(Override(Override(Template, wanted), Variables), cmd.flags)[k]
      BY DEF SettingsHold
    <3> DEFINE set  == Override(Template, wanted)
               both == Override(set, Variables)
    <3>1. k \in DOMAIN set /\ set[k] = Settled(k)
      BY OverrideIsOr DEF Settled
    <3> HIDE DEF set
    <3>2. k \in DOMAIN both /\ both[k] = Or(Variables, k, Settled(k))
      BY <3>1, OverrideIsOr
    <3>3. Override(both, cmd.flags)[k] = Or(cmd.flags, k, Or(Variables, k, Settled(k)))
      <4> HIDE DEF both
      <4> QED
        BY <3>2, OverrideIsOr
    <3>4. effective[k] = Or(cmd.flags, k, Or(Variables, k, Settled(k)))
      BY DEF ConfigInv, OpenInv
    <3> QED
      BY <3>3, <3>4 DEF set
  <2> QED
    BY <2>1, <2>2 DEF ConfigurationHolds
<1> QED
  BY <1>1, <1>2, <1>3, PTL DEF ConfigSpec

=============================================================================
