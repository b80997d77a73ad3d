------------------------------ MODULE BoxProofs ------------------------------
(***************************************************************************)
(* What Box promises, for boxes of every size and every text: its type,    *)
(* that the terminal shows what the boxes hold, and that each box is a     *)
(* Scroll.                                                                 *)
(*                                                                         *)
(* Number the rows written to a box from 0.  A box is always at the        *)
(* beginning of a row, so that sp is W * a for some a; the rows of a text  *)
(* are those that Scroll breaks it into (LaidRows), the ring holds the     *)
(* last H of all (RowsInRing), and printing appends to all (RingScrolls).  *)
(*                                                                         *)
(* Laid and Broken are functions on the positions of a text defined by     *)
(* recursion: that such a function exists is the lemma Recursion, and what *)
(* holds at each position follows from the lemma Induction, which speaks   *)
(* of sets of numbers.                                                     *)
(***************************************************************************)
EXTENDS Box, TLAPS, FiniteSetTheorems, WellFoundedInduction, SequenceTheorems

-----------------------------------------------------------------------------
(* Numbers: induction, division, and positions of one cell of a ring.      *)

\* Induction over a set of numbers.
LEMMA Induction ==
  ASSUME NEW S, 0 \in S, \A n \in Nat : n \in S => n + 1 \in S
  PROVE  Nat \subseteq S
<1> SUFFICES ASSUME Nat \ S # {}
             PROVE  FALSE
  OBVIOUS
<1> DEFINE T == {1 .. n : n \in Nat \ S}
           R == StrictSubsetOrdering(Nat)
           F == FiniteSubsetsOf(Nat)
<1>1. IsWellFoundedOn(R, F)
  BY FS_StrictSubsetOrderingWellFounded
<1>2. \A n \in Nat : IsFiniteSet(1 .. n)
  BY FS_Interval
<1>3. T \subseteq F /\ T # {}
  BY <1>2 DEF FiniteSubsetsOf
<1>4. \A x, y : <<x, y>> \in R <=> x \subseteq Nat /\ y \subseteq Nat /\ x \subseteq y /\ x # y
  BY DEF StrictSubsetOrdering
<1> HIDE DEF R, F
<1>5. PICK x \in T : \A y \in T : ~(<<y, x>> \in R)
  <2> HIDE DEF T
  <2> QED
    BY <1>1, <1>3, WFMin
<1>6. PICK n \in Nat \ S : x = 1 .. n
  OBVIOUS
<1>7. n # 0 /\ n - 1 \in Nat
  OBVIOUS
<1>8. n - 1 \notin S
  BY <1>7
<1>9. 1 .. n - 1 \in T
  BY <1>7, <1>8
<1>10. n \in 1 .. n /\ n \notin 1 .. n - 1
  BY <1>7
<1>11. <<1 .. n - 1, 1 .. n>> \in R
  BY <1>4, <1>7, <1>10
<1> QED
  BY <1>5, <1>6, <1>9, <1>11

\* Every number has a quotient and a remainder,
LEMMA Divide ==
  ASSUME NEW d \in Nat \ {0}, NEW a \in Nat
  PROVE  \E q \in Nat, r \in 0 .. d - 1 : a = d * q + r
<1> DEFINE S == {n \in Nat : \E q \in Nat, r \in 0 .. d - 1 : n = d * q + r}
<1>1. 0 \in S
  <2>1. 0 \in 0 .. d - 1 /\ 0 = d * 0 + 0
    OBVIOUS
  <2> QED
    BY <2>1
<1>2. ASSUME NEW n \in Nat, n \in S
      PROVE  n + 1 \in S
  <2>1. PICK q \in Nat, r \in 0 .. d - 1 : n = d * q + r
    BY <1>2
  <2>2. CASE r = d - 1
    <3>1. n + 1 = d * (q + 1) + 0 /\ 0 \in 0 .. d - 1 /\ q + 1 \in Nat
      BY <2>1, <2>2
    <3>2. \E p \in Nat, s \in 0 .. d - 1 : n + 1 = d * p + s
      BY <3>1, Zenon
    <3> QED
      BY <3>2
  <2>3. CASE r # d - 1
    <3>1. n + 1 = d * q + (r + 1) /\ r + 1 \in 0 .. d - 1
      BY <2>1, <2>3
    <3> QED
      BY <3>1
  <2> QED
    BY <2>2, <2>3
<1>3. Nat \subseteq S
  <2> HIDE DEF S
  <2> QED
    BY <1>1, <1>2, Induction
<1> QED
  BY <1>3

\* and these are its only ones.
LEMMA Quotient ==
  ASSUME NEW d \in Nat \ {0}, NEW q \in Nat, NEW r \in 0 .. d - 1
  PROVE  (d * q + r) \div d = q /\ (d * q + r) % d = r
OBVIOUS

\* Numbers of one cell are apart by the size of the ring.
LEMMA SameCell ==
  ASSUME NEW d \in Nat \ {0}, NEW x \in Nat, NEW y \in Nat, x % d = y % d, x < y
  PROVE  x + d <= y
<1>1. PICK q \in Nat, r \in 0 .. d - 1 : x = d * q + r
  BY Divide
<1>2. PICK p \in Nat, s \in 0 .. d - 1 : y = d * p + s
  BY Divide
<1>3. r = s
  BY <1>1, <1>2, Quotient
<1>4. q < p
  <2> SUFFICES ASSUME p <= q
               PROVE  FALSE
    OBVIOUS
  <2>1. d * p <= d * q
    OBVIOUS
  <2> QED
    BY <1>1, <1>2, <1>3, <2>1
<1>5. d * (q + 1) <= d * p
  BY <1>4
<1> QED
  BY <1>1, <1>2, <1>3, <1>5

\* Once around the ring is the same cell.
LEMMA OnceAround ==
  ASSUME NEW d \in Nat \ {0}, NEW x \in Nat
  PROVE  (x + d) % d = x % d /\ (x < d => x % d = x)
<1>1. PICK q \in Nat, r \in 0 .. d - 1 : x = d * q + r
  BY Divide
<1>2. x + d = d * (q + 1) + r
  BY <1>1
<1>3. (x + d) % d = r /\ x % d = r
  BY <1>1, <1>2, Quotient
<1> QED
  BY <1>3

-----------------------------------------------------------------------------
(* Laid, position by position.                                             *)

\* The values of f follow one from another by step.
Follows(f, n, S, first, step) ==
  /\ f \in [0 .. n -> S]
  /\ f[0] = first
  /\ \A k \in 1 .. n : f[k] = step[<<k, f[k - 1]>>]

\* A function defined by recursion on positions exists.
LEMMA Recursion ==
  ASSUME NEW n \in Nat, NEW S, NEW first \in S, NEW step,
         \A k \in 1 .. n, x \in S : step[<<k, x>>] \in S
  PROVE  \E f : Follows(f, n, S, first, step)
<1> DEFINE Upto(m, f) == Follows(f, m, S, first, step)
           I == {m \in Nat : m <= n => \E f : Upto(m, f)}
<1> USE DEF Follows
<1>1. 0 \in I
  <2>1. Upto(0, [k \in 0 .. 0 |-> first])
    OBVIOUS
  <2> QED
    BY <2>1
<1>2. ASSUME NEW m \in Nat, m \in I
      PROVE  m + 1 \in I
  <2> SUFFICES ASSUME m + 1 <= n
               PROVE  \E f : Upto(m + 1, f)
    OBVIOUS
  <2>1. PICK f : Upto(m, f)
    BY <1>2
  <2> DEFINE g == [k \in 0 .. m + 1 |-> IF k = m + 1 THEN step[<<k, f[m]>>] ELSE f[k]]
  <2>2. f[m] \in S /\ m + 1 \in 1 .. n
    BY <2>1
  <2>3. step[<<m + 1, f[m]>>] \in S
    BY <2>2
  <2>4. g \in [0 .. m + 1 -> S]
    BY <2>1, <2>3
  <2>5. g[0] = first
    BY <2>1
  <2>6. ASSUME NEW k \in 1 .. m + 1
        PROVE  g[k] = step[<<k, g[k - 1]>>]
    <3>1. k - 1 \in 0 .. m + 1 /\ k - 1 # m + 1
      OBVIOUS
    <3>2. g[k - 1] = f[k - 1]
      BY <3>1
    <3>3. CASE k = m + 1
      BY <3>2, <3>3
    <3>4. CASE k # m + 1
      <4>1. g[k] = f[k] /\ k \in 1 .. m
        BY <3>4
      <4> QED
        BY <2>1, <3>2, <4>1
    <3> QED
      BY <3>3, <3>4
  <2>7. Upto(m + 1, g)
    <3> HIDE DEF g
    <3> QED
      BY <2>4, <2>5, <2>6
  <2> QED
    BY <2>7
<1>3. n \in I
  <2>1. Nat \subseteq I
    <3> HIDE DEF I
    <3> QED
      BY <1>1, <1>2, Induction
  <2> QED
    BY <2>1
<1> QED
  BY <1>3

\* Laid, unfolded.
LEMMA LaidSteps ==
  ASSUME NEW pos \in Nat, NEW A, Space \in A, NEW t \in Seq(A \cup {Newline}),
         \A d \in Seq(A), c \in A \cup {Newline} : Put(pos, d, c) \in Seq(A)
  PROVE  \E put : /\ put[0] = <<>>
                  /\ \A k \in 1 .. Len(t) : put[k] = Put(pos, put[k - 1], t[k])
                  /\ Laid(pos, t) = put[Len(t)] \o Spaces(ToTextEnd(pos + Len(put[Len(t)])))
<1> DEFINE n == Len(t)
           step == [p \in (1 .. n) \X Seq(A) |-> Put(pos, p[2], t[p[1]])]
           G(f) == [k \in 0 .. n |-> IF k = 0 THEN <<>> ELSE Put(pos, f[k - 1], t[k])]
           put == CHOOSE f : f = G(f)
<1>1. step \in [(1 .. n) \X Seq(A) -> Seq(A)]
  <2>1. ASSUME NEW p \in (1 .. n) \X Seq(A)
        PROVE  Put(pos, p[2], t[p[1]]) \in Seq(A)
    <3>1. p[2] \in Seq(A) /\ t[p[1]] \in A \cup {Newline}
      OBVIOUS
    <3> QED
      BY <3>1
  <2> HIDE DEF n
  <2> QED
    BY <2>1
<1>2. <<>> \in Seq(A) /\ n \in Nat
  OBVIOUS
<1>3. PICK f \in [0 .. n -> Seq(A)] :
        f[0] = <<>> /\ \A k \in 1 .. n : f[k] = step[<<k, f[k - 1]>>]
  <2> HIDE DEF step, n
  <2>1. \A k \in 1 .. n, x \in Seq(A) : step[<<k, x>>] \in Seq(A)
    BY <1>1
  <2>2. \E f : Follows(f, n, Seq(A), <<>>, step)
    BY <1>2, <2>1, Recursion
  <2> QED
    BY <2>2 DEF Follows
<1>4. f = G(f)
  <2>1. ASSUME NEW k \in 1 .. n
        PROVE  f[k] = Put(pos, f[k - 1], t[k])
    <3>1. k - 1 \in 0 .. n
      BY <1>2
    <3>2. f[k - 1] \in Seq(A)
      BY <1>3, <3>1
    <3> QED
      BY <1>3, <3>2
  <2>2. \A k \in 0 .. n : f[k] = IF k = 0 THEN <<>> ELSE Put(pos, f[k - 1], t[k])
    <3> HIDE DEF n
    <3> QED
      BY <1>2, <1>3, <2>1
  <2> HIDE DEF step, n
  <2> QED
    BY <1>3, <2>2
<1>5. put = G(put)
  <2> HIDE DEF G
  <2> QED
    BY <1>4
<1>6. put[0] = <<>> /\ \A k \in 1 .. n : put[k] = Put(pos, put[k - 1], t[k])
  <2> HIDE DEF put, n
  <2> QED
    BY <1>2, <1>5
<1>7. Laid(pos, t) = put[n] \o Spaces(ToTextEnd(pos + Len(put[n])))
  BY Zenon DEF Laid
<1> QED
  <2> HIDE DEF put
  <2> QED
    BY <1>6, <1>7

-----------------------------------------------------------------------------
(* Scroll's Broken, position by position, and what it has in common with   *)
(* the characters that were written.                                       *)

\* Broken, unfolded.
LEMMA BrokenSteps ==
  ASSUME NEW A, Space \in A, NEW t \in Seq(A \cup {Newline})
  PROVE  \E typed : /\ typed[0] = [full |-> <<>>, open |-> <<>>]
                    /\ \A k \in 1 .. Len(t) : typed[k] = Lobby!Typed(typed[k - 1], t[k])
                    /\ Lobby!Broken(t) = typed[Len(t)]
<1> DEFINE n == Len(t)
           none == [full |-> <<>>, open |-> <<>>]
           S == [full : Seq([1 .. W -> A]), open : Seq(A)]
           step == [p \in (1 .. n) \X S |-> Lobby!Typed(p[2], t[p[1]])]
           G(f) == [k \in 0 .. n |-> IF k = 0 THEN none ELSE Lobby!Typed(f[k - 1], t[k])]
           typed == CHOOSE f : f = G(f)
<1>1. ASSUME NEW b \in S, NEW c \in A \cup {Newline}
      PROVE  Lobby!Typed(b, c) \in S
  <2>1. \A row \in Seq(A) : Lobby!Filled(row) \in [1 .. W -> A]
    BY DEF Lobby!Filled
  <2>2. b.full \in Seq([1 .. W -> A]) /\ b.open \in Seq(A)
      /\ c # Newline => Append(b.open, c) \in Seq(A)
    OBVIOUS
  <2>3. \A row \in Seq(A) : Append(b.full, Lobby!Filled(row)) \in Seq([1 .. W -> A])
    BY <2>1, <2>2
  <2> DEFINE row == IF c = Newline THEN b.open ELSE Append(b.open, c)
             done == c = Newline \/ Len(row) = W
  <2>4. row \in Seq(A) /\ <<>> \in Seq(A)
    BY <2>2
  <2>5. Lobby!Typed(b, c) = IF done THEN [full |-> Append(b.full, Lobby!Filled(row)), open |-> <<>>]
                                    ELSE [full |-> b.full, open |-> row]
    BY DEF Lobby!Typed
  <2> HIDE DEF row, done
  <2> QED
    BY <2>2, <2>3, <2>4, <2>5
<1>2. none \in S /\ n \in Nat
  OBVIOUS
<1>3. PICK f \in [0 .. n -> S] :
        f[0] = none /\ \A k \in 1 .. n : f[k] = step[<<k, f[k - 1]>>]
  <2>1. ASSUME NEW k \in 1 .. n, NEW x \in S
        PROVE  step[<<k, x>>] = Lobby!Typed(x, t[k]) /\ t[k] \in A \cup {Newline}
    <3> HIDE DEF S
    <3> QED
      OBVIOUS
  <2>2. \A k \in 1 .. n, x \in S : step[<<k, x>>] \in S
    <3> HIDE DEF step, S
    <3> QED
      BY <1>1, <2>1
  <2> HIDE DEF step, n, S, none
  <2>3. \E f : Follows(f, n, S, none, step)
    BY <1>2, <2>2, Recursion
  <2> QED
    BY <2>3 DEF Follows
<1> HIDE DEF S
<1>4. f = G(f)
  <2>1. ASSUME NEW k \in 1 .. n
        PROVE  f[k] = Lobby!Typed(f[k - 1], t[k])
    <3>1. k - 1 \in 0 .. n
      BY <1>2
    <3>2. f[k - 1] \in S
      BY <1>3, <3>1
    <3> QED
      BY <1>3, <3>2
  <2>2. \A k \in 0 .. n : f[k] = IF k = 0 THEN none ELSE Lobby!Typed(f[k - 1], t[k])
    <3> HIDE DEF n, none
    <3> QED
      BY <1>2, <1>3, <2>1
  <2> HIDE DEF step, n, none
  <2> QED
    BY <1>3, <2>2
<1>5. typed = G(typed)
  <2> HIDE DEF G
  <2> QED
    BY <1>4
<1>6. typed[0] = none /\ \A k \in 1 .. n : typed[k] = Lobby!Typed(typed[k - 1], t[k])
  <2> HIDE DEF typed, n, none
  <2> QED
    BY <1>2, <1>5
<1>7. Lobby!Broken(t) = typed[n]
  BY Zenon DEF Lobby!Broken
<1> QED
  <2> HIDE DEF typed
  <2> QED
    BY <1>6, <1>7

-----------------------------------------------------------------------------
\* What is laid and what is broken are the same rows.
SameText(d, b, A) ==
  /\ d \in Seq(A) /\ b.full \in Seq([1 .. W -> A]) /\ b.open \in Seq(A)
  /\ Len(b.open) < W
  /\ Len(d) = W * Len(b.full) + Len(b.open)
  /\ \A r \in 1 .. Len(b.full), j \in 1 .. W : d[W * (r - 1) + j] = b.full[r][j]
  /\ \A j \in 1 .. Len(b.open) : d[W * Len(b.full) + j] = b.open[j]

\* The place of a character in the rth of L rows is among the characters of these.
LEMMA Cell ==
  ASSUME NEW L \in Nat, NEW r \in 1 .. L, NEW j \in 1 .. W
  PROVE  W * (r - 1) + j \in 1 .. W * L
<1>1. W \in Nat \ {0}
  BY BoxAssumption
<1>2. PICK k \in Nat : L = r + k
  <2>1. L - r \in Nat /\ L = r + (L - r)
    OBVIOUS
  <2> QED
    BY <2>1
<1>3. W * L = W * (r - 1) + W + W * k /\ W * k \in Nat /\ W * (r - 1) \in Nat
  BY <1>1, <1>2
<1> QED
  BY <1>1, <1>3

\* What a newline writes in a row of which o characters are written.
LEMMA LineEnd ==
  ASSUME NEW q \in Nat, NEW o \in 0 .. W - 1
  PROVE  ToLineEnd(W * q + o) = W - o
<1>1. W \in Nat \ {0}
  BY BoxAssumption
<1>2. W * q + o + W = W * (q + 1) + o /\ q + 1 \in Nat
  BY <1>1
<1>3. (W * q + o + W) \div W = q + 1
  BY <1>1, <1>2, Quotient
<1>4. (q + 1) * W = W * q + W
  BY <1>1
<1> QED
  BY <1>1, <1>3, <1>4 DEF ToLineEnd

\* A row is completed.
LEMMA RowDone ==
  ASSUME NEW A, NEW d, NEW b, SameText(d, b, A), NEW e \in Seq(A), NEW row \in [1 .. W -> A],
         Len(e) = W * (Len(b.full) + 1),
         \A i \in 1 .. W * Len(b.full) : e[i] = d[i],
         \A j \in 1 .. W : e[W * Len(b.full) + j] = row[j]
  PROVE  SameText(e, [full |-> Append(b.full, row), open |-> <<>>], A)
<1> DEFINE L == Len(b.full)
           full == Append(b.full, row)
<1>1. W \in Nat \ {0} /\ L \in Nat /\ b.full \in Seq([1 .. W -> A])
  BY BoxAssumption DEF SameText
<1>2. /\ full \in Seq([1 .. W -> A]) /\ Len(full) = L + 1
      /\ full[L + 1] = row /\ \A r \in 1 .. L : full[r] = b.full[r]
  BY <1>1
<1>3. ASSUME NEW r \in 1 .. Len(full), NEW j \in 1 .. W
      PROVE  e[W * (r - 1) + j] = full[r][j]
  <2>1. CASE r = L + 1
    <3>1. r - 1 = L
      BY <1>1, <2>1
    <3> QED
      BY <1>2, <2>1, <3>1
  <2>2. CASE r # L + 1
    <3>1. r \in 1 .. L
      BY <1>1, <1>2, <2>2
    <3>2. W * (r - 1) + j \in 1 .. W * L
      BY <1>1, <3>1, Cell
    <3> QED
      BY <1>2, <3>1, <3>2 DEF SameText
  <2> QED
    BY <2>1, <2>2
<1>4. W * (L + 1) = W * Len(full) + 0
  BY <1>1, <1>2
<1> HIDE DEF full
<1>5. <<>> \in Seq(A) /\ Len(<<>>) = 0
  OBVIOUS
<1> DEFINE x == [full |-> full, open |-> <<>>]
<1>6. x.full = full /\ x.open = <<>>
  OBVIOUS
<1> HIDE DEF x
<1>7. Len(e) = W * Len(x.full) + Len(x.open) /\ Len(x.open) < W
  BY <1>1, <1>2, <1>4, <1>5, <1>6
<1>8. \A r \in 1 .. Len(x.full), j \in 1 .. W : e[W * (r - 1) + j] = x.full[r][j]
  BY <1>3, <1>6
<1>9. \A j \in 1 .. Len(x.open) : e[W * Len(x.full) + j] = x.open[j]
  BY <1>5, <1>6
<1>10. SameText(e, x, A)
  BY <1>2, <1>5, <1>6, <1>7, <1>8, <1>9 DEF SameText
<1> QED
  BY <1>10, Zenon DEF x, full

\* Blanks are a sequence.
LEMMA SpacesFacts ==
  ASSUME NEW A, Space \in A, NEW n \in Nat
  PROVE  Spaces(n) \in Seq(A) /\ Len(Spaces(n)) = n /\ \A i \in 1 .. n : Spaces(n)[i] = Space
<1>1. Spaces(n) \in [1 .. n -> A]
  BY DEF Spaces
<1>2. Spaces(n) \in Seq(A)
  BY <1>1
<1>3. DOMAIN Spaces(n) = 1 .. n
  BY DEF Spaces
<1> QED
  BY <1>2, <1>3, LenProperties DEF Spaces

\* So are joined sequences.
LEMMA Joined ==
  ASSUME NEW A, NEW d \in Seq(A), NEW s \in Seq(A)
  PROVE  /\ d \o s \in Seq(A) /\ Len(d \o s) = Len(d) + Len(s)
         /\ \A i \in 1 .. Len(d) : (d \o s)[i] = d[i]
         /\ \A i \in 1 .. Len(s) : (d \o s)[Len(d) + i] = s[i]
OBVIOUS

\* One character more.
LEMMA PutIsTyped ==
  ASSUME NEW A, Space \in A, NEW q \in Nat, NEW d, NEW b, SameText(d, b, A),
         NEW c \in A \cup {Newline}
  PROVE  SameText(Put(W * q, d, c), Lobby!Typed(b, c), A)
<1> DEFINE L == Len(b.full)
           o == Len(b.open)
           e == Put(W * q, d, c)
<1>1. /\ W \in Nat \ {0} /\ L \in Nat /\ o \in 0 .. W - 1
      /\ d \in Seq(A) /\ b.open \in Seq(A) /\ Len(d) = W * L + o
      /\ W * L \in Nat
  BY BoxAssumption DEF SameText
<1>2. \A i \in 1 .. o : d[W * L + i] = b.open[i]
  BY DEF SameText
<1>3. \A r \in Seq(A) : Lobby!Filled(r) \in [1 .. W -> A]
  BY DEF Lobby!Filled
<1> HIDE DEF L, o, e
<1>4. CASE c = Newline
  <2> DEFINE row == Lobby!Filled(b.open)
  <2>1. ToLineEnd(W * q + Len(d)) = W - o
    <3>1. W * q + Len(d) = W * (q + L) + o /\ q + L \in Nat
      BY <1>1
    <3> QED
      BY <1>1, <3>1, LineEnd
  <2>2. W - o \in Nat
    BY <1>1
  <2>3. e = d \o Spaces(W - o)
    BY <1>4, <2>1 DEF Put, e
  <2>4. /\ Spaces(W - o) \in Seq(A) /\ Len(Spaces(W - o)) = W - o
        /\ \A i \in 1 .. W - o : Spaces(W - o)[i] = Space
    BY <2>2, SpacesFacts
  <2>5. /\ e \in Seq(A) /\ Len(e) = Len(d) + (W - o)
        /\ \A i \in 1 .. Len(d) : e[i] = d[i]
        /\ \A i \in 1 .. W - o : e[Len(d) + i] = Space
    <3> DEFINE s == Spaces(W - o)
    <3>1. s \in Seq(A) /\ Len(s) = W - o /\ e = d \o s /\ \A i \in 1 .. W - o : s[i] = Space
      BY <2>3, <2>4
    <3> HIDE DEF s
    <3>2. e \in Seq(A) /\ Len(e) = Len(d) + Len(s)
      BY <1>1, <3>1, Joined
    <3>3. \A i \in 1 .. Len(d) : e[i] = d[i]
      BY <1>1, <3>1, Joined
    <3>4. \A i \in 1 .. W - o : e[Len(d) + i] = s[i]
      BY <1>1, <3>1, Joined
    <3> QED
      BY <3>1, <3>2, <3>3, <3>4
  <2>6. Len(e) = W * (L + 1)
    BY <1>1, <2>5
  <2>7. \A i \in 1 .. W * L : e[i] = d[i]
    BY <1>1, <2>5
  <2>8. ASSUME NEW j \in 1 .. W
        PROVE  e[W * L + j] = row[j]
    <3>1. CASE j <= o
      <4>1. row[j] = b.open[j] /\ W * L + j \in 1 .. Len(d) /\ j \in 1 .. o
        BY <1>1, <3>1 DEF Lobby!Filled, o
      <4> QED
        BY <1>2, <2>5, <4>1
    <3>2. CASE ~(j <= o)
      <4>0. row[j] = Space
        BY <1>1, <3>2 DEF Lobby!Filled, o
      <4>1. row[j] = Space /\ j - o \in 1 .. W - o /\ W * L + j = Len(d) + (j - o)
        BY <1>1, <3>2, <4>0
      <4> QED
        BY <2>5, <4>1
    <3> QED
      BY <3>1, <3>2
  <2>9. Lobby!Typed(b, c) = [full |-> Append(b.full, row), open |-> <<>>]
    BY <1>4 DEF Lobby!Typed
  <2>10. row \in [1 .. W -> A]
    BY <1>1, <1>3
  <2> HIDE DEF row
  <2>11. SameText(e, [full |-> Append(b.full, row), open |-> <<>>], A)
    BY <2>5, <2>6, <2>7, <2>8, <2>10, RowDone DEF L
  <2> QED
    BY <2>9, <2>11 DEF e
<1>5. CASE c # Newline
  <2>0. c \in A
    BY <1>5
  <2> DEFINE open == Append(b.open, c)
             row  == Lobby!Filled(open)
  <2>1. e = Append(d, c)
    BY <1>5 DEF Put, e
  <2>2. /\ e \in Seq(A) /\ Len(e) = W * L + o + 1
        /\ \A i \in 1 .. W * L + o : e[i] = d[i]
        /\ e[W * L + o + 1] = c
    BY <1>1, <2>0, <2>1
  <2>3. /\ open \in Seq(A) /\ Len(open) = o + 1
        /\ \A i \in 1 .. o : open[i] = b.open[i]
        /\ open[o + 1] = c
    BY <1>1, <2>0 DEF o
  <2>4. ASSUME NEW j \in 1 .. o + 1
        PROVE  e[W * L + j] = open[j]
    <3>1. CASE j = o + 1
      BY <1>1, <2>2, <2>3, <3>1
    <3>2. CASE j # o + 1
      <4>1. j \in 1 .. o /\ W * L + j \in 1 .. W * L + o
        BY <1>1, <3>2
      <4> QED
        BY <1>2, <2>2, <2>3, <4>1
    <3> QED
      BY <3>1, <3>2
  <2>5. \A i \in 1 .. W * L : e[i] = d[i]
    BY <1>1, <2>2
  <2>6. CASE o + 1 = W
    <3>1. Lobby!Typed(b, c) = [full |-> Append(b.full, row), open |-> <<>>]
      BY <1>5, <2>3, <2>6 DEF Lobby!Typed
    <3>2. row \in [1 .. W -> A] /\ \A j \in 1 .. W : row[j] = open[j]
      BY <1>3, <2>3, <2>6 DEF Lobby!Filled
    <3>3. \A j \in 1 .. W : e[W * L + j] = row[j]
      BY <2>4, <2>6, <3>2
    <3>4. Len(e) = W * (L + 1)
      BY <1>1, <2>2, <2>6
    <3> HIDE DEF row, open
    <3>5. SameText(e, [full |-> Append(b.full, row), open |-> <<>>], A)
      BY <2>2, <2>5, <3>2, <3>3, <3>4, RowDone DEF L
    <3> QED
      BY <3>1, <3>5 DEF e
  <2>7. CASE o + 1 # W
    <3> DEFINE x == [full |-> b.full, open |-> open]
    <3>1. Lobby!Typed(b, c) = x
      BY <1>5, <2>3, <2>7 DEF Lobby!Typed
    <3>2. x.full = b.full /\ x.open = open
      OBVIOUS
    <3> HIDE DEF x, open
    <3>3. Len(x.open) < W /\ Len(e) = W * Len(x.full) + Len(x.open)
      BY <1>1, <2>2, <2>3, <2>7, <3>2 DEF L
    <3>4. \A r \in 1 .. Len(x.full), j \in 1 .. W : e[W * (r - 1) + j] = x.full[r][j]
      <4> SUFFICES ASSUME NEW r \in 1 .. L, NEW j \in 1 .. W
                   PROVE  e[W * (r - 1) + j] = b.full[r][j]
        BY <3>2 DEF L
      <4>1. W * (r - 1) + j \in 1 .. W * L
        BY <1>1, Cell
      <4> QED
        BY <2>5, <4>1 DEF SameText, L
    <3>5. \A j \in 1 .. Len(x.open) : e[W * Len(x.full) + j] = x.open[j]
      BY <2>3, <2>4, <3>2 DEF L
    <3>6. b.full \in Seq([1 .. W -> A])
      BY DEF SameText
    <3>7. SameText(e, x, A)
      BY <2>2, <2>3, <3>2, <3>3, <3>4, <3>5, <3>6 DEF SameText
    <3> QED
      BY <3>1, <3>7 DEF e
  <2> QED
    BY <2>6, <2>7
<1> QED
  BY <1>4, <1>5

-----------------------------------------------------------------------------
(* The rows a text is written in are those it is broken into.              *)

\* The rows that written characters fill.
RowsIn(s) == [r \in 1 .. Len(s) \div W |-> [j \in 1 .. W |-> s[W * (r - 1) + j]]]

\* Text that ends with a complete row is the rows it was broken into.
LEMMA RowsAre ==
  ASSUME NEW A, NEW d, NEW b, SameText(d, b, A), b.open = <<>>
  PROVE  d \in Seq(A) /\ Len(d) = W * Len(b.full) /\ RowsIn(d) = b.full
<1> DEFINE full == b.full
           L == Len(full)
<1>1. /\ W \in Nat \ {0} /\ full \in Seq([1 .. W -> A]) /\ L \in Nat
      /\ \A r \in 1 .. L, j \in 1 .. W : d[W * (r - 1) + j] = full[r][j]
      /\ Len(d) = W * L + 0 /\ Len(d) = W * L /\ d \in Seq(A)
  BY BoxAssumption DEF SameText
<1>2. Len(d) \div W = L
  <2> HIDE DEF L
  <2>1. (W * L + 0) \div W = L
    BY <1>1, Quotient
  <2> QED
    BY <1>1, <2>1
<1> HIDE DEF full
<1>3. full = [r \in 1 .. L |-> [j \in 1 .. W |-> full[r][j]]]
  <2>1. full = [r \in 1 .. L |-> full[r]] /\ \A r \in 1 .. L : full[r] \in [1 .. W -> A]
    BY <1>1
  <2>2. \A r \in 1 .. L : full[r] = [j \in 1 .. W |-> full[r][j]]
    BY <2>1
  <2> QED
    BY <2>1, <2>2
<1>4. RowsIn(d) = [r \in 1 .. L |-> [j \in 1 .. W |-> full[r][j]]]
  <2>1. \A r \in 1 .. L : [j \in 1 .. W |-> d[W * (r - 1) + j]] = [j \in 1 .. W |-> full[r][j]]
    BY <1>1
  <2>2. RowsIn(d) = [r \in 1 .. L |-> [j \in 1 .. W |-> d[W * (r - 1) + j]]]
    BY <1>2 DEF RowsIn
  <2> HIDE DEF L
  <2> QED
    BY <2>1, <2>2
<1> QED
  BY <1>1, <1>3, <1>4 DEF full

\* Where a position lies, in rows and in the row.
LEMMA AtRowStart ==
  ASSUME NEW q \in Nat, NEW o \in 0 .. W - 1, (W * q + o) % Size = 0
  PROVE  o = 0
<1>1. W \in Nat \ {0} /\ H \in Nat \ {0} /\ Size = W * H /\ Size \in Nat \ {0}
  BY BoxAssumption DEF Size
<1>2. PICK m \in Nat, r \in 0 .. Size - 1 : W * q + o = Size * m + r
  <2>1. W * q + o \in Nat
    BY <1>1
  <2> QED
    BY <1>1, <2>1, Divide
<1>3. r = 0
  <2>1. (Size * m + r) % Size = r
    BY <1>1, Quotient
  <2> QED
    BY <1>2, <2>1, Zenon
<1>4. W * q + o = W * (H * m) + 0 /\ H * m \in Nat /\ 0 \in 0 .. W - 1
  <2>1. (W * H) * m = W * (H * m) /\ H * m \in Nat
    BY <1>1
  <2>2. W * q + o = (W * H) * m
    BY <1>1, <1>2, <1>3
  <2> QED
    BY <1>1, <2>1, <2>2
<1>5. (W * q + o) % W = o /\ (W * (H * m) + 0) % W = 0
  <2> DEFINE k == H * m
  <2>1. k \in Nat /\ 0 \in 0 .. W - 1
    BY <1>4
  <2> HIDE DEF k
  <2>2. (W * q + o) % W = o /\ (W * k + 0) % W = 0
    BY <1>1, <2>1, Quotient
  <2> QED
    BY <2>2 DEF k
<1> QED
  BY <1>4, <1>5

\* What a character writes are characters.
LEMMA PutStays ==
  ASSUME NEW A, Space \in A, NEW q \in Nat, NEW d \in Seq(A), NEW c \in A \cup {Newline}
  PROVE  Put(W * q, d, c) \in Seq(A)
<1>1. W \in Nat \ {0} /\ Len(d) \in Nat
  BY BoxAssumption
<1>2. PICK p \in Nat, o \in 0 .. W - 1 : Len(d) = W * p + o
  <2> DEFINE l == Len(d)
  <2>1. l \in Nat
    BY <1>1
  <2> HIDE DEF l
  <2>2. \E p \in Nat, o \in 0 .. W - 1 : l = W * p + o
    BY <1>1, <2>1, Divide
  <2> QED
    BY <2>2 DEF l
<1>3. W * q + Len(d) = W * (q + p) + o /\ q + p \in Nat
  BY <1>1, <1>2
<1>4. ToLineEnd(W * q + Len(d)) = W - o /\ W - o \in Nat
  <2>1. ToLineEnd(W * (q + p) + o) = W - o
    BY <1>3, LineEnd
  <2> QED
    BY <1>1, <1>3, <2>1
<1>5. Spaces(ToLineEnd(W * q + Len(d))) \in Seq(A)
  BY <1>4, SpacesFacts
<1>6. d \o Spaces(ToLineEnd(W * q + Len(d))) \in Seq(A)
  BY <1>5, Joined
<1>7. c # Newline => Append(d, c) \in Seq(A)
  OBVIOUS
<1> QED
  BY <1>6, <1>7 DEF Put

\* The rows a text is written in are those it is broken into.
LEMMA LaidRows ==
  ASSUME NEW A, Space \in A, NEW q \in Nat, NEW t \in Seq(A \cup {Newline})
  PROVE  /\ Laid(W * q, t) \in Seq(A)
         /\ \E c \in Nat : Len(Laid(W * q, t)) = W * c
         /\ \/ RowsIn(Laid(W * q, t))
                 = Append(Lobby!Broken(t).full, Lobby!Filled(Lobby!Broken(t).open))
            \/ /\ Lobby!Broken(t).open = <<>>
               /\ RowsIn(Laid(W * q, t)) = Lobby!Broken(t).full
<1> DEFINE n == Len(t)
           pos == W * q
<1>0. W \in Nat \ {0} /\ n \in Nat /\ pos \in Nat
  BY BoxAssumption
<1>1. PICK put : /\ put[0] = <<>>
                 /\ \A k \in 1 .. n : put[k] = Put(pos, put[k - 1], t[k])
                 /\ Laid(pos, t) = put[n] \o Spaces(ToTextEnd(pos + Len(put[n])))
  BY <1>0, PutStays, LaidSteps
<1>2. PICK typed : /\ typed[0] = [full |-> <<>>, open |-> <<>>]
                   /\ \A k \in 1 .. n : typed[k] = Lobby!Typed(typed[k - 1], t[k])
                   /\ Lobby!Broken(t) = typed[n]
  BY BrokenSteps
<1>3. SameText(put[n], typed[n], A)
  <2> DEFINE I == {k \in Nat : k <= n => SameText(put[k], typed[k], A)}
  <2>1. 0 \in I
    <3>1. SameText(<<>>, [full |-> <<>>, open |-> <<>>], A)
      BY <1>0 DEF SameText
    <3> QED
      BY <1>1, <1>2, <3>1
  <2>2. ASSUME NEW k \in Nat, k \in I
        PROVE  k + 1 \in I
    <3> SUFFICES ASSUME k + 1 <= n
                 PROVE  SameText(put[k + 1], typed[k + 1], A)
      OBVIOUS
    <3>1. SameText(put[k], typed[k], A)
      BY <1>0, <2>2
    <3>2. k + 1 \in 1 .. n /\ (k + 1) - 1 = k
      BY <1>0
    <3>3. put[k + 1] = Put(pos, put[k], t[k + 1])
      BY <1>1, <3>2
    <3>4. typed[k + 1] = Lobby!Typed(typed[k], t[k + 1])
      BY <1>2, <3>2
    <3>5. t[k + 1] \in A \cup {Newline}
      BY <3>2
    <3> QED
      BY <3>1, <3>3, <3>4, <3>5, PutIsTyped
  <2>3. Nat \subseteq I
    <3> HIDE DEF I
    <3> QED
      BY <2>1, <2>2, Induction
  <2> QED
    BY <1>0, <2>3
<1> DEFINE d == put[n]
           b == typed[n]
           L == Len(b.full)
           o == Len(b.open)
<1>4. /\ L \in Nat /\ o \in 0 .. W - 1 /\ d \in Seq(A) /\ b.open \in Seq(A)
      /\ Len(d) = W * L + o
  BY <1>0, <1>3 DEF SameText
<1> HIDE DEF d, b, L, o, n
<1>5. pos + Len(d) = W * (q + L) + o /\ q + L \in Nat
  BY <1>0, <1>4
<1>6. CASE (pos + Len(d)) % Size # 0
  <2>1. Laid(pos, t) = Put(pos, d, Newline)
    <3>1. ToTextEnd(pos + Len(d)) = ToLineEnd(pos + Len(d))
      BY <1>6 DEF ToTextEnd, ToLineEnd
    <3> QED
      BY <1>1, <3>1 DEF Put, d
  <2>2. SameText(Put(pos, d, Newline), Lobby!Typed(b, Newline), A)
    BY <1>3, PutIsTyped DEF d, b
  <2> DEFINE x == [full |-> Append(b.full, Lobby!Filled(b.open)), open |-> <<>>]
  <2>3. Lobby!Typed(b, Newline) = x
    BY DEF Lobby!Typed
  <2>4. x.open = <<>> /\ x.full = Append(b.full, Lobby!Filled(b.open))
    OBVIOUS
  <2> HIDE DEF x
  <2>5. SameText(Laid(pos, t), x, A)
    BY <2>1, <2>2, <2>3
  <2>6. Laid(pos, t) \in Seq(A) /\ Len(Laid(pos, t)) = W * Len(x.full) /\ RowsIn(Laid(pos, t)) = x.full
    BY <2>4, <2>5, RowsAre
  <2>7. Len(x.full) \in Nat
    BY <2>5 DEF SameText
  <2>8. Lobby!Broken(t) = b
    BY <1>2 DEF b
  <2> QED
    BY <2>4, <2>6, <2>7, <2>8
<1>7. CASE (pos + Len(d)) % Size = 0
  <2>1. o = 0
    BY <1>4, <1>5, <1>7, AtRowStart
  <2>2. b.open = <<>>
    BY <1>4, <2>1 DEF o
  <2>3. Laid(pos, t) = d
    <3>1. Spaces(ToTextEnd(pos + Len(d))) = <<>>
      BY <1>7 DEF ToTextEnd, Spaces
    <3>2. d \o <<>> = d
      BY <1>4
    <3> QED
      BY <1>1, <3>1, <3>2 DEF d
  <2>4. d \in Seq(A) /\ Len(d) = W * L /\ RowsIn(d) = b.full
    BY <1>3, <2>2, RowsAre DEF d, b, L
  <2>5. Lobby!Broken(t) = b
    BY <1>2 DEF b
  <2> QED
    BY <1>4, <2>2, <2>3, <2>4, <2>5
<1> QED
  BY <1>6, <1>7

-----------------------------------------------------------------------------
(* The ring: the rows it shows are the last ones that were written.        *)

\* The sizes of a box.
LEMMA Sizes == W \in Nat \ {0} /\ H \in Nat \ {0} /\ Size \in Nat \ {0} /\ Size = W * H
BY BoxAssumption DEF Size

\* What is in a cell that has been written to: the last character that was.
LEMMA CellWritten ==
  ASSUME NEW A, NEW s \in Seq(A), NEW sp \in Nat, NEW buffer, NEW p \in Nat,
         p < sp + Len(s), sp + Len(s) <= p + Size
  PROVE  Written(buffer, sp, s)[p % Size] = IF p < sp THEN buffer[p % Size] ELSE s[p - sp + 1]
<1> DEFINE i == p % Size
           at == {k \in DOMAIN s : (sp + k - 1) % Size = i}
<1>1. Size \in Nat \ {0} /\ DOMAIN s = 1 .. Len(s) /\ Len(s) \in Nat
  BY Sizes
<1>2. i \in Cells
  BY <1>1 DEF Cells
<1>3. Written(buffer, sp, s)[i]
        = IF at = {} THEN buffer[i] ELSE s[CHOOSE k \in at : \A j \in at : j <= k]
  BY <1>2 DEF Written
<1> HIDE DEF i
<1>4. ASSUME NEW k \in at
      PROVE  k \in 1 .. Len(s) /\ k <= p - sp + 1
  <2>1. k \in 1 .. Len(s) /\ (sp + k - 1) % Size = p % Size
    BY <1>1 DEF i
  <2>2. CASE p < sp + k - 1
    <3> DEFINE x == sp + k - 1
    <3>1. x \in Nat /\ x % Size = p % Size /\ p < x
      BY <1>1, <2>1, <2>2
    <3> HIDE DEF x
    <3>2. p + Size <= x
      BY <1>1, <3>1, SameCell
    <3> QED
      BY <1>1, <2>1, <3>2 DEF x
  <2> QED
    BY <1>1, <2>1, <2>2
<1>5. CASE p < sp
  <2>1. at = {}
    <3> HIDE DEF at
    <3> QED
      BY <1>1, <1>4, <1>5
  <2> QED
    BY <1>3, <1>5, <2>1 DEF i
<1>6. CASE ~(p < sp)
  <2> DEFINE k0 == p - sp + 1
  <2>1. k0 \in 1 .. Len(s) /\ sp + k0 - 1 = p
    BY <1>1, <1>6
  <2>2. k0 \in at
    BY <1>1, <2>1 DEF i
  <2>3. \A j \in at : j \in 1 .. Len(s) /\ j <= k0
    BY <1>4
  <2> HIDE DEF at, k0
  <2>4. \A k \in at : (\A j \in at : j <= k) => k = k0
    BY <1>1, <2>1, <2>2, <2>3
  <2>5. (CHOOSE k \in at : \A j \in at : j <= k) = k0
    BY <2>2, <2>3, <2>4
  <2> QED
    BY <1>3, <1>6, <2>2, <2>5 DEF i, k0
<1> QED
  BY <1>5, <1>6

\* The row that begins W * q characters after the first character of a box.
RowAt(buffer, q) == [j \in 1 .. W |-> buffer[(W * q + j - 1) % Size]]

Shown(a) == IF a < H THEN a ELSE H

\* The rows that were written are the last ones of all.
LEMMA RowsInRing ==
  ASSUME NEW b, NEW a \in Nat, b.sp = W * a
  PROVE  WrittenRows(b) = [r \in 1 .. Shown(a) |-> RowAt(b.buffer, a - Shown(a) + r - 1)]
<1> DEFINE m == Shown(a)
           D == Displayed(b)
<1>1. W \in Nat \ {0} /\ H \in Nat \ {0} /\ Size = W * H
  BY Sizes
<1>2. m \in 0 .. H
  BY <1>1 DEF Shown
<1>3. W * a < Size <=> a < H
  <2>1. a < H => W * a < W * H
    BY <1>1
  <2>2. H <= a => W * H <= W * a
    BY <1>1
  <2> QED
    BY <1>1, <2>1, <2>2
<1>4. (W * a) \div W = a
  <2>1. (W * a + 0) \div W = a
    BY <1>1, Quotient
  <2>2. W * a + 0 = W * a
    BY <1>1
  <2> QED
    BY <2>1, <2>2
<1>5. WrittenRows(b) = SubSeq(D, 1, m)
  BY <1>3, <1>4 DEF WrittenRows, Shown
<1>6. \A r \in 1 .. H :
        D[r] = [j \in 1 .. W |-> b.buffer[(FirstShown(b.sp) + (r - 1) * W + j - 1) % Size]]
  BY DEF Displayed
<1>7. SubSeq(D, 1, m) = [r \in 1 .. m |-> D[r]]
  BY <1>2
<1>8. ASSUME NEW r \in 1 .. m
      PROVE  D[r] = RowAt(b.buffer, a - m + r - 1)
  <2>1. r \in 1 .. H
    BY <1>1, <1>2
  <2>2. ASSUME NEW j \in 1 .. W
        PROVE  (FirstShown(b.sp) + (r - 1) * W + j - 1) % Size = (W * (a - m + r - 1) + j - 1) % Size
    <3>1. CASE a < H
      <4>1. FirstShown(b.sp) = 0 /\ a - m + r - 1 = r - 1
        BY <1>1, <1>3, <2>1, <3>1 DEF FirstShown, Shown
      <4>2. 0 + (r - 1) * W + j - 1 = W * (r - 1) + j - 1
        BY <1>1, <2>1
      <4> QED
        BY <4>1, <4>2
    <3>2. CASE ~(a < H)
      <4> DEFINE q == a - H + r - 1
                 x == W * q + j - 1
      <4>1. FirstShown(b.sp) = W * a /\ a - m + r - 1 = q /\ q \in Nat
        BY <1>1, <1>3, <2>1, <3>2 DEF FirstShown, Shown
      <4>2. W * a = W * (q - (r - 1)) + W * H
        BY <1>1, <2>1, <3>2
      <4>3. W * (q - (r - 1)) + (r - 1) * W = W * q
        BY <1>1, <2>1, <4>1
      <4>4. W * a + (r - 1) * W + j - 1 = x + Size /\ x \in Nat
        BY <1>1, <2>1, <4>1, <4>2, <4>3
      <4>5. (x + Size) % Size = x % Size
        <5> HIDE DEF x
        <5> QED
          BY <4>4, Sizes, OnceAround
      <4> QED
        BY <4>1, <4>4, <4>5
    <3> QED
      BY <3>1, <3>2
  <2> HIDE DEF m
  <2> QED
    BY <1>6, <2>1, <2>2 DEF RowAt
<1> HIDE DEF D, m
<1> QED
  BY <1>5, <1>7, <1>8, Zenon DEF m

\* The last rows of two sequences, one by one.
LEMMA LastJoined ==
  ASSUME NEW X, NEW x \in Seq(X), NEW y \in Seq(X),
         NEW n \in Nat, n = Shown(Len(x) + Len(y))
  PROVE  /\ Lobby!LastOf(x \o y) \in Seq(X) /\ Len(Lobby!LastOf(x \o y)) = n
         /\ \A r \in 1 .. n :
              Lobby!LastOf(x \o y)[r] = IF r + Len(x) + Len(y) - n <= Len(x)
                                        THEN x[r + Len(x) + Len(y) - n] ELSE y[r + Len(y) - n]
<1> DEFINE z == x \o y
           l == Len(x) + Len(y)
<1>1. H \in Nat \ {0} /\ Len(x) \in Nat /\ Len(y) \in Nat
  BY Sizes
<1>2. /\ z \in Seq(X) /\ Len(z) = l
      /\ \A k \in 1 .. l : z[k] = IF k <= Len(x) THEN x[k] ELSE y[k - Len(x)]
  OBVIOUS
<1> HIDE DEF z
<1>3. CASE l <= H
  <2>1. Lobby!LastOf(z) = z /\ n = l
    BY <1>1, <1>2, <1>3 DEF Lobby!LastOf, Shown
  <2>2. \A r \in 1 .. n : r + Len(x) + Len(y) - n = r /\ r + Len(y) - n = r - Len(x)
    BY <1>1, <2>1
  <2> QED
    BY <1>2, <2>1, <2>2 DEF z
<1>4. CASE ~(l <= H)
  <2>1. Lobby!LastOf(z) = SubSeq(z, l - H + 1, l) /\ n = H
    BY <1>1, <1>2, <1>4 DEF Lobby!LastOf, Shown
  <2>2. /\ SubSeq(z, l - H + 1, l) \in Seq(X)
        /\ Len(SubSeq(z, l - H + 1, l)) = H
        /\ \A r \in 1 .. H : SubSeq(z, l - H + 1, l)[r] = z[r + l - H]
    BY <1>1, <1>2, <1>4
  <2>3. \A r \in 1 .. H : r + l - H \in 1 .. l /\ r + Len(x) + Len(y) - H = r + l - H
                         /\ r + Len(y) - H = (r + l - H) - Len(x)
    BY <1>1, <1>4
  <2> QED
    BY <1>2, <2>1, <2>2, <2>3 DEF z
<1> QED
  BY <1>3, <1>4

\* A row after s has been written: one of s or one that was there.
LEMMA RowWritten ==
  ASSUME NEW A, NEW s \in Seq(A), NEW buffer, NEW a \in Nat, NEW c \in Nat, Len(s) = W * c,
         NEW q \in Nat, q < a + c, a + c <= q + H
  PROVE  RowAt(Written(buffer, W * a, s), q)
           = IF q < a THEN RowAt(buffer, q) ELSE RowsIn(s)[q - a + 1]
<1>1. W \in Nat \ {0} /\ H \in Nat \ {0} /\ Size = W * H /\ W * a \in Nat
  BY Sizes
<1>2. W * (q + 1) <= W * (a + c)
  BY <1>1
<1>3. W * (a + c) <= W * (q + H)
  BY <1>1
<1>4. Len(s) \div W = c
  <2>1. (W * c + 0) \div W = c
    BY <1>1, Quotient
  <2>2. W * c + 0 = W * c
    BY <1>1
  <2> QED
    BY <2>1, <2>2
<1>5. q < a => W * (q + 1) <= W * a
  BY <1>1
<1>6. a <= q => W * a <= W * q
  BY <1>1
<1>7. ASSUME NEW j \in 1 .. W
      PROVE  Written(buffer, W * a, s)[(W * q + j - 1) % Size]
               = IF q < a THEN buffer[(W * q + j - 1) % Size] ELSE s[W * (q - a) + j]
  <2> DEFINE p == W * q + j - 1
  <2>1. p \in Nat
    BY <1>1
  <2>2. p < W * a + Len(s) /\ W * a + Len(s) <= p + Size
    BY <1>1, <1>2, <1>3
  <2>3. Written(buffer, W * a, s)[p % Size]
          = IF p < W * a THEN buffer[p % Size] ELSE s[p - W * a + 1]
    <3> DEFINE sp == W * a
    <3>1. p < sp + Len(s) /\ sp + Len(s) <= p + Size /\ sp \in Nat
      BY <1>1, <2>2
    <3> HIDE DEF p, sp
    <3>2. Written(buffer, sp, s)[p % Size] = IF p < sp THEN buffer[p % Size] ELSE s[p - sp + 1]
      BY <2>1, <3>1, CellWritten
    <3> QED
      BY <3>2 DEF sp
  <2>4. p < W * a <=> q < a
    BY <1>1, <1>5, <1>6
  <2>5. p - W * a + 1 = W * (q - a) + j
    BY <1>1
  <2> QED
    BY <2>3, <2>4, <2>5
<1>8. CASE q < a
  BY <1>7, <1>8 DEF RowAt
<1>9. CASE ~(q < a)
  <2>1. q - a + 1 \in 1 .. c /\ (q - a + 1) - 1 = q - a
    BY <1>9
  <2>2. RowsIn(s)[q - a + 1] = [j \in 1 .. W |-> s[W * (q - a) + j]]
    BY <1>4, <2>1 DEF RowsIn
  <2>3. RowAt(Written(buffer, W * a, s), q) = [j \in 1 .. W |-> s[W * (q - a) + j]]
    BY <1>7, <1>9 DEF RowAt
  <2> QED
    BY <1>9, <2>2, <2>3
<1> QED
  BY <1>8, <1>9

\* x are the last of the first a rows of all, which all numbers from 0.
AreLast(x, a, all) ==
  Len(x) = Shown(a) /\ \A r \in 1 .. Shown(a) : x[r] = all[a - Shown(a) + r - 1]

\* After a rows old come those of g, as far as new can tell.
Continues(new, old, a, g) ==
  \A q \in Nat : q < a + Len(g) /\ a + Len(g) <= q + H
                  => /\ q < a => new[q] = old[q]
                     /\ ~(q < a) => new[q] = g[q - a + 1]

\* Where the last rows of two sequences come from.
LEMMA LastRows ==
  ASSUME NEW X, NEW x \in Seq(X), NEW g \in Seq(X), NEW m \in Nat, NEW c \in Nat, NEW n \in Nat,
         Len(x) = m, Len(g) = c, n = Shown(m + c), NEW r \in 1 .. n
  PROVE  /\ r + m + c - n <= m => Lobby!LastOf(x \o g)[r] = x[r + m + c - n]
         /\ ~(r + m + c - n <= m) => Lobby!LastOf(x \o g)[r] = g[r + c - n]
<1>1. n = Shown(Len(x) + Len(g))
  OBVIOUS
<1>2. \A k \in 1 .. n :
        Lobby!LastOf(x \o g)[k] = IF k + Len(x) + Len(g) - n <= Len(x)
                                  THEN x[k + Len(x) + Len(g) - n] ELSE g[k + Len(g) - n]
  BY <1>1, LastJoined
<1> QED
  BY <1>2

\* The rows that are visible then are the last of those that were and the new.
LEMMA Visible ==
  ASSUME NEW X, NEW x \in Seq(X), NEW y \in Seq(X), NEW g \in Seq(X), NEW a \in Nat,
         NEW old, NEW new, AreLast(x, a, old), AreLast(y, a + Len(g), new),
         Continues(new, old, a, g)
  PROVE  y = Lobby!LastOf(x \o g)
<1> DEFINE z == Lobby!LastOf(x \o g)
<1>0. PICK c \in Nat : c = Len(g)
  OBVIOUS
<1>1. PICK m \in Nat, n \in Nat :
        /\ m = Shown(a) /\ n = Shown(a + c) /\ n <= H /\ n <= a + c /\ m <= a
        /\ n = Shown(m + c) /\ n <= m + c
  BY Sizes DEF Shown
<1>2. Len(x) = m /\ Len(y) = n
  BY <1>0, <1>1 DEF AreLast
<1>3. /\ \A r \in 1 .. m : x[r] = old[a - m + r - 1]
      /\ \A r \in 1 .. n : y[r] = new[a + c - n + r - 1]
  BY <1>0, <1>1 DEF AreLast
<1>4. n = Shown(Len(x) + Len(g))
  BY <1>0, <1>1, <1>2
<1>5. z \in Seq(X) /\ Len(z) = n
  BY <1>4, LastJoined
<1>6. ASSUME NEW r \in 1 .. n
      PROVE  y[r] = z[r]
  <2> DEFINE q == a + c - n + r - 1
  <2>1. y[r] = new[q]
    BY <1>3
  <2>2. /\ r + m + c - n <= m => z[r] = x[r + m + c - n]
        /\ ~(r + m + c - n <= m) => z[r] = g[r + c - n]
    <3>1. Len(x) = m /\ Len(g) = c /\ n = Shown(m + c) /\ n <= m + c
      BY <1>0, <1>1, <1>2
    <3> QED
      BY <3>1, LastRows
  <2>3. H \in Nat /\ r \in Nat /\ 1 <= r /\ r <= n
    BY Sizes
  <2>4. q \in Nat /\ q < a + c /\ a + c <= q + H
    BY <1>1, <2>3
  <2>5. (q < a => new[q] = old[q]) /\ (~(q < a) => new[q] = g[q - a + 1])
    BY <1>0, <2>4 DEF Continues
  <2>6. CASE r + c - n <= 0
    <3>0. n <= m + c
      BY <1>1
    <3>1. q < a /\ r + m + c - n <= m /\ r + m + c - n \in 1 .. m
          /\ a - m + (r + m + c - n) - 1 = q
      BY <2>3, <2>6, <3>0
    <3>2. x[r + m + c - n] = old[q]
      BY <1>3, <3>1
    <3>3. new[q] = old[q] /\ z[r] = x[r + m + c - n]
      BY <2>2, <2>5, <3>1
    <3> HIDE DEF q, z
    <3> QED
      BY <2>1, <3>2, <3>3
  <2>7. CASE ~(r + c - n <= 0)
    <3>1. ~(q < a) /\ ~(r + m + c - n <= m) /\ q - a + 1 = r + c - n
      BY <2>3, <2>7
    <3>2. new[q] = g[q - a + 1] /\ z[r] = g[r + c - n]
      BY <2>2, <2>5, <3>1
    <3> HIDE DEF q, z
    <3> QED
      BY <2>1, <3>1, <3>2
  <2> QED
    BY <2>6, <2>7
<1> HIDE DEF z
<1> QED
  BY <1>2, <1>5, <1>6 DEF z

\* WrittenRows as the last of all rows.
LEMMA WrittenAreLast ==
  ASSUME NEW b, NEW a \in Nat, b.sp = W * a
  PROVE  LET all == [q \in Nat |-> RowAt(b.buffer, q)]
         IN  /\ WrittenRows(b) \in Seq({all[q] : q \in Nat})
             /\ AreLast(WrittenRows(b), a, all)
<1> DEFINE all == [q \in Nat |-> RowAt(b.buffer, q)]
           x   == WrittenRows(b)
           A   == {all[q] : q \in Nat}
<1>1. PICK m \in Nat : m = Shown(a) /\ m <= a
  BY Sizes DEF Shown
<1>2. x = [r \in 1 .. m |-> RowAt(b.buffer, a - m + r - 1)]
  BY <1>1, RowsInRing
<1>3. \A r \in 1 .. m : a - m + r - 1 \in Nat
  BY <1>1
<1>4. \A r \in 1 .. m : RowAt(b.buffer, a - m + r - 1) = all[a - m + r - 1]
  BY <1>3
<1>5. \A q \in Nat : all[q] \in A
  OBVIOUS
<1> HIDE DEF all, x, A
<1>6. x = [r \in 1 .. m |-> all[a - m + r - 1]]
  BY <1>2, <1>4
<1>7. x \in [1 .. m -> A]
  BY <1>3, <1>5, <1>6
<1>8. x \in Seq(A) /\ Len(x) = m
  BY <1>7
<1>9. AreLast(x, a, all)
  BY <1>1, <1>6, <1>8 DEF AreLast
<1> QED
  BY <1>8, <1>9 DEF all, x, A

\* Printing s shows its rows below the ones before it.
LEMMA RingScrolls ==
  ASSUME NEW A, NEW s \in Seq(A), NEW b, NEW a \in Nat, b.sp = W * a,
         NEW c \in Nat, Len(s) = W * c
  PROVE  WrittenRows([sp |-> b.sp + Len(s), buffer |-> Written(b.buffer, b.sp, s)])
           = Lobby!LastOf(WrittenRows(b) \o RowsIn(s))
<1> DEFINE e   == [sp |-> b.sp + Len(s), buffer |-> Written(b.buffer, b.sp, s)]
           x   == WrittenRows(b)
           y   == WrittenRows(e)
           g   == RowsIn(s)
           old == [q \in Nat |-> RowAt(b.buffer, q)]
           new == [q \in Nat |-> RowAt(e.buffer, q)]
           X   == {old[q] : q \in Nat} \cup {new[q] : q \in Nat} \cup {g[r] : r \in 1 .. c}
<1>1. W \in Nat \ {0} /\ H \in Nat \ {0}
  BY Sizes
<1>2. e.sp = W * (a + c) /\ e.buffer = Written(b.buffer, W * a, s) /\ a + c \in Nat
  BY <1>1
<1> HIDE DEF e
<1>3. g \in Seq({g[r] : r \in 1 .. c}) /\ Len(g) = c
  <2>1. Len(s) \div W = c
    <3>1. (W * c + 0) \div W = c
      BY <1>1, Quotient
    <3>2. W * c + 0 = W * c
      BY <1>1
    <3> QED
      BY <3>1, <3>2
  <2>2. g = [r \in 1 .. c |-> g[r]]
    BY <2>1 DEF RowsIn
  <2> HIDE DEF g
  <2> QED
    BY <2>2
<1>4. x \in Seq({old[q] : q \in Nat}) /\ AreLast(x, a, old)
  BY WrittenAreLast
<1>5. y \in Seq({new[q] : q \in Nat}) /\ AreLast(y, a + c, new)
  <2> DEFINE k == a + c
  <2>1. k \in Nat /\ e.sp = W * k
    BY <1>2
  <2> HIDE DEF k
  <2>2. y \in Seq({new[q] : q \in Nat}) /\ AreLast(y, k, new)
    BY <2>1, WrittenAreLast
  <2> QED
    BY <2>2 DEF k
<1>6. Continues(new, old, a, g)
  <2> SUFFICES ASSUME NEW q \in Nat, q < a + c, a + c <= q + H
               PROVE  /\ q < a => new[q] = old[q]
                      /\ ~(q < a) => new[q] = g[q - a + 1]
    BY <1>3 DEF Continues
  <2>1. RowAt(Written(b.buffer, W * a, s), q)
          = IF q < a THEN RowAt(b.buffer, q) ELSE RowsIn(s)[q - a + 1]
    BY RowWritten
  <2> QED
    BY <1>2, <2>1
<1> HIDE DEF x, y, g, old, new
<1>7. x \in Seq(X) /\ y \in Seq(X) /\ g \in Seq(X)
  BY <1>3, <1>4, <1>5
<1> HIDE DEF X
<1>8. y = Lobby!LastOf(x \o g)
  <2>1. AreLast(x, a, old) /\ AreLast(y, a + Len(g), new) /\ Continues(new, old, a, g)
    BY <1>3, <1>4, <1>5, <1>6
  <2> QED
    BY <1>7, <2>1, Visible
<1> QED
  BY <1>8 DEF e, x, y, g

-----------------------------------------------------------------------------
(* Types, and what printing does to a box.                                 *)

\* Of the numbers up to N that a set has, one is the greatest.
LEMMA Greatest ==
  ASSUME NEW N \in Nat, NEW S, S \subseteq 1 .. N, S # {}
  PROVE  \E k \in S : \A j \in S : j <= k
<1> DEFINE I == {n \in Nat : \A T \in SUBSET (1 .. n) : T # {} => \E k \in T : \A j \in T : j <= k}
<1>1. 0 \in I
  <2>1. 1 .. 0 = {}
    OBVIOUS
  <2> QED
    BY <2>1
<1>2. ASSUME NEW n \in Nat, n \in I
      PROVE  n + 1 \in I
  <2> SUFFICES ASSUME NEW T \in SUBSET (1 .. n + 1), T # {}
               PROVE  \E k \in T : \A j \in T : j <= k
    OBVIOUS
  <2>1. CASE n + 1 \in T
    BY <2>1
  <2>2. CASE n + 1 \notin T
    <3>1. T \in SUBSET (1 .. n)
      BY <2>2
    <3> QED
      BY <1>2, <3>1
  <2> QED
    BY <2>1, <2>2
<1>3. N \in I
  <2> HIDE DEF I
  <2> QED
    BY <1>1, <1>2, Induction
<1> QED
  BY <1>3

\* Writing keeps the type of a buffer.
LEMMA WrittenIsTyped ==
  ASSUME NEW A, NEW buffer \in [Cells -> A], NEW pos \in Nat, NEW s \in Seq(A)
  PROVE  Written(buffer, pos, s) \in [Cells -> A]
<1> SUFFICES ASSUME NEW i \in Cells
             PROVE  Written(buffer, pos, s)[i] \in A
  BY DEF Written
<1> DEFINE at == {k \in DOMAIN s : (pos + k - 1) % Size = i}
<1>1. Written(buffer, pos, s)[i]
        = IF at = {} THEN buffer[i] ELSE s[CHOOSE k \in at : \A j \in at : j <= k]
  BY DEF Written
<1>2. at \subseteq 1 .. Len(s) /\ Len(s) \in Nat
  OBVIOUS
<1> HIDE DEF at
<1>3. CASE at = {}
  BY <1>1, <1>3
<1>4. CASE at # {}
  <2>1. \E k \in at : \A j \in at : j <= k
    BY <1>2, <1>4, Greatest
  <2>2. (CHOOSE k \in at : \A j \in at : j <= k) \in at
    BY <2>1
  <2> DEFINE k == CHOOSE k \in at : \A j \in at : j <= k
  <2>3. k \in 1 .. Len(s)
    BY <1>2, <2>2
  <2> HIDE DEF k
  <2>4. s[k] \in A
    BY <2>3
  <2> QED
    BY <1>1, <1>4, <2>4 DEF k
<1> QED
  BY <1>3, <1>4

\* What a box shows is H rows of W characters.
LEMMA DisplayedIsTyped ==
  ASSUME NEW b, b.sp \in Nat, b.buffer \in Buffers
  PROVE  Displayed(b) \in [1 .. H -> Rows]
<1> DEFINE cell(r, j) == (FirstShown(b.sp) + (r - 1) * W + j - 1) % Size
<1> SUFFICES ASSUME NEW r \in 1 .. H, NEW j \in 1 .. W
             PROVE  b.buffer[cell(r, j)] \in Characters
  <2>1. Displayed(b) = [r \in 1 .. H |-> [j \in 1 .. W |-> b.buffer[cell(r, j)]]]
    BY DEF Displayed
  <2> HIDE DEF cell
  <2>2. \A r \in 1 .. H : (\A j \in 1 .. W : b.buffer[cell(r, j)] \in Characters)
                          => [j \in 1 .. W |-> b.buffer[cell(r, j)]] \in Rows
    BY DEF Rows
  <2> QED
    BY <2>1, <2>2
<1>1. W \in Nat \ {0} /\ H \in Nat \ {0} /\ Size \in Nat \ {0}
  BY Sizes
<1>2. FirstShown(b.sp) \in Nat
  BY <1>1 DEF FirstShown
<1>3. (r - 1) * W \in Nat
  BY <1>1
<1>4. PICK x \in Nat : x = FirstShown(b.sp) + (r - 1) * W + j - 1
  BY <1>2, <1>3
<1>5. x % Size \in Cells
  BY <1>1 DEF Cells
<1> QED
  BY <1>4, <1>5 DEF Buffers

\* What can be printed.
Printable == Seq(Characters \cup {Newline})

\* All texts are printable.
LEMMA TextsArePrintable == \A t \in Texts \cup {<<>>} : t \in Printable
<1>1. <<>> \in Printable
  BY DEF Printable
<1>2. ASSUME NEW t \in Texts
      PROVE  t \in Printable
  <2>1. t \in Seq(Range(t))
    BY BoxAssumption
  <2>2. Range(t) \subseteq Characters \cup {Newline}
    BY DEF Characters
  <2> QED
    BY <2>1, <2>2 DEF Printable
<1> QED
  BY <1>1, <1>2

\* A box whose next character begins a row, as every box is between handlers.
Sound(b) == b = [sp |-> b.sp, buffer |-> b.buffer]
            /\ b.sp \in Nat /\ b.sp % W = 0 /\ b.buffer \in Buffers

\* The rows written to it so far.
LEMMA RowsBefore ==
  ASSUME NEW b, Sound(b)
  PROVE  \E a \in Nat : b.sp = W * a
<1>1. W \in Nat \ {0} /\ b.sp \in Nat /\ b.sp % W = 0
  BY Sizes DEF Sound
<1>2. PICK a \in Nat, r \in 0 .. W - 1 : b.sp = W * a + r
  BY <1>1, Divide
<1>3. (W * a + r) % W = r
  BY <1>1, Quotient
<1>4. r = 0
  BY <1>1, <1>2, <1>3
<1>5. W * a + 0 = W * a
  BY <1>1
<1> QED
  BY <1>2, <1>4, <1>5

\* What printing does to the visible rows, as Scroll says it.
Printed(old, new, t) ==
  \/ new = Lobby!LastOf(old \o Append(Lobby!Broken(t).full, Lobby!Filled(Lobby!Broken(t).open)))
  \/ /\ Lobby!Broken(t).open = <<>>
     /\ new = Lobby!LastOf(old \o Lobby!Broken(t).full)

\* Printing leaves a box at the beginning of a row and scrolls it by the text.
LEMMA Printing ==
  ASSUME NEW b, Sound(b), NEW t \in Printable
  PROVE  /\ Sound(printed(b, t))
         /\ printed(b, t).sp = b.sp + Len(Laid(b.sp, t))
         /\ Printed(WrittenRows(b), WrittenRows(printed(b, t)), t)
<1>0. W \in Nat \ {0}
  BY Sizes
<1>1. PICK a \in Nat : b.sp = W * a
  BY RowsBefore
<1>2. Space \in Characters /\ t \in Seq(Characters \cup {Newline})
  BY DEF Characters, Printable
<1>3. /\ Laid(W * a, t) \in Seq(Characters)
      /\ \E c \in Nat : Len(Laid(W * a, t)) = W * c
      /\ \/ RowsIn(Laid(W * a, t))
              = Append(Lobby!Broken(t).full, Lobby!Filled(Lobby!Broken(t).open))
         \/ /\ Lobby!Broken(t).open = <<>>
            /\ RowsIn(Laid(W * a, t)) = Lobby!Broken(t).full
  BY <1>2, LaidRows
<1> DEFINE s == Laid(b.sp, t)
<1>4. s \in Seq(Characters)
  BY <1>1, <1>3
<1>5. PICK c \in Nat : Len(s) = W * c
  BY <1>1, <1>3
<1>6. printed(b, t) = [sp |-> b.sp + Len(s), buffer |-> Written(b.buffer, b.sp, s)]
  BY DEF printed
<1>7. \/ RowsIn(s) = Append(Lobby!Broken(t).full, Lobby!Filled(Lobby!Broken(t).open))
      \/ /\ Lobby!Broken(t).open = <<>>
         /\ RowsIn(s) = Lobby!Broken(t).full
  BY <1>1, <1>3
<1> HIDE DEF s
<1>8. WrittenRows(printed(b, t)) = Lobby!LastOf(WrittenRows(b) \o RowsIn(s))
  <2>1. WrittenRows([sp |-> b.sp + Len(s), buffer |-> Written(b.buffer, b.sp, s)])
          = Lobby!LastOf(WrittenRows(b) \o RowsIn(s))
    BY <1>1, <1>4, <1>5, RingScrolls
  <2> QED
    BY <1>6, <2>1
<1>9. Printed(WrittenRows(b), WrittenRows(printed(b, t)), t)
  BY <1>7, <1>8, Zenon DEF Printed
<1>10. Written(b.buffer, b.sp, s) \in Buffers
  <2>1. b.buffer \in [Cells -> Characters] /\ b.sp \in Nat
    BY DEF Sound, Buffers
  <2> QED
    BY <1>4, <2>1, WrittenIsTyped DEF Buffers
<1>11. b.sp + Len(s) \in Nat /\ (b.sp + Len(s)) % W = 0
  <2>1. PICK k \in Nat : k = a + c
    OBVIOUS
  <2>2. b.sp + Len(s) = W * k + 0 /\ W * k + 0 \in Nat
    BY <1>0, <1>1, <1>5, <2>1
  <2>3. (W * k + 0) % W = 0
    BY <1>0, Quotient
  <2> QED
    BY <2>2, <2>3
<1>12. Sound(printed(b, t))
  BY <1>6, <1>10, <1>11 DEF Sound
<1>13. printed(b, t).sp = b.sp + Len(Laid(b.sp, t))
  BY <1>6 DEF s
<1> QED
  BY <1>9, <1>12, <1>13

-----------------------------------------------------------------------------
(* The steps, and the theorems.                                            *)

\* A box nothing was written to has no rows.
LEMMA NoRows ==
  ASSUME NEW b, b.sp = 0
  PROVE  WrittenRows(b) = <<>>
<1>1. W \in Nat \ {0} /\ H \in Nat \ {0} /\ 0 = W * 0 /\ 0 \in Nat
  BY Sizes
<1>2. WrittenRows(b) = [r \in 1 .. Shown(0) |-> RowAt(b.buffer, 0 - Shown(0) + r - 1)]
  BY <1>1, RowsInRing
<1>3. Shown(0) = 0
  BY <1>1 DEF Shown
<1> QED
  BY <1>2, <1>3

\* A cleared box has no rows.
LEMMA Clearing ==
  /\ Sound(printed(Cleared, <<>>))
  /\ printed(Cleared, <<>>).sp = 0
  /\ WrittenRows(printed(Cleared, <<>>)) = <<>>
<1> DEFINE e == printed(Cleared, <<>>)
<1>0. W \in Nat \ {0} /\ H \in Nat \ {0} /\ Size \in Nat \ {0}
  BY Sizes
<1>1. Sound(Cleared) /\ Cleared.sp = 0
  <2>1. [i \in Cells |-> Zero] \in Buffers
    BY DEF Buffers, Characters
  <2>2. 0 % W = 0
    BY <1>0
  <2> QED
    BY <2>1, <2>2 DEF Cleared, Sound
<1>2. <<>> \in Printable
  BY DEF Printable
<1>3. Sound(e) /\ e.sp = 0 + Len(Laid(0, <<>>))
  <2>1. Sound(e) /\ e.sp = Cleared.sp + Len(Laid(Cleared.sp, <<>>))
    BY <1>1, <1>2, Printing
  <2> QED
    BY <1>1, <2>1
<1>4. Laid(0, <<>>) = <<>>
  <2>1. PICK t \in Printable : t = <<>>
    BY <1>2
  <2>2. PICK pos \in Nat, q \in Nat : pos = 0 /\ pos = W * q
    BY <1>0
  <2>3. Space \in Characters /\ t \in Seq(Characters \cup {Newline})
    BY DEF Characters, Printable
  <2>4. PICK put : /\ put[0] = <<>>
                   /\ Laid(pos, t) = put[Len(t)] \o Spaces(ToTextEnd(pos + Len(put[Len(t)])))
    <3>1. \A d \in Seq(Characters), c \in Characters \cup {Newline} :
            Put(pos, d, c) \in Seq(Characters)
      BY <2>2, <2>3, PutStays
    <3> QED
      BY <2>3, <3>1, LaidSteps
  <2>5. Len(t) = 0 /\ Len(<<>>) = 0 /\ 0 + 0 = 0
    BY <2>1
  <2>6. Laid(0, <<>>) = <<>> \o Spaces(ToTextEnd(0))
    BY <2>1, <2>2, <2>4, <2>5
  <2>7. Spaces(ToTextEnd(0)) = <<>>
    BY <1>0 DEF Spaces, ToTextEnd
  <2> QED
    BY <2>6, <2>7
<1>5. e.sp = 0 /\ 0 = W * 0
  BY <1>0, <1>3, <1>4
<1> HIDE DEF e
<1>6. WrittenRows(e) = <<>>
  BY <1>5, NoRows
<1> QED
  BY <1>3, <1>5, <1>6 DEF e

\* The type says that every box is sound.
LEMMA BoxesAreSound ==
  ASSUME TypeOK, NEW b \in Boxes
  PROVE  Sound(box[b])
<1>1. box[b] \in [sp : 0 .. MaxPos, buffer : Buffers] /\ box[b].sp % W = 0
  BY DEF TypeOK
<1>2. MaxPos \in Nat
  BY BoxAssumption
<1> QED
  BY <1>1, <1>2 DEF Sound

\* What a step does to a box: nothing, one text, or clearing it.
Changed(b) ==
  \/ box'[b] = box[b]
  \/ \E t \in Texts \cup {<<>>} : box'[b] = printed(box[b], t)
  \/ box'[b] = printed(Cleared, <<>>)

\* Every step does one of these to each box,
LEMMA EveryChange ==
  ASSUME TypeOK, Next, NEW b \in Boxes
  PROVE  Changed(b)
<1>0. box \in [Boxes -> [sp : 0 .. MaxPos, buffer : Buffers]]
  BY DEF TypeOK
<1>1. CASE \E c \in Boxes, t \in Texts : printToBox(c, t)
  <2>1. PICK c \in Boxes, t \in Texts : box' = [box EXCEPT ![c] = printed(@, t)]
    BY <1>1 DEF printToBox
  <2> QED
    BY <1>0, <2>1 DEF Changed
<1>2. CASE clear_box_buffer("chat")
  <2>1. box'[b] = printed([box EXCEPT !["chat"] = Cleared][b], <<>>)
    BY <1>2 DEF clear_box_buffer, update_screen
  <2>2. [box EXCEPT !["chat"] = Cleared][b] \in {box[b], Cleared}
    BY <1>0
  <2> QED
    BY <2>1, <2>2 DEF Changed
<1>3. CASE print_help
  BY <1>3 DEF print_help, Changed
<1>4. CASE Enter
  BY <1>4 DEF Enter, update_screen, Changed
<1> QED
  BY <1>1, <1>2, <1>3, <1>4 DEF Next

\* and leaves it sound.
LEMMA BoxesStaySound ==
  ASSUME TypeOK, Next, NEW b \in Boxes
  PROVE  Sound(box'[b])
<1>1. Sound(box[b])
  BY BoxesAreSound
<1>2. ASSUME NEW t \in Texts \cup {<<>>}
      PROVE  Sound(printed(box[b], t))
  <2>1. t \in Printable
    BY TextsArePrintable
  <2> QED
    BY <1>1, <2>1, Printing
<1>3. Sound(printed(Cleared, <<>>))
  BY Clearing
<1>4. Changed(b)
  BY EveryChange
<1> QED
  BY <1>1, <1>2, <1>3, <1>4 DEF Changed

\* Where the steps draw, and that no box outgrows the bound.
LEMMA Drawing ==
  ASSUME TypeOK, Next
  PROVE  /\ box' \in [Boxes -> {box'[b] : b \in Boxes}]
         /\ \A b \in Boxes : box'[b].sp <= MaxPos
         /\ term' \in [Boxes -> {term'[b] : b \in Boxes}]
         /\ \A b \in Boxes : \/ term'[b] = Displayed(box'[b])
                             \/ term'[b] = term[b] /\ box'[b] = box[b] /\ ~help
                             \/ term'[b] = <<>> /\ help'
         /\ help' \in BOOLEAN
<1>0. /\ box \in [Boxes -> [sp : 0 .. MaxPos, buffer : Buffers]]
      /\ term \in [Boxes -> {<<>>} \cup [1 .. H -> Rows]]
      /\ help \in BOOLEAN /\ MaxPos \in Nat
  BY BoxAssumption DEF TypeOK
<1>1. CASE \E c \in Boxes, t \in Texts : printToBox(c, t)
  <2>1. PICK c \in Boxes, t \in Texts : printToBox(c, t)
    BY <1>1
  <2>2. box'[c].sp = box[c].sp + Len(Laid(box[c].sp, t))
    BY <1>0, <2>1 DEF printToBox, printed
  <2>3. box'[c].sp <= MaxPos
    BY <2>1, <2>2 DEF printToBox
  <2>4. /\ box' = [b \in Boxes |-> IF b = c THEN printed(box[b], t) ELSE box[b]]
        /\ term' = [b \in Boxes |-> IF b = c THEN Displayed(box'[c]) ELSE term[b]]
        /\ help' = help /\ ~help
    BY <1>0, <2>1 DEF printToBox
  <2>5. \A b \in Boxes : box[b].sp <= MaxPos
    <3>1. \A b \in Boxes : box[b] \in [sp : 0 .. MaxPos, buffer : Buffers]
      BY <1>0
    <3> QED
      BY <1>0, <3>1
  <2>6. \A b \in Boxes : b # c => box'[b] = box[b] /\ term'[b] = term[b]
    BY <2>4
  <2>7. term'[c] = Displayed(box'[c])
    BY <2>4
  <2> QED
    BY <1>0, <2>3, <2>4, <2>5, <2>6, <2>7
<1>2. ASSUME NEW boxes, update_screen(boxes), help' = FALSE
      PROVE  /\ box' \in [Boxes -> {box'[b] : b \in Boxes}]
             /\ \A b \in Boxes : box'[b].sp <= MaxPos
             /\ term' \in [Boxes -> {term'[b] : b \in Boxes}]
             /\ \A b \in Boxes : term'[b] = Displayed(box'[b])
             /\ help' \in BOOLEAN
  BY <1>2 DEF update_screen
<1>3. CASE clear_box_buffer("chat")
  BY <1>0, <1>2, <1>3 DEF clear_box_buffer
<1>4. CASE print_help
  <2>1. \A b \in Boxes : box[b].sp <= MaxPos
    <3>1. \A b \in Boxes : box[b] \in [sp : 0 .. MaxPos, buffer : Buffers]
      BY <1>0
    <3> QED
      BY <1>0, <3>1
  <2> QED
    BY <1>0, <1>4, <2>1 DEF print_help
<1>5. CASE Enter
  BY <1>0, <1>2, <1>5 DEF Enter
<1> QED
  BY <1>1, <1>3, <1>4, <1>5 DEF Next

\* The inductive invariant.
Shows == TypeOK /\ OnTerminal

\* It holds at first.
LEMMA AtFirst == Init => Shows
<1> SUFFICES ASSUME Init PROVE Shows
  OBVIOUS
<1>1. W \in Nat \ {0} /\ 0 % W = 0 /\ MaxPos \in Nat /\ 0 \in 0 .. MaxPos
  BY BoxAssumption
<1>2. [i \in Cells |-> Junk] \in Buffers
  BY DEF Buffers, Characters
<1>3. TypeOK
  BY <1>1, <1>2 DEF Init, print_grid, TypeOK
<1>4. OnTerminal
  BY DEF Init, print_grid, OnTerminal
<1> QED
  BY <1>3, <1>4 DEF Shows

\* It is kept.
LEMMA Always == Shows /\ [Next]_vars => Shows'
<1> SUFFICES ASSUME Shows, [Next]_vars
             PROVE  Shows'
  OBVIOUS
<1>1. CASE UNCHANGED vars
  <2>1. TypeOK'
    BY <1>1 DEF Shows, TypeOK, vars
  <2>2. OnTerminal'
    BY <1>1 DEF Shows, OnTerminal, vars
  <2> QED
    BY <2>1, <2>2 DEF Shows
<1>2. CASE Next
  <2>0. TypeOK /\ OnTerminal
    BY DEF Shows
  <2>1. \A b \in Boxes : Sound(box'[b])
    BY <1>2, <2>0, BoxesStaySound
  <2>2. /\ box' \in [Boxes -> {box'[b] : b \in Boxes}]
        /\ \A b \in Boxes : box'[b].sp <= MaxPos
        /\ term' \in [Boxes -> {term'[b] : b \in Boxes}]
        /\ \A b \in Boxes : \/ term'[b] = Displayed(box'[b])
                            \/ term'[b] = term[b] /\ box'[b] = box[b] /\ ~help
                            \/ term'[b] = <<>> /\ help'
        /\ help' \in BOOLEAN
    BY <1>2, <2>0, Drawing
  <2>3. box' \in [Boxes -> [sp : 0 .. MaxPos, buffer : Buffers]]
    <3>1. ASSUME NEW b \in Boxes
          PROVE  box'[b] \in [sp : 0 .. MaxPos, buffer : Buffers]
      <4>1. /\ box'[b] = [sp |-> box'[b].sp, buffer |-> box'[b].buffer]
            /\ box'[b].sp \in Nat /\ box'[b].buffer \in Buffers
        BY <2>1 DEF Sound
      <4>2. box'[b].sp \in 0 .. MaxPos
        BY <2>2, <4>1, BoxAssumption
      <4> QED
        BY <4>1, <4>2
    <3> QED
      BY <2>2, <3>1
  <2>4. term' \in [Boxes -> {<<>>} \cup [1 .. H -> Rows]]
    <3>1. ASSUME NEW b \in Boxes
          PROVE  term'[b] \in {<<>>} \cup [1 .. H -> Rows]
      <4>1. term[b] \in {<<>>} \cup [1 .. H -> Rows]
        BY <2>0 DEF TypeOK
      <4>2. Displayed(box'[b]) \in [1 .. H -> Rows]
        BY <2>1, DisplayedIsTyped DEF Sound
      <4> QED
        BY <2>2, <4>1, <4>2
    <3> QED
      BY <2>2, <3>1
  <2>5. \A b \in Boxes : box'[b].sp % W = 0
    BY <2>1 DEF Sound
  <2>6. TypeOK'
    BY <2>2, <2>3, <2>4, <2>5 DEF TypeOK
  <2>7. OnTerminal'
    <3> SUFFICES ASSUME ~help', NEW b \in Boxes
                 PROVE  term'[b] = Displayed(box'[b]) \/ (term'[b] = <<>> /\ box'[b].sp = 0)
      BY DEF OnTerminal
    <3> QED
      BY <2>0, <2>2 DEF OnTerminal
  <2> QED
    BY <2>6, <2>7 DEF Shows
<1> QED
  BY <1>1, <1>2

\* The boxes, and what the terminal shows of them, have their types: every box is
\* at the beginning of a row after every handler (print.c:44-68).
THEOREM TypeCorrect == Spec => []TypeOK
<1>1. Shows => TypeOK
  BY DEF Shows
<1> QED
  BY <1>1, AtFirst, Always, PTL DEF Spec

\* Unless the help page is shown, the terminal shows what the boxes hold, whatever
\* was printed, cleared and drawn again (print.c:70-96).
THEOREM OnTerminalHolds == Spec => []OnTerminal
<1>1. Shows => OnTerminal
  BY DEF Shows
<1> QED
  BY <1>1, AtFirst, Always, PTL DEF Spec

\* The two instances of Scroll differ only in the box they watch.
LEMMA OneScroll ==
  /\ \A o : ChatBox!Filled(o) = Lobby!Filled(o)
  /\ \A t : ChatBox!Broken(t) = Lobby!Broken(t)
  /\ \A s : ChatBox!LastOf(s) = Lobby!LastOf(s)
BY Zenon DEF ChatBox!Filled, Lobby!Filled, ChatBox!Typed, Lobby!Typed, ChatBox!Broken,
  Lobby!Broken, ChatBox!LastOf, Lobby!LastOf

\* What a change does to the rows.
LEMMA RowsChange ==
  ASSUME TypeOK, Next, NEW b \in Boxes
  PROVE  \/ WrittenRows(box'[b]) = WrittenRows(box[b])
         \/ WrittenRows(box'[b]) = <<>>
         \/ \E t \in Texts \cup {<<>>} : Printed(WrittenRows(box[b]), WrittenRows(box'[b]), t)
<1>1. Changed(b)
  BY EveryChange
<1>2. CASE box'[b] = box[b]
  BY <1>2
<1>3. CASE \E t \in Texts \cup {<<>>} : box'[b] = printed(box[b], t)
  <2>1. PICK t \in Texts \cup {<<>>} : box'[b] = printed(box[b], t)
    BY <1>3
  <2>2. Sound(box[b]) /\ t \in Printable
    BY BoxesAreSound, TextsArePrintable
  <2>3. Printed(WrittenRows(box[b]), WrittenRows(printed(box[b], t)), t)
    BY <2>2, Printing
  <2> QED
    BY <2>1, <2>3
<1>4. CASE box'[b] = printed(Cleared, <<>>)
  BY <1>4, Clearing
<1> QED
  BY <1>1, <1>2, <1>3, <1>4 DEF Changed

\* So the boxes have none when the client starts.
LEMMA NoRowsAtFirst ==
  ASSUME Init, NEW b \in Boxes
  PROVE  WrittenRows(box[b]) = <<>>
<1>1. box[b].sp = 0
  BY DEF Init
<1> QED
  BY <1>1, NoRows

\* Every step is one of Scroll or changes no row: for the lobby box,
LEMMA LobbyScrolls == TypeOK /\ [Next]_vars => [Lobby!Next]_(WrittenRows(box["lobby"]))
<1> SUFFICES ASSUME TypeOK, [Next]_vars
             PROVE  [Lobby!Next]_(WrittenRows(box["lobby"]))
  OBVIOUS
<1>1. "lobby" \in Boxes
  BY DEF Boxes
<1>2. CASE UNCHANGED vars
  BY <1>2 DEF vars
<1>3. CASE Next
  BY <1>1, <1>3, RowsChange DEF Printed, Lobby!Next, Lobby!Clear, Lobby!Scrolled
<1> QED
  BY <1>2, <1>3

\* and for the chat box.
LEMMA ChatScrolls == TypeOK /\ [Next]_vars => [ChatBox!Next]_(WrittenRows(box["chat"]))
<1> SUFFICES ASSUME TypeOK, [Next]_vars
             PROVE  [ChatBox!Next]_(WrittenRows(box["chat"]))
  OBVIOUS
<1>1. "chat" \in Boxes
  BY DEF Boxes
<1>2. CASE UNCHANGED vars
  BY <1>2 DEF vars
<1>3. CASE Next
  BY <1>1, <1>3, RowsChange, OneScroll DEF Printed, ChatBox!Next, ChatBox!Clear, ChatBox!Scrolled
<1> QED
  BY <1>2, <1>3

\* Both boxes are scrolling lists of rows: every text is printed whole, in order and
\* below the one before it, and only the topmost rows leave (print.c:44-96).
THEOREM ScrollIsImplemented == Spec => ImplementsScroll
<1>1. Init => Lobby!Init /\ ChatBox!Init
  BY NoRowsAtFirst DEF Lobby!Init, ChatBox!Init, Boxes
<1>2. Shows => TypeOK
  BY DEF Shows
<1> QED
  BY <1>1, <1>2, AtFirst, Always, LobbyScrolls, ChatScrolls, PTL
    DEF Spec, ImplementsScroll, Lobby!Spec, ChatBox!Spec
=============================================================================
