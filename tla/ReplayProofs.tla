---------------------------- MODULE ReplayProofs ----------------------------
(***************************************************************************)
(* The reader and the engine agree: whatever the engine writes replays to  *)
(* the job that wrote it, however long the trail, and a trail that was     *)
(* tampered with on the way does not.                                      *)
(*                                                                         *)
(* replay_job is a recursion over the trail, so its proofs are inductions. *)
(* They are carried by the least element of a set of numbers instead of by *)
(* an induction theorem: a recursion is well defined because no length is  *)
(* the first at which it is not.                                           *)
(***************************************************************************)
EXTENDS AuditTrail, TrailProofs, WellFoundedInduction, SequenceTheorems

-----------------------------------------------------------------------------
(* Induction over numbers.                                                 *)

\* A set of numbers that is not empty has a least element.
LEMMA LeastNumber ==
  ASSUME NEW T, T \subseteq Nat, T # {}
  PROVE  \E x \in T : \A y \in T : x <= y
<1> DEFINE R == {ss \in Nat \X Nat : ss[1] < ss[2]}
<1>1. IsWellFoundedOn(R, Nat)
  BY NatLessThanWellFounded DEF OpToRel
<1> HIDE DEF R
<1>2. PICK x \in T : \A y \in T : <<y, x>> \notin R
  BY <1>1, WFMin
<1>3. ASSUME NEW y \in T
      PROVE  x <= y
  <2>1. x \in Nat /\ y \in Nat
    OBVIOUS
  <2>2. ~(y < x)
    BY <1>2, <2>1 DEF R
  <2>3. QED
    BY <2>1, <2>2
<1>4. QED
  BY <1>3

\* What holds at m, and at n + 1 whenever at n, holds from m on.
LEMMA Counting ==
  ASSUME NEW S, NEW m \in Nat, m \in S,
         \A n \in Nat : n >= m /\ n \in S => n + 1 \in S
  PROVE  \A n \in Nat : n >= m => n \in S
<1> DEFINE T == {n \in Nat : n >= m /\ n \notin S}
<1>1. SUFFICES ASSUME T # {} PROVE FALSE
  OBVIOUS
<1>2. PICK x \in T : \A y \in T : x <= y
  BY <1>1, LeastNumber
<1>3. x \in Nat /\ x > m
  OBVIOUS
<1>4. x - 1 \in Nat /\ x - 1 >= m /\ ~(x <= x - 1)
  BY <1>3
<1>5. x - 1 \in S
  BY <1>2, <1>4
<1>6. x \in S
  BY <1>3, <1>4, <1>5
<1>7. QED
  BY <1>6

-----------------------------------------------------------------------------
(* The loop is well defined.                                               *)

\* The turns of the loop, as what a function over 1 .. m has to satisfy.
Turns(r, trail, m) ==
  r = [n \in 1 .. m |-> IF n = 1 THEN started(trail[1]) ELSE read_on(r[n - 1], trail[n])]

\* One more turn.
LEMMA OneMoreTurn ==
  ASSUME NEW trail, NEW m \in Nat, NEW r, Turns(r, trail, m)
  PROVE  \E s : Turns(s, trail, m + 1)
<1> DEFINE body(f, n) == IF n = 1 THEN started(trail[1]) ELSE read_on(f[n - 1], trail[n])
           s == [n \in 1 .. m + 1 |-> IF n = m + 1 THEN body(r, n) ELSE r[n]]
<1>1. r = [n \in 1 .. m |-> body(r, n)]
  BY DEF Turns
<1>2. \A n \in 1 .. m : s[n] = r[n] /\ r[n] = body(r, n)
  <2>1. \A n \in 1 .. m : n \in 1 .. m + 1 /\ n # m + 1
    OBVIOUS
  <2>2. QED
    BY <1>1, <2>1
<1>3. ASSUME NEW n \in 1 .. m + 1
      PROVE  s[n] = body(s, n)
  <2>1. s[n] = body(r, n)
    <3> HIDE DEF body
    <3>1. CASE n = m + 1
      BY <3>1
    <3>2. CASE n # m + 1
      <4>1. n \in 1 .. m
        BY <3>2
      <4>2. QED BY <1>2, <4>1
    <3>3. QED BY <3>1, <3>2
  <2>2. n # 1 => n - 1 \in 1 .. m
    OBVIOUS
  <2>3. n # 1 => s[n - 1] = r[n - 1]
    BY <1>2, <2>2
  <2> HIDE DEF s
  <2>4. QED
    BY <2>1, <2>3
<1>4. s = [n \in 1 .. m + 1 |-> body(s, n)]
  <2>1. s = [n \in 1 .. m + 1 |-> s[n]]
    OBVIOUS
  <2> HIDE DEF s
  <2>2. QED
    BY <1>3, <2>1
<1>5. QED
  BY <1>4 DEF Turns

\* A trail is read to its end, whatever its length.
LEMMA TurnsExist ==
  ASSUME NEW trail, NEW m \in Nat
  PROVE  \E r : Turns(r, trail, m)
<1> DEFINE S == {n \in Nat : \E r : Turns(r, trail, n)}
<1>1. 0 \in S
  <2> DEFINE r == [n \in 1 .. 0 |-> 0]
  <2>1. Turns(r, trail, 0)
    <3>1. 1 .. 0 = {}
      OBVIOUS
    <3>2. QED BY <3>1 DEF Turns
  <2>2. QED
    BY <2>1
<1>2. \A n \in Nat : n >= 0 /\ n \in S => n + 1 \in S
  BY OneMoreTurn
<1> HIDE DEF S
<1>3. m \in S
  BY <1>1, <1>2, Counting
<1>4. QED
  BY <1>3 DEF S

\* What readings() returns is what the turns compute.
LEMMA ReadingsTurn ==
  ASSUME NEW trail, Len(trail) \in Nat
  PROVE  Turns(readings(trail), trail, Len(trail))
<1> DEFINE m == Len(trail)
           body(r, n) == IF n = 1 THEN started(trail[1]) ELSE read_on(r[n - 1], trail[n])
<1>1. \E r : r = [n \in 1 .. m |-> body(r, n)]
  BY TurnsExist DEF Turns
<1>2. readings(trail) = CHOOSE r : r = [n \in 1 .. m |-> body(r, n)]
  BY DEF readings
<1>3. readings(trail) = [n \in 1 .. m |-> body(readings(trail), n)]
  BY <1>1, <1>2
<1>4. QED
  BY <1>3 DEF Turns

\* The first record starts a reading and each of the others is read on from it.
LEMMA ReadingByReading ==
  ASSUME NEW trail, Len(trail) \in Nat
  PROVE  /\ Len(trail) >= 1 => readings(trail)[1] = started(trail[1])
         /\ \A n \in 2 .. Len(trail) :
              readings(trail)[n] = read_on(readings(trail)[n - 1], trail[n])
<1>1. Turns(readings(trail), trail, Len(trail))
  BY ReadingsTurn
<1> DEFINE r == readings(trail)
<1> HIDE DEF r
<1>2. \A n \in 1 .. Len(trail) :
        r[n] = IF n = 1 THEN started(trail[1]) ELSE read_on(r[n - 1], trail[n])
  BY <1>1 DEF Turns, r
<1>3. \A n \in 2 .. Len(trail) : n \in 1 .. Len(trail) /\ n # 1
  OBVIOUS
<1>4. QED
  BY <1>2, <1>3 DEF r

\* Where two trails are the same so far, so is what is known of them.
LEMMA SameSoFar ==
  ASSUME NEW s, NEW t, Len(s) \in Nat, Len(t) \in Nat,
         NEW m \in Nat, m <= Len(s), m <= Len(t),
         \A n \in 1 .. m : s[n] = t[n]
  PROVE  \A n \in 1 .. m : readings(s)[n] = readings(t)[n]
<1> DEFINE S == {n \in Nat : n <= m => readings(s)[n] = readings(t)[n]}
<1>1. 1 \in S
  BY ReadingByReading
<1>2. ASSUME NEW n \in Nat, n >= 1, n \in S
      PROVE  n + 1 \in S
  <2> SUFFICES ASSUME n + 1 <= m
               PROVE  readings(s)[n + 1] = readings(t)[n + 1]
    OBVIOUS
  <2>1. n + 1 \in 2 .. Len(s) /\ n + 1 \in 2 .. Len(t) /\ n + 1 \in 1 .. m
        /\ (n + 1) - 1 = n /\ n <= m
    BY <1>2
  <2>2. readings(s)[n] = readings(t)[n] /\ s[n + 1] = t[n + 1]
    BY <1>2, <2>1
  <2>3. /\ readings(s)[n + 1] = read_on(readings(s)[n], s[n + 1])
        /\ readings(t)[n + 1] = read_on(readings(t)[n], t[n + 1])
    BY <2>1, ReadingByReading
  <2>4. QED
    BY <2>2, <2>3
<1> HIDE DEF S
<1>3. \A n \in Nat : n >= 1 => n \in S
  BY <1>1, <1>2, Counting
<1>4. QED
  BY <1>3 DEF S

-----------------------------------------------------------------------------
(* Picking records out of a sequence.                                      *)

\* The turns of kept(), up to the m-th record.
Picks(u, s, P, m) ==
  u = [n \in 0 .. m |-> IF n = 0 THEN <<>>
                        ELSE IF n \in P THEN Append(u[n - 1], s[n])
                        ELSE u[n - 1]]

\* A selection can go one record further.
LEMMA OneMorePick ==
  ASSUME NEW s, NEW P, NEW m \in Nat, NEW u, Picks(u, s, P, m)
  PROVE  \E v : Picks(v, s, P, m + 1)
<1> DEFINE body(f, n) == IF n = 0 THEN <<>>
                         ELSE IF n \in P THEN Append(f[n - 1], s[n])
                         ELSE f[n - 1]
           v == [n \in 0 .. m + 1 |-> IF n = m + 1 THEN body(u, n) ELSE u[n]]
<1>1. u = [n \in 0 .. m |-> body(u, n)]
  BY DEF Picks
<1>2. \A n \in 0 .. m : v[n] = u[n] /\ u[n] = body(u, n)
  <2>1. \A n \in 0 .. m : n \in 0 .. m + 1 /\ n # m + 1
    OBVIOUS
  <2>2. QED
    BY <1>1, <2>1
<1>3. ASSUME NEW n \in 0 .. m + 1
      PROVE  v[n] = body(v, n)
  <2>1. v[n] = body(u, n)
    <3> HIDE DEF body
    <3>1. CASE n = m + 1
      BY <3>1
    <3>2. CASE n # m + 1
      <4>1. n \in 0 .. m
        BY <3>2
      <4>2. QED BY <1>2, <4>1
    <3>3. QED BY <3>1, <3>2
  <2>2. n # 0 => n - 1 \in 0 .. m
    OBVIOUS
  <2>3. n # 0 => v[n - 1] = u[n - 1]
    BY <1>2, <2>2
  <2> HIDE DEF v
  <2>4. QED
    BY <2>1, <2>3
<1>4. v = [n \in 0 .. m + 1 |-> body(v, n)]
  <2>1. v = [n \in 0 .. m + 1 |-> v[n]]
    OBVIOUS
  <2> HIDE DEF v
  <2>2. QED
    BY <1>3, <2>1
<1>5. QED
  BY <1>4 DEF Picks

\* So there is a selection up to every record.
LEMMA PicksExist ==
  ASSUME NEW s, NEW P, NEW m \in Nat
  PROVE  \E u : Picks(u, s, P, m)
<1> DEFINE S == {n \in Nat : \E u : Picks(u, s, P, n)}
<1>1. 0 \in S
  <2> DEFINE u == [n \in 0 .. 0 |-> <<>>]
  <2>1. Picks(u, s, P, 0)
    <3>1. \A n \in 0 .. 0 : n = 0
      OBVIOUS
    <3>2. QED BY <3>1 DEF Picks
  <2>2. QED
    BY <2>1
<1>2. \A n \in Nat : n >= 0 /\ n \in S => n + 1 \in S
  BY OneMorePick
<1> HIDE DEF S
<1>3. m \in S
  BY <1>1, <1>2, Counting
<1>4. QED
  BY <1>3 DEF S

\* kept() is where its turns end.
LEMMA KeptPicks ==
  ASSUME NEW s, NEW P, Len(s) \in Nat
  PROVE  \E u : Picks(u, s, P, Len(s)) /\ kept(s, P) = u[Len(s)]
<1> DEFINE m == Len(s)
           body(f, n) == IF n = 0 THEN <<>>
                         ELSE IF n \in P THEN Append(f[n - 1], s[n])
                         ELSE f[n - 1]
           u == CHOOSE f : f = [n \in 0 .. m |-> body(f, n)]
<1>1. \E f : f = [n \in 0 .. m |-> body(f, n)]
  <2>1. PICK f : Picks(f, s, P, m)
    BY PicksExist
  <2>2. QED BY <2>1 DEF Picks
<1>2. kept(s, P) = u[m]
  BY DEF kept
<1>3. u = [n \in 0 .. m |-> body(u, n)]
  BY <1>1
<1> HIDE DEF u
<1>4. QED
  BY <1>2, <1>3 DEF Picks

\* Two sequences agree so far, and so does what is picked.
Alike(s, P, t, Q, m) == \A n \in 1 .. m : s[n] = t[n] /\ (n \in P <=> n \in Q)

\* The same records are picked out of two sequences that agree so far.
LEMMA SamePicks ==
  ASSUME NEW s, NEW t, NEW P, NEW Q, NEW m \in Nat, NEW l \in Nat, m <= l,
         NEW u, Picks(u, s, P, m), NEW v, Picks(v, t, Q, l),
         Alike(s, P, t, Q, m)
  PROVE  \A n \in 0 .. m : u[n] = v[n]
<1> DEFINE S == {n \in Nat : n <= m => u[n] = v[n]}
           body(f, r, R, n) == IF n = 0 THEN <<>>
                               ELSE IF n \in R THEN Append(f[n - 1], r[n])
                               ELSE f[n - 1]
<1>1. /\ \A n \in 0 .. m : u[n] = body(u, s, P, n)
      /\ \A n \in 0 .. l : v[n] = body(v, t, Q, n)
  <2>1. u = [n \in 0 .. m |-> body(u, s, P, n)]
    BY DEF Picks
  <2>2. v = [n \in 0 .. l |-> body(v, t, Q, n)]
    BY DEF Picks
  <2> HIDE DEF body
  <2>3. QED BY <2>1, <2>2
<1>2. 0 \in S
  <2>1. 0 \in 0 .. m /\ 0 \in 0 .. l
    OBVIOUS
  <2>2. QED BY <1>1, <2>1
<1>3. ASSUME NEW n \in Nat, n >= 0, n \in S
      PROVE  n + 1 \in S
  <2> SUFFICES ASSUME n + 1 <= m
               PROVE  u[n + 1] = v[n + 1]
    OBVIOUS
  <2>1. n + 1 \in 0 .. m /\ n + 1 \in 0 .. l /\ n + 1 \in 1 .. m
        /\ (n + 1) - 1 = n /\ n <= m /\ n + 1 # 0
    OBVIOUS
  <2>2. u[n] = v[n] /\ s[n + 1] = t[n + 1] /\ (n + 1 \in P <=> n + 1 \in Q)
    BY <1>3, <2>1 DEF Alike
  <2>3. u[n + 1] = body(u, s, P, n + 1) /\ v[n + 1] = body(v, t, Q, n + 1)
    <3> HIDE DEF body
    <3>1. QED BY <1>1, <2>1
  <2>4. QED
    BY <2>1, <2>2, <2>3
<1> HIDE DEF S
<1>4. \A n \in Nat : n >= 0 => n \in S
  BY <1>2, <1>3, Counting
<1>5. QED
  BY <1>4 DEF S

\* Nothing is picked out of nothing, and of a longer sequence what is picked out
\* of the shorter one and perhaps the last record.
LEMMA KeptOfNone ==
  ASSUME NEW P
  PROVE  kept(<<>>, P) = <<>>
<1>1. Len(<<>>) = 0
  OBVIOUS
<1>2. PICK u : Picks(u, <<>>, P, 0) /\ kept(<<>>, P) = u[0]
  BY <1>1, KeptPicks
<1>3. u[0] = <<>>
  BY <1>2 DEF Picks
<1>4. QED BY <1>2, <1>3

\* What is kept of a sequence that grew by one.
LEMMA KeptOfAppend ==
  ASSUME NEW S, NEW s \in Seq(S), NEW e \in S, NEW P, NEW Q,
         \A n \in 1 .. Len(s) : n \in P <=> n \in Q
  PROVE  kept(Append(s, e), Q) =
           IF Len(s) + 1 \in Q THEN Append(kept(s, P), e) ELSE kept(s, P)
<1> DEFINE t == Append(s, e)
           m == Len(s)
<1>1. /\ m \in Nat /\ Len(t) = m + 1 /\ t[m + 1] = e
      /\ \A n \in 1 .. m : t[n] = s[n]
  OBVIOUS
<1> HIDE DEF t, m
<1>2. PICK u : Picks(u, s, P, m) /\ kept(s, P) = u[m]
  BY <1>1, KeptPicks DEF m
<1>3. PICK v : Picks(v, t, Q, m + 1) /\ kept(t, Q) = v[m + 1]
  <2>1. Len(t) \in Nat
    BY <1>1
  <2>2. QED BY <1>1, <2>1, KeptPicks
<1>4. u[m] = v[m]
  <2>1. m \in Nat /\ m + 1 \in Nat /\ m <= m + 1 /\ m \in 0 .. m
    BY <1>1
  <2>2. Alike(s, P, t, Q, m)
    BY <1>1 DEF Alike, m
  <2>3. \A n \in 0 .. m : u[n] = v[n]
    BY <1>2, <1>3, <2>1, <2>2, SamePicks
  <2>4. QED BY <2>1, <2>3
<1>5. v[m + 1] = IF m + 1 \in Q THEN Append(v[m], t[m + 1]) ELSE v[m]
  <2>1. m + 1 \in 0 .. m + 1 /\ m + 1 # 0 /\ (m + 1) - 1 = m
    BY <1>1
  <2>2. QED BY <1>3, <2>1 DEF Picks
<1>6. QED
  BY <1>1, <1>2, <1>3, <1>4, <1>5 DEF t, m

\* Where every record is picked the sequence is what it was.
LEMMA KeptWhole ==
  ASSUME NEW S, NEW s \in Seq(S), NEW P, DOMAIN s \subseteq P
  PROVE  kept(s, P) = s
<1> DEFINE m == Len(s)
<1>1. m \in Nat /\ DOMAIN s = 1 .. m /\ \A n \in 1 .. m : s[n] \in S /\ n \in P
  OBVIOUS
<1> HIDE DEF m
<1>2. PICK u : Picks(u, s, P, m) /\ kept(s, P) = u[m]
  BY <1>1, KeptPicks DEF m
<1>3. u[0] = <<>> /\ \A n \in 1 .. m : u[n] = Append(u[n - 1], s[n])
  <2>1. 0 \in 0 .. m /\ \A n \in 1 .. m : n \in 0 .. m /\ n # 0 /\ n \in P
    BY <1>1
  <2>2. QED BY <1>2, <2>1 DEF Picks
<1> DEFINE upto(n) == u[n] \in Seq(S) /\ Len(u[n]) = n /\ \A i \in 1 .. n : u[n][i] = s[i]
           T == {n \in Nat : n <= m => upto(n)}
<1>4. 0 \in T
  <2>1. u[0] \in Seq(S) /\ Len(u[0]) = 0 /\ 1 .. 0 = {}
    BY <1>3
  <2>2. upto(0)
    BY <2>1
  <2>3. QED BY <2>2
<1>5. ASSUME NEW n \in Nat, n >= 0, n \in T
      PROVE  n + 1 \in T
  <2> SUFFICES ASSUME n + 1 <= m PROVE upto(n + 1)
    OBVIOUS
  <2>1. n + 1 \in 1 .. m /\ (n + 1) - 1 = n /\ n <= m
    BY <1>1
  <2>2. upto(n)
    BY <1>5, <2>1
  <2>3. u[n + 1] = Append(u[n], s[n + 1]) /\ s[n + 1] \in S
    BY <1>1, <1>3, <2>1
  <2>4. QED
    BY <2>2, <2>3
<1> HIDE DEF T, upto
<1>6. m \in T
  BY <1>1, <1>4, <1>5, Counting
<1>7. upto(m)
  BY <1>1, <1>6 DEF T
<1>8. u[m] \in Seq(S) /\ Len(u[m]) = Len(s) /\ \A i \in 1 .. Len(s) : u[m][i] = s[i]
  BY <1>7 DEF upto, m
<1>9. u[m] = s
  BY <1>8, SeqEqual
<1>10. QED
  BY <1>2, <1>9


-----------------------------------------------------------------------------
(* What is known at the end of a trail.                                    *)

end(trail) == readings(trail)[Len(trail)]

\* One record more is read on from there.
LEMMA EndOfAppend ==
  ASSUME NEW S, NEW s \in Seq(S), s # <<>>, NEW e \in S
  PROVE  end(Append(s, e)) = read_on(end(s), e)
<1> DEFINE t == Append(s, e)
           m == Len(s)
<1>1. /\ m \in Nat /\ m >= 1 /\ Len(t) = m + 1 /\ t[m + 1] = e
      /\ \A n \in 1 .. m : t[n] = s[n]
  OBVIOUS
<1> HIDE DEF t, m
<1>2. readings(t)[m] = readings(s)[m]
  <2>1. Len(s) \in Nat /\ Len(t) \in Nat /\ m <= Len(s) /\ m <= Len(t) /\ m \in 1 .. m
    BY <1>1 DEF m
  <2>2. \A n \in 1 .. m : s[n] = t[n]
    BY <1>1
  <2>3. \A n \in 1 .. m : readings(s)[n] = readings(t)[n]
    BY <1>1, <2>1, <2>2, SameSoFar
  <2>4. QED BY <2>1, <2>3
<1>3. readings(t)[m + 1] = read_on(readings(t)[m], t[m + 1])
  <2>1. Len(t) \in Nat /\ m + 1 \in 2 .. Len(t) /\ (m + 1) - 1 = m
    BY <1>1
  <2>2. QED BY <2>1, ReadingByReading
<1>4. QED
  BY <1>1, <1>2, <1>3 DEF end, t, m

\* What the first record tells.
LEMMA EndOfOne ==
  ASSUME NEW e
  PROVE  end(<<e>>) = started(e)
<1>1. Len(<<e>>) = 1 /\ <<e>>[1] = e
  OBVIOUS
<1>2. QED
  BY <1>1, ReadingByReading DEF end

\* Once refused, always refused: nothing after it is read.
LEMMA RefusalStays ==
  ASSUME NEW trail, Len(trail) \in Nat, NEW m \in 1 .. Len(trail),
         readings(trail)[m].refused # NONE
  PROVE  end(trail) = readings(trail)[m]
<1> DEFINE r == readings(trail)
           l == Len(trail)
           S == {n \in Nat : n <= l => r[n] = r[m]}
<1> HIDE DEF r, l
<1>1. m \in S /\ m \in Nat /\ l \in Nat /\ m >= 1 /\ m <= l
  BY DEF l
<1>2. ASSUME NEW n \in Nat, n >= m, n \in S
      PROVE  n + 1 \in S
  <2> SUFFICES ASSUME n + 1 <= l
               PROVE  r[n + 1] = r[m]
    OBVIOUS
  <2>1. n + 1 \in 2 .. l /\ (n + 1) - 1 = n /\ n <= l
    BY <1>1, <1>2
  <2>2. r[n] = r[m]
    BY <1>2, <2>1
  <2>3. r[n + 1] = read_on(r[n], trail[n + 1])
    BY <2>1, ReadingByReading DEF r, l
  <2>4. r[m].refused # NONE
    BY DEF r
  <2>5. QED
    BY <2>2, <2>3, <2>4 DEF read_on
<1> HIDE DEF S
<1>3. \A n \in Nat : n >= m => n \in S
  BY <1>1, <1>2, Counting
<1>4. r[l] = r[m]
  BY <1>1, <1>3 DEF S
<1>5. QED
  BY <1>4 DEF end, r, l

stopped(trail) == end(trail).refused # NONE

\* In particular what is appended to a refused trail is not read.
LEMMA RefusedWhateverFollows ==
  ASSUME NEW S, NEW s \in Seq(S), s # <<>>, NEW t \in Seq(S), stopped(s)
  PROVE  end(s \o t) = end(s)
<1> DEFINE u == s \o t
           m == Len(s)
<1>1. /\ m \in Nat /\ m >= 1 /\ Len(u) \in Nat /\ m <= Len(u)
      /\ \A n \in 1 .. m : s[n] = u[n]
  OBVIOUS
<1> HIDE DEF u, m
<1>2. readings(s)[m] = readings(u)[m]
  <2>1. \A n \in 1 .. m : readings(s)[n] = readings(u)[n]
    BY <1>1, SameSoFar DEF m
  <2>2. QED BY <1>1, <2>1
<1>3. readings(u)[m].refused # NONE /\ m \in 1 .. Len(u)
  BY <1>1, <1>2 DEF end, m, stopped
<1>4. end(u) = readings(u)[m]
  BY <1>1, <1>3, RefusalStays
<1>5. QED
  BY <1>2, <1>4 DEF end, m, u

-----------------------------------------------------------------------------
(* What a reader knows of a job, and what each record the engine writes    *)
(* adds to it.  "announced" is the state a delivery was announced in.      *)

Knowing(id, tenant, cites, s, back, granted, pending, ids, moves, announced, closing) ==
  [refused |-> NONE, job_id |-> id, tenant_id |-> tenant, supersedes_job_id |-> cites,
   state |-> s, awaiting_from |-> back, approval |-> granted, pending |-> pending,
   decision_ids |-> ids, history |-> moves, completed |-> announced = "COMPLETED",
   closing |-> closing]

\* A verdict is kept until the move it caused.
LEMMA VerdictRead ==
  ASSUME NEW id, NEW tenant, NEW cites, NEW s, NEW back, NEW granted, NEW pending,
         NEW ids, NEW moves, NEW announced, NEW closing, NEW record
  PROVE  read_on(Knowing(id, tenant, cites, s, back, granted, pending, ids, moves, announced, closing),
                 GovernanceDecision(id, tenant, record)) =
           Knowing(id, tenant, cites, s, back, granted, record, Append(ids, record.decision_id), moves,
                   announced, closing)
BY DEF Knowing, read_on, read_record, GovernanceDecision

\* A completion record, read.
LEMMA DeliveryRead ==
  ASSUME NEW id, NEW tenant, NEW cites, NEW s, NEW back, NEW granted, NEW pending,
         NEW ids, NEW moves, NEW announced, NEW closing
  PROVE  read_on(Knowing(id, tenant, cites, s, back, granted, pending, ids, moves, announced, closing),
                 JobCompleted(id, tenant)) =
           Knowing(id, tenant, cites, s, back, granted, pending, ids, moves, "COMPLETED", closing)
BY DEF Knowing, read_on, read_record, JobCompleted

\* A closing record, read.
LEMMA ClosingRead ==
  ASSUME NEW id, NEW tenant, NEW cites, NEW s, NEW back, NEW granted, NEW pending,
         NEW ids, NEW moves, NEW announced, NEW closing, NEW to, NEW count
  PROVE  read_on(Knowing(id, tenant, cites, s, back, granted, pending, ids, moves, announced, closing),
                 JobSettled(id, tenant, to, count)) =
           Knowing(id, tenant, cites, s, back, granted, pending, ids, moves, announced,
                   JobSettled(id, tenant, to, count))
BY DEF Knowing, read_on, read_record, JobSettled

\* A reading in which what a move changes is replaced.
advanced(reading, return, approved, moved, to) ==
  [reading EXCEPT !.approval = approved, !.pending = NONE, !.awaiting_from = return,
                  !.history = moved, !.state = to]

\* What the reader knows after a move it believes.
LEMMA Advanced ==
  ASSUME NEW id, NEW tenant, NEW cites, NEW s, NEW back, NEW granted, NEW pending, NEW ids, NEW moves,
         NEW announced, NEW closing, NEW to, NEW return, NEW approved, NEW moved
  PROVE  advanced(Knowing(id, tenant, cites, s, back, granted, pending, ids, moves, announced, closing),
                  return, approved, moved, to) =
         Knowing(id, tenant, cites, to, return, approved, NONE, ids, moved, announced, closing)
<1> DEFINE before == Knowing(id, tenant, cites, s, back, granted, pending, ids, moves, announced, closing)
           after == advanced(before, return, approved, moved, to)
           known == Knowing(id, tenant, cites, to, return, approved, NONE, ids, moved, announced, closing)
           fields == {"refused", "job_id", "tenant_id", "supersedes_job_id", "state",
                      "awaiting_from", "approval", "pending", "decision_ids", "history",
                      "completed", "closing"}
<1>1. DOMAIN before = fields /\ DOMAIN known = fields
  BY DEF Knowing
<1>2. after = [f \in fields |->
         CASE f = "approval" -> approved [] f = "pending" -> NONE
           [] f = "awaiting_from" -> return [] f = "history" -> moved
           [] f = "state" -> to [] OTHER -> before[f]]
  <2> HIDE DEF before
  <2>1. QED BY <1>1 DEF advanced
<1>3. known = [f \in fields |-> known[f]]
  BY DEF Knowing
<1>4. ASSUME NEW f \in fields PROVE after[f] = known[f]
  BY <1>2 DEF Knowing
<1> HIDE DEF after, known, fields
<1>5. QED
  BY <1>2, <1>3, <1>4 DEF after, known

\* An entry of the history as the reader has it.
move_read(s, to, at, record) ==
  [from |-> s, to |-> to, at |-> at,
   decision_id |-> IF record = NONE THEN NONE ELSE record.decision_id]

\* Stamped at or past the deadline of the approval it needs.
late(granted, to, at) ==
  /\ to \in POST_APPROVAL
  /\ granted.expires_at # NONE /\ at >= granted.expires_at

\* A move that has its verdict and its approval is believed, and leaves the
\* reader where it left the job; one stamped past the deadline is not.
LEMMA MoveRead ==
  ASSUME NEW id, NEW tenant, NEW cites, NEW s \in JobState, NEW back, NEW granted,
         NEW record \in Decision \union {NONE}, NEW ids, NEW moves,
         NEW announced, NEW closing, NEW to \in JobState, NEW at,
         to \in reachable_from(s, back),
         record = NONE <=> decision_for_edge(s, to) = NONE,
         record # NONE => record.decision = decision_for_edge(s, to),
         to \in POST_APPROVAL => granted # NONE
  PROVE  LET read == read_on(Knowing(id, tenant, cites, s, back, granted, record, ids, moves,
                                     announced, closing),
                             StateTransition(id, tenant, s, to, at))
         IN IF late(granted, to, at)
            THEN read = refusal("ExecutionAfterExpiry")
            ELSE read = Knowing(id, tenant, cites, to,
                   IF to = "AWAITING_APPROVAL" THEN s
                   ELSE IF s = "AWAITING_APPROVAL" THEN NONE ELSE back,
                   IF record = NONE THEN granted
                   ELSE IF record.decision = "APPROVE" THEN record ELSE NONE,
                   NONE, ids,
                   Append(moves, move_read(s, to, at, record)),
                   announced, closing)
<1> DEFINE verdict == decision_for_edge(s, to)
           reading == Knowing(id, tenant, cites, s, back, granted, record, ids, moves, announced, closing)
           event == StateTransition(id, tenant, s, to, at)
<1>1. /\ event.kind = "STATE_TRANSITION" /\ event.job_id = id
      /\ event.from = s /\ event.to = to /\ event.occurred_at = at
  BY DEF StateTransition
<1>2. /\ reading.refused = NONE /\ reading.job_id = id /\ reading.state = s
      /\ reading.awaiting_from = back /\ reading.approval = granted
      /\ reading.pending = record /\ reading.history = moves
  BY DEF Knowing
<1>3. to \in POST_APPROVAL => verdict = NONE
  BY VerdictEdges DEF POST_APPROVAL
<1>4. verdict # NONE => verdict \in DecisionType /\ record # NONE /\ record.decision = verdict
  BY VerdictEdges
<1> HIDE DEF reading, event, verdict
<1>5. decided(reading.state, event.to) = verdict
  BY <1>1, <1>2 DEF decided, verdict
<1>6. ~unaudited_decision(reading, event)
  BY <1>2, <1>4, <1>5 DEF unaudited_decision
<1>7. approval_read(reading, event) =
        IF record = NONE THEN granted ELSE IF record.decision = "APPROVE" THEN record ELSE NONE
  BY <1>2, <1>4, <1>5 DEF approval_read, verdict
<1>8. transition_refusal(reading, event) = IF late(granted, to, at) THEN "ExecutionAfterExpiry" ELSE NONE
  <2>1. to \in POST_APPROVAL => approval_read(reading, event) = granted /\ granted # NONE
    BY <1>3, <1>7 DEF verdict
  <2>2. after_expiry(granted, event) <=> granted.expires_at # NONE /\ at >= granted.expires_at
    BY <1>1 DEF after_expiry
  <2>3. QED
    BY <1>1, <1>2, <1>6, <2>1, <2>2 DEF transition_refusal, late
<1>9. read_on(reading, event) =
        IF transition_refusal(reading, event) = NONE THEN followed(reading, event)
        ELSE refusal(transition_refusal(reading, event))
  BY <1>1, <1>2 DEF read_on, read_record
<1>10. followed(reading, event) =
         Knowing(id, tenant, cites, to,
                   IF to = "AWAITING_APPROVAL" THEN s
                   ELSE IF s = "AWAITING_APPROVAL" THEN NONE ELSE back,
                   approval_read(reading, event),
                   NONE, ids,
                   Append(moves, move_read(s, to, at, record)),
                   announced, closing)
  <2> DEFINE granted_after == approval_read(reading, event)
             back_after == IF to = "AWAITING_APPROVAL" THEN s
                           ELSE IF s = "AWAITING_APPROVAL" THEN NONE ELSE back
             entry == move_read(s, to, at, record)
  <2>1. followed(reading, event) =
          advanced(reading, back_after, granted_after, Append(moves, entry), to)
    <3>1. verdict = NONE <=> record = NONE
      BY DEF verdict
    <3>2. (IF verdict = NONE THEN reading.pending ELSE NONE) = NONE
      BY <1>2, <3>1
    <3>3. (IF verdict = NONE THEN NONE ELSE reading.pending.decision_id) = entry.decision_id
      BY <1>2, <3>1 DEF move_read
    <3> HIDE DEF granted_after
    <3>4. QED
      BY <1>1, <1>2, <1>5, <3>2, <3>3 DEF followed, granted_after, advanced, move_read
  <2> HIDE DEF granted_after, back_after, entry
  <2>2. advanced(reading, back_after, granted_after, Append(moves, entry), to) =
          Knowing(id, tenant, cites, to, back_after, granted_after, NONE, ids, Append(moves, entry),
                  announced, closing)
    BY Advanced DEF reading
  <2>3. QED
    BY <2>1, <2>2 DEF granted_after, back_after, entry
<1>11. "ExecutionAfterExpiry" # NONE
  BY ReplayAssumption DEF ReplayError
<1>12. QED
  BY <1>7, <1>8, <1>9, <1>10, <1>11 DEF reading, event

-----------------------------------------------------------------------------
(* What the engine writes reads back.                                      *)

\* One more record at the end of a trail's second part is one more at its end.
LEMMA AppendBehind ==
  ASSUME NEW S, NEW s \in Seq(S), NEW t \in Seq(S), NEW e \in S
  PROVE  /\ s \o Append(t, e) = Append(s \o t, e)
         /\ s \o t \in Seq(S) /\ (s # <<>> => s \o t # <<>>)
         /\ s \o <<e>> = Append(s, e)
<1>1. /\ s \o Append(t, e) \in Seq(S) /\ Append(s \o t, e) \in Seq(S)
      /\ Len(s \o Append(t, e)) = Len(Append(s \o t, e))
      /\ \A n \in 1 .. Len(s \o Append(t, e)) : (s \o Append(t, e))[n] = Append(s \o t, e)[n]
  OBVIOUS
<1>2. s \o Append(t, e) = Append(s \o t, e)
  BY <1>1, SeqEqual
<1>3. /\ <<e>> \in Seq(S) /\ s \o <<e>> \in Seq(S) /\ Append(s, e) \in Seq(S)
      /\ Len(s \o <<e>>) = Len(Append(s, e))
      /\ \A n \in 1 .. Len(s \o <<e>>) : (s \o <<e>>)[n] = Append(s, e)[n]
  OBVIOUS
<1>4. s \o <<e>> = Append(s, e)
  BY <1>3, SeqEqual
<1>5. s \o t \in Seq(S) /\ (s # <<>> => s \o t # <<>>)
  OBVIOUS
<1>6. QED
  BY <1>2, <1>4, <1>5

\* The trail as one transition leaves it, a record at a time.
Written(old, t1, t2, t3, t4, record, to, judged, moving, delivery, closing) ==
  /\ t1 = IF record = NONE THEN old ELSE Append(old, judged)
  /\ t2 = Append(t1, moving)
  /\ t3 = IF to = "COMPLETED" THEN Append(t2, delivery) ELSE t2
  /\ t4 = IF to \in TERMINAL THEN Append(t3, closing) ELSE t3

\* The records of a transition, one after the other.
LEMMA WrittenOneByOne ==
  ASSUME NEW old \in Seq(Event), NEW new, NEW record, NEW to,
         NEW judged, NEW moving \in Event, NEW delivery \in Event, NEW closing,
         record # NONE => judged \in Event, to \in TERMINAL => closing \in Event,
         NEW v, v = (IF record = NONE THEN <<>> ELSE <<judged>>),
         NEW m, m = Append(v, moving),
         NEW d, d = (IF to = "COMPLETED" THEN Append(m, delivery) ELSE m),
         new = (IF to \in TERMINAL THEN Append(d, closing) ELSE d)
  PROVE  Written(old, old \o v, old \o m, old \o d, old \o new, record, to,
                 judged, moving, delivery, closing)
<1>1. v \in Seq(Event)
  OBVIOUS
<1>2. m \in Seq(Event)
  BY <1>1
<1>3. d \in Seq(Event)
  BY <1>2
<1>4. old \o v = IF record = NONE THEN old ELSE Append(old, judged)
  <2>1. <<>> \in Seq(Event) /\ old \o <<>> = old
    OBVIOUS
  <2>2. record # NONE => old \o <<judged>> = Append(old, judged)
    BY <2>1, AppendBehind
  <2>3. QED BY <2>1, <2>2
<1>5. old \o m = Append(old \o v, moving)
  BY <1>1, AppendBehind
<1>6. old \o d = IF to = "COMPLETED" THEN Append(old \o m, delivery) ELSE old \o m
  <2>1. old \o Append(m, delivery) = Append(old \o m, delivery)
    BY <1>2, AppendBehind
  <2>2. QED BY <2>1
<1>7. old \o new = IF to \in TERMINAL THEN Append(old \o d, closing) ELSE old \o d
  <2>1. to \in TERMINAL => old \o Append(d, closing) = Append(old \o d, closing)
    BY <1>3, AppendBehind
  <2>2. QED BY <2>1
<1>8. QED
  BY <1>4, <1>5, <1>6, <1>7 DEF Written

\* The records of one transition take a reader from the job as it was to the
\* job as it became; stamped past the deadline, the move is refused.
LEMMA WrittenIsRead ==
  ASSUME NEW id, NEW tenant, NEW cites, NEW s \in JobState, NEW back, NEW granted,
         NEW record \in Decision \union {NONE}, NEW ids, NEW moves,
         NEW to \in JobState, NEW at, NEW count,
         to \in reachable_from(s, back),
         record = NONE <=> decision_for_edge(s, to) = NONE,
         record # NONE => record.decision = decision_for_edge(s, to),
         to \in POST_APPROVAL => granted # NONE,
         NEW judged, judged = GovernanceDecision(id, tenant, record),
         NEW moving \in Event, moving = StateTransition(id, tenant, s, to, at),
         NEW delivery \in Event, delivery = JobCompleted(id, tenant),
         NEW closing, closing = JobSettled(id, tenant, to, count),
         record # NONE => judged \in Event, to \in TERMINAL => closing \in Event,
         NEW old \in Seq(Event), old # <<>>,
         end(old) = Knowing(id, tenant, cites, s, back, granted, NONE, ids, moves, s, NONE), s # "COMPLETED",
         NEW t1, NEW t2, NEW t3, NEW t4,
         Written(old, t1, t2, t3, t4, record, to, judged, moving, delivery, closing)
  PROVE  IF late(granted, to, at) THEN end(t4) = refusal("ExecutionAfterExpiry")
         ELSE end(t4) =
                Knowing(id, tenant, cites, to,
                        IF to = "AWAITING_APPROVAL" THEN s
                        ELSE IF s = "AWAITING_APPROVAL" THEN NONE ELSE back,
                        IF record = NONE THEN granted
                        ELSE IF record.decision = "APPROVE" THEN record ELSE NONE,
                        NONE,
                        IF record = NONE THEN ids ELSE Append(ids, record.decision_id),
                        Append(moves, move_read(s, to, at, record)),
                        to,
                        IF to \in TERMINAL THEN Last(t4) ELSE NONE)
<1>1. PICK back_after, granted_after, ids_after, moves_after :
        /\ back_after = IF to = "AWAITING_APPROVAL" THEN s
                        ELSE IF s = "AWAITING_APPROVAL" THEN NONE ELSE back
        /\ granted_after = IF record = NONE THEN granted
                           ELSE IF record.decision = "APPROVE" THEN record ELSE NONE
        /\ ids_after = IF record = NONE THEN ids ELSE Append(ids, record.decision_id)
        /\ moves_after = Append(moves, move_read(s, to, at, record))
  OBVIOUS
<1> DEFINE known(announced, how) ==
      Knowing(id, tenant, cites, to, back_after, granted_after, NONE, ids_after, moves_after, announced, how)
<1>2. /\ t1 = IF record = NONE THEN old ELSE Append(old, judged)
      /\ t2 = Append(t1, moving)
      /\ t3 = IF to = "COMPLETED" THEN Append(t2, delivery) ELSE t2
      /\ t4 = IF to \in TERMINAL THEN Append(t3, closing) ELSE t3
  BY DEF Written
<1>3. /\ t1 \in Seq(Event) /\ t1 # <<>> /\ t2 \in Seq(Event) /\ t2 # <<>>
      /\ t3 \in Seq(Event) /\ t3 # <<>>
  <2>1. t1 \in Seq(Event) /\ t1 # <<>>
    BY <1>2
  <2>2. t2 \in Seq(Event) /\ t2 # <<>>
    BY <1>2, <2>1
  <2>3. t3 \in Seq(Event) /\ t3 # <<>>
    BY <1>2, <2>2
  <2>4. QED BY <2>1, <2>2, <2>3
<1>4. end(t1) = Knowing(id, tenant, cites, s, back, granted, record, ids_after, moves, s, NONE)
  <2>1. CASE record = NONE
    BY <1>1, <1>2, <2>1
  <2>2. CASE record # NONE
    <3>1. end(t1) = read_on(end(old), judged)
      BY <1>2, <2>2, EndOfAppend
    <3>2. end(old) = Knowing(id, tenant, cites, s, back, granted, NONE, ids, moves, s, NONE)
      BY <1>1
    <3>3. read_on(Knowing(id, tenant, cites, s, back, granted, NONE, ids, moves, s, NONE),
                  GovernanceDecision(id, tenant, record)) =
            Knowing(id, tenant, cites, s, back, granted, record, Append(ids, record.decision_id), moves,
                    s, NONE)
      BY VerdictRead
    <3>4. QED BY <1>1, <2>2, <3>1, <3>2, <3>3
  <2>3. QED BY <2>1, <2>2
<1>5. /\ late(granted, to, at) => end(t2) = refusal("ExecutionAfterExpiry")
      /\ ~late(granted, to, at) => end(t2) = known(s, NONE)
  <2>1. end(t2) = read_on(end(t1), moving)
    BY <1>2, <1>3, EndOfAppend
  <2>2. IF late(granted, to, at)
        THEN read_on(end(t1), moving) = refusal("ExecutionAfterExpiry")
        ELSE read_on(end(t1), moving) = known(s, NONE)
    <3>1. PICK r : r = end(t1)
      OBVIOUS
    <3>2. IF late(granted, to, at)
          THEN read_on(r, moving) = refusal("ExecutionAfterExpiry")
          ELSE read_on(r, moving) = known(s, NONE)
      BY <1>1, <1>4, <3>1, MoveRead
    <3>3. QED BY <3>1, <3>2
  <2>3. QED BY <2>1, <2>2
<1>6. /\ late(granted, to, at) => end(t3) = refusal("ExecutionAfterExpiry")
      /\ ~late(granted, to, at) => end(t3) = known(to, NONE)
  <2>1. CASE to # "COMPLETED"
    <3>1. t3 = t2 /\ (s = "COMPLETED") = (to = "COMPLETED")
      BY <1>2, <2>1
    <3>2. known(s, NONE) = known(to, NONE)
      BY <3>1 DEF Knowing
    <3>3. QED BY <1>5, <3>1, <3>2
  <2>2. CASE to = "COMPLETED"
    <3>1. ~late(granted, to, at)
      BY <2>2 DEF POST_APPROVAL, late
    <3>2. end(t3) = read_on(known(s, NONE), delivery)
      <4>1. end(t3) = read_on(end(t2), delivery)
        BY <1>2, <1>3, <2>2, EndOfAppend
      <4>2. QED BY <1>5, <3>1, <4>1
    <3>3. read_on(known(s, NONE), JobCompleted(id, tenant)) = known("COMPLETED", NONE)
      BY DeliveryRead
    <3>4. QED BY <2>2, <3>1, <3>2, <3>3
  <2>3. QED BY <2>1, <2>2
<1>7. CASE to \notin TERMINAL
  BY <1>1, <1>2, <1>6, <1>7
<1>8. CASE to \in TERMINAL
  <2>1. ~late(granted, to, at)
    BY <1>8 DEF POST_APPROVAL, TERMINAL, late
  <2>2. end(t4) = read_on(known(to, NONE), closing)
    <3>1. t4 = Append(t3, closing) /\ closing \in Event
      BY <1>2, <1>8
    <3>2. end(t4) = read_on(end(t3), closing)
      BY <1>3, <3>1, EndOfAppend
    <3>3. QED BY <1>6, <2>1, <3>2
  <2>3. read_on(known(to, NONE), JobSettled(id, tenant, to, count)) =
          known(to, JobSettled(id, tenant, to, count))
    BY ClosingRead
  <2>4. Last(t4) = closing
    <3>1. t4 = Append(t3, closing) /\ t3 \in Seq(Event) /\ closing \in Event
      BY <1>2, <1>3, <1>8
    <3>2. QED BY <3>1, LastOfAppend
  <2>5. QED BY <1>1, <1>8, <2>1, <2>2, <2>3, <2>4
<1>9. QED BY <1>7, <1>8

\* What a move that is made, by a job of this identity, has passed.
Passed(j, to, record, id, tenant) ==
  /\ constructed(j) /\ state[j] \notin TERMINAL
  /\ to \in reachable_from(state[j], awaiting_from[j])
  /\ record = NONE <=> decision_for_edge(state[j], to) = NONE
  /\ record # NONE => record.decision = decision_for_edge(state[j], to)
  /\ to \in POST_APPROVAL => approval[j] # NONE
  /\ id = ident[j].job_id /\ tenant = ident[j].tenant_id

\* The trail is refused if the move is late, and otherwise leaves a reader of
\* this job where the move leaves the job.
ReadOn(trail, j, to, record, at, id, tenant, cites, ids, moves) ==
  IF late(approval[j], to, at) THEN end(trail) = refusal("ExecutionAfterExpiry")
  ELSE end(trail) =
         Knowing(id, tenant, cites, to, awaiting_after(j, to),
                 approval_after(j, record), NONE,
                 IF record = NONE THEN ids ELSE Append(ids, record.decision_id),
                 Append(moves, move_read(state[j], to, at, record)),
                 to, IF to \in TERMINAL THEN Last(trail) ELSE NONE)

\* The same of the engine's transition.
LEMMA TransitionIsRead ==
  ASSUME TypeOK, NEW j \in Jobs,
         NEW to \in JobState, NEW record \in Decision \union {NONE}, NEW at \in Nat,
         NEW id, NEW tenant, NEW cites, Passed(j, to, record, id, tenant),
         NEW ids, NEW moves, events[j] # <<>>,
         end(events[j]) = Knowing(id, tenant, cites, state[j], awaiting_from[j], approval[j],
                                  NONE, ids, moves, state[j], NONE)
  PROVE  ReadOn(events[j] \o emitted(j, to, record, at),
                j, to, record, at, id, tenant, cites, ids, moves)
<1> DEFINE judged == GovernanceDecision(id, tenant, record)
           moving == StateTransition(id, tenant, state[j], to, at)
           delivery == JobCompleted(id, tenant)
           v == IF record = NONE THEN <<>> ELSE <<judged>>
           m == Append(v, moving)
           d == IF to = "COMPLETED" THEN Append(m, delivery) ELSE m
           count == event_count(j, Len(d))
           closing == JobSettled(id, tenant, to, count)
           old == events[j]
           new == emitted(j, to, record, at)
<1>1. id \in Ids /\ tenant \in Tenants /\ state[j] \in JobState /\ old \in Seq(Event)
  BY DEF TypeOK, constructed, Identity, Passed
<1>2. new = IF to \in TERMINAL THEN Append(d, closing) ELSE d
  BY DEF emitted, Passed
<1>3. /\ record # NONE => judged \in Event
      /\ moving \in Event /\ delivery \in Event
  BY <1>1 DEF GovernanceDecision, StateTransition, JobCompleted, Event
<1>4. to \in TERMINAL => closing \in Event
  <2> HIDE DEF judged, moving, delivery
  <2>1. v \in Seq(Event)
    BY <1>3
  <2> HIDE DEF v
  <2>2. m \in Seq(Event)
    BY <1>3, <2>1
  <2> HIDE DEF m
  <2>3. d \in Seq(Event)
    BY <1>3, <2>2
  <2> HIDE DEF d
  <2>4. count \in Nat
    BY <1>1, <2>3 DEF event_count
  <2>5. QED BY <1>1, <2>4 DEF JobSettled, Event
<1>5. PICK jd, mv, dl, cl :
        jd = judged /\ mv = moving /\ dl = delivery /\ cl = closing
  OBVIOUS
<1>6. Written(old, old \o v, old \o m, old \o d, old \o new, record, to, jd, mv, dl, cl)
  <2>1. PICK vv, mm, dd : vv = v /\ mm = m /\ dd = d
    OBVIOUS
  <2>2. /\ vv = (IF record = NONE THEN <<>> ELSE <<jd>>)
        /\ mm = Append(vv, mv)
        /\ dd = (IF to = "COMPLETED" THEN Append(mm, dl) ELSE mm)
    BY <1>5, <2>1
  <2>3. new = IF to \in TERMINAL THEN Append(dd, cl) ELSE dd
    BY <1>2, <1>5, <2>1
  <2>4. /\ record # NONE => jd \in Event
        /\ mv \in Event /\ dl \in Event
        /\ to \in TERMINAL => cl \in Event
    BY <1>3, <1>4, <1>5
  <2> HIDE DEF old, new, v, m, d, judged, moving, delivery, closing
  <2>5. Written(old, old \o vv, old \o mm, old \o dd, old \o new, record, to, jd, mv, dl, cl)
    BY <1>1, <2>2, <2>3, <2>4, WrittenOneByOne
  <2>6. QED BY <2>1, <2>5
<1>7. PICK s, back, granted, t1, t2, t3, t4 :
        /\ s = state[j] /\ back = awaiting_from[j] /\ granted = approval[j]
        /\ t1 = old \o v /\ t2 = old \o m /\ t3 = old \o d /\ t4 = old \o new
  OBVIOUS
<1>8. /\ s \in JobState /\ s # "COMPLETED" /\ to \in reachable_from(s, back)
      /\ record = NONE <=> decision_for_edge(s, to) = NONE
      /\ record # NONE => record.decision = decision_for_edge(s, to)
      /\ to \in POST_APPROVAL => granted # NONE
      /\ old # <<>>
      /\ end(old) = Knowing(id, tenant, cites, s, back, granted, NONE, ids, moves, s, NONE)
      /\ Written(old, t1, t2, t3, t4, record, to, jd, mv, dl, cl)
      /\ jd = GovernanceDecision(id, tenant, record)
      /\ mv = StateTransition(id, tenant, s, to, at)
      /\ dl = JobCompleted(id, tenant)
      /\ cl = JobSettled(id, tenant, to, count)
      /\ record # NONE => jd \in Event
      /\ mv \in Event /\ dl \in Event
      /\ to \in TERMINAL => cl \in Event
  <2>1. s # "COMPLETED"
    BY <1>7 DEF TERMINAL, Passed
  <2>2. Written(old, t1, t2, t3, t4, record, to, jd, mv, dl, cl)
    BY <1>6, <1>7
  <2> HIDE DEF v, m, d, new, count
  <2>3. QED BY <1>1, <1>3, <1>4, <1>5, <1>7, <2>1, <2>2 DEF Passed
<1> DEFINE known ==
      Knowing(id, tenant, cites, to,
              IF to = "AWAITING_APPROVAL" THEN s
              ELSE IF s = "AWAITING_APPROVAL" THEN NONE ELSE back,
              IF record = NONE THEN granted
              ELSE IF record.decision = "APPROVE" THEN record ELSE NONE,
              NONE,
              IF record = NONE THEN ids ELSE Append(ids, record.decision_id),
              Append(moves, move_read(s, to, at, record)),
              to, IF to \in TERMINAL THEN Last(t4) ELSE NONE)
<1>9. IF late(granted, to, at) THEN end(t4) = refusal("ExecutionAfterExpiry")
      ELSE end(t4) = known
  <2> HIDE DEF old, new, v, m, d, count, judged, moving, delivery, closing
  <2>1. old \in Seq(Event)
    BY <1>1
  <2>2. QED BY <1>8, <2>1, WrittenIsRead
<1>10. QED
  <2> HIDE DEF v, m, d, count, judged, moving, delivery, closing
  <2>1. /\ awaiting_after(j, to) = IF to = "AWAITING_APPROVAL" THEN s
                                   ELSE IF s = "AWAITING_APPROVAL" THEN NONE ELSE back
        /\ approval_after(j, record) = IF record = NONE THEN granted
                                       ELSE IF record.decision = "APPROVE" THEN record ELSE NONE
    BY <1>7 DEF awaiting_after, approval_after
  <2>2. QED BY <1>7, <1>9, <2>1 DEF ReadOn

\* The decisions and the history of a job as the reader has them.
IdsOf(verdicts) == [n \in DOMAIN verdicts |-> verdicts[n].decision_id]

MovesOf(entries) ==
  [i \in DOMAIN entries |->
     [from |-> entries[i].from, to |-> entries[i].to, at |-> entries[i].at,
      decision_id |-> entries[i].decision_id]]

\* One decision more is one more read, and so with one transition more.
LEMMA IdsOfAppend ==
  ASSUME NEW S, NEW s \in Seq(S), NEW e \in S
  PROVE  IdsOf(Append(s, e)) = Append(IdsOf(s), e.decision_id)
<1>1. PICK d : d = e.decision_id
  OBVIOUS
<1> DEFINE t == Append(s, e)
           I == {x.decision_id : x \in S}
<1>2. /\ Len(s) \in Nat /\ DOMAIN s = 1 .. Len(s) /\ DOMAIN t = 1 .. Len(s) + 1
      /\ t[Len(s) + 1] = e /\ \A n \in 1 .. Len(s) : t[n] = s[n] /\ s[n] \in S
  OBVIOUS
<1> HIDE DEF t
<1>3. IdsOf(s) = [n \in 1 .. Len(s) |-> s[n].decision_id]
  BY <1>2 DEF IdsOf
<1>4. IdsOf(s) \in Seq(I) /\ Len(IdsOf(s)) = Len(s) /\ d \in I
  BY <1>1, <1>2, <1>3
<1>5. IdsOf(t) = [n \in 1 .. Len(s) + 1 |-> t[n].decision_id]
  BY <1>2 DEF IdsOf
<1>6. IdsOf(t) \in Seq(I) /\ Len(IdsOf(t)) = Len(s) + 1
  <2>1. \A n \in 1 .. Len(s) + 1 : t[n] \in S
    BY <1>2
  <2>2. QED BY <1>2, <1>5, <2>1
<1>7. Append(IdsOf(s), d) \in Seq(I) /\ Len(Append(IdsOf(s), d)) = Len(s) + 1
  BY <1>4
<1>8. \A n \in 1 .. Len(s) + 1 : IdsOf(t)[n] = Append(IdsOf(s), d)[n]
  <2> SUFFICES ASSUME NEW n \in 1 .. Len(s) + 1
               PROVE  IdsOf(t)[n] = Append(IdsOf(s), d)[n]
    OBVIOUS
  <2>1. CASE n = Len(s) + 1
    BY <1>1, <1>2, <1>4, <1>5, <2>1
  <2>2. CASE n # Len(s) + 1
    <3>1. n \in 1 .. Len(s)
      BY <1>2, <2>2
    <3>2. IdsOf(t)[n] = s[n].decision_id /\ IdsOf(s)[n] = s[n].decision_id
      BY <1>2, <1>3, <1>5, <3>1
    <3>3. Append(IdsOf(s), d)[n] = IdsOf(s)[n]
      BY <1>4, <3>1
    <3>4. QED BY <3>2, <3>3
  <2>3. QED BY <2>1, <2>2
<1>9. IdsOf(t) = Append(IdsOf(s), d)
  BY <1>6, <1>7, <1>8, SeqEqual
<1>10. QED
  BY <1>1, <1>9 DEF t

\* One entry of the history more is one move more to read.
LEMMA MovesOfAppend ==
  ASSUME NEW S, NEW s \in Seq(S), NEW e \in S
  PROVE  MovesOf(Append(s, e)) =
           Append(MovesOf(s), [from |-> e.from, to |-> e.to, at |-> e.at,
                               decision_id |-> e.decision_id])
<1> DEFINE as_read(x) == [from |-> x.from, to |-> x.to, at |-> x.at,
                          decision_id |-> x.decision_id]
           t == Append(s, e)
           I == {as_read(x) : x \in S}
<1>1. PICK d : d = as_read(e)
  OBVIOUS
<1>2. /\ Len(s) \in Nat /\ DOMAIN s = 1 .. Len(s) /\ DOMAIN t = 1 .. Len(s) + 1
      /\ t[Len(s) + 1] = e /\ \A n \in 1 .. Len(s) : t[n] = s[n] /\ s[n] \in S
  OBVIOUS
<1> HIDE DEF t
<1>3. MovesOf(s) = [n \in 1 .. Len(s) |-> as_read(s[n])]
  BY <1>2 DEF MovesOf
<1>4. MovesOf(t) = [n \in 1 .. Len(s) + 1 |-> as_read(t[n])]
  BY <1>2 DEF MovesOf
<1> HIDE DEF as_read
<1>5. MovesOf(s) \in Seq(I) /\ Len(MovesOf(s)) = Len(s) /\ d \in I
  BY <1>1, <1>2, <1>3
<1>6. MovesOf(t) \in Seq(I) /\ Len(MovesOf(t)) = Len(s) + 1
  <2>1. \A n \in 1 .. Len(s) + 1 : t[n] \in S
    BY <1>2
  <2>2. QED BY <1>2, <1>4, <2>1
<1>7. Append(MovesOf(s), d) \in Seq(I) /\ Len(Append(MovesOf(s), d)) = Len(s) + 1
  BY <1>5
<1>8. \A n \in 1 .. Len(s) + 1 : MovesOf(t)[n] = Append(MovesOf(s), d)[n]
  <2> SUFFICES ASSUME NEW n \in 1 .. Len(s) + 1
               PROVE  MovesOf(t)[n] = Append(MovesOf(s), d)[n]
    OBVIOUS
  <2>1. CASE n = Len(s) + 1
    BY <1>1, <1>2, <1>4, <1>5, <2>1
  <2>2. CASE n # Len(s) + 1
    <3>1. n \in 1 .. Len(s)
      BY <1>2, <2>2
    <3>2. MovesOf(t)[n] = as_read(s[n]) /\ MovesOf(s)[n] = as_read(s[n])
      BY <1>2, <1>3, <1>4, <3>1
    <3>3. Append(MovesOf(s), d)[n] = MovesOf(s)[n]
      BY <1>5, <3>1
    <3>4. QED BY <3>2, <3>3
  <2>3. QED BY <2>1, <2>2
<1>9. MovesOf(t) = Append(MovesOf(s), d)
  BY <1>6, <1>7, <1>8, SeqEqual
<1>10. QED
  BY <1>1, <1>9 DEF t, as_read

\* What a reader of the whole trail of a job knows.
Known(j) ==
  Knowing(ident[j].job_id, ident[j].tenant_id, ident[j].supersedes_job_id,
          state[j], awaiting_from[j], approval[j], NONE,
          IdsOf(decisions[j]), MovesOf(history[j]), state[j],
          IF state[j] \in TERMINAL THEN Last(events[j]) ELSE NONE)

ReadsBack(j) ==
  /\ events[j] # <<>> /\ events[j][1].kind = "JOB_CREATED"
  /\ IF StampedLate(j) THEN end(events[j]).refused = "ExecutionAfterExpiry"
     ELSE end(events[j]) = Known(j)

\* A job that holds no approval never executed: an approval is given once, and
\* what it authorises comes after it.
NoWorkUnapproved ==
  \A j \in Jobs : approval[j] = NONE =>
    \A i \in DOMAIN history[j] : history[j][i].to \notin POST_APPROVAL

\* The invariant the agreement rests on: what the loop of replay_job carries
\* after the last record of a job's trail is the job.
ReadInv ==
  /\ TrailInv /\ NoWorkUnapproved
  /\ \A j \in Jobs : constructed(j) => ReadsBack(j)

\* A job nothing happens to is read as it was.
LEMMA ReadStays ==
  ASSUME NEW j, ReadsBack(j), ident'[j] = ident[j], state'[j] = state[j],
         awaiting_from'[j] = awaiting_from[j], approval'[j] = approval[j],
         decisions'[j] = decisions[j], history'[j] = history[j], events'[j] = events[j]
  PROVE  ReadsBack(j)'
<1>1. StampedLate(j)' <=> StampedLate(j)
  BY DEF StampedLate
<1>2. Known(j)' = Known(j)
  BY DEF Known, Knowing
<1>3. QED
  BY <1>1, <1>2 DEF ReadsBack

\* A new job is read as one in DRAFT.
LEMMA CreatedIsRead ==
  ASSUME NEW j, NEW id, NEW tenant, NEW cites,
         ident'[j].job_id = id, ident'[j].tenant_id = tenant,
         ident'[j].supersedes_job_id = cites,
         state'[j] = "DRAFT", awaiting_from'[j] = NONE, approval'[j] = NONE,
         decisions'[j] = <<>>, history'[j] = <<>>,
         events'[j] = <<JobCreated(id, tenant, cites)>>
  PROVE  ReadsBack(j)'
<1> DEFINE e == JobCreated(id, tenant, cites)
<1>1. events'[j] # <<>> /\ events'[j][1].kind = "JOB_CREATED"
  BY DEF JobCreated
<1>2. ~StampedLate(j)'
  BY DEF StampedLate
<1>3. end(<<e>>) = started(e)
  BY EndOfOne
<1>4. IdsOf(<<>>) = <<>> /\ MovesOf(<<>>) = <<>>
  BY DEF IdsOf, MovesOf
<1>5. started(e) =
        Knowing(id, tenant, cites, "DRAFT", NONE, NONE, NONE, <<>>, <<>>, "DRAFT", NONE)
  BY DEF started, Knowing, JobCreated
<1>6. Known(j)' =
        Knowing(id, tenant, cites, "DRAFT", NONE, NONE, NONE, <<>>, <<>>, "DRAFT", NONE)
  <2>1. "DRAFT" \notin TERMINAL
    BY DEF TERMINAL
  <2>2. QED BY <1>4, <2>1 DEF Known
<1>7. QED
  BY <1>1, <1>2, <1>3, <1>5, <1>6 DEF ReadsBack

\* Whether a trail is stamped late only depends on the moves that need the
\* approval, and one move adds itself.
LEMMA LateWhenMoved ==
  ASSUME TypeOK, NEW j, NEW to, NEW at, NEW entry, history[j] \in Seq(TransitionRecord),
         entry \in TransitionRecord, entry.to = to, entry.at = at,
         history'[j] = Append(history[j], entry), approval'[j] = approval[j]
  PROVE  StampedLate(j)' <=> StampedLate(j) \/ (approval[j] # NONE /\ late(approval[j], to, at))
<1>1. PICK h, granted : h = history[j] /\ granted = approval[j]
  OBVIOUS
<1> DEFINE t == Append(h, entry)
<1>2. /\ Len(h) \in Nat /\ DOMAIN h = 1 .. Len(h) /\ DOMAIN t = 1 .. Len(h) + 1
      /\ t[Len(h) + 1] = entry /\ \A i \in 1 .. Len(h) : t[i] = h[i]
  BY <1>1
<1> HIDE DEF t
<1> DEFINE bad(x) == x.to \in POST_APPROVAL /\ x.at >= granted.expires_at
<1>3. (\E i \in DOMAIN t : bad(t[i])) <=> (\E i \in DOMAIN h : bad(h[i])) \/ bad(entry)
  <2> HIDE DEF bad
  <2>1. \A i \in DOMAIN t : i \in DOMAIN h \/ i = Len(h) + 1
    BY <1>2
  <2>2. DOMAIN h \subseteq DOMAIN t /\ Len(h) + 1 \in DOMAIN t
    BY <1>2
  <2>3. QED BY <1>2, <2>1, <2>2
<1>4. StampedLate(j) <=>
        granted # NONE /\ granted.expires_at # NONE /\ \E i \in DOMAIN h : bad(h[i])
  BY <1>1 DEF StampedLate
<1>5. StampedLate(j)' <=>
        granted # NONE /\ granted.expires_at # NONE /\ \E i \in DOMAIN t : bad(t[i])
  BY <1>1 DEF StampedLate, t
<1>6. late(granted, to, at) <=> granted.expires_at # NONE /\ bad(entry)
  BY DEF late
<1> HIDE DEF bad
<1>7. QED
  BY <1>1, <1>3, <1>4, <1>5, <1>6

\* A transition that the reader follows leaves him where it leaves the job.
LEMMA MovedIsRead ==
  ASSUME ReadInv, Moved
  PROVE  ReadInv'
<1>1. PICK j \in Jobs, to \in JobState, record \in Decision \union {NONE}, at \in Nat :
        Moving(j, to, record, at)
  BY DEF Moved
<1>2. /\ constructed(j) /\ state[j] \notin TERMINAL
      /\ to \in reachable_from(state[j], awaiting_from[j])
      /\ to \in POST_APPROVAL => approval[j] # NONE
      /\ record = NONE <=> decision_for_edge(state[j], to) = NONE
      /\ record # NONE => record.decision = decision_for_edge(state[j], to)
      /\ move(j, to, record, at)
  BY <1>1 DEF Moving, decision_fits
<1>3. TypeOK /\ TypeOK' /\ TrailInv' /\ ReadsBack(j)
  BY <1>2, MovedType, MovedTrail DEF ReadInv, TrailInv, LockInv
<1>4. PICK new, old, entry :
        /\ new = emitted(j, to, record, at) /\ old = events[j]
        /\ entry = [from |-> state[j], to |-> to, at |-> at,
                    decision_id |-> IF record = NONE THEN NONE ELSE record.decision_id,
                    event |-> Len(events[j]) + (IF record = NONE THEN 1 ELSE 2)]
  OBVIOUS
<1>5. /\ ident' = ident /\ state'[j] = to
      /\ awaiting_from'[j] = awaiting_after(j, to)
      /\ approval'[j] = approval_after(j, record)
      /\ decisions'[j] = IF record = NONE THEN decisions[j] ELSE Append(decisions[j], record)
      /\ history'[j] = Append(history[j], entry)
      /\ events'[j] = old \o new
      /\ \A k \in Jobs \ {j} :
           /\ ident'[k] = ident[k] /\ state'[k] = state[k]
           /\ awaiting_from'[k] = awaiting_from[k] /\ approval'[k] = approval[k]
           /\ decisions'[k] = decisions[k] /\ history'[k] = history[k]
           /\ events'[k] = events[k]
  BY <1>2, <1>3, <1>4 DEF move, TypeOK
<1>6. /\ old \in Seq(Event) /\ new \in Seq(Event) /\ old # <<>> /\ old[1].kind = "JOB_CREATED"
      /\ history[j] \in Seq(TransitionRecord) /\ decisions[j] \in Seq(Decision)
      /\ state[j] \in JobState
      /\ entry \in TransitionRecord
  <2>1. new \in Seq(Event)
    BY <1>2, <1>3, <1>4, EmittedType
  <2>2. entry \in TransitionRecord
    <3>1. (IF record = NONE THEN NONE ELSE record.decision_id) \in DecisionId \union {NONE}
      BY DEF Decision
    <3>2. Len(events[j]) + (IF record = NONE THEN 1 ELSE 2) \in Nat
      BY <1>3 DEF TypeOK
    <3>3. QED
      BY <1>3, <1>4, <3>1, <3>2 DEF TransitionRecord, TypeOK
  <2>3. QED
    BY <1>3, <1>4, <2>1, <2>2 DEF ReadsBack, TypeOK
<1>7. record # NONE => approval[j] = NONE /\ to \notin POST_APPROVAL
  <2>1. record # NONE => state[j] = "GOVERNANCE_ANALYSIS" /\ to \in {"APPROVED", "REJECTED", "DRAFT"}
    BY <1>2, <1>6, VerdictEdges
  <2>2. QED
    BY <2>1 DEF ReadInv, TrailInv, LockInv, ExecutionLock, POST_APPROVAL
<1>8. /\ entry.from = state[j] /\ entry.to = to /\ entry.at = at
      /\ entry.decision_id = IF record = NONE THEN NONE ELSE record.decision_id
      /\ \A i \in DOMAIN history'[j] :
           \/ i \in DOMAIN history[j] /\ history'[j][i] = history[j][i]
           \/ history'[j][i] = entry
      /\ \A i \in DOMAIN history[j] : i \in DOMAIN history'[j] /\ history'[j][i] = history[j][i]
  BY <1>4, <1>5, <1>6
<1>9. approval[j] = NONE => \A i \in DOMAIN history'[j] : history'[j][i].to \notin POST_APPROVAL
  BY <1>2, <1>8 DEF ReadInv, NoWorkUnapproved
<1>10. NoWorkUnapproved'
  <2>1. approval'[j] = NONE => approval[j] = NONE
    BY <1>5, <1>7 DEF approval_after
  <2>2. QED
    BY <1>5, <1>9, <2>1 DEF ReadInv, NoWorkUnapproved
<1>11. ASSUME NEW k \in Jobs \ {j}, constructed(k)'
       PROVE  ReadsBack(k)'
  <2>1. ReadsBack(k)
    BY <1>5, <1>11 DEF ReadInv, constructed
  <2>2. QED
    BY <1>5, <2>1, ReadStays
<1>12. StampedLate(j)' <=> StampedLate(j) \/ (approval[j] # NONE /\ late(approval[j], to, at))
  <2>1. CASE record = NONE
    <3>1. approval'[j] = approval[j]
      BY <1>5, <2>1 DEF approval_after
    <3>2. QED
      BY <1>3, <1>5, <1>6, <1>8, <3>1, LateWhenMoved
  <2>2. CASE record # NONE
    <3>1. ~StampedLate(j)' /\ ~StampedLate(j)
      BY <1>7, <1>9, <2>2 DEF StampedLate
    <3>2. QED BY <1>7, <2>2, <3>1
  <2>3. QED BY <2>1, <2>2
<1>13. events'[j] # <<>> /\ events'[j][1].kind = "JOB_CREATED"
  BY <1>5, <1>6
<1>14. ASSUME StampedLate(j) PROVE ReadsBack(j)'
  <2>1. end(old).refused = "ExecutionAfterExpiry"
    BY <1>3, <1>4, <1>14 DEF ReadsBack
  <2>2. stopped(old)
    BY <2>1, ReplayAssumption DEF ReplayError, stopped
  <2>3. end(old \o new) = end(old)
    BY <1>6, <2>2, RefusedWhateverFollows
  <2>4. QED
    BY <1>5, <1>12, <1>13, <1>14, <2>1, <2>3 DEF ReadsBack
<1>15. ASSUME ~StampedLate(j) PROVE ReadsBack(j)'
  <2>1. PICK id, tenant, cites, ids, moves :
          /\ id = ident[j].job_id /\ tenant = ident[j].tenant_id
          /\ cites = ident[j].supersedes_job_id
          /\ ids = IdsOf(decisions[j]) /\ moves = MovesOf(history[j])
    OBVIOUS
  <2>2. end(events[j]) = Knowing(id, tenant, cites, state[j], awaiting_from[j], approval[j],
                                 NONE, ids, moves, state[j], NONE)
    BY <1>2, <1>3, <1>15, <2>1 DEF ReadsBack, Known
  <2> DEFINE ids_after == IF record = NONE THEN ids ELSE Append(ids, record.decision_id)
             moves_after == Append(moves, move_read(state[j], to, at, record))
             trail == events[j] \o emitted(j, to, record, at)
  <2>3. IF late(approval[j], to, at) THEN end(trail) = refusal("ExecutionAfterExpiry")
        ELSE end(trail) =
               Knowing(id, tenant, cites, to, awaiting_after(j, to), approval_after(j, record),
                       NONE, ids_after, moves_after, to,
                       IF to \in TERMINAL THEN Last(trail) ELSE NONE)
    <3>1. Passed(j, to, record, id, tenant)
      BY <1>2, <2>1 DEF Passed
    <3>2. events[j] # <<>>
      BY <1>4, <1>6
    <3>3. ReadOn(trail, j, to, record, at, id, tenant, cites, ids, moves)
      BY <1>3, <2>2, <3>1, <3>2, TransitionIsRead
    <3> HIDE DEF trail
    <3>4. QED
      BY <3>3 DEF ReadOn
  <2>4. trail = events'[j]
    BY <1>4, <1>5
  <2>5. ids_after = IdsOf(decisions'[j])
    BY <1>5, <1>6, <2>1, IdsOfAppend
  <2>6. moves_after = MovesOf(history'[j])
    <3>1. move_read(state[j], to, at, record) =
            [from |-> entry.from, to |-> entry.to, at |-> entry.at,
             decision_id |-> entry.decision_id]
      BY <1>8 DEF move_read
    <3>2. QED
      BY <1>5, <1>6, <2>1, <3>1, MovesOfAppend
  <2> HIDE DEF ids_after, moves_after, trail
  <2>7. CASE late(approval[j], to, at)
    <3>1. StampedLate(j)'
      BY <1>2, <1>12, <2>7 DEF late
    <3>2. end(trail) = refusal("ExecutionAfterExpiry")
      BY <2>3, <2>7
    <3>3. end(trail).refused = "ExecutionAfterExpiry"
      BY <3>2 DEF refusal
    <3>4. end(events'[j]) = end(trail)
      BY <2>4
    <3>5. QED
      BY <1>13, <3>1, <3>3, <3>4 DEF ReadsBack
  <2>8. CASE ~late(approval[j], to, at)
    <3>1. ~StampedLate(j)'
      BY <1>12, <1>15, <2>8
    <3>2. end(trail) =
               Knowing(id, tenant, cites, to, awaiting_after(j, to), approval_after(j, record),
                       NONE, ids_after, moves_after, to,
                       IF to \in TERMINAL THEN Last(trail) ELSE NONE)
      BY <2>3, <2>8
    <3>3. Known(j)' =
               Knowing(id, tenant, cites, to, awaiting_after(j, to), approval_after(j, record),
                       NONE, ids_after, moves_after, to,
                       IF to \in TERMINAL THEN Last(trail) ELSE NONE)
      BY <1>5, <2>1, <2>4, <2>5, <2>6 DEF Known
    <3>4. end(events'[j]) = end(trail)
      BY <2>4
    <3>5. QED
      BY <1>13, <3>1, <3>2, <3>3, <3>4 DEF ReadsBack
  <2>9. QED BY <2>7, <2>8
<1>16. \A k \in Jobs : constructed(k)' => ReadsBack(k)'
  <2>1. ReadsBack(j)'
    BY <1>14, <1>15
  <2>2. QED BY <1>11, <2>1
<1>17. QED
  BY <1>3, <1>10, <1>16 DEF ReadInv

\* No step takes the reader and the job apart.
LEMMA NextRead ==
  ASSUME ReadInv, [Next]_vars
  PROVE  ReadInv'
<1>1. TrailInv'
  BY NextTrail DEF ReadInv
<1>2. CASE Constructs
  <2>1. PICK j \in Jobs, id \in Ids, tenant \in Tenants, workspace \in Workspaces,
             principal \in Principals, supersedes \in Ids \union {NONE} :
          construct(j, id, tenant, workspace, principal, supersedes)
    BY <1>2 DEF Constructs
  <2>2. /\ state'[j] = "DRAFT" /\ history'[j] = <<>> /\ decisions'[j] = <<>>
        /\ awaiting_from'[j] = awaiting_from[j] /\ approval'[j] = approval[j]
        /\ state[j] = "DRAFT"
        /\ events'[j] = <<JobCreated(id, tenant, supersedes)>>
        /\ ident'[j].job_id = id /\ ident'[j].tenant_id = tenant
        /\ ident'[j].supersedes_job_id = supersedes
        /\ UNCHANGED <<approval, history>>
        /\ \A i \in Jobs \ {j} :
             /\ ident'[i] = ident[i] /\ state'[i] = state[i] /\ history'[i] = history[i]
             /\ awaiting_from'[i] = awaiting_from[i] /\ approval'[i] = approval[i]
             /\ decisions'[i] = decisions[i] /\ events'[i] = events[i]
    BY <2>1 DEF construct, ReadInv, TrailInv, LockInv, TypeOK, BlankUntilConstructed
  <2>3. awaiting_from[j] = NONE /\ approval[j] = NONE
    BY <2>2 DEF ReadInv, TrailInv, LockInv, ReturnAddress, ExecutionLock
  <2>4. ReadsBack(j)'
    BY <2>2, <2>3, CreatedIsRead
  <2>5. ASSUME NEW k \in Jobs \ {j}, constructed(k)'
        PROVE  ReadsBack(k)'
    <3>1. ReadsBack(k)
      BY <2>2, <2>5 DEF ReadInv, constructed
    <3>2. QED BY <2>2, <3>1, ReadStays
  <2>6. NoWorkUnapproved'
    BY <2>2 DEF ReadInv, NoWorkUnapproved
  <2>7. QED
    BY <1>1, <2>4, <2>5, <2>6 DEF ReadInv
<1>3. CASE Moved
  BY <1>3, MovedIsRead
<1>4. CASE UNCHANGED <<ident, state, awaiting_from, approval, decisions, history, events>>
  <2>1. \A k \in Jobs : constructed(k)' => ReadsBack(k)'
    BY <1>4, ReadStays DEF ReadInv, constructed
  <2>2. NoWorkUnapproved'
    BY <1>4 DEF ReadInv, NoWorkUnapproved
  <2>3. QED
    BY <1>1, <2>1, <2>2 DEF ReadInv
<1>5. QED
  BY <1>2, <1>3, <1>4, Steps DEF ReadInv, TrailInv, LockInv, Tick, vars

\* Nobody has anything to read at the start.
LEMMA InitRead == Init => ReadInv
<1> SUFFICES ASSUME Init PROVE ReadInv
  OBVIOUS
<1>1. TrailInv
  BY InitTrail
<1>2. \A j \in Jobs : ~constructed(j) /\ history[j] = <<>>
  BY DEF Init, constructed
<1>3. QED
  BY <1>1, <1>2 DEF ReadInv, NoWorkUnapproved

\* What the engine writes is all ours: it sets no source.
LEMMA AllOurs ==
  ASSUME NEW trail \in Seq(Event)
  PROVE  ours(trail) = trail
<1>1. \A e \in Event : is_ours(e)
  BY DEF Event, is_ours
<1>2. \A n \in DOMAIN trail : is_ours(trail[n])
  BY <1>1
<1>3. DOMAIN trail \subseteq {n \in DOMAIN trail : is_ours(trail[n])}
  BY <1>2
<1>4. QED
  BY <1>3, KeptWhole DEF ours

\* A reader of any job's trail, at any moment, arrives at the job as it stands;
\* only a trail stamped late is refused, as execution after expiry.
THEOREM ReaderArrivesAtTheJob == Spec => []ReplayAgrees
<1>1. ASSUME ReadInv PROVE ReplayAgrees
  <2> SUFFICES ASSUME NEW j \in Jobs, constructed(j)
               PROVE  IF StampedLate(j)
                      THEN replay_job(events[j]).refused = "ExecutionAfterExpiry"
                      ELSE Agrees(j, replay_job(events[j]))
    BY DEF ReplayAgrees
  <2>1. PICK trail, last : trail = events[j] /\ last = end(trail)
    OBVIOUS
  <2>2. /\ trail \in Seq(Event) /\ trail # <<>> /\ trail[1].kind = "JOB_CREATED"
        /\ IF StampedLate(j) THEN last.refused = "ExecutionAfterExpiry" ELSE last = Known(j)
    BY <1>1, <2>1 DEF ReadInv, ReadsBack, TrailInv, LockInv, TypeOK
  <2>3. ours(trail) = trail
    BY <2>2, AllOurs
  <2>4. replay_job(trail) =
          IF last.refused # NONE THEN last
          ELSE LET why == closing_refusal(last, Len(trail))
               IN IF why = NONE THEN replayed(last) ELSE refusal(why)
    BY <2>1, <2>2, <2>3 DEF replay_job, end
  <2>5. CASE StampedLate(j)
    BY <2>1, <2>2, <2>4, <2>5, ReplayAssumption DEF ReplayError
  <2>6. CASE ~StampedLate(j)
    <3>1. last = Known(j)
      BY <2>2, <2>6
    <3>2. /\ last.refused = NONE /\ last.job_id = ident[j].job_id
          /\ last.tenant_id = ident[j].tenant_id
          /\ last.supersedes_job_id = ident[j].supersedes_job_id
          /\ last.state = state[j] /\ last.awaiting_from = awaiting_from[j]
          /\ last.approval = approval[j] /\ last.decision_ids = IdsOf(decisions[j])
          /\ last.history = MovesOf(history[j])
          /\ last.completed = (state[j] = "COMPLETED")
          /\ last.closing = IF state[j] \in TERMINAL THEN Last(trail) ELSE NONE
      BY <2>1, <3>1 DEF Known, Knowing
    <3>3. Len(trail) \in Nat /\ Len(trail) >= 1 /\ Last(trail) = trail[Len(trail)]
          /\ Last(trail) \in Event /\ Last(trail) # NONE
      BY <2>2, EventAssumption DEF Last
    <3>4. state[j] \in TERMINAL =>
            Last(trail).settled_as = state[j] /\ Last(trail).event_count = Len(trail)
      BY <1>1, <2>1, <3>3 DEF ReadInv, TrailInv, TrailClosed
    <3>5. closing_refusal(last, Len(trail)) = NONE
      BY <3>2, <3>3, <3>4 DEF closing_refusal
    <3>6. replay_job(trail) = replayed(last)
      BY <2>4, <3>2, <3>5
    <3>7. Agrees(j, replayed(last))
      BY <3>2, <3>3, <3>4 DEF Agrees, replayed, IdsOf, MovesOf
    <3>8. QED BY <2>1, <2>6, <3>6, <3>7
  <2>7. QED BY <2>5, <2>6
<1>2. QED
  BY <1>1, InitRead, NextRead, PTL DEF Spec

-----------------------------------------------------------------------------
(* What a reading that was not refused says of the trail, whoever wrote it *)
(* and whatever became of it on the way.                                   *)

Refused(trail) == replay_job(trail).refused # NONE

\* A trail that is not refused starts with its creation, was believed to its
\* end, and closes properly.
LEMMA OnlyIfBelieved ==
  ASSUME NEW trail \in Seq(Event), ~Refused(trail)
  PROVE  /\ trail # <<>> /\ trail[1].kind = "JOB_CREATED"
         /\ end(trail).refused = NONE
         /\ closing_refusal(end(trail), Len(trail)) = NONE
<1>1. PICK last, why : last = end(trail) /\ why = closing_refusal(last, Len(trail))
  OBVIOUS
<1>2. replay_job(trail) =
        IF trail = <<>> THEN refusal("EmptyTrail")
        ELSE IF trail[1].kind # "JOB_CREATED" THEN refusal("UnstartedTrail")
        ELSE IF last.refused # NONE THEN last
        ELSE IF why = NONE THEN replayed(last) ELSE refusal(why)
  BY <1>1, AllOurs DEF replay_job, end
<1>3. \A error : refusal(error).refused = error
  BY DEF refusal
<1>4. "EmptyTrail" # NONE /\ "UnstartedTrail" # NONE
  BY ReplayAssumption DEF ReplayError
<1>5. QED
  BY <1>1, <1>2, <1>3, <1>4 DEF Refused

\* What the loop carries.
Fields == {"refused", "job_id", "tenant_id", "supersedes_job_id", "state", "awaiting_from",
           "approval", "pending", "decision_ids", "history", "completed", "closing"}

\* What one record that is believed does to the reading.
Told(before, e, after) ==
  /\ DOMAIN after = Fields
  /\ after.state = IF e.kind = "STATE_TRANSITION" THEN e.to ELSE before.state
  /\ after.closing = IF e.kind = "JOB_SETTLED" THEN e ELSE before.closing
  /\ after.pending = IF e.kind = "GOVERNANCE_DECISION" THEN e.approval
                     ELSE IF e.kind = "STATE_TRANSITION" /\ decided(before.state, e.to) # NONE
                       THEN NONE
                     ELSE before.pending
  /\ e.kind = "STATE_TRANSITION" =>
       e.from = before.state /\ (decided(before.state, e.to) # NONE => before.pending # NONE)

\* A record that is not refused tells the reader what it says.
LEMMA RecordTells ==
  ASSUME NEW before, NEW e, DOMAIN before = Fields, before.refused = NONE,
         NEW after, after = read_on(before, e), after.refused = NONE
  PROVE  Told(before, e, after)
<1>1. \A error \in ReplayError : refusal(error).refused # NONE
  BY ReplayAssumption DEF refusal
<1>2. after = read_record(before, e)
  BY DEF read_on
<1>3. e.job_id = before.job_id
  BY <1>1, <1>2 DEF read_record, ReplayError
<1>4. CASE e.kind = "STATE_TRANSITION"
  <2>1. PICK why : why = transition_refusal(before, e)
    OBVIOUS
  <2>2. after = IF why = NONE THEN followed(before, e) ELSE refusal(why)
    BY <1>2, <1>3, <1>4, <2>1 DEF read_record
  <2>3. why = NONE
    BY <2>2 DEF refusal
  <2>4. "BrokenTrail" # NONE /\ "UndeclaredTransition" # NONE /\ "UnauditedDecision" # NONE
    BY ReplayAssumption DEF ReplayError
  <2>5. e.from = before.state /\ ~unaudited_decision(before, e)
    BY <2>1, <2>3, <2>4 DEF transition_refusal
  <2>6. decided(before.state, e.to) # NONE => before.pending # NONE
    BY <2>5 DEF unaudited_decision
  <2>7. after = followed(before, e)
    BY <2>2, <2>3
  <2>8. DOMAIN after = Fields
    BY <2>7 DEF followed
  <2>9. /\ after.state = e.to /\ after.closing = before.closing
        /\ after.pending = IF decided(before.state, e.to) = NONE THEN before.pending ELSE NONE
    BY <2>7 DEF followed, Fields
  <2>10. QED BY <1>4, <2>5, <2>6, <2>8, <2>9 DEF Told
<1>5. CASE e.kind = "GOVERNANCE_DECISION"
  <2>1. after = [before EXCEPT !.pending = e.approval,
                               !.decision_ids = Append(@, e.approval.decision_id)]
    BY <1>2, <1>3, <1>5 DEF read_record
  <2>2. DOMAIN after = Fields
    BY <2>1
  <2>3. /\ after.state = before.state /\ after.closing = before.closing
        /\ after.pending = e.approval
    BY <2>1 DEF Fields
  <2>4. QED BY <1>5, <2>2, <2>3 DEF Told
<1>6. CASE e.kind = "JOB_SETTLED"
  <2>1. after = [before EXCEPT !.closing = e]
    BY <1>2, <1>3, <1>6 DEF read_record
  <2>2. QED BY <1>6, <2>1 DEF Told, Fields
<1>7. CASE e.kind = "JOB_COMPLETED"
  <2>1. after = [before EXCEPT !.completed = TRUE]
    BY <1>2, <1>3, <1>7 DEF read_record
  <2>2. QED BY <1>7, <2>1 DEF Told, Fields
<1>8. CASE e.kind \notin {"STATE_TRANSITION", "GOVERNANCE_DECISION", "JOB_SETTLED", "JOB_COMPLETED"}
  <2>1. after = before
    BY <1>2, <1>3, <1>8 DEF read_record
  <2>2. QED BY <1>8, <2>1 DEF Told
<1>9. QED BY <1>4, <1>5, <1>6, <1>7, <1>8

\* A trail that was believed to its end was believed throughout, a record at a
\* time.
ToldThroughout(trail) ==
  /\ \A n \in 1 .. Len(trail) :
       readings(trail)[n].refused = NONE /\ DOMAIN readings(trail)[n] = Fields
  /\ \A n \in 2 .. Len(trail) :
       Told(readings(trail)[n - 1], trail[n], readings(trail)[n])
  /\ readings(trail)[1] = started(trail[1])

\* A trail that replays was believed record by record.
LEMMA BelievedThroughout ==
  ASSUME NEW trail \in Seq(Event), trail # <<>>, end(trail).refused = NONE
  PROVE  ToldThroughout(trail)
<1> DEFINE r == readings(trail)
           l == Len(trail)
           S == {n \in Nat : n <= l => DOMAIN r[n] = Fields}
<1>1. l \in Nat /\ l >= 1
  OBVIOUS
<1> HIDE DEF r, l
<1>2. \A n \in 1 .. l : r[n].refused = NONE
  BY <1>1, RefusalStays DEF r, l
<1>3. /\ r[1] = started(trail[1])
      /\ \A n \in 2 .. l : r[n] = read_on(r[n - 1], trail[n])
  BY <1>1, ReadingByReading DEF r, l
<1>4. 1 \in S
  BY <1>3 DEF started, Fields
<1>5. ASSUME NEW n \in Nat, n >= 1, n \in S
      PROVE  n + 1 \in S
  <2> SUFFICES ASSUME n + 1 <= l PROVE DOMAIN r[n + 1] = Fields
    OBVIOUS
  <2>1. n + 1 \in 2 .. l /\ n \in 1 .. l /\ n + 1 \in 1 .. l /\ (n + 1) - 1 = n /\ n <= l
    BY <1>1, <1>5
  <2>2. /\ r[n].refused = NONE /\ r[n + 1].refused = NONE /\ DOMAIN r[n] = Fields
        /\ r[n + 1] = read_on(r[n], trail[n + 1])
    BY <1>2, <1>3, <1>5, <2>1
  <2>3. Told(r[n], trail[n + 1], r[n + 1])
    BY <2>2, RecordTells
  <2>4. QED BY <2>3 DEF Told
<1> HIDE DEF S
<1>6. \A n \in Nat : n >= 1 => n \in S
  BY <1>4, <1>5, Counting
<1>7. \A n \in 1 .. l : DOMAIN r[n] = Fields
  BY <1>1, <1>6 DEF S
<1>8. ASSUME NEW n \in 2 .. l
      PROVE  Told(r[n - 1], trail[n], r[n])
  <2>1. n - 1 \in 1 .. l /\ n \in 1 .. l
    BY <1>1
  <2>2. /\ r[n - 1].refused = NONE /\ r[n].refused = NONE /\ DOMAIN r[n - 1] = Fields
        /\ r[n] = read_on(r[n - 1], trail[n])
    BY <1>2, <1>3, <1>7, <2>1
  <2>3. QED BY <2>2, RecordTells
<1>9. QED
  BY <1>2, <1>3, <1>7, <1>8 DEF ToldThroughout, r, l

\* Records that are no moves leave the state read where it was.
LEMMA NoMoveNoChange ==
  ASSUME NEW trail \in Seq(Event), ToldThroughout(trail), NEW m \in 1 .. Len(trail),
         NEW l \in 1 .. Len(trail), m <= l,
         \A n \in m + 1 .. l : trail[n].kind # "STATE_TRANSITION"
  PROVE  readings(trail)[l].state = readings(trail)[m].state
<1> DEFINE r == readings(trail)
           S == {n \in Nat : n <= l => r[n].state = r[m].state}
<1> HIDE DEF r
<1>1. m \in Nat /\ l \in Nat /\ m >= 1 /\ l <= Len(trail) /\ Len(trail) \in Nat /\ m \in S
  OBVIOUS
<1>2. ASSUME NEW n \in Nat, n >= m, n \in S
      PROVE  n + 1 \in S
  <2> SUFFICES ASSUME n + 1 <= l PROVE r[n + 1].state = r[m].state
    OBVIOUS
  <2>1. n + 1 \in 2 .. Len(trail) /\ n + 1 \in m + 1 .. l /\ (n + 1) - 1 = n /\ n <= l
    BY <1>1, <1>2
  <2>2. trail[n + 1].kind # "STATE_TRANSITION" /\ r[n].state = r[m].state
    BY <1>2, <2>1
  <2>3. Told(r[n], trail[n + 1], r[n + 1])
    BY <2>1 DEF ToldThroughout, r
  <2>4. r[n + 1].state = r[n].state
    BY <2>2, <2>3 DEF Told
  <2>5. QED BY <2>2, <2>4
<1> HIDE DEF S
<1>3. l \in S
  BY <1>1, <1>2, Counting
<1>4. QED
  BY <1>1, <1>3 DEF S, r

\* The closing record a reader ends with is one of the trail's, if it has any.
ClosingRecords(trail, n) == {trail[k] : k \in {i \in 1 .. n : trail[i].kind = "JOB_SETTLED"}}

\* The closing the reader holds is one the trail holds.
LEMMA ClosingIsRecorded ==
  ASSUME NEW trail \in Seq(Event), trail # <<>>, ToldThroughout(trail),
         trail[1].kind = "JOB_CREATED"
  PROVE  LET closing == end(trail).closing
             recorded_closing == ClosingRecords(trail, Len(trail))
         IN IF recorded_closing = {} THEN closing = NONE ELSE closing \in recorded_closing
<1> DEFINE r == readings(trail)
           l == Len(trail)
           C(n) == ClosingRecords(trail, n)
           S == {n \in Nat : n <= l => IF C(n) = {} THEN r[n].closing = NONE
                                       ELSE r[n].closing \in C(n)}
<1>1. l \in Nat /\ l >= 1
  OBVIOUS
<1> HIDE DEF r, l
<1>2. 1 \in S
  <2>1. r[1].closing = NONE
    BY DEF ToldThroughout, started, r
  <2>2. C(1) = {}
    BY DEF ClosingRecords
  <2>3. QED BY <2>1, <2>2
<1>3. ASSUME NEW n \in Nat, n >= 1, n \in S
      PROVE  n + 1 \in S
  <2> SUFFICES ASSUME n + 1 <= l
               PROVE  IF C(n + 1) = {} THEN r[n + 1].closing = NONE
                      ELSE r[n + 1].closing \in C(n + 1)
    OBVIOUS
  <2>1. n + 1 \in 2 .. l /\ (n + 1) - 1 = n /\ n <= l
    BY <1>1, <1>3
  <2>2. IF C(n) = {} THEN r[n].closing = NONE ELSE r[n].closing \in C(n)
    BY <1>3, <2>1
  <2>3. Told(r[n], trail[n + 1], r[n + 1])
    BY <2>1 DEF ToldThroughout, r, l
  <2>4. r[n + 1].closing = IF trail[n + 1].kind = "JOB_SETTLED" THEN trail[n + 1]
                           ELSE r[n].closing
    BY <2>3 DEF Told
  <2>5. C(n + 1) = IF trail[n + 1].kind = "JOB_SETTLED" THEN C(n) \union {trail[n + 1]}
                   ELSE C(n)
    BY <1>3 DEF ClosingRecords
  <2> HIDE DEF C
  <2>6. QED BY <2>2, <2>4, <2>5
<1> HIDE DEF S
<1>4. l \in S
  BY <1>1, <1>2, <1>3, Counting
<1>5. IF C(l) = {} THEN r[l].closing = NONE ELSE r[l].closing \in C(l)
  BY <1>1, <1>4 DEF S
<1>6. QED
  BY <1>5 DEF r, l, end

\* A trail none of whose closing records counts it, is refused.
LEMMA MiscountedIsRefused ==
  ASSUME NEW trail \in Seq(Event), NEW k \in DOMAIN trail, trail[k].kind = "JOB_SETTLED",
         \A n \in DOMAIN trail :
           trail[n].kind = "JOB_SETTLED" => trail[n].event_count # Len(trail)
  PROVE  Refused(trail)
<1> SUFFICES ASSUME ~Refused(trail) PROVE FALSE
  OBVIOUS
<1>1. /\ trail # <<>> /\ trail[1].kind = "JOB_CREATED" /\ ToldThroughout(trail)
      /\ closing_refusal(end(trail), Len(trail)) = NONE
  BY OnlyIfBelieved, BelievedThroughout
<1>2. ClosingRecords(trail, Len(trail)) # {}
  <2>1. k \in {i \in 1 .. Len(trail) : trail[i].kind = "JOB_SETTLED"}
    OBVIOUS
  <2>2. QED BY <2>1 DEF ClosingRecords
<1>3. PICK closing : closing = end(trail).closing
  OBVIOUS
<1>4. closing \in ClosingRecords(trail, Len(trail))
  BY <1>1, <1>2, <1>3, ClosingIsRecorded
<1>5. closing \in Event /\ closing.event_count # Len(trail)
  BY <1>4 DEF ClosingRecords
<1>6. closing # NONE
  BY <1>5, EventAssumption
<1>7. "IncompleteSettlement" # NONE /\ "PrematureSettlement" # NONE /\ "MiscountedTrail" # NONE
  BY ReplayAssumption DEF ReplayError
<1>8. closing_refusal(end(trail), Len(trail)) # NONE
  BY <1>3, <1>5, <1>6, <1>7 DEF closing_refusal
<1>9. QED BY <1>1, <1>8

\* A trail whose last move settles the job, and that holds no closing record, is
\* refused.
LEMMA UnclosedIsRefused ==
  ASSUME NEW trail \in Seq(Event), NEW m \in DOMAIN trail, trail[m].kind = "STATE_TRANSITION",
         trail[m].to \in TERMINAL,
         \A n \in m + 1 .. Len(trail) : trail[n].kind # "STATE_TRANSITION",
         \A n \in DOMAIN trail : trail[n].kind # "JOB_SETTLED"
  PROVE  Refused(trail)
<1> SUFFICES ASSUME ~Refused(trail) PROVE FALSE
  OBVIOUS
<1>1. /\ trail # <<>> /\ trail[1].kind = "JOB_CREATED" /\ ToldThroughout(trail)
      /\ closing_refusal(end(trail), Len(trail)) = NONE
  BY OnlyIfBelieved, BelievedThroughout
<1>2. ClosingRecords(trail, Len(trail)) = {}
  BY DEF ClosingRecords
<1>3. end(trail).closing = NONE
  BY <1>1, <1>2, ClosingIsRecorded
<1>4. /\ Len(trail) \in Nat /\ m \in 2 .. Len(trail) /\ m \in 1 .. Len(trail)
      /\ Len(trail) \in 1 .. Len(trail) /\ m <= Len(trail)
  BY <1>1
<1>5. Told(readings(trail)[m - 1], trail[m], readings(trail)[m])
  BY <1>1, <1>4 DEF ToldThroughout
<1>6. readings(trail)[m].state = trail[m].to
  BY <1>5 DEF Told
<1>7. readings(trail)[Len(trail)].state = readings(trail)[m].state
  BY <1>1, <1>4, NoMoveNoChange
<1>8. end(trail).state \in TERMINAL
  BY <1>6, <1>7 DEF end
<1>9. "IncompleteSettlement" # NONE /\ "UnsettledTrail" # NONE
  BY ReplayAssumption DEF ReplayError
<1>10. closing_refusal(end(trail), Len(trail)) # NONE
  BY <1>3, <1>8, <1>9 DEF closing_refusal
<1>11. QED BY <1>1, <1>10

\* The records of two trails in a row.
LEMMA Concatenated ==
  ASSUME NEW S, NEW a \in Seq(S), NEW b \in Seq(S)
  PROVE  /\ a \o b \in Seq(S) /\ Len(a \o b) = Len(a) + Len(b)
         /\ Len(a) \in Nat /\ Len(b) \in Nat
         /\ \A n \in 1 .. Len(a) : (a \o b)[n] = a[n]
         /\ \A n \in 1 .. Len(b) : (a \o b)[Len(a) + n] = b[n]
OBVIOUS

\* A run of a trail's records.
LEMMA RunOfRecords ==
  ASSUME NEW S, NEW s \in Seq(S), NEW from \in Nat, NEW to \in Nat,
         from >= 1, from <= to + 1, to <= Len(s)
  PROVE  /\ SubSeq(s, from, to) \in Seq(S) /\ Len(SubSeq(s, from, to)) = to + 1 - from
         /\ \A n \in 1 .. to + 1 - from : SubSeq(s, from, to)[n] = s[from - 1 + n]
<1>1. SubSeq(s, from, to) = [n \in 1 .. to + 1 - from |-> s[from - 1 + n]]
  OBVIOUS
<1>2. to + 1 - from \in Nat
  OBVIOUS
<1>3. ASSUME NEW n \in 1 .. to + 1 - from PROVE s[from - 1 + n] \in S
  <2>1. from - 1 + n \in 1 .. Len(s)
    OBVIOUS
  <2>2. QED BY <2>1
<1>4. PICK part, length : part = SubSeq(s, from, to) /\ length = to + 1 - from
  OBVIOUS
<1>5. part = [n \in 1 .. length |-> s[from - 1 + n]] /\ length \in Nat
  BY <1>1, <1>2, <1>4
<1>6. \A n \in 1 .. length : s[from - 1 + n] \in S
  BY <1>3, <1>4
<1>7. part \in Seq(S) /\ Len(part) = length
  BY <1>5, <1>6
<1>8. \A n \in 1 .. length : part[n] = s[from - 1 + n]
  BY <1>5
<1>9. QED
  BY <1>4, <1>7, <1>8

\* What is left of a trail without a run of its records.
LEMMA WhatIsLeft ==
  ASSUME NEW trail \in Seq(Event), NEW from \in DOMAIN trail, NEW to \in from .. Len(trail)
  PROVE  LET left == without(trail, from, to) IN
         /\ left \in Seq(Event) /\ Len(left) = Len(trail) - (to - from + 1)
         /\ \A n \in 1 .. from - 1 : left[n] = trail[n]
         /\ \A n \in from .. Len(left) : left[n] = trail[n + (to - from + 1)]
<1>1. PICK l, a, b, c, d :
        /\ l = Len(trail) /\ d = to - from + 1
        /\ a = SubSeq(trail, 1, from - 1) /\ b = SubSeq(trail, to + 1, Len(trail))
        /\ c = a \o b
  OBVIOUS
<1>2. /\ l \in Nat /\ from \in Nat /\ to \in Nat /\ from - 1 \in Nat /\ l - to \in Nat
      /\ 1 <= from /\ from <= to /\ to <= l /\ d \in Nat
  BY <1>1
<1>3. /\ a \in Seq(Event) /\ Len(a) = from - 1
      /\ \A n \in 1 .. from - 1 : a[n] = trail[n]
  <2>1. 1 \in Nat /\ 1 >= 1 /\ 1 <= (from - 1) + 1 /\ from - 1 <= Len(trail)
    BY <1>1, <1>2
  <2>2. /\ a \in Seq(Event) /\ Len(a) = (from - 1) + 1 - 1
        /\ \A n \in 1 .. (from - 1) + 1 - 1 : a[n] = trail[1 - 1 + n]
    BY <1>1, <1>2, <2>1, RunOfRecords
  <2>3. QED BY <1>2, <2>2
<1>4. /\ b \in Seq(Event) /\ Len(b) = l - to
      /\ \A n \in 1 .. l - to : b[n] = trail[to + n]
  <2>1. PICK after : after = to + 1
    OBVIOUS
  <2>2. after \in Nat /\ after >= 1 /\ after <= l + 1 /\ l <= Len(trail)
    BY <1>1, <1>2, <2>1
  <2>3. /\ b \in Seq(Event) /\ Len(b) = l + 1 - after
        /\ \A n \in 1 .. l + 1 - after : b[n] = trail[after - 1 + n]
    <3>1. b = SubSeq(trail, after, l)
      BY <1>1, <2>1
    <3>2. QED BY <1>2, <2>2, <3>1, RunOfRecords
  <2>4. l + 1 - after = l - to /\ \A n \in 1 .. l - to : after - 1 + n = to + n
    BY <1>2, <2>1
  <2>5. QED BY <2>3, <2>4
<1>5. /\ c \in Seq(Event) /\ Len(c) = (from - 1) + (l - to)
      /\ \A n \in 1 .. from - 1 : c[n] = a[n]
      /\ \A n \in 1 .. l - to : c[from - 1 + n] = b[n]
  <2>1. /\ c \in Seq(Event) /\ Len(c) = Len(a) + Len(b)
        /\ \A n \in 1 .. Len(a) : c[n] = a[n]
        /\ \A n \in 1 .. Len(b) : c[Len(a) + n] = b[n]
    <3>1. c = a \o b /\ a \in Seq(Event) /\ b \in Seq(Event)
      BY <1>1, <1>3, <1>4
    <3>2. QED BY <3>1, Concatenated
  <2>2. Len(a) = from - 1 /\ Len(b) = l - to
    BY <1>3, <1>4
  <2>3. QED BY <2>1, <2>2
<1>6. /\ (from - 1) + (l - to) = l - d
      /\ \A n \in from .. (from - 1) + (l - to) : \E k \in 1 .. l - to :
           n = from - 1 + k /\ to + k = n + d
  <2>1. d = to - from + 1
    BY <1>1
  <2>2. (from - 1) + (l - to) = l - d
    BY <1>2, <2>1
  <2>3. ASSUME NEW n \in from .. (from - 1) + (l - to)
        PROVE  \E k \in 1 .. l - to : n = from - 1 + k /\ to + k = n + d
    <3>1. n - (from - 1) \in 1 .. l - to
      BY <1>2
    <3>2. n = from - 1 + (n - (from - 1)) /\ to + (n - (from - 1)) = n + d
      BY <1>2, <2>1
    <3>3. QED BY <3>1, <3>2
  <2>4. QED BY <2>2, <2>3
<1>7. ASSUME NEW n \in from .. Len(c)
      PROVE  c[n] = trail[n + d]
  <2>1. PICK k \in 1 .. l - to : n = from - 1 + k /\ to + k = n + d
    BY <1>5, <1>6
  <2>2. QED BY <1>4, <1>5, <2>1
<1>8. QED
  BY <1>1, <1>3, <1>5, <1>6, <1>7 DEF without

-----------------------------------------------------------------------------
(* How a trail is laid out.                                                *)

\* The record an entry's own records follow.
Before(h, i) == IF i = 1 THEN 1 ELSE h[i - 1].event

\* How many records an entry of the history stands for, up to the move itself.
Size(entry) == IF entry.decision_id = NONE THEN 1 ELSE 2

\* Every record of a trail is its creation, a move, the verdict directly before
\* a move it caused, or, once settled, what follows the last move; the moves
\* stand one behind the other, in the order of the history, and each is to
\* another state.
LaidOut(trail, h, s) ==
  /\ trail # <<>> => trail[1].kind = "JOB_CREATED"
  /\ \A i \in DOMAIN h : h[i].event = Before(h, i) + Size(h[i]) /\ h[i].from # h[i].to
  /\ s \notin TERMINAL /\ trail # <<>> => Len(trail) = Before(h, Len(h) + 1)
  /\ \A n \in DOMAIN trail :
       \/ n = 1
       \/ \E i \in DOMAIN h : n = h[i].event
       \/ \E i \in DOMAIN h : n = h[i].event - 1 /\ h[i].decision_id # NONE
       \/ n > Before(h, Len(h) + 1)
  /\ \A n \in DOMAIN trail :
       n > Before(h, Len(h) + 1) => trail[n].kind \in {"JOB_COMPLETED", "JOB_SETTLED"}

Layout ==
  \A j \in Jobs :
    LaidOut(events[j], history[j], state[j]) /\ (constructed(j) => events[j] # <<>>)

\* What the records of a transition end with, after the first k.
Tailed(new, k) ==
  /\ new \in Seq(Event) /\ k <= Len(new)
  /\ \A n \in 1 .. Len(new) : n > k => new[n].kind \in {"JOB_COMPLETED", "JOB_SETTLED"}

\* A record of delivery or of closing makes the tail one longer.
LEMMA TailGrows ==
  ASSUME NEW new, NEW k, Tailed(new, k), NEW e \in Event,
         e.kind \in {"JOB_COMPLETED", "JOB_SETTLED"}, k \in Nat
  PROVE  Tailed(Append(new, e), k)
<1> DEFINE longer == Append(new, e)
<1>1. /\ longer \in Seq(Event) /\ Len(longer) = Len(new) + 1 /\ Len(new) \in Nat
      /\ longer[Len(new) + 1] = e
      /\ \A n \in 1 .. Len(new) : longer[n] = new[n]
  BY DEF Tailed
<1> HIDE DEF longer
<1>2. ASSUME NEW n \in 1 .. Len(longer), n > k
      PROVE  longer[n].kind \in {"JOB_COMPLETED", "JOB_SETTLED"}
  <2>1. CASE n \in 1 .. Len(new)
    BY <1>1, <1>2, <2>1 DEF Tailed
  <2>2. CASE n = Len(new) + 1
    BY <1>1, <2>2
  <2>3. QED BY <1>1, <2>1, <2>2
<1>3. k <= Len(longer)
  BY <1>1 DEF Tailed
<1>4. QED
  BY <1>1, <1>2, <1>3 DEF Tailed, longer

\* A transition ends with its move, or settles the job behind it.
LEMMA EmittedTail ==
  ASSUME TypeOK, NEW j \in Jobs, constructed(j), NEW to \in JobState,
         NEW record \in Decision \union {NONE}, NEW at \in Nat,
         NEW k, k = (IF record = NONE THEN 1 ELSE 2)
  PROVE  /\ Tailed(emitted(j, to, record, at), k)
         /\ to \notin TERMINAL => Len(emitted(j, to, record, at)) = k
<1> DEFINE id == ident[j].job_id
           tenant == ident[j].tenant_id
           judged == GovernanceDecision(id, tenant, record)
           move_record == StateTransition(id, tenant, state[j], to, at)
           verdict == IF record = NONE THEN <<>> ELSE <<judged>>
           moved == Append(verdict, move_record)
           delivered == IF to = "COMPLETED" THEN Append(moved, JobCompleted(id, tenant))
                        ELSE moved
           closing == JobSettled(id, tenant, to, event_count(j, Len(delivered)))
<1>1. id \in Ids /\ tenant \in Tenants /\ state[j] \in JobState /\ Len(events[j]) \in Nat
  BY DEF TypeOK, constructed, Identity
<1>2. emitted(j, to, record, at) =
        IF to \in TERMINAL THEN Append(delivered, closing) ELSE delivered
  BY DEF emitted
<1> HIDE DEF id, tenant
<1>3. /\ record # NONE => judged \in Event
      /\ move_record \in Event
  BY <1>1 DEF GovernanceDecision, StateTransition, Event
<1>4. JobCompleted(id, tenant) \in Event /\ JobCompleted(id, tenant).kind = "JOB_COMPLETED"
  BY <1>1 DEF JobCompleted, Event
<1> HIDE DEF judged, move_record
<1>5. moved \in Seq(Event) /\ Len(moved) = k
  <2>1. CASE record = NONE
    BY <1>3, <2>1
  <2>2. CASE record # NONE
    <3>1. moved = Append(<<judged>>, move_record)
      BY <2>2
    <3> HIDE DEF moved
    <3>2. moved \in Seq(Event) /\ Len(moved) = 2
      BY <1>3, <2>2, <3>1, PairIsSeq
    <3>3. QED BY <2>2, <3>2
  <2>3. QED BY <2>1, <2>2
<1> HIDE DEF moved
<1>6. Tailed(moved, k) /\ k \in Nat
  BY <1>5 DEF Tailed
<1>7. Tailed(delivered, k)
  BY <1>4, <1>6, TailGrows
<1>8. to \notin TERMINAL => delivered = moved
  BY DEF TERMINAL
<1>9. to \in TERMINAL => closing \in Event /\ closing.kind = "JOB_SETTLED"
  <2>1. Len(delivered) \in Nat
    <3> HIDE DEF delivered
    <3> QED BY <1>7 DEF Tailed
  <2> HIDE DEF delivered
  <2>2. event_count(j, Len(delivered)) \in Nat
    BY <1>1, <2>1 DEF event_count
  <2>3. QED
    BY <1>1, <2>2 DEF JobSettled, Event
<1> HIDE DEF delivered, closing
<1>10. to \in TERMINAL => Tailed(Append(delivered, closing), k)
  BY <1>6, <1>7, <1>9, TailGrows
<1>11. QED
  BY <1>2, <1>5, <1>7, <1>8, <1>10

\* A transition keeps the layout.
LEMMA LaidOutMoved ==
  ASSUME NEW old \in Seq(Event), old # <<>>, NEW h \in Seq(TransitionRecord), NEW s,
         NEW new \in Seq(Event), LaidOut(old, h, s), s \notin TERMINAL, NEW to,
         NEW k \in {1, 2}, Tailed(new, k), to \notin TERMINAL => Len(new) = k,
         NEW entry \in TransitionRecord, entry.event = Len(old) + k, Size(entry) = k,
         entry.from # entry.to
  PROVE  LaidOut(old \o new, Append(h, entry), to)
<1>1. PICK trail, g, l, m : trail = old \o new /\ g = Append(h, entry) /\ l = Len(old) /\ m = Len(h)
  OBVIOUS
<1>2. /\ l \in Nat /\ l >= 1 /\ DOMAIN old = 1 .. l /\ Len(new) \in Nat
      /\ Len(trail) = l + Len(new) /\ DOMAIN trail = 1 .. l + Len(new)
      /\ \A n \in 1 .. l : trail[n] = old[n]
      /\ \A n \in 1 .. Len(new) : trail[l + n] = new[n]
  BY <1>1
<1>3. /\ m \in Nat /\ DOMAIN h = 1 .. m /\ DOMAIN g = 1 .. m + 1 /\ Len(g) = m + 1
      /\ g[m + 1] = entry
      /\ \A i \in 1 .. m : g[i] = h[i]
  BY <1>1
<1>4. Before(g, m + 2) = l + k /\ \A i \in 1 .. m + 1 : Before(g, i) = Before(h, i)
  <2>1. Before(g, m + 2) = g[m + 1].event
    BY <1>3 DEF Before
  <2>2. \A i \in 1 .. m + 1 : i # 1 => i - 1 \in 1 .. m
    BY <1>3
  <2>3. QED BY <1>1, <1>3, <2>1, <2>2 DEF Before
<1>5. l = Before(h, m + 1)
  BY <1>1 DEF LaidOut
<1>6. ASSUME NEW i \in DOMAIN g
      PROVE  g[i].event = Before(g, i) + Size(g[i]) /\ g[i].from # g[i].to
  <2>1. CASE i = m + 1
    BY <1>1, <1>3, <1>4, <1>5, <2>1
  <2>2. CASE i # m + 1
    <3>1. i \in 1 .. m /\ i \in 1 .. m + 1
      BY <1>3, <2>2
    <3>2. h[i].event = Before(h, i) + Size(h[i]) /\ h[i].from # h[i].to
      BY <1>3, <3>1 DEF LaidOut
    <3>3. QED BY <1>3, <1>4, <3>1, <3>2
  <2>3. QED BY <2>1, <2>2
<1>7. ASSUME NEW n \in DOMAIN trail
      PROVE  \/ n = 1
             \/ \E i \in DOMAIN g : n = g[i].event
             \/ \E i \in DOMAIN g : n = g[i].event - 1 /\ g[i].decision_id # NONE
             \/ n > Before(g, m + 2)
  <2>1. CASE n \in 1 .. l
    <3>1. \/ n = 1
          \/ \E i \in 1 .. m : n = h[i].event
          \/ \E i \in 1 .. m : n = h[i].event - 1 /\ h[i].decision_id # NONE
      <4>1. n \in DOMAIN old
        BY <1>2, <2>1
      <4>2. \/ n = 1
            \/ \E i \in DOMAIN h : n = h[i].event
            \/ \E i \in DOMAIN h : n = h[i].event - 1 /\ h[i].decision_id # NONE
            \/ n > Before(h, Len(h) + 1)
        BY <4>1 DEF LaidOut
      <4>3. ~(n > Before(h, Len(h) + 1))
        BY <1>1, <1>2, <1>5, <2>1
      <4>4. QED BY <1>3, <4>2, <4>3
    <3>2. \A i \in 1 .. m : i \in DOMAIN g /\ g[i] = h[i]
      BY <1>3
    <3>3. QED BY <3>1, <3>2
  <2>2. CASE n \notin 1 .. l
    <3>1. CASE n = l + k
      <4>1. m + 1 \in DOMAIN g /\ g[m + 1].event = n
        BY <1>1, <1>3, <3>1
      <4>2. QED BY <4>1
    <3>2. CASE n < l + k
      <4>1. k = 2 /\ n = l + 1
        BY <1>2, <2>2, <3>2
      <4>2. entry.event = l + 2 /\ entry.decision_id # NONE
        BY <1>1, <4>1 DEF Size
      <4>3. m + 1 \in DOMAIN g /\ n = g[m + 1].event - 1 /\ g[m + 1].decision_id # NONE
        BY <1>2, <1>3, <4>1, <4>2
      <4>4. QED BY <4>3
    <3>3. CASE n > l + k
      BY <1>4, <3>3
    <3>4. QED BY <1>2, <3>1, <3>2, <3>3
  <2>3. QED BY <2>1, <2>2
<1>8. ASSUME NEW n \in DOMAIN trail, n > Before(g, m + 2)
      PROVE  trail[n].kind \in {"JOB_COMPLETED", "JOB_SETTLED"}
  <2>1. n - l \in 1 .. Len(new) /\ n - l > k /\ l + (n - l) = n
    BY <1>2, <1>4, <1>8
  <2>2. trail[n] = new[n - l]
    BY <1>2, <2>1
  <2>3. QED BY <2>1, <2>2 DEF Tailed
<1>9. to \notin TERMINAL => Len(trail) = Before(g, m + 2)
  BY <1>2, <1>4
<1>10. trail[1].kind = "JOB_CREATED"
  BY <1>2 DEF LaidOut
<1>11. Len(g) + 1 = m + 2
  BY <1>3
<1>12. LaidOut(trail, g, to)
  BY <1>6, <1>7, <1>8, <1>9, <1>10, <1>11 DEF LaidOut
<1>13. QED
  BY <1>1, <1>12

\* A move leads to another state.
LEMMA MovesElsewhere ==
  ASSUME NEW s \in JobState, NEW a \in APPROVAL_PAUSABLE \union {NONE},
         NEW to \in reachable_from(s, a)
  PROVE  to # s
  BY DEF reachable_from, TRANSITIONS, CrossCuttingExits, Progression, TERMINAL,
         JobState, APPROVAL_PAUSABLE, FAILABLE, TIMEOUTABLE

StoryInv == TrailInv /\ ExplainInv /\ Layout

\* A transition lays its records out after the others.
LEMMA MovedLaysOut ==
  ASSUME StoryInv, Moved
  PROVE  Layout'
<1>1. PICK j \in Jobs, to \in JobState, record \in Decision \union {NONE}, at \in Nat :
        Moving(j, to, record, at)
  BY DEF Moved
<1>2. TypeOK /\ constructed(j) /\ state[j] \notin TERMINAL /\ move(j, to, record, at)
  BY <1>1 DEF Moving, StoryInv, TrailInv, LockInv
<1>3. PICK k, new, old, h, entry :
        /\ k = (IF record = NONE THEN 1 ELSE 2)
        /\ new = emitted(j, to, record, at) /\ old = events[j] /\ h = history[j]
        /\ entry = [from |-> state[j], to |-> to, at |-> at,
                    decision_id |-> IF record = NONE THEN NONE ELSE record.decision_id,
                    event |-> Len(events[j]) + (IF record = NONE THEN 1 ELSE 2)]
  OBVIOUS
<1>4. /\ state'[j] = to /\ history'[j] = Append(h, entry) /\ events'[j] = old \o new
      /\ \A i \in Jobs \ {j} :
           /\ state'[i] = state[i] /\ history'[i] = history[i] /\ events'[i] = events[i]
           /\ ident'[i] = ident[i]
  BY <1>2, <1>3 DEF move, TypeOK
<1>5. Tailed(new, k) /\ (to \notin TERMINAL => Len(new) = k)
  BY <1>2, <1>3, EmittedTail
<1>6. state[j] # to
  <2>1. to \in reachable_from(state[j], awaiting_from[j]) /\ state[j] \in JobState
    BY <1>1, <1>2 DEF Moving, TypeOK
  <2>2. awaiting_from[j] \in APPROVAL_PAUSABLE \union {NONE}
    BY AddressIsPausable DEF StoryInv, TrailInv
  <2>3. QED BY <2>1, <2>2, MovesElsewhere
<1>7. /\ old \in Seq(Event) /\ h \in Seq(TransitionRecord) /\ new \in Seq(Event) /\ old # <<>>
      /\ k \in {1, 2}
  <2>1. old # <<>>
    BY <1>2, <1>3 DEF StoryInv, Layout
  <2>2. QED BY <1>2, <1>3, <1>5, <2>1 DEF TypeOK, Tailed
<1>8. /\ entry.from # entry.to /\ entry.event = Len(old) + k /\ Size(entry) = k
  <2>1. entry.decision_id = NONE <=> record = NONE
    BY <1>3, JobAssumption DEF Decision
  <2>2. QED BY <1>3, <1>6, <2>1 DEF Size
<1>9. entry \in TransitionRecord
  <2>1. (IF record = NONE THEN NONE ELSE record.decision_id) \in DecisionId \union {NONE}
    BY DEF Decision
  <2>2. Len(events[j]) + (IF record = NONE THEN 1 ELSE 2) \in Nat
    BY <1>2 DEF TypeOK
  <2>3. QED
    BY <1>2, <1>3, <2>1, <2>2 DEF TransitionRecord, TypeOK
<1>10. LaidOut(old, h, state[j])
  BY <1>3 DEF StoryInv, Layout
<1>11. LaidOut(old \o new, Append(h, entry), to)
  BY <1>2, <1>5, <1>7, <1>8, <1>9, <1>10, LaidOutMoved
<1>12. ASSUME NEW i \in Jobs
       PROVE  LaidOut(events'[i], history'[i], state'[i]) /\ (constructed(i)' => events'[i] # <<>>)
  <2>1. CASE i = j
    <3>1. old \o new # <<>>
      BY <1>7
    <3>2. QED BY <1>4, <1>11, <2>1, <3>1
  <2>2. CASE i # j
    <3>1. LaidOut(events[i], history[i], state[i]) /\ (constructed(i) => events[i] # <<>>)
      BY DEF StoryInv, Layout
    <3>2. QED BY <1>4, <2>2, <3>1 DEF constructed
  <2>3. QED BY <2>1, <2>2
<1>13. QED
  BY <1>12 DEF Layout

\* So are a trail of one creation record and one of none.
LEMMA CreatedLaidOut ==
  ASSUME NEW e, e.kind = "JOB_CREATED"
  PROVE  LaidOut(<<e>>, <<>>, "DRAFT") /\ LaidOut(<<>>, <<>>, "DRAFT")
<1>1. /\ Len(<<>>) = 0 /\ DOMAIN <<>> = {} /\ Len(<<e>>) = 1 /\ <<e>>[1] = e
      /\ DOMAIN <<e>> = {1}
  OBVIOUS
<1>2. Before(<<>>, Len(<<>>) + 1) = 1
  BY <1>1 DEF Before
<1>3. LaidOut(<<e>>, <<>>, "DRAFT")
  BY <1>1, <1>2 DEF LaidOut
<1>4. LaidOut(<<>>, <<>>, "DRAFT")
  BY <1>1, <1>2 DEF LaidOut
<1>5. QED BY <1>3, <1>4

\* Every step keeps the story.
LEMMA NextStory ==
  ASSUME StoryInv, [Next]_vars
  PROVE  StoryInv'
<1>1. TrailInv' /\ ExplainInv'
  BY NextTrail, NextExplains DEF StoryInv
<1>2. CASE Constructs
  <2>1. PICK j \in Jobs, id \in Ids, tenant \in Tenants, workspace \in Workspaces,
             principal \in Principals, supersedes \in Ids \union {NONE} :
          construct(j, id, tenant, workspace, principal, supersedes)
    BY <1>2 DEF Constructs
  <2>2. /\ state'[j] = "DRAFT" /\ history'[j] = <<>>
        /\ events'[j] = <<JobCreated(id, tenant, supersedes)>>
        /\ \A i \in Jobs \ {j} :
             /\ state'[i] = state[i] /\ history'[i] = history[i] /\ events'[i] = events[i]
             /\ ident'[i] = ident[i]
    BY <2>1 DEF construct, StoryInv, TrailInv, LockInv, TypeOK, BlankUntilConstructed
  <2>3. JobCreated(id, tenant, supersedes).kind = "JOB_CREATED"
    BY DEF JobCreated
  <2>4. LaidOut(events'[j], history'[j], state'[j]) /\ events'[j] # <<>>
    BY <2>2, <2>3, CreatedLaidOut
  <2>5. ASSUME NEW i \in Jobs \ {j}
        PROVE  LaidOut(events'[i], history'[i], state'[i])
               /\ (constructed(i)' => events'[i] # <<>>)
    <3>1. LaidOut(events[i], history[i], state[i]) /\ (constructed(i) => events[i] # <<>>)
      BY DEF StoryInv, Layout
    <3>2. QED BY <2>2, <3>1 DEF constructed
  <2>6. Layout'
    BY <2>4, <2>5 DEF Layout
  <2>7. QED
    BY <1>1, <2>6 DEF StoryInv
<1>3. CASE Moved
  BY <1>1, <1>3, MovedLaysOut DEF StoryInv
<1>4. CASE UNCHANGED <<ident, state, decisions, history, events>>
  BY <1>1, <1>4 DEF StoryInv, Layout, constructed
<1>5. QED
  BY <1>2, <1>3, <1>4, Steps DEF StoryInv, TrailInv, LockInv, Tick, vars

\* No record is out of its place at the start.
LEMMA InitStory == Init => StoryInv
<1> SUFFICES ASSUME Init PROVE StoryInv
  OBVIOUS
<1>1. \A j \in Jobs : state[j] = "DRAFT" /\ history[j] = <<>> /\ events[j] = <<>>
                       /\ ~constructed(j)
  BY DEF Init, constructed
<1>2. PICK e : e.kind = "JOB_CREATED"
  <2>1. [kind |-> "JOB_CREATED"].kind = "JOB_CREATED"
    OBVIOUS
  <2>2. QED BY <2>1
<1>3. Layout
  BY <1>1, <1>2, CreatedLaidOut DEF Layout
<1>4. QED
  BY <1>3, InitTrail, InitLock, InitExplains DEF StoryInv, ExplainInv

-----------------------------------------------------------------------------
(* A settled trail that was damaged is refused.                            *)

\* A trail closed by its last record, and by no other, which counts it; its last
\* move, at m, settled the job.
Closed(trail, m) ==
  /\ trail \in Seq(Event) /\ m \in DOMAIN trail
  /\ Len(trail) \in DOMAIN trail /\ trail[Len(trail)].event_count = Len(trail)
  /\ \A n \in DOMAIN trail : trail[n].kind = "JOB_SETTLED" <=> n = Len(trail)
  /\ trail[m].kind = "STATE_TRANSITION" /\ trail[m].to \in TERMINAL
  /\ \A n \in DOMAIN trail : n > m => trail[n].kind # "STATE_TRANSITION"

\* A settled trail is closed after its last move.
LEMMA SettledIsClosed ==
  ASSUME StoryInv, NEW j \in Jobs, Settled(j)
  PROVE  Closed(events[j], Last(history[j]).event)
<1>1. PICK trail, h, l, m : trail = events[j] /\ h = history[j] /\ l = Len(trail)
                            /\ m = Last(h).event
  OBVIOUS
<1>2. /\ trail \in Seq(Event) /\ h \in Seq(TransitionRecord) /\ l \in Nat /\ DOMAIN trail = 1 .. l
      /\ Len(h) \in Nat /\ DOMAIN h = 1 .. Len(h)
  <2>1. trail \in Seq(Event) /\ h \in Seq(TransitionRecord)
    BY <1>1 DEF StoryInv, TrailInv, LockInv, TypeOK
  <2>2. QED BY <1>1, <2>1
<1>3. /\ {n \in DOMAIN trail : trail[n].kind = "JOB_SETTLED"} = {l}
      /\ trail[l].event_count = l
  BY <1>1 DEF StoryInv, TrailInv, TrailClosed, recorded, Settled
<1>4. state[j] = IF h = <<>> THEN "DRAFT" ELSE Last(h).to
  BY <1>1 DEF StoryInv, ExplainInv, TrailExplainsState
<1>5. h # <<>> /\ Last(h).to \in TERMINAL
  BY <1>4 DEF Settled, TERMINAL
<1>6. PICK i : i = Len(h) /\ i \in DOMAIN h /\ Last(h) = h[i]
  BY <1>2, <1>5 DEF Last
<1>7. /\ m \in DOMAIN trail
      /\ trail[m] = StateTransition(ident[j].job_id, ident[j].tenant_id,
                                    h[i].from, h[i].to, h[i].at)
  BY <1>1, <1>6 DEF StoryInv, ExplainInv, TrailExplainsState, PointsIn
<1>8. trail[m].kind = "STATE_TRANSITION" /\ trail[m].to \in TERMINAL
  BY <1>5, <1>6, <1>7 DEF StateTransition
<1>9. Before(h, Len(h) + 1) = m
  <2>1. i + 1 # 1 /\ (i + 1) - 1 = i
    BY <1>2, <1>6
  <2>2. QED BY <1>1, <1>6, <2>1 DEF Before
<1>10. ASSUME NEW n \in DOMAIN trail, n > m
       PROVE  trail[n].kind # "STATE_TRANSITION"
  <2>1. LaidOut(trail, h, state[j])
    BY <1>1 DEF StoryInv, Layout
  <2>2. trail[n].kind \in {"JOB_COMPLETED", "JOB_SETTLED"}
    BY <1>9, <1>10, <2>1 DEF LaidOut
  <2>3. QED BY <2>2
<1>11. l \in DOMAIN trail /\ \A n \in DOMAIN trail : trail[n].kind = "JOB_SETTLED" <=> n = l
  BY <1>3
<1>12. Closed(trail, m)
  BY <1>1, <1>2, <1>3, <1>7, <1>8, <1>10, <1>11 DEF Closed
<1>13. QED
  BY <1>1, <1>12

\* A closed trail that lost a run of its records.
LEMMA GapInClosed ==
  ASSUME NEW trail, NEW m, Closed(trail, m), NEW from \in DOMAIN trail,
         NEW to \in from .. Len(trail), to < Len(trail) \/ from > m
  PROVE  Refused(without(trail, from, to))
<1>1. PICK left, d, l : left = without(trail, from, to) /\ d = to - from + 1 /\ l = Len(trail)
  OBVIOUS
<1>2. /\ trail \in Seq(Event) /\ l \in Nat /\ DOMAIN trail = 1 .. l /\ m \in 1 .. l
      /\ from \in 1 .. l /\ to \in from .. l /\ d \in Nat /\ d >= 1
  BY <1>1 DEF Closed
<1>3. /\ left \in Seq(Event) /\ Len(left) = l - d
      /\ \A n \in 1 .. from - 1 : left[n] = trail[n]
      /\ \A n \in from .. Len(left) : left[n] = trail[n + d]
  BY <1>1, <1>2, WhatIsLeft
<1>4. DOMAIN left = 1 .. l - d /\ l - d \in Nat
  BY <1>3
<1>5. /\ trail[l].event_count = l
      /\ \A n \in 1 .. l : trail[n].kind = "JOB_SETTLED" <=> n = l
  BY <1>1, <1>2 DEF Closed
<1>6. CASE to < l
  <2>1. l - d \in from .. Len(left) /\ (l - d) + d = l /\ l - d \in DOMAIN left
    BY <1>1, <1>2, <1>3, <1>4, <1>6
  <2>2. left[l - d].kind = "JOB_SETTLED"
    BY <1>2, <1>3, <1>5, <2>1
  <2>3. ASSUME NEW n \in DOMAIN left, left[n].kind = "JOB_SETTLED"
        PROVE  left[n].event_count # Len(left)
    <3>1. CASE n \in 1 .. from - 1
      <4>1. n \in 1 .. l /\ n # l /\ left[n] = trail[n]
        BY <1>2, <1>3, <3>1
      <4>2. QED BY <1>5, <2>3, <4>1
    <3>2. CASE n \notin 1 .. from - 1
      <4>1. n \in from .. Len(left) /\ n + d \in 1 .. l
        BY <1>2, <1>3, <1>4, <3>2
      <4>2. left[n] = trail[l]
        BY <1>3, <1>5, <2>3, <4>1
      <4>3. Len(left) # l
        BY <1>2, <1>3
      <4>4. QED BY <1>5, <4>2, <4>3
    <3>3. QED BY <3>1, <3>2
  <2>4. Refused(left)
    BY <1>3, <2>1, <2>2, <2>3, MiscountedIsRefused
  <2>5. QED BY <1>1, <2>4
<1>7. CASE to = l
  <2>1. from > m /\ l - d = from - 1
    BY <1>1, <1>2, <1>7
  <2>2. \A n \in DOMAIN left : left[n] = trail[n] /\ n \in 1 .. l /\ n # l
    BY <1>2, <1>3, <1>4, <2>1
  <2>3. m \in DOMAIN left
    BY <1>2, <1>4, <2>1
  <2>4. left[m].kind = "STATE_TRANSITION" /\ left[m].to \in TERMINAL
    BY <2>2, <2>3 DEF Closed
  <2>5. \A n \in DOMAIN left : left[n].kind # "JOB_SETTLED"
    BY <1>5, <2>2
  <2>6. ASSUME NEW n \in m + 1 .. Len(left)
        PROVE  left[n].kind # "STATE_TRANSITION"
    <3>1. n \in DOMAIN left /\ n > m
      BY <1>2, <1>3, <1>4
    <3>2. left[n] = trail[n] /\ n \in DOMAIN trail
      BY <1>2, <2>2, <3>1
    <3>3. QED BY <3>1, <3>2 DEF Closed
  <2>7. Refused(left)
    BY <1>3, <2>3, <2>4, <2>5, <2>6, UnclosedIsRefused
  <2>8. QED BY <1>1, <2>7
<1>8. QED
  BY <1>1, <1>2, <1>6, <1>7

\* A closed trail that holds a record twice.
LEMMA RepeatInClosed ==
  ASSUME NEW trail, NEW m, Closed(trail, m), NEW n \in DOMAIN trail,
         NEW at \in 1 .. Len(trail) + 1
  PROVE  Refused(repeated(trail, n, at))
<1>1. PICK long, a, b, e, l :
        /\ long = repeated(trail, n, at) /\ e = trail[n] /\ l = Len(trail)
        /\ a = SubSeq(trail, 1, at - 1) /\ b = SubSeq(trail, at, Len(trail))
  OBVIOUS
<1>2. /\ trail \in Seq(Event) /\ l \in Nat /\ DOMAIN trail = 1 .. l /\ e \in Event
      /\ at \in Nat /\ at - 1 \in Nat /\ at - 1 <= l /\ at <= l + 1 /\ 1 <= at
  BY <1>1 DEF Closed
<1>3. /\ trail[l].event_count = l /\ l \in 1 .. l
      /\ \A i \in 1 .. l : trail[i].kind = "JOB_SETTLED" <=> i = l
  BY <1>1, <1>2 DEF Closed
<1>4. /\ a \in Seq(Event) /\ Len(a) = at - 1
      /\ \A i \in 1 .. at - 1 : a[i] = trail[i]
  BY <1>1, <1>2
<1>5. /\ b \in Seq(Event) /\ Len(b) = l + 1 - at
      /\ \A i \in 1 .. l + 1 - at : b[i] = trail[at - 1 + i]
  BY <1>1, <1>2, RunOfRecords
<1>6. PICK c : c = a \o <<e>>
  OBVIOUS
<1>7. /\ c \in Seq(Event) /\ Len(c) = at
      /\ \A i \in 1 .. at - 1 : c[i] = a[i]
      /\ c[at] = e
  <2>1. c = Append(a, e)
    BY <1>2, <1>4, <1>6, AppendBehind
  <2>2. QED BY <1>2, <1>4, <2>1
<1>8. long = c \o b
  BY <1>1, <1>6 DEF repeated, InsertAt
<1>9. /\ long \in Seq(Event) /\ Len(long) = l + 1
      /\ \A i \in 1 .. at : long[i] = c[i]
      /\ \A i \in 1 .. l + 1 - at : long[at + i] = b[i]
  <2>1. /\ long \in Seq(Event) /\ Len(long) = Len(c) + Len(b)
        /\ \A i \in 1 .. Len(c) : long[i] = c[i]
        /\ \A i \in 1 .. Len(b) : long[Len(c) + i] = b[i]
    <3>1. c \in Seq(Event) /\ b \in Seq(Event)
      BY <1>5, <1>7
    <3>2. QED BY <1>8, <3>1, Concatenated
  <2>2. Len(c) = at /\ Len(b) = l + 1 - at /\ at + (l + 1 - at) = l + 1
    BY <1>2, <1>5, <1>7
  <2>3. QED BY <2>1, <2>2
<1>10. ASSUME NEW i \in 1 .. l + 1
       PROVE  \E k \in 1 .. l : long[i] = trail[k]
  <2>1. CASE i \in 1 .. at - 1
    BY <1>2, <1>4, <1>7, <1>9, <2>1
  <2>2. CASE i = at
    BY <1>1, <1>2, <1>7, <1>9, <2>2
  <2>3. CASE i > at
    <3>1. i - at \in 1 .. l + 1 - at /\ at + (i - at) = i /\ at - 1 + (i - at) \in 1 .. l
      BY <1>2, <2>3
    <3>2. QED BY <1>5, <1>9, <3>1
  <2>4. QED BY <1>2, <2>1, <2>2, <2>3
<1>11. \E i \in 1 .. l + 1 : long[i] = trail[l]
  <2>1. CASE at = l + 1
    <3>1. l \in 1 .. at - 1 /\ l \in 1 .. at /\ l \in 1 .. l + 1
      BY <1>2, <1>3, <2>1
    <3>2. QED BY <1>4, <1>7, <1>9, <3>1
  <2>2. CASE at # l + 1
    <3>1. l + 1 - at \in 1 .. l + 1 - at /\ at + (l + 1 - at) = l + 1 /\ at - 1 + (l + 1 - at) = l
          /\ l + 1 \in 1 .. l + 1
      BY <1>2, <2>2
    <3>2. QED BY <1>5, <1>9, <3>1
  <2>3. QED BY <2>1, <2>2
<1>12. DOMAIN long = 1 .. l + 1
  BY <1>2, <1>9
<1>13. ASSUME NEW i \in DOMAIN long, long[i].kind = "JOB_SETTLED"
       PROVE  long[i].event_count # Len(long)
  <2>1. PICK k \in 1 .. l : long[i] = trail[k]
    BY <1>10, <1>12
  <2>2. long[i] = trail[l]
    BY <1>3, <1>13, <2>1
  <2>3. l # l + 1
    BY <1>2
  <2>4. QED BY <1>3, <1>9, <2>2, <2>3
<1>14. Refused(long)
  <2>1. PICK i \in DOMAIN long : long[i].kind = "JOB_SETTLED"
    BY <1>3, <1>11, <1>12
  <2>2. QED BY <1>9, <1>13, <2>1, MiscountedIsRefused
<1>15. QED BY <1>1, <1>14

\* The engine only ever writes stories.
LEMMA StoryInvariant == Spec => []StoryInv
  BY InitStory, NextStory, PTL DEF Spec

\* Whatever run of its records a settled trail lost, it does not replay, as long
\* as its closing record or the move that settled the job is still there.
THEOREM LossesShow == Spec => []SettledGapRefused
<1>1. ASSUME StoryInv PROVE SettledGapRefused
  BY <1>1, SettledIsClosed, GapInClosed DEF SettledGapRefused, Refused
<1>2. QED
  BY <1>1, StoryInvariant, PTL

\* Whichever of its records a settled trail holds twice, and wherever the second
\* copy stands, it does not replay.
THEOREM RepeatsShow == Spec => []SettledRepeatRefused
<1>1. ASSUME StoryInv PROVE SettledRepeatRefused
  BY <1>1, SettledIsClosed, RepeatInClosed DEF SettledRepeatRefused, Refused
<1>2. QED
  BY <1>1, StoryInvariant, PTL

-----------------------------------------------------------------------------
(* An open trail that lost a record, its last excepted, is refused.        *)

\* What an entry of the history says of the trail, and where.
Entered(trail, h, i) ==
  /\ h[i].event \in DOMAIN trail
  /\ h[i].event = Before(h, i) + Size(h[i])
  /\ trail[h[i].event].kind = "STATE_TRANSITION"
  /\ trail[h[i].event].from = h[i].from /\ trail[h[i].event].to = h[i].to
  /\ h[i].from = IF i = 1 THEN "DRAFT" ELSE h[i - 1].to
  /\ h[i].from # h[i].to
  /\ h[i].decision_id = NONE <=> decision_for_edge(h[i].from, h[i].to) = NONE
  /\ h[i].decision_id # NONE => trail[h[i].event - 1].kind = "GOVERNANCE_DECISION"

\* A trail and the history it tells.
Story(trail, h) ==
  /\ trail \in Seq(Event) /\ h \in Seq(TransitionRecord)
  /\ trail # <<>> => trail[1].kind = "JOB_CREATED"
  /\ \A i \in DOMAIN h : Entered(trail, h, i)
  /\ \A n \in DOMAIN trail :
       \/ n = 1
       \/ \E i \in DOMAIN h : n = h[i].event
       \/ \E i \in DOMAIN h : n = h[i].event - 1 /\ h[i].decision_id # NONE
       \/ n > Before(h, Len(h) + 1)
             /\ trail[n].kind \in {"JOB_COMPLETED", "JOB_SETTLED"}

\* The trail of a job tells its history.
LEMMA EveryTrailIsAStory ==
  ASSUME StoryInv, NEW j \in Jobs
  PROVE  /\ Story(events[j], history[j])
         /\ constructed(j) /\ ~Settled(j) =>
              Len(events[j]) = Before(history[j], Len(history[j]) + 1)
<1>1. PICK trail, h : trail = events[j] /\ h = history[j]
  OBVIOUS
<1>2. trail \in Seq(Event) /\ h \in Seq(TransitionRecord)
  BY <1>1 DEF StoryInv, TrailInv, LockInv, TypeOK
<1>3. LaidOut(trail, h, state[j])
  BY <1>1 DEF StoryInv, Layout
<1>4. ASSUME NEW i \in DOMAIN h
      PROVE  Entered(trail, h, i)
  <2>1. /\ h[i].from = IF i = 1 THEN "DRAFT" ELSE h[i - 1].to
        /\ trail[h[i].event] = StateTransition(ident[j].job_id, ident[j].tenant_id,
                                               h[i].from, h[i].to, h[i].at)
        /\ h[i].decision_id = NONE <=> decision_for_edge(h[i].from, h[i].to) = NONE
        /\ h[i].decision_id # NONE => trail[h[i].event - 1].kind = "GOVERNANCE_DECISION"
    BY <1>1 DEF StoryInv, ExplainInv, TrailExplainsState
  <2>2. h[i].event \in DOMAIN trail
    BY <1>1 DEF StoryInv, ExplainInv, PointsIn
  <2>3. h[i].event = Before(h, i) + Size(h[i]) /\ h[i].from # h[i].to
    BY <1>3 DEF LaidOut
  <2>4. /\ trail[h[i].event].kind = "STATE_TRANSITION"
        /\ trail[h[i].event].from = h[i].from /\ trail[h[i].event].to = h[i].to
    BY <2>1 DEF StateTransition
  <2>5. QED BY <2>1, <2>2, <2>3, <2>4 DEF Entered
<1>5. Story(trail, h)
  BY <1>2, <1>3, <1>4 DEF Story, LaidOut
<1>6. constructed(j) /\ ~Settled(j) => Len(trail) = Before(h, Len(h) + 1)
  BY <1>1, <1>3 DEF StoryInv, Layout, LaidOut, Settled
<1>7. QED BY <1>1, <1>5, <1>6

\* The positions of an entry's records.
LEMMA EntryStands ==
  ASSUME NEW trail, NEW h, Story(trail, h), NEW i \in DOMAIN h
  PROVE  /\ Len(trail) \in Nat /\ DOMAIN trail = 1 .. Len(trail)
         /\ Len(h) \in Nat /\ DOMAIN h = 1 .. Len(h)
         /\ Before(h, i) \in Nat /\ Before(h, i) >= 1 /\ Before(h, i) < Len(trail)
         /\ Before(h, i + 1) = h[i].event
         /\ h[i].event \in Nat /\ h[i].event <= Len(trail)
         /\ h[i].event = IF h[i].decision_id = NONE THEN Before(h, i) + 1 ELSE Before(h, i) + 2
<1>1. /\ Len(trail) \in Nat /\ DOMAIN trail = 1 .. Len(trail)
      /\ Len(h) \in Nat /\ DOMAIN h = 1 .. Len(h)
  BY DEF Story
<1>2. h[i].event \in 1 .. Len(trail) /\ h[i].event = Before(h, i) + Size(h[i])
  BY <1>1 DEF Story, Entered
<1>3. Before(h, i) \in Nat /\ Before(h, i) >= 1
  <2>1. CASE i = 1
    BY <2>1 DEF Before
  <2>2. CASE i # 1
    <3>1. i - 1 \in DOMAIN h
      BY <1>1, <2>2
    <3>2. h[i - 1].event \in 1 .. Len(trail)
      BY <1>1, <3>1 DEF Story, Entered
    <3>3. QED BY <1>1, <2>2, <3>2 DEF Before
  <2>3. QED BY <2>1, <2>2
<1>4. Before(h, i + 1) = h[i].event
  <2>1. i + 1 # 1 /\ (i + 1) - 1 = i
    BY <1>1
  <2>2. QED BY <2>1 DEF Before
<1>5. h[i].event = IF h[i].decision_id = NONE THEN Before(h, i) + 1 ELSE Before(h, i) + 2
  BY <1>2 DEF Size
<1>6. Before(h, i) < Len(trail)
  BY <1>1, <1>2, <1>3, <1>5
<1>7. QED
  BY <1>1, <1>2, <1>3, <1>4, <1>5, <1>6

\* A reader between two entries is in the state the first led to, and holds no
\* verdict that is still to be followed.
AtRest(r, h, i) ==
  /\ r.state = IF i = 1 THEN "DRAFT" ELSE h[i - 1].to
  /\ r.pending = NONE

\* As far as what was read is the story.
LEMMA RestBetweenEntries ==
  ASSUME NEW trail, NEW h, Story(trail, h),
         NEW read \in Seq(Event), ToldThroughout(read),
         NEW m \in Nat, m <= Len(read), \A n \in 1 .. m : read[n] = trail[n],
         NEW i \in 1 .. Len(h) + 1, Before(h, i) <= m
  PROVE  AtRest(readings(read)[Before(h, i)], h, i)
<1> DEFINE r == readings(read)
           S == {l \in Nat : l <= Len(h) + 1 /\ Before(h, l) <= m => AtRest(r[Before(h, l)], h, l)}
<1> HIDE DEF r
<1>1. Len(h) \in Nat /\ DOMAIN h = 1 .. Len(h) /\ Len(read) \in Nat
  BY DEF Story
<1>2. 1 \in S
  <2>1. Before(h, 1) = 1
    BY DEF Before
  <2>2. r[1] = started(read[1])
    BY DEF ToldThroughout, r
  <2>3. AtRest(r[1], h, 1)
    BY <2>2 DEF AtRest, started
  <2>4. QED BY <2>1, <2>3
<1>3. ASSUME NEW l \in Nat, l >= 1, l \in S
      PROVE  l + 1 \in S
  <2> SUFFICES ASSUME l + 1 <= Len(h) + 1, Before(h, l + 1) <= m
               PROVE  AtRest(r[Before(h, l + 1)], h, l + 1)
    OBVIOUS
  <2>1. l \in DOMAIN h /\ l <= Len(h) + 1 /\ l + 1 # 1 /\ (l + 1) - 1 = l
    BY <1>1, <1>3
  <2>2. PICK p, q, x : p = h[l].event /\ q = Before(h, l) /\ x = h[l]
    OBVIOUS
  <2>3. /\ q \in Nat /\ q >= 1 /\ Before(h, l + 1) = p
        /\ p = IF x.decision_id = NONE THEN q + 1 ELSE q + 2
    BY <2>1, <2>2, EntryStands
  <2>4. q <= m /\ p <= m /\ q <= Len(read) /\ p <= Len(read) /\ p \in 2 .. Len(read)
    BY <1>1, <2>3
  <2>5. AtRest(r[q], h, l)
    BY <1>3, <2>1, <2>2, <2>4
  <2>6. Entered(trail, h, l)
    BY <2>1 DEF Story
  <2>7. r[q].state = x.from /\ r[q].pending = NONE
    BY <2>2, <2>5, <2>6 DEF Entered, AtRest
  <2>8. /\ read[p].kind = "STATE_TRANSITION" /\ read[p].to = x.to
        /\ x.decision_id = NONE <=> decision_for_edge(x.from, x.to) = NONE
    <3>1. read[p] = trail[p]
      BY <2>3, <2>4
    <3>2. QED BY <2>2, <2>6, <3>1 DEF Entered
  <2>9. \A n \in 2 .. Len(read) : Told(r[n - 1], read[n], r[n])
    BY DEF ToldThroughout, r
  <2>10. r[p].state = x.to
    BY <2>4, <2>8, <2>9 DEF Told
  <2>11. r[p].pending = NONE
    <3>1. CASE x.decision_id = NONE
      <4>1. p - 1 = q /\ decision_for_edge(x.from, x.to) = NONE
        BY <2>3, <2>8, <3>1
      <4>2. Told(r[q], read[p], r[p])
        BY <2>4, <2>9, <4>1
      <4>3. QED BY <2>7, <2>8, <4>1, <4>2 DEF Told, decided
    <3>2. CASE x.decision_id # NONE
      <4>1. p - 1 = q + 1 /\ q + 1 \in 2 .. Len(read) /\ (q + 1) - 1 = q /\ q + 1 \in 1 .. m
        BY <2>3, <2>4, <3>2
      <4>2. read[q + 1].kind = "GOVERNANCE_DECISION"
        <5>1. read[q + 1] = trail[p - 1]
          BY <4>1
        <5>2. QED BY <2>2, <2>6, <3>2, <5>1 DEF Entered
      <4>3. Told(r[q], read[q + 1], r[q + 1]) /\ Told(r[q + 1], read[p], r[p])
        BY <2>4, <2>9, <4>1
      <4>4. r[q + 1].state = x.from
        BY <2>7, <4>2, <4>3 DEF Told
      <4>5. decided(r[q + 1].state, read[p].to) # NONE
        BY <2>8, <3>2, <4>4 DEF decided
      <4>6. QED BY <2>8, <4>3, <4>5 DEF Told
    <3>3. QED BY <3>1, <3>2
  <2>12. AtRest(r[p], h, l + 1)
    BY <2>1, <2>2, <2>10, <2>11 DEF AtRest
  <2>13. QED BY <2>3, <2>12
<1> HIDE DEF S
<1>4. i \in S
  <2>1. \A n \in Nat : n >= 1 => n \in S
    BY <1>2, <1>3, Counting
  <2>2. QED BY <1>1, <2>1
<1>5. QED
  BY <1>1, <1>4 DEF S, r

\* Just before a move is read, the reader is in the state it leaves.
LEMMA BeforeTheMove ==
  ASSUME NEW trail, NEW h, Story(trail, h), NEW i \in DOMAIN h,
         NEW read \in Seq(Event), ToldThroughout(read),
         h[i].event - 1 <= Len(read),
         \A n \in 1 .. h[i].event - 1 : read[n] = trail[n]
  PROVE  readings(read)[h[i].event - 1].state = h[i].from
<1>1. PICK p, q, x, r, m :
        p = h[i].event /\ q = Before(h, i) /\ x = h[i] /\ r = readings(read) /\ m = p - 1
  OBVIOUS
<1>2. /\ q \in Nat /\ q >= 1 /\ p \in Nat /\ Len(read) \in Nat
      /\ p = (IF x.decision_id = NONE THEN q + 1 ELSE q + 2)
      /\ Len(h) \in Nat /\ i \in 1 .. Len(h) /\ i \in 1 .. Len(h) + 1
  <2>1. /\ Before(h, i) \in Nat /\ Before(h, i) >= 1 /\ h[i].event \in Nat
        /\ h[i].event = IF h[i].decision_id = NONE THEN Before(h, i) + 1 ELSE Before(h, i) + 2
        /\ Len(h) \in Nat /\ DOMAIN h = 1 .. Len(h)
    BY EntryStands
  <2>2. i \in 1 .. Len(h) /\ i \in 1 .. Len(h) + 1 /\ Len(read) \in Nat
    BY <2>1
  <2>3. QED BY <1>1, <2>1, <2>2
<1>3. m \in Nat /\ q <= m /\ m <= Len(read) /\ \A n \in 1 .. m : read[n] = trail[n]
  BY <1>1, <1>2
<1>4. AtRest(r[q], h, i)
  BY <1>1, <1>2, <1>3, RestBetweenEntries
<1>5. Entered(trail, h, i)
  BY DEF Story
<1>6. r[q].state = x.from
  BY <1>1, <1>4, <1>5 DEF AtRest, Entered
<1>7. CASE x.decision_id = NONE
  <2>1. p - 1 = q
    BY <1>2, <1>7
  <2>2. QED BY <1>1, <1>6, <2>1
<1>8. CASE x.decision_id # NONE
  <2>1. p - 1 = q + 1 /\ q + 1 \in 2 .. Len(read) /\ (q + 1) - 1 = q /\ q + 1 \in 1 .. m
    BY <1>1, <1>2, <1>3, <1>8
  <2>2. read[q + 1].kind = "GOVERNANCE_DECISION"
    <3>1. read[q + 1] = trail[p - 1]
      BY <1>3, <2>1
    <3>2. QED BY <1>1, <1>5, <1>8, <3>1 DEF Entered
  <2>3. Told(r[q], read[q + 1], r[q + 1])
    BY <1>1, <2>1 DEF ToldThroughout
  <2>4. r[q + 1].state = x.from
    BY <1>6, <2>2, <2>3 DEF Told
  <2>5. QED BY <1>1, <2>1, <2>4
<1>9. QED BY <1>7, <1>8

\* A story without one of its records, which is not the last move or behind it.
LEMMA GapInOpen ==
  ASSUME NEW trail, NEW h, Story(trail, h), Len(trail) = Before(h, Len(h) + 1),
         NEW n \in 1 .. Len(trail) - 1
  PROVE  Refused(without(trail, n, n))
<1>1. PICK left, l : left = without(trail, n, n) /\ l = Len(trail)
  OBVIOUS
<1>2. SUFFICES ASSUME ~Refused(left) PROVE FALSE
  BY <1>1
<1>3. /\ trail \in Seq(Event) /\ l \in Nat /\ DOMAIN trail = 1 .. l /\ n \in Nat /\ n >= 1
      /\ n + 1 <= l /\ n \in DOMAIN trail /\ n \in n .. Len(trail) /\ n + 1 \in DOMAIN trail
      /\ h \in Seq(TransitionRecord) /\ Len(h) \in Nat /\ DOMAIN h = 1 .. Len(h)
  <2>1. trail \in Seq(Event) /\ h \in Seq(TransitionRecord)
    BY DEF Story
  <2>2. QED BY <1>1, <2>1
<1>4. /\ left \in Seq(Event) /\ Len(left) = l - 1
      /\ \A k \in 1 .. n - 1 : left[k] = trail[k]
      /\ \A k \in n .. l - 1 : left[k] = trail[k + 1]
  <2>1. n - n + 1 = 1
    BY <1>3
  <2>2. /\ left \in Seq(Event) /\ Len(left) = Len(trail) - (n - n + 1)
        /\ \A k \in 1 .. n - 1 : left[k] = trail[k]
        /\ \A k \in n .. Len(left) : left[k] = trail[k + (n - n + 1)]
    BY <1>1, <1>3, WhatIsLeft
  <2>3. QED BY <1>1, <2>1, <2>2
<1>5. left # <<>> /\ left[1].kind = "JOB_CREATED" /\ ToldThroughout(left)
  BY <1>2, <1>4, OnlyIfBelieved, BelievedThroughout
<1>6. \/ n = 1
      \/ \E i \in DOMAIN h : n = h[i].event
      \/ \E i \in DOMAIN h : n = h[i].event - 1 /\ h[i].decision_id # NONE
  <2>1. ~(n > Before(h, Len(h) + 1))
    BY <1>1, <1>3
  <2>2. QED BY <1>3, <2>1 DEF Story
<1>7. CASE n = 1
  <2>1. left[1] = trail[2] /\ 2 \in DOMAIN trail
    BY <1>3, <1>4, <1>7
  <2>2. ~(2 > Before(h, Len(h) + 1))
    BY <1>1, <1>3
  <2>3. ASSUME NEW k \in DOMAIN trail, k # 1, ~(k > Before(h, Len(h) + 1))
        PROVE  trail[k].kind \in {"STATE_TRANSITION", "GOVERNANCE_DECISION"}
    <3>1. \/ \E i \in DOMAIN h : k = h[i].event
          \/ \E i \in DOMAIN h : k = h[i].event - 1 /\ h[i].decision_id # NONE
      BY <2>3 DEF Story
    <3>2. QED BY <3>1 DEF Story, Entered
  <2>4. trail[2].kind \in {"STATE_TRANSITION", "GOVERNANCE_DECISION"}
    BY <2>1, <2>2, <2>3
  <2>5. QED BY <1>5, <2>1, <2>4
<1>8. ASSUME NEW i \in DOMAIN h, n = h[i].event, n # 1 PROVE FALSE
  <2>1. PICK p, x, y, r :
          p = h[i + 1].event /\ x = h[i] /\ y = h[i + 1] /\ r = readings(left)
    OBVIOUS
  <2>2. i + 1 \in DOMAIN h /\ i + 1 # 1 /\ (i + 1) - 1 = i
    <3>1. Before(h, i + 1) = n
      BY <1>8, EntryStands
    <3>2. i # Len(h)
      BY <1>1, <1>3, <3>1
    <3>3. QED BY <1>3, <3>2
  <2>3. r[n - 1].state = x.from
    <3>1. n - 1 <= Len(left) /\ \A k \in 1 .. n - 1 : left[k] = trail[k]
      BY <1>3, <1>4
    <3>2. QED BY <1>4, <1>5, <1>8, <2>1, <3>1, BeforeTheMove
  <2>4. /\ p \in Nat /\ p <= l
        /\ p = IF y.decision_id = NONE THEN n + 1 ELSE n + 2
    <3>1. Before(h, i + 1) = n
      BY <1>8, EntryStands
    <3>2. /\ h[i + 1].event \in Nat /\ h[i + 1].event <= Len(trail)
          /\ h[i + 1].event = IF h[i + 1].decision_id = NONE THEN Before(h, i + 1) + 1
                              ELSE Before(h, i + 1) + 2
      BY <2>2, EntryStands
    <3>3. QED BY <1>1, <2>1, <3>1, <3>2
  <2>5. /\ trail[p].kind = "STATE_TRANSITION" /\ trail[p].from = x.to /\ x.from # x.to
        /\ y.decision_id # NONE => trail[p - 1].kind = "GOVERNANCE_DECISION"
    <3>1. Entered(trail, h, i + 1) /\ Entered(trail, h, i)
      BY <2>2 DEF Story
    <3>2. QED BY <2>1, <2>2, <3>1 DEF Entered
  <2>6. \A k \in 2 .. l - 1 : Told(r[k - 1], left[k], r[k])
    BY <1>4, <1>5, <2>1 DEF ToldThroughout
  <2>7. n \in 2 .. l - 1 /\ left[n] = trail[n + 1]
    BY <1>3, <1>4, <1>8
  <2>8. CASE y.decision_id = NONE
    <3>1. left[n] = trail[p]
      BY <2>4, <2>7, <2>8
    <3>2. QED BY <2>3, <2>5, <2>6, <2>7, <3>1 DEF Told
  <2>9. CASE y.decision_id # NONE
    <3>1. /\ p - 1 = n + 1 /\ n + 1 \in 2 .. l - 1 /\ (n + 1) - 1 = n /\ n + 1 \in n .. l - 1
          /\ (n + 1) + 1 = p
      BY <1>3, <2>4, <2>9
    <3>2. left[n].kind = "GOVERNANCE_DECISION"
      BY <2>5, <2>7, <2>9, <3>1
    <3>3. r[n].state = x.from
      BY <2>3, <2>6, <2>7, <3>2 DEF Told
    <3>4. left[n + 1] = trail[p]
      BY <1>4, <3>1
    <3>5. Told(r[n], left[n + 1], r[n + 1])
      BY <2>6, <3>1
    <3>6. QED BY <2>5, <3>3, <3>4, <3>5 DEF Told
  <2>10. QED BY <2>8, <2>9
<1>9. ASSUME NEW i \in DOMAIN h, n = h[i].event - 1, h[i].decision_id # NONE PROVE FALSE
  <2>1. PICK q, x, r : q = Before(h, i) /\ x = h[i] /\ r = readings(left)
    OBVIOUS
  <2>2. q \in Nat /\ q >= 1 /\ n = q + 1 /\ x.event = n + 1 /\ i \in 1 .. Len(h) + 1
    <3>1. /\ Before(h, i) \in Nat /\ Before(h, i) >= 1 /\ h[i].event \in Nat
          /\ h[i].event = Before(h, i) + 2
      BY <1>9, EntryStands
    <3>2. QED BY <1>3, <1>9, <2>1, <3>1
  <2>3. AtRest(r[q], h, i)
    <3>1. q <= Len(left) /\ \A k \in 1 .. q : left[k] = trail[k]
      BY <1>3, <1>4, <2>2
    <3>2. Before(h, i) <= q /\ q \in Nat /\ i \in 1 .. Len(h) + 1
      BY <2>1, <2>2
    <3>3. AtRest(readings(left)[Before(h, i)], h, i)
      BY <1>4, <1>5, <3>1, <3>2, RestBetweenEntries
    <3>4. QED BY <2>1, <3>3
  <2>4. Entered(trail, h, i)
    BY DEF Story
  <2>5. r[q].state = x.from /\ r[q].pending = NONE
    BY <2>1, <2>3, <2>4 DEF AtRest, Entered
  <2>6. n \in 2 .. l - 1 /\ left[n] = trail[x.event] /\ n - 1 = q
    BY <1>3, <1>4, <2>2
  <2>7. /\ left[n].kind = "STATE_TRANSITION" /\ left[n].to = x.to
        /\ decision_for_edge(x.from, x.to) # NONE
    BY <1>9, <2>1, <2>4, <2>6 DEF Entered
  <2>8. Told(r[q], left[n], r[n])
    BY <1>4, <1>5, <2>1, <2>6 DEF ToldThroughout
  <2>9. QED BY <2>5, <2>7, <2>8 DEF Told, decided
<1>10. QED
  BY <1>6, <1>7, <1>8, <1>9

\* An open trail vouches for every record but its last.
THEOREM OpenLossesShow == Spec => []OpenGapRefused
<1>1. ASSUME StoryInv PROVE OpenGapRefused
  BY <1>1, EveryTrailIsAStory, GapInOpen DEF OpenGapRefused, Refused
<1>2. QED
  BY <1>1, StoryInvariant, PTL

-----------------------------------------------------------------------------
(* Two neighbouring records that changed places.                           *)

\* A move and a record behind it that is no move: whoever believes them in the
\* wrong order knows the same.  For a verdict that takes that the move itself
\* asks for none.
LEMMA Exchanged ==
  ASSUME NEW before, DOMAIN before = Fields, before.refused = NONE,
         NEW moved, moved.kind = "STATE_TRANSITION",
         NEW e, e.kind \in {"GOVERNANCE_DECISION", "JOB_COMPLETED", "JOB_SETTLED"},
         e.kind = "GOVERNANCE_DECISION" => decided(before.state, moved.to) = NONE,
         NEW early, early = read_on(before, e), early.refused = NONE,
         NEW after, after = read_on(early, moved), after.refused = NONE
  PROVE  after = read_on(read_on(before, moved), e)
<1>1. \A error \in ReplayError : refusal(error).refused # NONE
  BY ReplayAssumption DEF refusal
<1>2. early = read_record(before, e) /\ after = read_record(early, moved)
  BY DEF read_on
<1>3. e.job_id = before.job_id
  BY <1>1, <1>2 DEF read_record, ReplayError
<1>4. PICK decision, ids, done, closing :
        /\ decision = IF e.kind = "GOVERNANCE_DECISION" THEN e.approval ELSE before.pending
        /\ ids = IF e.kind = "GOVERNANCE_DECISION"
                 THEN Append(before.decision_ids, e.approval.decision_id)
                 ELSE before.decision_ids
        /\ done = IF e.kind = "JOB_COMPLETED" THEN TRUE ELSE before.completed
        /\ closing = IF e.kind = "JOB_SETTLED" THEN e ELSE before.closing
  OBVIOUS
<1>5. early = [before EXCEPT !.pending = decision, !.decision_ids = ids,
                             !.completed = done, !.closing = closing]
  <2>1. CASE e.kind = "GOVERNANCE_DECISION"
    <3>1. early = [before EXCEPT !.pending = e.approval,
                                 !.decision_ids = Append(@, e.approval.decision_id)]
      BY <1>2, <1>3, <2>1 DEF read_record
    <3>2. decision = e.approval /\ ids = Append(before.decision_ids, e.approval.decision_id)
          /\ done = before.completed /\ closing = before.closing
      BY <1>4, <2>1
    <3>3. QED BY <3>1, <3>2 DEF Fields
  <2>2. CASE e.kind = "JOB_COMPLETED"
    <3>1. early = [before EXCEPT !.completed = TRUE]
      BY <1>2, <1>3, <2>2 DEF read_record
    <3>2. decision = before.pending /\ ids = before.decision_ids
          /\ done = TRUE /\ closing = before.closing
      BY <1>4, <2>2
    <3>3. QED BY <3>1, <3>2 DEF Fields
  <2>3. CASE e.kind = "JOB_SETTLED"
    <3>1. early = [before EXCEPT !.closing = e]
      BY <1>2, <1>3, <2>3 DEF read_record
    <3>2. decision = before.pending /\ ids = before.decision_ids
          /\ done = before.completed /\ closing = e
      BY <1>4, <2>3
    <3>3. QED BY <3>1, <3>2 DEF Fields
  <2>4. QED BY <2>1, <2>2, <2>3
<1>6. /\ early.job_id = before.job_id /\ early.state = before.state
      /\ early.awaiting_from = before.awaiting_from /\ early.approval = before.approval
      /\ early.history = before.history /\ early.refused = before.refused
      /\ early.pending = decision /\ DOMAIN early = Fields
  BY <1>5 DEF Fields
<1>7. moved.job_id = before.job_id
  BY <1>1, <1>2, <1>6 DEF read_record, ReplayError
<1>8. transition_refusal(early, moved) = NONE /\ after = followed(early, moved)
  <2>1. PICK why : why = transition_refusal(early, moved)
    OBVIOUS
  <2>2. after = IF why = NONE THEN followed(early, moved) ELSE refusal(why)
    BY <1>2, <1>6, <1>7, <2>1 DEF read_record
  <2>3. QED BY <2>1, <2>2 DEF refusal
<1>9. PICK verdict : verdict = decided(before.state, moved.to)
  OBVIOUS
<1>10. verdict = NONE \/ decision = before.pending
  BY <1>4, <1>9
<1>11. /\ approval_read(before, moved) = approval_read(early, moved)
       /\ unaudited_decision(before, moved) = unaudited_decision(early, moved)
  BY <1>6, <1>9, <1>10 DEF approval_read, unaudited_decision
<1>12. transition_refusal(before, moved) = NONE
  BY <1>6, <1>8, <1>11 DEF transition_refusal
<1>13. read_on(before, moved) = followed(before, moved)
  BY <1>7, <1>12 DEF read_on, read_record
<1>14. PICK granted, pending, waits, moves, pend2 :
         /\ granted = approval_read(before, moved)
         /\ pending = IF verdict = NONE THEN before.pending ELSE NONE
         /\ pend2 = IF verdict = NONE THEN decision ELSE NONE
         /\ waits = IF moved.to = "AWAITING_APPROVAL" THEN before.state
                    ELSE IF before.state = "AWAITING_APPROVAL" THEN NONE
                    ELSE before.awaiting_from
         /\ moves = Append(before.history,
              [from |-> moved.from, to |-> moved.to, at |-> moved.occurred_at,
               decision_id |-> IF verdict = NONE THEN NONE ELSE before.pending.decision_id])
  OBVIOUS
<1>15. followed(before, moved) =
         [before EXCEPT !.approval = granted, !.pending = pending, !.awaiting_from = waits,
                        !.history = moves, !.state = moved.to]
  BY <1>9, <1>14 DEF followed, Fields
<1>16. after = [early EXCEPT !.approval = granted, !.pending = pend2, !.awaiting_from = waits,
                             !.history = moves, !.state = moved.to]
  BY <1>6, <1>8, <1>9, <1>10, <1>11, <1>14 DEF followed, Fields
<1>17. after = [before EXCEPT !.approval = granted, !.pending = pend2, !.awaiting_from = waits,
                              !.history = moves, !.state = moved.to, !.decision_ids = ids,
                              !.completed = done, !.closing = closing]
  BY <1>5, <1>16 DEF Fields
<1>18. PICK mid : mid = read_on(before, moved)
  OBVIOUS
<1>19. mid = [before EXCEPT !.approval = granted, !.pending = pending, !.awaiting_from = waits,
                           !.history = moves, !.state = moved.to]
  BY <1>13, <1>15, <1>18
<1>20. /\ mid.refused = NONE /\ mid.job_id = e.job_id /\ mid.decision_ids = before.decision_ids
       /\ mid.completed = before.completed /\ mid.closing = before.closing
  BY <1>3, <1>19 DEF Fields
<1>21. read_on(mid, e) = read_record(mid, e)
  BY <1>20 DEF read_on
<1>22. read_record(mid, e) = [mid EXCEPT !.pending = pend2, !.decision_ids = ids,
                                         !.completed = done, !.closing = closing]
  <2>1. mid.pending = pending /\ DOMAIN mid = Fields
    BY <1>19 DEF Fields
  <2>2. CASE e.kind = "GOVERNANCE_DECISION"
    <3>1. read_record(mid, e) = [mid EXCEPT !.pending = e.approval,
                                            !.decision_ids = Append(@, e.approval.decision_id)]
      BY <1>20, <2>2 DEF read_record
    <3>2. /\ pend2 = e.approval /\ ids = Append(mid.decision_ids, e.approval.decision_id)
          /\ done = mid.completed /\ closing = mid.closing
      BY <1>4, <1>9, <1>14, <1>20, <2>2
    <3>3. QED BY <2>1, <3>1, <3>2 DEF Fields
  <2>3. CASE e.kind = "JOB_COMPLETED"
    <3>1. read_record(mid, e) = [mid EXCEPT !.completed = TRUE]
      BY <1>20, <2>3 DEF read_record
    <3>2. /\ pend2 = mid.pending /\ ids = mid.decision_ids
          /\ done = TRUE /\ closing = mid.closing
      BY <1>4, <1>14, <1>20, <2>1, <2>3
    <3>3. QED BY <2>1, <3>1, <3>2 DEF Fields
  <2>4. CASE e.kind = "JOB_SETTLED"
    <3>1. read_record(mid, e) = [mid EXCEPT !.closing = e]
      BY <1>20, <2>4 DEF read_record
    <3>2. /\ pend2 = mid.pending /\ ids = mid.decision_ids
          /\ done = mid.completed /\ closing = e
      BY <1>4, <1>14, <1>20, <2>1, <2>4
    <3>3. QED BY <2>1, <3>1, <3>2 DEF Fields
  <2>5. QED BY <2>2, <2>3, <2>4
<1>23. after = [mid EXCEPT !.pending = pend2, !.decision_ids = ids,
                           !.completed = done, !.closing = closing]
  BY <1>17, <1>19 DEF Fields
<1>24. QED
  BY <1>18, <1>21, <1>22, <1>23

\* Where two trails are read the same at one record and go on the same, they end
\* the same.
LEMMA SameFromThere ==
  ASSUME NEW s, NEW t, NEW l \in Nat, Len(s) = l, Len(t) = l, NEW m \in 1 .. l,
         readings(s)[m] = readings(t)[m],
         \A n \in m + 1 .. l : s[n] = t[n]
  PROVE  end(s) = end(t)
<1> DEFINE S == {n \in Nat : n <= l => readings(s)[n] = readings(t)[n]}
<1>1. m \in S /\ m \in Nat /\ m >= 1 /\ m <= l
  OBVIOUS
<1>2. ASSUME NEW n \in Nat, n >= m, n \in S
      PROVE  n + 1 \in S
  <2> SUFFICES ASSUME n + 1 <= l
               PROVE  readings(s)[n + 1] = readings(t)[n + 1]
    OBVIOUS
  <2>1. n + 1 \in 2 .. Len(s) /\ n + 1 \in 2 .. Len(t) /\ n + 1 \in m + 1 .. l
        /\ (n + 1) - 1 = n /\ n <= l
    BY <1>1, <1>2
  <2>2. readings(s)[n] = readings(t)[n] /\ s[n + 1] = t[n + 1]
    BY <1>2, <2>1
  <2>3. /\ readings(s)[n + 1] = read_on(readings(s)[n], s[n + 1])
        /\ readings(t)[n + 1] = read_on(readings(t)[n], t[n + 1])
    BY <2>1, ReadingByReading
  <2>4. QED
    BY <2>2, <2>3
<1> HIDE DEF S
<1>3. l \in S
  BY <1>1, <1>2, Counting
<1>4. QED
  BY <1>1, <1>3 DEF end, S

\* Two neighbours, neither of them the first, that a reader believes in either
\* order and knows the same after both.
LEMMA SameEitherWay ==
  ASSUME NEW trail \in Seq(Event), NEW n \in 2 .. Len(trail) - 1,
         NEW other, other = swapped(trail, n),
         readings(other)[n + 1] =
           read_on(read_on(readings(other)[n - 1], trail[n]), trail[n + 1])
  PROVE  replay_job(other) = replay_job(trail)
<1>1. PICK l : l = Len(trail) /\ l \in Nat
  OBVIOUS
<1>2. /\ other \in Seq(Event) /\ Len(other) = l
      /\ \A k \in 1 .. l : k # n /\ k # n + 1 => other[k] = trail[k]
  BY <1>1 DEF swapped
<1>3. n \in Nat /\ n >= 2 /\ n + 1 <= l /\ n - 1 \in Nat /\ n - 1 >= 1 /\ n - 1 <= l
  BY <1>1
<1>4. \A k \in 1 .. n - 1 : other[k] = trail[k]
  BY <1>1, <1>2, <1>3
<1>5. readings(other)[n - 1] = readings(trail)[n - 1]
  <2>1. \A k \in 1 .. n - 1 : readings(other)[k] = readings(trail)[k]
    BY <1>1, <1>2, <1>3, <1>4, SameSoFar
  <2>2. QED BY <1>3, <2>1
<1>6. /\ readings(trail)[n] = read_on(readings(trail)[n - 1], trail[n])
      /\ readings(trail)[n + 1] = read_on(readings(trail)[n], trail[n + 1])
  <2>1. n \in 2 .. Len(trail) /\ n + 1 \in 2 .. Len(trail) /\ (n + 1) - 1 = n
    BY <1>1, <1>3
  <2>2. QED BY <1>1, <2>1, ReadingByReading
<1>7. readings(other)[n + 1] = readings(trail)[n + 1]
  BY <1>5, <1>6
<1>8. \A k \in (n + 1) + 1 .. l : other[k] = trail[k]
  BY <1>1, <1>2, <1>3
<1>9. n + 1 \in 1 .. l
  BY <1>1, <1>3
<1>10. end(other) = end(trail)
  BY <1>1, <1>2, <1>7, <1>8, <1>9, SameFromThere
<1>11. ours(other) = other /\ ours(trail) = trail
  BY <1>2, AllOurs
<1>12. other[1] = trail[1] /\ other # <<>> /\ trail # <<>>
  BY <1>1, <1>2, <1>3, <1>4
<1>13. PICK last, first, why :
         /\ last = end(trail) /\ first = trail[1].kind /\ why = closing_refusal(last, l)
  OBVIOUS
<1>14. replay_job(trail) =
         IF first # "JOB_CREATED" THEN refusal("UnstartedTrail")
         ELSE IF last.refused # NONE THEN last
         ELSE IF why = NONE THEN replayed(last) ELSE refusal(why)
  BY <1>1, <1>11, <1>12, <1>13 DEF replay_job, end
<1>15. replay_job(other) =
         IF first # "JOB_CREATED" THEN refusal("UnstartedTrail")
         ELSE IF last.refused # NONE THEN last
         ELSE IF why = NONE THEN replayed(last) ELSE refusal(why)
  BY <1>2, <1>10, <1>11, <1>12, <1>13 DEF replay_job, end
<1>16. QED
  BY <1>14, <1>15

\* The same of the records behind the last move.
LEMMA ExchangedBehind ==
  ASSUME NEW before, DOMAIN before = Fields, before.refused = NONE,
         NEW done, done.kind = "JOB_COMPLETED",
         NEW e, e.kind \in {"JOB_COMPLETED", "JOB_SETTLED"},
         NEW early, early = read_on(before, e), early.refused = NONE,
         NEW after, after = read_on(early, done), after.refused = NONE
  PROVE  after = read_on(read_on(before, done), e)
<1>1. \A error \in ReplayError : refusal(error).refused # NONE
  BY ReplayAssumption DEF refusal
<1>2. early = read_record(before, e) /\ after = read_record(early, done)
  BY DEF read_on
<1>3. e.job_id = before.job_id
  BY <1>1, <1>2 DEF read_record, ReplayError
<1>4. CASE e.kind = "JOB_COMPLETED"
  <2>1. early = [before EXCEPT !.completed = TRUE]
    BY <1>2, <1>3, <1>4 DEF read_record
  <2>2. early.job_id = before.job_id
    BY <2>1 DEF Fields
  <2>3. done.job_id = before.job_id
    BY <1>1, <1>2, <2>2 DEF read_record, ReplayError
  <2>4. read_on(before, done) = early /\ read_on(early, e) = after
    <3>1. read_on(before, done) = [before EXCEPT !.completed = TRUE]
      BY <2>3 DEF read_on, read_record
    <3>2. read_on(early, e) = [early EXCEPT !.completed = TRUE]
      BY <1>3, <1>4, <2>2 DEF read_on, read_record
    <3>3. after = [early EXCEPT !.completed = TRUE]
      BY <1>2, <2>2, <2>3 DEF read_record
    <3>4. QED BY <2>1, <3>1, <3>2, <3>3
  <2>5. QED BY <2>4
<1>5. CASE e.kind = "JOB_SETTLED"
  <2>1. early = [before EXCEPT !.closing = e]
    BY <1>2, <1>3, <1>5 DEF read_record
  <2>2. early.job_id = before.job_id
    BY <2>1 DEF Fields
  <2>3. done.job_id = before.job_id
    BY <1>1, <1>2, <2>2 DEF read_record, ReplayError
  <2>4. after = [early EXCEPT !.completed = TRUE]
    BY <1>2, <2>2, <2>3 DEF read_record
  <2>5. PICK mid : mid = read_on(before, done)
    OBVIOUS
  <2>6. mid = [before EXCEPT !.completed = TRUE]
    BY <2>3, <2>5 DEF read_on, read_record
  <2>7. mid.refused = NONE /\ mid.job_id = before.job_id
    BY <2>6 DEF Fields
  <2>8. read_on(mid, e) = [mid EXCEPT !.closing = e]
    BY <1>3, <1>5, <2>7 DEF read_on, read_record
  <2>9. after = [mid EXCEPT !.closing = e]
    BY <2>1, <2>4, <2>6 DEF Fields
  <2>10. QED BY <2>5, <2>8, <2>9
<1>6. QED BY <1>4, <1>5

\* What stands behind the last move, and where the closing record does.
Ending(trail, h) ==
  \A n \in DOMAIN trail :
    /\ n > Before(h, Len(h) + 1) => trail[n].kind \in {"JOB_COMPLETED", "JOB_SETTLED"}
    /\ trail[n].kind = "JOB_SETTLED" => n = Len(trail)

\* The trail of a job ends as its history does.
LEMMA EveryTrailEnds ==
  ASSUME StoryInv, NEW j \in Jobs
  PROVE  Ending(events[j], history[j])
<1>1. PICK trail, h : trail = events[j] /\ h = history[j]
  OBVIOUS
<1>2. LaidOut(trail, h, state[j])
  BY <1>1 DEF StoryInv, Layout
<1>3. \A n \in DOMAIN trail : trail[n].kind = "JOB_SETTLED" => n = Len(trail)
  <2>1. {n \in DOMAIN trail : trail[n].kind = "JOB_SETTLED"} \subseteq {Len(trail)}
    BY <1>1 DEF StoryInv, TrailInv, TrailClosed, recorded
  <2>2. QED BY <2>1
<1>4. QED
  BY <1>1, <1>2, <1>3 DEF Ending, LaidOut

\* A story with two neighbours exchanged is refused or reads the same.
LEMMA SwapInStory ==
  ASSUME NEW trail, NEW h, Story(trail, h), Ending(trail, h),
         NEW n \in 1 .. Len(trail) - 1, ~Refused(swapped(trail, n))
  PROVE  replay_job(swapped(trail, n)) = replay_job(trail)
<1>1. PICK other, l : other = swapped(trail, n) /\ l = Len(trail)
  OBVIOUS
<1>2. /\ trail \in Seq(Event) /\ l \in Nat /\ DOMAIN trail = 1 .. l /\ n \in Nat /\ n >= 1
      /\ n + 1 <= l /\ n \in DOMAIN trail /\ n + 1 \in DOMAIN trail
      /\ h \in Seq(TransitionRecord) /\ Len(h) \in Nat /\ DOMAIN h = 1 .. Len(h)
  <2>1. trail \in Seq(Event) /\ h \in Seq(TransitionRecord)
    BY DEF Story
  <2>2. QED BY <1>1, <2>1
<1>3. /\ other \in Seq(Event) /\ Len(other) = l
      /\ other[n] = trail[n + 1] /\ other[n + 1] = trail[n]
      /\ \A k \in 1 .. n - 1 : other[k] = trail[k]
  BY <1>1, <1>2 DEF swapped
<1>4. other # <<>> /\ other[1].kind = "JOB_CREATED" /\ ToldThroughout(other)
  BY <1>1, <1>3, OnlyIfBelieved, BelievedThroughout
<1>5. ASSUME NEW k \in DOMAIN trail, k # 1 PROVE trail[k].kind # "JOB_CREATED"
  <2>1. \/ \E i \in DOMAIN h : k = h[i].event
        \/ \E i \in DOMAIN h : k = h[i].event - 1 /\ h[i].decision_id # NONE
        \/ trail[k].kind \in {"JOB_COMPLETED", "JOB_SETTLED"}
    BY <1>5 DEF Story
  <2>2. QED BY <2>1 DEF Story, Entered
<1>6. n # 1
  <2>1. n + 1 # 1
    BY <1>2
  <2>2. trail[n + 1].kind # "JOB_CREATED"
    BY <1>2, <1>5, <2>1
  <2>3. QED BY <1>3, <1>4, <2>2
<1>7. PICK r : r = readings(other)
  OBVIOUS
<1>8. /\ n \in 2 .. l - 1 /\ n - 1 \in 1 .. l /\ n \in 1 .. l /\ n + 1 \in 1 .. l
      /\ n \in 2 .. l /\ n + 1 \in 2 .. l /\ (n + 1) - 1 = n
  BY <1>2, <1>6
<1>9. /\ DOMAIN r[n - 1] = Fields /\ r[n - 1].refused = NONE
      /\ r[n].refused = NONE /\ r[n + 1].refused = NONE
      /\ Told(r[n - 1], trail[n + 1], r[n])
  BY <1>3, <1>4, <1>7, <1>8 DEF ToldThroughout
<1>10. r[n] = read_on(r[n - 1], trail[n + 1]) /\ r[n + 1] = read_on(r[n], trail[n])
  <2>1. \A k \in 2 .. Len(other) : r[k] = read_on(r[k - 1], other[k])
    BY <1>3, <1>7, <1>2, ReadingByReading
  <2>2. QED BY <1>3, <1>8, <2>1
<1>11. SUFFICES r[n + 1] = read_on(read_on(r[n - 1], trail[n]), trail[n + 1])
  <2>1. ASSUME r[n + 1] = read_on(read_on(r[n - 1], trail[n]), trail[n + 1])
        PROVE  replay_job(other) = replay_job(trail)
    BY <1>1, <1>2, <1>7, <1>8, <2>1, SameEitherWay
  <2>2. QED BY <1>1, <2>1
<1>12. \/ \E i \in DOMAIN h : n = h[i].event
       \/ \E i \in DOMAIN h : n = h[i].event - 1 /\ h[i].decision_id # NONE
       \/ n > Before(h, Len(h) + 1)
  BY <1>2, <1>6 DEF Story
<1>13. ASSUME NEW i \in DOMAIN h, n = h[i].event
       PROVE  r[n + 1] = read_on(read_on(r[n - 1], trail[n]), trail[n + 1])
  <2>1. PICK x, moved, e : x = h[i] /\ moved = trail[n] /\ e = trail[n + 1]
    OBVIOUS
  <2>2. r[n - 1].state = x.from
    <3>1. n - 1 <= Len(other)
      BY <1>2, <1>3
    <3>2. QED BY <1>3, <1>4, <1>7, <1>13, <2>1, <3>1, BeforeTheMove
  <2>3. /\ moved.kind = "STATE_TRANSITION" /\ moved.to = x.to /\ x.from # x.to
        /\ x.from \in JobState /\ x.to \in JobState
    <3>1. Entered(trail, h, i)
      BY DEF Story
    <3>2. x \in TransitionRecord
      BY <1>2, <2>1
    <3>3. QED BY <1>13, <2>1, <3>1, <3>2 DEF Entered, TransitionRecord
  <2>4. Before(h, i + 1) = n
    BY <1>13, EntryStands
  <2>5. SUFFICES /\ e.kind \in {"GOVERNANCE_DECISION", "JOB_COMPLETED", "JOB_SETTLED"}
                 /\ e.kind = "GOVERNANCE_DECISION" => decided(r[n - 1].state, moved.to) = NONE
    BY <1>9, <1>10, <2>1, <2>3, Exchanged
  <2>6. CASE i = Len(h)
    <3>1. n + 1 > Before(h, Len(h) + 1)
      BY <1>2, <2>4, <2>6
    <3>2. QED BY <1>2, <2>1, <3>1 DEF Ending
  <2>7. CASE i # Len(h)
    <3>1. PICK p, y : p = h[i + 1].event /\ y = h[i + 1]
      OBVIOUS
    <3>2. i + 1 \in DOMAIN h /\ i + 1 # 1 /\ (i + 1) - 1 = i
      BY <1>2, <2>7
    <3>3. p \in Nat /\ p = IF y.decision_id = NONE THEN n + 1 ELSE n + 2
      <4>1. /\ h[i + 1].event \in Nat
            /\ h[i + 1].event = IF h[i + 1].decision_id = NONE THEN Before(h, i + 1) + 1
                                ELSE Before(h, i + 1) + 2
        BY <3>2, EntryStands
      <4>2. QED BY <2>4, <3>1, <4>1
    <3>4. /\ trail[p].kind = "STATE_TRANSITION" /\ trail[p].from = y.from /\ y.from = x.to
          /\ y.decision_id = NONE <=> decision_for_edge(y.from, y.to) = NONE
          /\ y.decision_id # NONE => trail[p - 1].kind = "GOVERNANCE_DECISION"
          /\ y.to \in JobState
      <4>1. Entered(trail, h, i + 1)
        BY <3>2 DEF Story
      <4>2. y \in TransitionRecord
        BY <1>2, <3>1, <3>2
      <4>3. QED BY <2>1, <3>1, <3>2, <4>1, <4>2 DEF Entered, TransitionRecord
    <3>5. CASE y.decision_id = NONE
      <4>1. e.kind = "STATE_TRANSITION" /\ e.from = x.to
        BY <2>1, <3>3, <3>4, <3>5
      <4>2. e.from = x.from
        BY <1>9, <2>1, <2>2, <4>1 DEF Told
      <4>3. QED BY <2>3, <4>1, <4>2
    <3>6. CASE y.decision_id # NONE
      <4>1. p - 1 = n + 1
        BY <1>2, <3>3, <3>6
      <4>2. e.kind = "GOVERNANCE_DECISION"
        BY <2>1, <3>4, <3>6, <4>1
      <4>3. x.to = "GOVERNANCE_ANALYSIS"
        BY <2>3, <3>4, <3>6, VerdictEdges
      <4>4. decision_for_edge(x.from, x.to) = NONE
        BY <2>3, <4>3, VerdictEdges
      <4>5. QED BY <2>2, <2>3, <4>2, <4>4 DEF decided
    <3>7. QED BY <3>5, <3>6
  <2>8. QED BY <2>6, <2>7
<1>14. ASSUME NEW i \in DOMAIN h, n = h[i].event - 1, h[i].decision_id # NONE PROVE FALSE
  <2>1. PICK q, x : q = Before(h, i) /\ x = h[i]
    OBVIOUS
  <2>2. q \in Nat /\ q >= 1 /\ n = q + 1 /\ x.event = n + 1 /\ i \in 1 .. Len(h) + 1
    <3>1. /\ Before(h, i) \in Nat /\ Before(h, i) >= 1 /\ h[i].event \in Nat
          /\ h[i].event = Before(h, i) + 2
      BY <1>14, EntryStands
    <3>2. QED BY <1>2, <1>14, <2>1, <3>1
  <2>3. AtRest(r[q], h, i)
    <3>1. q <= Len(other) /\ \A k \in 1 .. q : other[k] = trail[k]
      BY <1>2, <1>3, <2>2
    <3>2. Before(h, i) <= q /\ q \in Nat /\ i \in 1 .. Len(h) + 1
      BY <2>1, <2>2
    <3>3. AtRest(readings(other)[Before(h, i)], h, i)
      BY <1>3, <1>4, <3>1, <3>2, RestBetweenEntries
    <3>4. QED BY <1>7, <2>1, <3>3
  <2>4. Entered(trail, h, i)
    BY DEF Story
  <2>5. r[q].state = x.from /\ r[q].pending = NONE
    BY <2>1, <2>3, <2>4 DEF AtRest, Entered
  <2>6. trail[n + 1].kind = "STATE_TRANSITION" /\ trail[n + 1].to = x.to
        /\ decision_for_edge(x.from, x.to) # NONE /\ n - 1 = q
    BY <1>2, <1>14, <2>1, <2>2, <2>4 DEF Entered
  <2>7. QED BY <1>9, <2>5, <2>6 DEF Told, decided
<1>15. ASSUME n > Before(h, Len(h) + 1)
       PROVE  r[n + 1] = read_on(read_on(r[n - 1], trail[n]), trail[n + 1])
  <2>1. Before(h, Len(h) + 1) \in Nat
    <3>1. CASE Len(h) = 0
      BY <3>1 DEF Before
    <3>2. CASE Len(h) # 0
      <4>1. Len(h) \in DOMAIN h
        BY <1>2, <3>2
      <4>2. /\ Before(h, Len(h) + 1) = h[Len(h)].event /\ h[Len(h)].event \in Nat
        BY <4>1, EntryStands
      <4>3. QED BY <4>2
    <3>3. QED BY <3>1, <3>2
  <2>2. n + 1 > Before(h, Len(h) + 1) /\ n # Len(trail)
    BY <1>1, <1>2, <1>15, <2>1
  <2>3. /\ trail[n].kind = "JOB_COMPLETED"
        /\ trail[n + 1].kind \in {"JOB_COMPLETED", "JOB_SETTLED"}
    BY <1>2, <1>15, <2>2 DEF Ending
  <2>4. QED BY <1>9, <1>10, <2>3, ExchangedBehind
<1>16. QED
  BY <1>12, <1>13, <1>14, <1>15

\* Two neighbouring records in the wrong order are refused, or the reader still
\* arrives at the job as it stands.
THEOREM ReorderingShows == Spec => []ReorderTellsNoLie
<1>1. ASSUME StoryInv, ReplayAgrees PROVE ReorderTellsNoLie
  <2> SUFFICES ASSUME NEW j \in Jobs, NEW n \in 1 .. Len(events[j]) - 1,
                      replay_job(swapped(events[j], n)).refused = NONE
               PROVE  Agrees(j, replay_job(swapped(events[j], n)))
    BY DEF ReorderTellsNoLie
  <2>1. Story(events[j], history[j]) /\ Ending(events[j], history[j])
    BY <1>1, EveryTrailIsAStory, EveryTrailEnds
  <2>2. replay_job(swapped(events[j], n)) = replay_job(events[j])
    BY <2>1, SwapInStory DEF Refused
  <2>3. constructed(j)
    <3>1. events[j] # <<>>
      OBVIOUS
    <3>2. QED BY <1>1, <3>1 DEF StoryInv, TrailInv, LockInv, BlankUntilConstructed
  <2>4. "ExecutionAfterExpiry" # NONE
    BY ReplayAssumption DEF ReplayError
  <2>5. QED BY <1>1, <2>2, <2>3, <2>4 DEF ReplayAgrees
<1>2. QED
  BY <1>1, StoryInvariant, ReaderArrivesAtTheJob, PTL

-----------------------------------------------------------------------------
(* A trail edited by hand is refused, and for what was done to it.         *)

\* A trail that a reader believes.
Believed(trail) ==
  /\ trail \in Seq(Event) /\ trail # <<>> /\ trail[1].kind = "JOB_CREATED"
  /\ ToldThroughout(trail)

\* The error of the first record that is not believed is what the call raises.
LEMMA RefusedAt ==
  ASSUME NEW trail \in Seq(Event), trail # <<>>, trail[1].kind = "JOB_CREATED",
         NEW m \in 1 .. Len(trail), NEW error \in ReplayError,
         readings(trail)[m] = refusal(error)
  PROVE  replay_job(trail).refused = error
<1>1. error # NONE /\ refusal(error).refused = error
  BY ReplayAssumption DEF refusal
<1>2. Len(trail) \in Nat
  OBVIOUS
<1>3. end(trail) = refusal(error)
  BY <1>1, <1>2, RefusalStays
<1>4. ours(trail) = trail
  BY AllOurs
<1>5. PICK why : why = closing_refusal(end(trail), Len(trail))
  OBVIOUS
<1>6. replay_job(trail) =
        IF trail = <<>> THEN refusal("EmptyTrail")
        ELSE IF trail[1].kind # "JOB_CREATED" THEN refusal("UnstartedTrail")
        ELSE IF end(trail).refused # NONE THEN end(trail)
        ELSE IF why = NONE THEN replayed(end(trail)) ELSE refusal(why)
  BY <1>4, <1>5 DEF replay_job, end
<1>7. QED
  BY <1>1, <1>3, <1>6

\* A record that is believed is one of the job's.
LEMMA OfTheJob ==
  ASSUME NEW r, r.refused = NONE, NEW e, read_on(r, e).refused = NONE
  PROVE  e.job_id = r.job_id
<1>1. refusal("BrokenTrail").refused # NONE
  BY ReplayAssumption DEF refusal, ReplayError
<1>2. read_on(r, e) = read_record(r, e)
  BY DEF read_on
<1>3. QED BY <1>1, <1>2 DEF read_record

\* What is known of a believed trail, a record at a time.
LEMMA BelievedOnce ==
  ASSUME NEW trail, Believed(trail), NEW n \in 2 .. Len(trail)
  PROVE  LET before == readings(trail)[n - 1]
             after == readings(trail)[n]
         IN /\ before.refused = NONE /\ DOMAIN before = Fields
            /\ after.refused = NONE /\ after = read_on(before, trail[n])
            /\ trail[n].job_id = before.job_id
            /\ Told(before, trail[n], after)
<1>1. n - 1 \in 1 .. Len(trail) /\ n \in 1 .. Len(trail) /\ Len(trail) \in Nat
  BY DEF Believed
<1>2. PICK r : r = readings(trail)
  OBVIOUS
<1>3. /\ r[n - 1].refused = NONE /\ DOMAIN r[n - 1] = Fields /\ r[n].refused = NONE
      /\ Told(r[n - 1], trail[n], r[n])
  BY <1>1, <1>2 DEF Believed, ToldThroughout
<1>4. r[n] = read_on(r[n - 1], trail[n])
  BY <1>1, <1>2, ReadingByReading
<1>5. trail[n].job_id = r[n - 1].job_id
  BY <1>3, <1>4, OfTheJob
<1>6. QED BY <1>2, <1>3, <1>4, <1>5

\* A record that was not the first, and is a move.
LEMMA MoveIsLater ==
  ASSUME NEW trail, Believed(trail), NEW n \in DOMAIN trail, trail[n].kind # "JOB_CREATED"
  PROVE  n \in 2 .. Len(trail) /\ n - 1 \in 1 .. Len(trail) /\ n \in 1 .. Len(trail)
<1>1. Len(trail) \in Nat /\ DOMAIN trail = 1 .. Len(trail) /\ n # 1
  BY DEF Believed
<1>2. QED BY <1>1

\* A move made to lead where the table has no edge.
LEMMA RedirectedIsRefused ==
  ASSUME NEW trail, Believed(trail), NEW n \in DOMAIN trail,
         trail[n].kind = "STATE_TRANSITION", trail[n].from # "AWAITING_APPROVAL",
         NEW to \in JobState \ TRANSITIONS[trail[n].from]
  PROVE  replay_job(redirected(trail, n, to)).refused = "UndeclaredTransition"
<1>1. PICK other, e, f, r :
        /\ other = redirected(trail, n, to) /\ e = trail[n] /\ f = [e EXCEPT !.to = to]
        /\ r = readings(trail)[n - 1]
  OBVIOUS
<1>2. /\ n \in 2 .. Len(trail) /\ n - 1 \in 1 .. Len(trail) /\ n \in 1 .. Len(trail)
      /\ Len(trail) \in Nat /\ trail \in Seq(Event)
  BY MoveIsLater DEF Believed
<1>3. e \in Event /\ e.kind = "STATE_TRANSITION"
  BY <1>1, <1>2
<1>4. /\ f \in Event /\ f.kind = "STATE_TRANSITION" /\ f.to = to
      /\ f.from = e.from /\ f.job_id = e.job_id
  BY <1>1, <1>3 DEF Event
<1>5. /\ other \in Seq(Event) /\ Len(other) = Len(trail) /\ other[n] = f
      /\ \A k \in 1 .. n - 1 : other[k] = trail[k]
  BY <1>1, <1>2, <1>4 DEF redirected
<1>6. other # <<>> /\ other[1].kind = "JOB_CREATED"
  BY <1>2, <1>5 DEF Believed
<1>7. /\ r.refused = NONE /\ e.job_id = r.job_id /\ e.from = r.state
  BY <1>1, <1>2, <1>3, BelievedOnce DEF Told
<1>8. readings(other)[n - 1] = r
  <2>1. PICK m : m = n - 1
    OBVIOUS
  <2>2. /\ m \in Nat /\ m <= Len(trail) /\ m <= Len(other) /\ m \in 1 .. m
        /\ Len(other) \in Nat /\ \A k \in 1 .. m : other[k] = trail[k]
    BY <1>2, <1>5, <2>1
  <2>3. \A k \in 1 .. m : readings(other)[k] = readings(trail)[k]
    BY <1>2, <2>2, SameSoFar
  <2>4. QED BY <1>1, <2>1, <2>2, <2>3
<1>9. readings(other)[n] = read_on(r, f)
  BY <1>2, <1>5, <1>8, ReadingByReading
<1>10. transition_refusal(r, f) = "UndeclaredTransition"
  <2>1. f.from = r.state /\ f.to \notin TRANSITIONS[r.state] /\ r.state # "AWAITING_APPROVAL"
    BY <1>1, <1>4, <1>7
  <2>2. QED BY <2>1 DEF transition_refusal, reachable_from
<1>11. read_on(r, f) = refusal("UndeclaredTransition")
  <2>1. "UndeclaredTransition" # NONE
    BY ReplayAssumption DEF ReplayError
  <2>2. PICK why : why = transition_refusal(r, f)
    OBVIOUS
  <2>3. read_on(r, f) = IF why = NONE THEN followed(r, f) ELSE refusal(why)
    BY <1>4, <1>7, <2>2 DEF read_on, read_record
  <2>4. QED BY <1>10, <2>1, <2>2, <2>3
<1>12. QED
  BY <1>1, <1>2, <1>5, <1>6, <1>9, <1>11, RefusedAt DEF ReplayError

\* A move that does not leave the state the reader is in.
LEMMA FromElsewhere ==
  ASSUME NEW r, r.refused = NONE, NEW e, e.kind = "STATE_TRANSITION", e.from # r.state
  PROVE  read_on(r, e) = refusal("BrokenTrail")
<1>1. PICK why : why = transition_refusal(r, e)
  OBVIOUS
<1>2. why = "BrokenTrail" /\ "BrokenTrail" # NONE
  BY <1>1, ReplayAssumption DEF transition_refusal, ReplayError
<1>3. read_on(r, e) = IF e.job_id # r.job_id THEN refusal("BrokenTrail")
                      ELSE IF why = NONE THEN followed(r, e) ELSE refusal(why)
  BY <1>1 DEF read_on, read_record
<1>4. QED BY <1>2, <1>3

\* A verdict is taken down, or is none of the job's.
LEMMA VerdictTakenDown ==
  ASSUME NEW r, DOMAIN r = Fields, r.refused = NONE, NEW e, e.kind = "GOVERNANCE_DECISION"
  PROVE  IF e.job_id # r.job_id THEN read_on(r, e) = refusal("BrokenTrail")
         ELSE LET after == read_on(r, e)
              IN /\ after.refused = NONE /\ after.job_id = r.job_id /\ after.state = r.state
                 /\ after.awaiting_from = r.awaiting_from
<1>1. CASE e.job_id # r.job_id
  BY <1>1 DEF read_on, read_record
<1>2. CASE e.job_id = r.job_id
  <2>1. read_on(r, e) = [r EXCEPT !.pending = e.approval,
                                  !.decision_ids = Append(@, e.approval.decision_id)]
    BY <1>2 DEF read_on, read_record
  <2>2. QED BY <1>2, <2>1 DEF Fields
<1>3. QED BY <1>1, <1>2

\* A move that another one follows is gone.
LEMMA DroppedIsRefused ==
  ASSUME NEW trail, NEW h, Story(trail, h), Ending(trail, h), Believed(trail),
         NEW n \in DOMAIN trail, trail[n].kind = "STATE_TRANSITION",
         NEW m \in DOMAIN trail, m > n, trail[m].kind = "STATE_TRANSITION"
  PROVE  replay_job(without(trail, n, n)).refused = "BrokenTrail"
<1>1. PICK left, l, r : left = without(trail, n, n) /\ l = Len(trail) /\ r = readings(trail)[n - 1]
  OBVIOUS
<1>2. /\ n \in 2 .. l /\ n - 1 \in 1 .. l /\ n \in 1 .. l /\ l \in Nat /\ n + 1 <= l
      /\ trail \in Seq(Event) /\ DOMAIN trail = 1 .. l
      /\ h \in Seq(TransitionRecord) /\ Len(h) \in Nat /\ DOMAIN h = 1 .. Len(h)
  <2>1. n \in 2 .. l /\ n - 1 \in 1 .. l /\ n \in 1 .. l
    BY <1>1, MoveIsLater
  <2>2. trail \in Seq(Event) /\ h \in Seq(TransitionRecord)
    BY DEF Story
  <2>3. QED BY <1>1, <2>1, <2>2
<1>3. /\ left \in Seq(Event) /\ Len(left) = l - 1
      /\ \A k \in 1 .. n - 1 : left[k] = trail[k]
      /\ \A k \in n .. l - 1 : left[k] = trail[k + 1]
  <2>1. n - n + 1 = 1 /\ n \in n .. Len(trail)
    BY <1>1, <1>2
  <2>2. /\ left \in Seq(Event) /\ Len(left) = Len(trail) - (n - n + 1)
        /\ \A k \in 1 .. n - 1 : left[k] = trail[k]
        /\ \A k \in n .. Len(left) : left[k] = trail[k + (n - n + 1)]
    BY <1>1, <1>2, <2>1, WhatIsLeft
  <2>3. QED BY <1>1, <2>1, <2>2
<1>4. left # <<>> /\ left[1].kind = "JOB_CREATED" /\ Len(left) \in Nat
  BY <1>2, <1>3 DEF Believed
<1>5. PICK i \in DOMAIN h : n = h[i].event
  <2>1. \/ \E i \in DOMAIN h : n = h[i].event
        \/ \E i \in DOMAIN h : n = h[i].event - 1 /\ h[i].decision_id # NONE
        \/ trail[n].kind \in {"JOB_COMPLETED", "JOB_SETTLED"}
    BY <1>2 DEF Story
  <2>2. QED BY <2>1 DEF Story, Entered
<1>6. Before(h, i + 1) = n
  BY <1>5, EntryStands
<1>7. i + 1 \in DOMAIN h /\ i + 1 # 1 /\ (i + 1) - 1 = i
  <2>1. ASSUME i = Len(h) PROVE FALSE
    <3>1. m > Before(h, Len(h) + 1)
      BY <1>6, <2>1
    <3>2. QED BY <3>1 DEF Ending
  <2>2. QED BY <1>2, <2>1
<1>8. PICK p, x, y : p = h[i + 1].event /\ x = h[i] /\ y = h[i + 1]
  OBVIOUS
<1>9. p \in Nat /\ p <= l /\ p = IF y.decision_id = NONE THEN n + 1 ELSE n + 2
  <2>1. /\ h[i + 1].event \in Nat /\ h[i + 1].event <= Len(trail)
        /\ h[i + 1].event = IF h[i + 1].decision_id = NONE THEN Before(h, i + 1) + 1
                            ELSE Before(h, i + 1) + 2
    BY <1>7, EntryStands
  <2>2. QED BY <1>1, <1>6, <1>8, <2>1
<1>10. /\ trail[p].kind = "STATE_TRANSITION" /\ trail[p].from = x.to /\ x.from # x.to
       /\ y.decision_id # NONE => trail[p - 1].kind = "GOVERNANCE_DECISION"
  <2>1. Entered(trail, h, i + 1) /\ Entered(trail, h, i)
    BY <1>7 DEF Story
  <2>2. QED BY <1>7, <1>8, <2>1 DEF Entered
<1>11. r.refused = NONE /\ DOMAIN r = Fields /\ r.state = x.from
  <2>1. r.refused = NONE /\ DOMAIN r = Fields
    BY <1>1, <1>2, BelievedOnce
  <2>2. readings(trail)[h[i].event - 1].state = h[i].from
    <3>1. h[i].event - 1 <= Len(trail)
      BY <1>1, <1>2, <1>5
    <3>2. QED BY <1>2, <3>1, BeforeTheMove DEF Believed
  <2>3. QED BY <1>1, <1>5, <1>8, <2>1, <2>2
<1>12. readings(left)[n - 1] = r
  <2>1. PICK c : c = n - 1
    OBVIOUS
  <2>2. /\ c \in Nat /\ c <= Len(trail) /\ c <= Len(left) /\ c \in 1 .. c
        /\ Len(trail) \in Nat /\ \A k \in 1 .. c : left[k] = trail[k]
    BY <1>1, <1>2, <1>3, <2>1
  <2>3. \A k \in 1 .. c : readings(left)[k] = readings(trail)[k]
    BY <1>4, <2>2, SameSoFar
  <2>4. QED BY <1>1, <2>1, <2>2, <2>3
<1>13. n \in 2 .. Len(left) /\ n \in 1 .. Len(left) /\ left[n] = trail[n + 1]
  BY <1>2, <1>3
<1>14. readings(left)[n] = read_on(r, left[n])
  BY <1>4, <1>12, <1>13, ReadingByReading
<1>15. "BrokenTrail" \in ReplayError
  BY DEF ReplayError
<1>16. CASE y.decision_id = NONE
  <2>1. left[n] = trail[p]
    BY <1>9, <1>13, <1>16
  <2>2. read_on(r, left[n]) = refusal("BrokenTrail")
    BY <1>10, <1>11, <2>1, FromElsewhere
  <2>3. QED BY <1>1, <1>3, <1>4, <1>13, <1>14, <1>15, <2>2, RefusedAt
<1>17. CASE y.decision_id # NONE
  <2>1. /\ p - 1 = n + 1 /\ n + 1 \in 2 .. Len(left) /\ n + 1 \in 1 .. Len(left)
        /\ (n + 1) - 1 = n /\ n + 1 \in n .. l - 1 /\ (n + 1) + 1 = p
    BY <1>2, <1>3, <1>9, <1>17
  <2>2. left[n].kind = "GOVERNANCE_DECISION" /\ left[n + 1] = trail[p]
    BY <1>3, <1>10, <1>13, <1>17, <2>1
  <2>3. CASE left[n].job_id # r.job_id
    <3>1. read_on(r, left[n]) = refusal("BrokenTrail")
      BY <1>11, <2>2, <2>3, VerdictTakenDown
    <3>2. QED BY <1>1, <1>3, <1>4, <1>13, <1>14, <1>15, <3>1, RefusedAt
  <2>4. CASE left[n].job_id = r.job_id
    <3>1. PICK a : a = read_on(r, left[n])
      OBVIOUS
    <3>2. a.refused = NONE /\ a.state = x.from
      BY <1>11, <2>2, <2>4, <3>1, VerdictTakenDown
    <3>3. read_on(a, left[n + 1]) = refusal("BrokenTrail")
      BY <1>10, <2>2, <3>2, FromElsewhere
    <3>4. readings(left)[n + 1] = read_on(a, left[n + 1])
      BY <1>4, <1>14, <2>1, <3>1, ReadingByReading
    <3>5. QED BY <1>1, <1>3, <1>4, <1>15, <2>1, <3>3, <3>4, RefusedAt
  <2>5. QED BY <2>3, <2>4
<1>18. QED BY <1>16, <1>17

\* The closing record is gone.
LEMMA UnclosedIsUnsettled ==
  ASSUME NEW trail, Believed(trail), closing_refusal(end(trail), Len(trail)) = NONE,
         end(trail).state \in TERMINAL, trail[Len(trail)].kind = "JOB_SETTLED",
         \A n \in DOMAIN trail : trail[n].kind = "JOB_SETTLED" => n = Len(trail)
  PROVE  replay_job(unclosed(trail)).refused = "UnsettledTrail"
<1>1. PICK left, l, r, last :
        /\ left = unclosed(trail) /\ l = Len(trail) /\ r = readings(trail)[l - 1]
        /\ last = end(trail)
  OBVIOUS
<1>2. /\ l \in 2 .. l /\ l - 1 \in 1 .. l /\ l \in 1 .. l /\ l \in Nat
      /\ trail \in Seq(Event) /\ DOMAIN trail = 1 .. l
  <2>1. trail \in Seq(Event) /\ trail # <<>>
    BY DEF Believed
  <2>2. l \in DOMAIN trail
    BY <1>1, <2>1
  <2>3. QED BY <1>1, <2>1, <2>2, MoveIsLater
<1>3. /\ left \in Seq(Event) /\ Len(left) = l - 1
      /\ \A k \in 1 .. l - 1 : left[k] = trail[k]
  <2>1. PICK c : c = l - 1
    OBVIOUS
  <2>2. /\ c \in Nat /\ 1 \in Nat /\ 1 >= 1 /\ 1 <= c + 1 /\ c <= Len(trail)
        /\ c + 1 - 1 = c /\ \A k \in 1 .. c : 1 - 1 + k = k
    BY <1>1, <1>2, <2>1
  <2>3. /\ SubSeq(trail, 1, c) \in Seq(Event) /\ Len(SubSeq(trail, 1, c)) = c + 1 - 1
        /\ \A k \in 1 .. c + 1 - 1 : SubSeq(trail, 1, c)[k] = trail[1 - 1 + k]
    BY <1>2, <2>2, RunOfRecords
  <2>4. left = SubSeq(trail, 1, c)
    BY <1>1, <2>1 DEF unclosed, Front
  <2>5. QED BY <2>1, <2>2, <2>3, <2>4
<1>4. left # <<>> /\ left[1].kind = "JOB_CREATED" /\ Len(left) \in Nat /\ Len(left) \in 1 .. Len(left)
  BY <1>2, <1>3 DEF Believed
<1>5. end(left) = r
  <2>1. PICK c : c = l - 1
    OBVIOUS
  <2>2. /\ c \in Nat /\ c <= Len(trail) /\ c <= Len(left) /\ c \in 1 .. c /\ c = Len(left)
        /\ Len(trail) \in Nat /\ \A k \in 1 .. c : left[k] = trail[k]
    BY <1>1, <1>2, <1>3, <2>1
  <2>3. \A k \in 1 .. c : readings(left)[k] = readings(trail)[k]
    BY <1>4, <2>2, SameSoFar
  <2>4. QED BY <1>1, <2>1, <2>2, <2>3 DEF end
<1>6. /\ r.refused = NONE /\ DOMAIN r = Fields
      /\ last = read_on(r, trail[l]) /\ trail[l].job_id = r.job_id
  BY <1>1, <1>2, BelievedOnce DEF end
<1>7. last = [r EXCEPT !.closing = trail[l]]
  <2>1. trail[l].kind = "JOB_SETTLED"
    BY <1>1
  <2>2. QED BY <1>6, <2>1 DEF read_on, read_record
<1>8. r.state = last.state /\ r.completed = last.completed
  BY <1>6, <1>7 DEF Fields
<1>9. r.closing = NONE
  <2>1. ToldThroughout(left)
    BY <1>3, <1>4, <1>5, <1>6, BelievedThroughout
  <2>2. ClosingRecords(left, Len(left)) = {}
    <3>1. \A k \in 1 .. Len(left) : left[k].kind # "JOB_SETTLED"
      BY <1>1, <1>2, <1>3
    <3>2. QED BY <3>1 DEF ClosingRecords
  <2>3. QED BY <1>3, <1>4, <1>5, <2>1, <2>2, ClosingIsRecorded
<1>10. last.completed = (last.state = "COMPLETED") /\ last.state \in TERMINAL
  <2>1. "IncompleteSettlement" # NONE
    BY ReplayAssumption DEF ReplayError
  <2>2. QED BY <1>1, <2>1 DEF closing_refusal
<1>11. closing_refusal(r, Len(left)) = "UnsettledTrail"
  BY <1>8, <1>9, <1>10 DEF closing_refusal
<1>12. ours(left) = left
  BY <1>3, AllOurs
<1>13. replay_job(left) =
        IF left = <<>> THEN refusal("EmptyTrail")
        ELSE IF left[1].kind # "JOB_CREATED" THEN refusal("UnstartedTrail")
        ELSE IF r.refused # NONE THEN r
        ELSE IF "UnsettledTrail" = NONE THEN replayed(r) ELSE refusal("UnsettledTrail")
  BY <1>5, <1>11, <1>12 DEF replay_job, end
<1>14. "UnsettledTrail" # NONE
  BY ReplayAssumption DEF ReplayError
<1>15. QED
  BY <1>1, <1>4, <1>6, <1>13, <1>14 DEF refusal

\* Every record up to the first that is not picked is picked, and the first
\* picked after it stands in its place.
LEMMA KeptPast ==
  ASSUME NEW S, NEW s \in Seq(S), NEW P, NEW n \in 1 .. Len(s) - 1,
         n \notin P, n + 1 \in P, \A k \in 1 .. n - 1 : k \in P
  PROVE  LET some == kept(s, P)
         IN /\ some \in Seq(S) /\ Len(some) >= n /\ some[n] = s[n + 1]
            /\ \A k \in 1 .. n - 1 : some[k] = s[k]
<1>1. PICK m : m = Len(s)
  OBVIOUS
<1>2. /\ m \in Nat /\ n \in Nat /\ n >= 1 /\ n + 1 <= m /\ n - 1 \in Nat
      /\ \A k \in 1 .. m : s[k] \in S
  BY <1>1
<1>3. PICK u : Picks(u, s, P, m) /\ kept(s, P) = u[m]
  BY <1>1, <1>2, KeptPicks
<1>4. /\ u[0] = <<>>
      /\ \A k \in 1 .. m : u[k] = IF k \in P THEN Append(u[k - 1], s[k]) ELSE u[k - 1]
  <2>1. 0 \in 0 .. m /\ \A k \in 1 .. m : k \in 0 .. m /\ k # 0
    BY <1>2
  <2>2. QED BY <1>3, <2>1 DEF Picks
<1> DEFINE upto(k) == u[k] \in Seq(S) /\ Len(u[k]) = k /\ \A a \in 1 .. k : u[k][a] = s[a]
           T == {k \in Nat : k <= n - 1 => upto(k)}
<1>5. 0 \in T
  <2>1. u[0] \in Seq(S) /\ Len(u[0]) = 0 /\ 1 .. 0 = {}
    BY <1>4
  <2>2. upto(0)
    BY <2>1
  <2>3. QED BY <2>2
<1>6. ASSUME NEW k \in Nat, k >= 0, k \in T
      PROVE  k + 1 \in T
  <2> SUFFICES ASSUME k + 1 <= n - 1 PROVE upto(k + 1)
    OBVIOUS
  <2>1. k + 1 \in 1 .. m /\ (k + 1) - 1 = k /\ k <= n - 1 /\ k + 1 \in 1 .. n - 1
    BY <1>2
  <2>2. upto(k)
    BY <1>6, <2>1
  <2>3. u[k + 1] = Append(u[k], s[k + 1]) /\ s[k + 1] \in S
    BY <1>2, <1>4, <2>1
  <2>4. QED
    BY <2>2, <2>3
<1> HIDE DEF T
<1>7. n - 1 \in T
  BY <1>2, <1>5, <1>6, Counting
<1>8. upto(n - 1)
  BY <1>2, <1>7 DEF T
<1>9. /\ u[n - 1] \in Seq(S) /\ Len(u[n - 1]) = n - 1
      /\ \A a \in 1 .. n - 1 : u[n - 1][a] = s[a]
  BY <1>8
<1> HIDE DEF upto
<1>10. u[n] = u[n - 1] /\ u[n + 1] = Append(u[n], s[n + 1])
  <2>1. n \in 1 .. m /\ n + 1 \in 1 .. m /\ (n + 1) - 1 = n
    BY <1>2
  <2>2. QED BY <1>4, <2>1
<1> DEFINE past(k) == /\ u[k] \in Seq(S) /\ Len(u[k]) >= n /\ u[k][n] = s[n + 1]
                      /\ \A a \in 1 .. n - 1 : u[k][a] = s[a]
           R == {k \in Nat : k <= m => past(k)}
<1>11. n + 1 \in R
  <2>1. s[n + 1] \in S
    BY <1>2
  <2>2. PICK v, e : v = u[n - 1] /\ e = s[n + 1]
    OBVIOUS
  <2>3. /\ Append(v, e) \in Seq(S) /\ Len(Append(v, e)) = n /\ Append(v, e)[n] = e
        /\ \A a \in 1 .. n - 1 : Append(v, e)[a] = v[a]
    BY <1>2, <1>9, <2>1, <2>2
  <2>4. past(n + 1)
    BY <1>2, <1>9, <1>10, <2>2, <2>3
  <2>5. QED BY <1>2, <2>4
<1>12. ASSUME NEW k \in Nat, k >= n + 1, k \in R
       PROVE  k + 1 \in R
  <2> SUFFICES ASSUME k + 1 <= m PROVE past(k + 1)
    OBVIOUS
  <2>1. k + 1 \in 1 .. m /\ (k + 1) - 1 = k /\ k <= m
    BY <1>2
  <2>2. past(k)
    BY <1>12, <2>1
  <2>3. u[k + 1] = (IF k + 1 \in P THEN Append(u[k], s[k + 1]) ELSE u[k]) /\ s[k + 1] \in S
    BY <1>2, <1>4, <2>1
  <2>4. CASE k + 1 \in P
    <3>1. PICK v, e : v = u[k] /\ e = s[k + 1]
      OBVIOUS
    <3>2. /\ v \in Seq(S) /\ Len(v) >= n /\ v[n] = s[n + 1] /\ e \in S
          /\ \A a \in 1 .. n - 1 : v[a] = s[a]
      BY <2>2, <2>3, <3>1
    <3>3. /\ Append(v, e) \in Seq(S) /\ Len(Append(v, e)) = Len(v) + 1
          /\ \A a \in 1 .. Len(v) : Append(v, e)[a] = v[a]
      BY <3>2
    <3>4. n \in 1 .. Len(v) /\ Len(v) + 1 >= n /\ \A a \in 1 .. n - 1 : a \in 1 .. Len(v)
      BY <1>2, <3>2
    <3>5. QED BY <2>3, <2>4, <3>1, <3>2, <3>3, <3>4
  <2>5. CASE k + 1 \notin P
    BY <2>2, <2>3, <2>5
  <2>6. QED BY <2>4, <2>5
<1> HIDE DEF R
<1>13. m \in R
  <2>1. n + 1 \in Nat /\ m >= n + 1
    BY <1>2
  <2>2. QED BY <1>2, <1>11, <1>12, <2>1, Counting
<1>14. past(m)
  BY <1>2, <1>13 DEF R
<1>15. QED
  BY <1>3, <1>14

\* The verdicts are gone.
LEMMA UnjudgedIsRefused ==
  ASSUME NEW trail, NEW h, Story(trail, h), Believed(trail),
         NEW v \in DOMAIN trail, trail[v].kind = "GOVERNANCE_DECISION"
  PROVE  replay_job(unjudged(trail)).refused = "UnauditedDecision"
<1>1. PICK other, l, T, P :
        /\ other = unjudged(trail) /\ l = Len(trail)
        /\ T = {k \in DOMAIN trail : trail[k].kind = "GOVERNANCE_DECISION"}
        /\ P = {k \in DOMAIN trail : trail[k].kind # "GOVERNANCE_DECISION"}
  OBVIOUS
<1>2. /\ trail \in Seq(Event) /\ l \in Nat /\ DOMAIN trail = 1 .. l
      /\ Len(h) \in Nat /\ DOMAIN h = 1 .. Len(h)
  BY <1>1 DEF Story
<1>3. PICK n \in T : \A k \in T : n <= k
  BY <1>1, <1>2, LeastNumber
<1>4. n \in DOMAIN trail /\ trail[n].kind = "GOVERNANCE_DECISION"
  BY <1>1
<1>5. /\ n \in 2 .. Len(trail) /\ n - 1 \in 1 .. Len(trail) /\ n \in 1 .. Len(trail)
  <2>1. trail[n].kind # "JOB_CREATED"
    BY <1>4
  <2>2. QED BY <1>4, <2>1, MoveIsLater
<1>6. PICK i \in DOMAIN h : n = h[i].event - 1 /\ h[i].decision_id # NONE
  <2>1. \/ \E i \in DOMAIN h : n = h[i].event
        \/ \E i \in DOMAIN h : n = h[i].event - 1 /\ h[i].decision_id # NONE
        \/ trail[n].kind \in {"JOB_COMPLETED", "JOB_SETTLED"}
    BY <1>4, <1>5 DEF Story
  <2>2. QED BY <1>4, <2>1 DEF Story, Entered
<1>7. PICK q, x, e, r, a, b :
        /\ q = Before(h, i) /\ x = h[i] /\ e = trail[n + 1] /\ r = readings(trail)[n - 1]
        /\ a = readings(trail)[n] /\ b = readings(trail)[n + 1]
  OBVIOUS
<1>8. q \in Nat /\ q >= 1 /\ n = q + 1 /\ x.event = n + 1 /\ n + 1 <= l /\ n - 1 = q
      /\ i \in 1 .. Len(h) + 1
  <2>1. /\ Before(h, i) \in Nat /\ Before(h, i) >= 1 /\ h[i].event \in Nat
        /\ h[i].event = Before(h, i) + 2 /\ h[i].event <= Len(trail)
    BY <1>6, EntryStands
  <2>2. QED BY <1>1, <1>2, <1>6, <1>7, <2>1
<1>9. AtRest(r, h, i)
  <2>1. Before(h, i) <= q /\ q <= Len(trail) /\ \A k \in 1 .. q : trail[k] = trail[k]
    BY <1>1, <1>2, <1>7, <1>8
  <2>2. AtRest(readings(trail)[Before(h, i)], h, i)
    BY <1>2, <1>8, <2>1, RestBetweenEntries DEF Believed
  <2>3. QED BY <1>7, <1>8, <2>2
<1>10. Entered(trail, h, i)
  BY DEF Story
<1>11. /\ r.state = x.from /\ r.pending = NONE
       /\ e.kind = "STATE_TRANSITION" /\ e.from = x.from /\ e.to = x.to
       /\ decision_for_edge(x.from, x.to) # NONE
  BY <1>6, <1>7, <1>8, <1>9, <1>10 DEF AtRest, Entered
<1>12. /\ r.refused = NONE /\ DOMAIN r = Fields /\ a = read_on(r, trail[n]) /\ a.refused = NONE
       /\ trail[n].job_id = r.job_id
  BY <1>5, <1>7, BelievedOnce
<1>13. a.job_id = r.job_id /\ a.state = r.state /\ a.awaiting_from = r.awaiting_from
  BY <1>4, <1>12, VerdictTakenDown
<1>14. b = read_on(a, e) /\ b.refused = NONE /\ e.job_id = a.job_id
  <2>1. n + 1 \in 2 .. Len(trail) /\ (n + 1) - 1 = n
    BY <1>1, <1>2, <1>5, <1>8
  <2>2. QED BY <1>7, <2>1, BelievedOnce
<1>15. e.to \in reachable_from(r.state, r.awaiting_from)
  <2>1. PICK why : why = transition_refusal(a, e)
    OBVIOUS
  <2>2. b = IF why = NONE THEN followed(a, e) ELSE refusal(why)
    BY <1>11, <1>12, <1>14, <2>1 DEF read_on, read_record
  <2>3. why = NONE
    BY <1>14, <2>2 DEF refusal
  <2>4. "BrokenTrail" # NONE /\ "UndeclaredTransition" # NONE
    BY ReplayAssumption DEF ReplayError
  <2>5. QED BY <1>13, <2>1, <2>3, <2>4 DEF transition_refusal
<1>16. transition_refusal(r, e) = "UnauditedDecision"
  <2>1. unaudited_decision(r, e)
    BY <1>11 DEF unaudited_decision, decided
  <2>2. QED BY <1>11, <1>15, <2>1 DEF transition_refusal
<1>17. read_on(r, e) = refusal("UnauditedDecision")
  <2>1. "UnauditedDecision" # NONE
    BY ReplayAssumption DEF ReplayError
  <2>2. PICK why : why = transition_refusal(r, e)
    OBVIOUS
  <2>3. read_on(r, e) = IF why = NONE THEN followed(r, e) ELSE refusal(why)
    BY <1>11, <1>12, <1>13, <1>14, <2>2 DEF read_on, read_record
  <2>4. QED BY <1>16, <2>1, <2>2, <2>3
<1>18. /\ other \in Seq(Event) /\ Len(other) >= n /\ other[n] = e
       /\ \A k \in 1 .. n - 1 : other[k] = trail[k]
  <2>1. n \in 1 .. Len(trail) - 1
    BY <1>1, <1>2, <1>5, <1>8
  <2>2. n \notin P /\ n + 1 \in P
    BY <1>1, <1>2, <1>4, <1>5, <1>7, <1>8, <1>11
  <2>3. \A k \in 1 .. n - 1 : k \in P
    <3>1. \A k \in 1 .. n - 1 : k \in DOMAIN trail /\ ~(n <= k)
      BY <1>1, <1>2, <1>5
    <3>2. QED BY <1>1, <1>3, <3>1
  <2>4. other = kept(trail, P)
    BY <1>1 DEF unjudged
  <2>5. QED BY <1>2, <1>7, <2>1, <2>2, <2>3, <2>4, KeptPast
<1>19. /\ other # <<>> /\ other[1].kind = "JOB_CREATED" /\ Len(other) \in Nat
       /\ n \in 2 .. Len(other) /\ n \in 1 .. Len(other)
  BY <1>5, <1>18 DEF Believed
<1>20. readings(other)[n - 1] = r
  <2>1. /\ q \in Nat /\ q <= Len(trail) /\ q <= Len(other) /\ q \in 1 .. q
        /\ Len(trail) \in Nat /\ \A k \in 1 .. q : other[k] = trail[k]
    BY <1>1, <1>2, <1>8, <1>18, <1>19
  <2>2. \A k \in 1 .. q : readings(other)[k] = readings(trail)[k]
    BY <1>19, <2>1, SameSoFar
  <2>3. QED BY <1>7, <1>8, <2>1, <2>2
<1>21. readings(other)[n] = refusal("UnauditedDecision")
  BY <1>17, <1>18, <1>19, <1>20, ReadingByReading
<1>22. QED
  BY <1>1, <1>18, <1>19, <1>21, RefusedAt DEF ReplayError

\* An approval and the same one with its deadline at the start of the clock.
Backdates(a, x) ==
  IF x = NONE THEN a = NONE
  ELSE a # NONE /\ a.decision = x.decision /\ a.expires_at = 0

\* What a reader knows of the backdated trail and of the trail as it was.
SameButDates(b, r) ==
  /\ DOMAIN b = Fields /\ b.refused = NONE
  /\ b.job_id = r.job_id /\ b.state = r.state /\ b.awaiting_from = r.awaiting_from
  /\ Backdates(b.approval, r.approval) /\ Backdates(b.pending, r.pending)

\* The record as it stands in the backdated trail.
as_backdated(e) ==
  IF e.kind = "GOVERNANCE_DECISION" THEN [e EXCEPT !.approval.expires_at = 0] ELSE e

\* A record with its deadline moved is the same record otherwise.
LEMMA RecordBackdated ==
  ASSUME NEW e \in Event
  PROVE  /\ as_backdated(e) \in Event
         /\ as_backdated(e).kind = e.kind /\ as_backdated(e).job_id = e.job_id
         /\ e.kind # "GOVERNANCE_DECISION" => as_backdated(e) = e
         /\ e.kind = "GOVERNANCE_DECISION" =>
              e.approval # NONE /\ Backdates(as_backdated(e).approval, e.approval)
<1>1. CASE e.kind # "GOVERNANCE_DECISION"
  BY <1>1 DEF as_backdated
<1>2. CASE e.kind = "GOVERNANCE_DECISION"
  <2>1. /\ e \in [kind : {"GOVERNANCE_DECISION"}, job_id : Ids, tenant_id : Tenants,
                  approval : Decision]
    BY <1>2 DEF Event
  <2>2. PICK x, y : x = e.approval /\ y = [x EXCEPT !.expires_at = 0]
    OBVIOUS
  <2>3. x \in Decision /\ y \in Decision /\ y.decision = x.decision /\ y.expires_at = 0
    BY <2>1, <2>2 DEF Decision
  <2>4. as_backdated(e) = [e EXCEPT !.approval = y]
    BY <1>2, <2>2 DEF as_backdated
  <2>5. /\ as_backdated(e).kind = e.kind /\ as_backdated(e).job_id = e.job_id
        /\ as_backdated(e).approval = y
        /\ as_backdated(e) \in [kind : {"GOVERNANCE_DECISION"}, job_id : Ids,
                                tenant_id : Tenants, approval : Decision]
    BY <2>1, <2>3, <2>4
  <2>6. x # NONE /\ y # NONE
    BY <2>3, JobAssumption
  <2>7. Backdates(y, x)
    BY <2>3, <2>6 DEF Backdates
  <2>8. as_backdated(e) \in Event
    BY <2>5 DEF Event
  <2>9. QED BY <1>2, <2>2, <2>5, <2>6, <2>7, <2>8
<1>3. QED BY <1>1, <1>2

\* The checks before the last two turn out alike.
LEMMA CheckedAlike ==
  ASSUME NEW b, NEW r, SameButDates(b, r), NEW e, transition_refusal(r, e) = NONE
  PROVE  /\ e.from = b.state /\ e.to \in reachable_from(b.state, b.awaiting_from)
         /\ ~unaudited_decision(b, e)
         /\ Backdates(approval_read(b, e), approval_read(r, e))
         /\ e.to \in POST_APPROVAL => approval_read(r, e) # NONE
<1>1. PICK v : v = decided(r.state, e.to)
  OBVIOUS
<1>2. v = decided(b.state, e.to)
  BY <1>1 DEF SameButDates
<1>3. /\ "BrokenTrail" # NONE /\ "UndeclaredTransition" # NONE /\ "UnauditedDecision" # NONE
      /\ "UnauditedExecution" # NONE
  BY ReplayAssumption DEF ReplayError
<1>4. /\ e.from = r.state /\ e.to \in reachable_from(r.state, r.awaiting_from)
      /\ ~unaudited_decision(r, e)
      /\ e.to \in POST_APPROVAL => approval_read(r, e) # NONE
  BY <1>3 DEF transition_refusal
<1>5. e.from = b.state /\ e.to \in reachable_from(b.state, b.awaiting_from)
  BY <1>4 DEF SameButDates
<1>6. ~unaudited_decision(b, e)
  <2>1. v = NONE \/ (r.pending # NONE /\ r.pending.decision = v)
    BY <1>1, <1>4 DEF unaudited_decision
  <2>2. v = NONE \/ (b.pending # NONE /\ b.pending.decision = v)
    BY <2>1 DEF SameButDates, Backdates
  <2>3. QED BY <1>2, <2>2 DEF unaudited_decision
<1>7. Backdates(approval_read(b, e), approval_read(r, e))
  <2>1. approval_read(b, e) = IF v = NONE THEN b.approval
                              ELSE IF v = "APPROVE" THEN b.pending ELSE NONE
    BY <1>2 DEF approval_read
  <2>2. approval_read(r, e) = IF v = NONE THEN r.approval
                              ELSE IF v = "APPROVE" THEN r.pending ELSE NONE
    BY <1>1 DEF approval_read
  <2>3. Backdates(NONE, NONE)
    BY DEF Backdates
  <2>4. QED BY <2>1, <2>2, <2>3 DEF SameButDates
<1>8. QED BY <1>4, <1>5, <1>6, <1>7

\* A move that is believed passed the checks.
LEMMA MoveBelieved ==
  ASSUME NEW r, r.refused = NONE, NEW e, e.kind = "STATE_TRANSITION",
         read_on(r, e).refused = NONE
  PROVE  transition_refusal(r, e) = NONE /\ read_on(r, e) = followed(r, e)
<1>1. PICK why : why = transition_refusal(r, e)
  OBVIOUS
<1>2. e.job_id = r.job_id
  BY OfTheJob
<1>3. read_on(r, e) = IF why = NONE THEN followed(r, e) ELSE refusal(why)
  BY <1>1, <1>2 DEF read_on, read_record
<1>4. why = NONE
  BY <1>3 DEF refusal
<1>5. QED BY <1>1, <1>3, <1>4

\* As long as nothing was executed the two are read alike but for the dates.
LEMMA ReadAlikeButDates ==
  ASSUME NEW b, NEW r, SameButDates(b, r), DOMAIN r = Fields, r.refused = NONE,
         NEW e \in Event, read_on(r, e).refused = NONE,
         e.kind = "STATE_TRANSITION" => e.to \notin POST_APPROVAL
  PROVE  SameButDates(read_on(b, as_backdated(e)), read_on(r, e))
<1>1. PICK f, before, after :
        f = as_backdated(e) /\ before = read_on(b, f) /\ after = read_on(r, e)
  OBVIOUS
<1>2. /\ f.kind = e.kind /\ f.job_id = e.job_id /\ f \in Event
      /\ e.kind # "GOVERNANCE_DECISION" => f = e
      /\ e.kind = "GOVERNANCE_DECISION" => Backdates(f.approval, e.approval)
  BY <1>1, RecordBackdated
<1>3. /\ DOMAIN b = Fields /\ b.refused = NONE
      /\ b.job_id = r.job_id /\ b.state = r.state /\ b.awaiting_from = r.awaiting_from
      /\ Backdates(b.approval, r.approval) /\ Backdates(b.pending, r.pending)
      /\ e.job_id = r.job_id /\ f.job_id = b.job_id
  BY <1>2, OfTheJob DEF SameButDates
<1>4. CASE e.kind = "GOVERNANCE_DECISION"
  <2>1. /\ after = [r EXCEPT !.pending = e.approval,
                             !.decision_ids = Append(@, e.approval.decision_id)]
        /\ before = [b EXCEPT !.pending = f.approval,
                              !.decision_ids = Append(@, f.approval.decision_id)]
    BY <1>1, <1>2, <1>3, <1>4 DEF read_on, read_record
  <2>2. /\ DOMAIN before = Fields /\ before.refused = NONE
        /\ before.job_id = after.job_id /\ before.state = after.state
        /\ before.awaiting_from = after.awaiting_from
        /\ before.approval = b.approval /\ after.approval = r.approval
        /\ before.pending = f.approval /\ after.pending = e.approval
    BY <1>3, <2>1 DEF Fields
  <2>3. QED BY <1>1, <1>2, <1>3, <1>4, <2>2 DEF SameButDates
<1>5. CASE e.kind = "STATE_TRANSITION"
  <2>1. f = e
    BY <1>2, <1>5
  <2>2. transition_refusal(r, e) = NONE /\ after = followed(r, e)
    BY <1>1, <1>5, MoveBelieved
  <2>3. /\ e.from = b.state /\ e.to \in reachable_from(b.state, b.awaiting_from)
        /\ ~unaudited_decision(b, e)
        /\ Backdates(approval_read(b, e), approval_read(r, e))
    BY <2>2, CheckedAlike
  <2>4. transition_refusal(b, e) = NONE
    BY <1>5, <2>3 DEF transition_refusal
  <2>5. before = followed(b, e)
    <3>1. PICK why : why = transition_refusal(b, e)
      OBVIOUS
    <3>2. before = IF why = NONE THEN followed(b, e) ELSE refusal(why)
      BY <1>1, <1>3, <1>5, <2>1, <3>1 DEF read_on, read_record
    <3>3. QED BY <2>4, <3>1, <3>2
  <2>6. PICK v : v = decided(r.state, e.to) /\ v = decided(b.state, e.to)
    BY <1>3
  <2>7. /\ DOMAIN before = Fields /\ before.refused = b.refused /\ before.job_id = b.job_id
        /\ before.state = e.to
        /\ before.awaiting_from = (IF e.to = "AWAITING_APPROVAL" THEN b.state
                                   ELSE IF b.state = "AWAITING_APPROVAL" THEN NONE
                                   ELSE b.awaiting_from)
        /\ before.approval = approval_read(b, e)
        /\ before.pending = (IF v = NONE THEN b.pending ELSE NONE)
    BY <1>3, <2>5, <2>6 DEF followed, Fields
  <2>8. /\ after.job_id = r.job_id /\ after.state = e.to
        /\ after.awaiting_from = (IF e.to = "AWAITING_APPROVAL" THEN r.state
                                  ELSE IF r.state = "AWAITING_APPROVAL" THEN NONE
                                  ELSE r.awaiting_from)
        /\ after.approval = approval_read(r, e)
        /\ after.pending = (IF v = NONE THEN r.pending ELSE NONE)
    BY <2>2, <2>6 DEF followed, Fields
  <2>9. Backdates(before.pending, after.pending)
    BY <1>3, <2>7, <2>8 DEF Backdates
  <2>10. before.awaiting_from = after.awaiting_from
    BY <1>3, <2>7, <2>8
  <2>11. QED BY <1>1, <1>3, <2>3, <2>7, <2>8, <2>9, <2>10 DEF SameButDates
<1>6. CASE e.kind = "JOB_SETTLED"
  <2>1. after = [r EXCEPT !.closing = e] /\ before = [b EXCEPT !.closing = f]
    BY <1>1, <1>2, <1>3, <1>6 DEF read_on, read_record
  <2>2. QED BY <1>1, <1>3, <2>1 DEF SameButDates, Fields
<1>7. CASE e.kind = "JOB_COMPLETED"
  <2>1. after = [r EXCEPT !.completed = TRUE] /\ before = [b EXCEPT !.completed = TRUE]
    BY <1>1, <1>2, <1>3, <1>7 DEF read_on, read_record
  <2>2. QED BY <1>1, <1>3, <2>1 DEF SameButDates, Fields
<1>8. CASE e.kind \notin {"STATE_TRANSITION", "GOVERNANCE_DECISION", "JOB_SETTLED", "JOB_COMPLETED"}
  <2>1. after = r /\ before = b
    BY <1>1, <1>2, <1>3, <1>8 DEF read_on, read_record
  <2>2. QED BY <1>1, <2>1
<1>9. QED BY <1>4, <1>5, <1>6, <1>7, <1>8

\* The deadline of an approval that was acted on is moved to the past.
LEMMA BackdatedIsRefused ==
  ASSUME NEW trail, Believed(trail),
         NEW w \in DOMAIN trail, trail[w].kind = "STATE_TRANSITION", trail[w].to \in POST_APPROVAL
  PROVE  replay_job(backdated(trail)).refused = "ExecutionAfterExpiry"
<1>1. PICK other, l, T :
        /\ other = backdated(trail) /\ l = Len(trail)
        /\ T = {k \in DOMAIN trail : /\ trail[k].kind = "STATE_TRANSITION"
                                     /\ trail[k].to \in POST_APPROVAL}
  OBVIOUS
<1>2. trail \in Seq(Event) /\ l \in Nat /\ DOMAIN trail = 1 .. l
  BY <1>1 DEF Believed
<1>3. PICK n \in T : \A k \in T : n <= k
  BY <1>1, <1>2, LeastNumber
<1>4. n \in DOMAIN trail /\ trail[n].kind = "STATE_TRANSITION" /\ trail[n].to \in POST_APPROVAL
  BY <1>1
<1>5. /\ n \in 2 .. l /\ n - 1 \in 1 .. l /\ n \in 1 .. l
  <2>1. trail[n].kind # "JOB_CREATED"
    BY <1>4
  <2>2. QED BY <1>1, <1>4, <2>1, MoveIsLater
<1>6. \A k \in 1 .. l : trail[k] \in Event /\ as_backdated(trail[k]) \in Event
  BY <1>2, RecordBackdated
<1>7. /\ other \in Seq(Event) /\ Len(other) = l
      /\ \A k \in 1 .. l : other[k] = as_backdated(trail[k])
  <2>1. other = [k \in 1 .. l |-> as_backdated(trail[k])]
    BY <1>1, <1>2 DEF backdated, as_backdated
  <2>2. QED BY <1>2, <1>6, <2>1
<1>8. other # <<>> /\ other[1].kind = "JOB_CREATED" /\ Len(other) \in Nat /\ other[1] = trail[1]
  <2>1. 1 \in 1 .. l /\ trail[1].kind = "JOB_CREATED"
    BY <1>2, <1>5 DEF Believed
  <2>2. other[1] = trail[1]
    BY <1>6, <1>7, <2>1, RecordBackdated
  <2>3. QED BY <1>2, <1>5, <1>7, <2>1, <2>2
<1>9. PICK r, b : r = readings(trail) /\ b = readings(other)
  OBVIOUS
<1> DEFINE S == {k \in Nat : k <= n - 1 => SameButDates(b[k], r[k])}
<1>10. 1 \in S
  <2>1. r[1] = started(trail[1]) /\ b[1] = started(trail[1])
    BY <1>1, <1>2, <1>5, <1>7, <1>8, <1>9, ReadingByReading
  <2>2. SameButDates(started(trail[1]), started(trail[1]))
    BY DEF SameButDates, Backdates, started, Fields
  <2>3. QED BY <2>1, <2>2
<1>11. ASSUME NEW k \in Nat, k >= 1, k \in S
       PROVE  k + 1 \in S
  <2> SUFFICES ASSUME k + 1 <= n - 1 PROVE SameButDates(b[k + 1], r[k + 1])
    OBVIOUS
  <2>1. k + 1 \in 2 .. l /\ (k + 1) - 1 = k /\ k <= n - 1 /\ ~(n <= k + 1) /\ k + 1 \in 1 .. l
    BY <1>2, <1>5, <1>11
  <2>2. SameButDates(b[k], r[k])
    BY <1>11, <2>1
  <2>3. /\ r[k].refused = NONE /\ DOMAIN r[k] = Fields
        /\ r[k + 1].refused = NONE /\ r[k + 1] = read_on(r[k], trail[k + 1])
    BY <1>1, <1>9, <2>1, BelievedOnce
  <2>4. b[k + 1] = read_on(b[k], as_backdated(trail[k + 1]))
    BY <1>7, <1>8, <1>9, <2>1, ReadingByReading
  <2>5. trail[k + 1].kind = "STATE_TRANSITION" => trail[k + 1].to \notin POST_APPROVAL
    BY <1>1, <1>2, <1>3, <2>1
  <2>6. trail[k + 1] \in Event
    BY <1>6, <2>1
  <2>7. QED BY <2>2, <2>3, <2>4, <2>5, <2>6, ReadAlikeButDates
<1> HIDE DEF S
<1>12. SameButDates(b[n - 1], r[n - 1])
  <2>1. n - 1 \in Nat /\ n - 1 >= 1
    BY <1>2, <1>5
  <2>2. n - 1 \in S
    BY <1>10, <1>11, <2>1, Counting
  <2>3. QED BY <2>1, <2>2 DEF S
<1>13. PICK e, x, y : e = trail[n] /\ x = b[n - 1] /\ y = r[n - 1]
  OBVIOUS
<1>14. SameButDates(x, y) /\ e \in Event /\ e.kind = "STATE_TRANSITION" /\ e.to \in POST_APPROVAL
  BY <1>4, <1>5, <1>6, <1>12, <1>13
<1>15. /\ y.refused = NONE /\ read_on(y, e).refused = NONE /\ e.job_id = y.job_id
  <2>1. /\ readings(trail)[n - 1].refused = NONE /\ readings(trail)[n].refused = NONE
        /\ readings(trail)[n] = read_on(readings(trail)[n - 1], trail[n])
        /\ trail[n].job_id = readings(trail)[n - 1].job_id
    BY <1>1, <1>5, BelievedOnce
  <2>2. QED BY <1>9, <1>13, <2>1
<1>16. transition_refusal(y, e) = NONE
  BY <1>14, <1>15, MoveBelieved
<1>17. /\ e.from = x.state /\ e.to \in reachable_from(x.state, x.awaiting_from)
       /\ ~unaudited_decision(x, e)
       /\ Backdates(approval_read(x, e), approval_read(y, e)) /\ approval_read(y, e) # NONE
  BY <1>14, <1>16, CheckedAlike
<1>18. approval_read(x, e) # NONE /\ approval_read(x, e).expires_at = 0
  BY <1>17 DEF Backdates
<1>19. after_expiry(approval_read(x, e), e)
  <2>1. e.occurred_at \in Nat
    BY <1>14 DEF Event
  <2>2. e.occurred_at >= 0 /\ 0 # NONE
    BY <2>1, JobAssumption
  <2>3. QED BY <1>18, <2>2 DEF after_expiry
<1>20. transition_refusal(x, e) = "ExecutionAfterExpiry"
  BY <1>14, <1>17, <1>18, <1>19 DEF transition_refusal
<1>21. read_on(x, e) = refusal("ExecutionAfterExpiry")
  <2>1. "ExecutionAfterExpiry" # NONE
    BY ReplayAssumption DEF ReplayError
  <2>2. PICK why : why = transition_refusal(x, e)
    OBVIOUS
  <2>3. x.refused = NONE /\ x.job_id = e.job_id
    BY <1>14, <1>15 DEF SameButDates
  <2>4. read_on(x, e) = IF why = NONE THEN followed(x, e) ELSE refusal(why)
    BY <1>14, <2>2, <2>3 DEF read_on, read_record
  <2>5. QED BY <1>20, <2>1, <2>2, <2>4
<1>22. readings(other)[n] = refusal("ExecutionAfterExpiry")
  <2>1. other[n] = e
    BY <1>5, <1>7, <1>13, <1>14, RecordBackdated
  <2>2. n \in 2 .. Len(other)
    BY <1>5, <1>7
  <2>3. QED BY <1>8, <1>9, <1>13, <1>21, <2>1, <2>2, ReadingByReading
<1>23. QED
  BY <1>1, <1>5, <1>7, <1>8, <1>22, RefusedAt DEF ReplayError

\* A trail of the engine's that was not stamped late is believed.
LEMMA EveryTrailIsBelieved ==
  ASSUME ReplayAgrees, StoryInv, NEW j \in Jobs, constructed(j), ~StampedLate(j)
  PROVE  /\ Believed(events[j]) /\ end(events[j]).state = state[j]
         /\ closing_refusal(end(events[j]), Len(events[j])) = NONE
<1>1. PICK trail, last, why :
        trail = events[j] /\ last = end(trail) /\ why = closing_refusal(last, Len(trail))
  OBVIOUS
<1>2. trail \in Seq(Event)
  BY <1>1 DEF StoryInv, TrailInv, LockInv, TypeOK
<1>3. replay_job(trail).refused = NONE /\ replay_job(trail).state = state[j]
  BY <1>1 DEF ReplayAgrees, Agrees
<1>4. /\ trail # <<>> /\ trail[1].kind = "JOB_CREATED"
      /\ last.refused = NONE /\ why = NONE
  BY <1>1, <1>2, <1>3, OnlyIfBelieved DEF Refused
<1>5. Believed(trail)
  BY <1>1, <1>2, <1>4, BelievedThroughout DEF Believed
<1>6. replay_job(trail) = replayed(last)
  <2>1. replay_job(trail) =
          IF trail = <<>> THEN refusal("EmptyTrail")
          ELSE IF trail[1].kind # "JOB_CREATED" THEN refusal("UnstartedTrail")
          ELSE IF last.refused # NONE THEN last
          ELSE IF why = NONE THEN replayed(last) ELSE refusal(why)
    BY <1>1, <1>2, AllOurs DEF replay_job, end
  <2>2. QED BY <1>4, <2>1
<1>7. last.state = state[j]
  BY <1>3, <1>6 DEF replayed
<1>8. QED BY <1>1, <1>4, <1>5, <1>7

\* A trail of any job that was edited by hand, by taking out a move, its verdicts
\* or its closing record, or by changing where a move led or when an approval
\* ended, is refused for what was done to it.
THEOREM EditsShow == Spec => []EditedTrailsRefused
<1>1. ASSUME StoryInv, ReplayAgrees, NEW j \in Jobs, constructed(j), ~StampedLate(j),
             NEW trail, trail = events[j], NEW moves,
             moves = {n \in DOMAIN trail : trail[n].kind = "STATE_TRANSITION"}
      PROVE  /\ \A n \in moves : (\E m \in moves : m > n) =>
                  replay_job(without(trail, n, n)).refused = "BrokenTrail"
             /\ \A n \in moves : trail[n].from # "AWAITING_APPROVAL" =>
                  \A to \in JobState \ TRANSITIONS[trail[n].from] :
                    replay_job(redirected(trail, n, to)).refused = "UndeclaredTransition"
             /\ (\E n \in DOMAIN trail : trail[n].kind = "GOVERNANCE_DECISION") =>
                  replay_job(unjudged(trail)).refused = "UnauditedDecision"
             /\ Settled(j) => replay_job(unclosed(trail)).refused = "UnsettledTrail"
             /\ (\E n \in moves : trail[n].to \in POST_APPROVAL) =>
                  replay_job(backdated(trail)).refused = "ExecutionAfterExpiry"
  <2>1. PICK h : h = history[j]
    OBVIOUS
  <2>2. Story(trail, h) /\ Ending(trail, h)
    BY <1>1, <2>1, EveryTrailIsAStory, EveryTrailEnds
  <2>3. Believed(trail) /\ end(trail).state = state[j]
        /\ closing_refusal(end(trail), Len(trail)) = NONE
    BY <1>1, EveryTrailIsBelieved
  <2>4. ASSUME NEW n \in moves, NEW m \in moves, m > n
        PROVE  replay_job(without(trail, n, n)).refused = "BrokenTrail"
    BY <1>1, <2>2, <2>3, <2>4, DroppedIsRefused
  <2>5. ASSUME NEW n \in moves, trail[n].from # "AWAITING_APPROVAL",
               NEW to \in JobState \ TRANSITIONS[trail[n].from]
        PROVE  replay_job(redirected(trail, n, to)).refused = "UndeclaredTransition"
    BY <1>1, <2>3, <2>5, RedirectedIsRefused
  <2>6. ASSUME NEW n \in DOMAIN trail, trail[n].kind = "GOVERNANCE_DECISION"
        PROVE  replay_job(unjudged(trail)).refused = "UnauditedDecision"
    BY <2>2, <2>3, <2>6, UnjudgedIsRefused
  <2>7. ASSUME Settled(j)
        PROVE  replay_job(unclosed(trail)).refused = "UnsettledTrail"
    <3>1. /\ \A n \in DOMAIN trail : trail[n].kind = "JOB_SETTLED" => n = Len(trail)
          /\ trail[Len(trail)].kind = "JOB_SETTLED"
      <4>1. recorded(j, "JOB_SETTLED") = {Len(trail)}
        BY <1>1, <2>7 DEF StoryInv, TrailInv, TrailClosed, Settled
      <4>2. {n \in DOMAIN trail : trail[n].kind = "JOB_SETTLED"} = {Len(trail)}
        BY <1>1, <4>1 DEF recorded
      <4>3. QED BY <4>2
    <3>2. end(trail).state \in TERMINAL
      BY <2>3, <2>7 DEF Settled
    <3>3. QED BY <2>3, <3>1, <3>2, UnclosedIsUnsettled
  <2>8. ASSUME NEW n \in moves, trail[n].to \in POST_APPROVAL
        PROVE  replay_job(backdated(trail)).refused = "ExecutionAfterExpiry"
    BY <1>1, <2>3, <2>8, BackdatedIsRefused
  <2>9. QED BY <2>4, <2>5, <2>6, <2>7, <2>8
<1>2. StoryInv /\ ReplayAgrees => EditedTrailsRefused
  BY <1>1 DEF EditedTrailsRefused
<1>3. QED
  BY <1>2, StoryInvariant, ReaderArrivesAtTheJob, PTL

=============================================================================
