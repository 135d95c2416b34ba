------------------------- MODULE Structures_proofs --------------------------
(***************************************************************************)
(* For every structure that the crates write and read: what its encoder    *)
(* writes its decoder reads back, without the defaults that are left       *)
(* out, if it obeys the rules that the decoder checks, and refuses         *)
(* otherwise (RoundTrip); and what a decoder returns, of any elements      *)
(* whatever, is of the type and obeys the rules (Shape). For every         *)
(* length of a list and every value of a field. A structure is written     *)
(* and read one row after the other: recursive functions, of which only    *)
(* the step from one row to the next is used.  A row of which one element  *)
(* is lost, repeated, added or moved is refused, or is read as it was but  *)
(* for one field.                                                          *)
(***************************************************************************)
EXTENDS StructureTypes, Errors_proofs, FiniteSetTheorems, SequenceTheorems

(* What holds at 0, and at each position if it does at the one before,     *)
(* holds at all of them.                                                   *)
LEMMA UpTo ==
  ASSUME NEW n \in Nat, NEW S, 0 \in S, \A i \in 1..n : i - 1 \in S => i \in S
  PROVE  \A i \in 0..n : i \in S
<1> DEFINE T == {i \in 0..n : i \notin S}
<1> SUFFICES ASSUME T # {} PROVE FALSE
  OBVIOUS
<1>1. PICK m \in T : \A k \in T : m <= k
  <2>1. T \in SUBSET Nat
    OBVIOUS
  <2> HIDE DEF T
  <2> QED
    BY <2>1, LeastNatural
<1>2. m \in 1..n /\ m - 1 \in 0..n /\ m \notin S /\ m - 1 \notin T
  <2>1. m \in 0..n /\ m \notin S
    OBVIOUS
  <2>2. m # 0 /\ ~(m <= m - 1)
    BY <2>1
  <2> HIDE DEF T
  <2> QED
    BY <2>1, <2>2, <1>1
<1> QED
  BY <1>2

(* What is built one step after the other exists, and stays in the set     *)
(* that the steps stay in.                                                 *)
StepsFrom(f, n, base, step) ==
  /\ f = [i \in 0..n |-> f[i]]
  /\ f[0] = base
  /\ \A i \in 1..n : f[i] = step[i][f[i - 1]]

(* What the steps keep in a set stays in it to the end.                    *)
LEMMA StepsStay ==
  ASSUME NEW n \in Nat, NEW base, NEW step, NEW f, StepsFrom(f, n, base, step),
         NEW V, base \in V, \A i \in 1..n : \A v \in V : step[i][v] \in V
  PROVE  \A i \in 0..n : f[i] \in V
<1> DEFINE S == {i \in 0..n : f[i] \in V}
<1>1. 0 \in S
  BY DEF StepsFrom
<1>3. ASSUME NEW i \in 1..n, i - 1 \in S PROVE i \in S
  <2>1. f[i - 1] \in V /\ i \in 0..n
    BY <1>3
  <2>2. f[i] = step[i][f[i - 1]]
    BY DEF StepsFrom
  <2> QED
    BY <2>1, <2>2
<1>2. \A i \in 0..n : i \in S
  <2> HIDE DEF S
  <2> QED
    BY <1>1, <1>3, UpTo
<1> QED
  BY <1>2

(* Steps of any number can be made one after the other.                    *)
LEMMA Steps ==
  ASSUME NEW n \in Nat, NEW base, NEW step
  PROVE  \E f : StepsFrom(f, n, base, step)
<1> DEFINE Built(m) == \E f : StepsFrom(f, m, base, step)
           S == {m \in 0..n : Built(m)}
<1>1. Built(0)
  <2> DEFINE f == [i \in 0..0 |-> base]
  <2>1. StepsFrom(f, 0, base, step)
    BY DEF StepsFrom
  <2> QED
    BY <2>1
<1>2. ASSUME NEW m \in 1..n, Built(m - 1) PROVE Built(m)
  <2>1. PICK f : StepsFrom(f, m - 1, base, step)
    BY <1>2
  <2> DEFINE g == [i \in 0..m |-> IF i = m THEN step[m][f[m - 1]] ELSE f[i]]
  <2>2. g[0] = base
    BY <2>1 DEF StepsFrom
  <2>3. ASSUME NEW i \in 1..m PROVE g[i] = step[i][g[i - 1]]
    <3>1. CASE i = m
      <4>1. g[m] = step[m][f[m - 1]] /\ g[m - 1] = f[m - 1]
        OBVIOUS
      <4> QED
        BY <3>1, <4>1
    <3>2. CASE i # m
      <4>1. i \in 1..(m - 1) /\ i - 1 \in 0..(m - 1)
        BY <3>2
      <4>2. g[i] = f[i] /\ g[i - 1] = f[i - 1]
        BY <4>1
      <4> HIDE DEF g
      <4> QED
        BY <2>1, <4>1, <4>2 DEF StepsFrom
    <3> QED
      BY <3>1, <3>2
  <2>4. g = [i \in 0..m |-> g[i]]
    OBVIOUS
  <2> HIDE DEF g
  <2> QED
    BY <2>2, <2>3, <2>4 DEF StepsFrom
<1>3. 0 \in S /\ \A m \in 1..n : m - 1 \in S => m \in S
  <2> HIDE DEF Built
  <2> QED
    BY <1>1, <1>2
<1>4. n \in S
  <2> HIDE DEF S
  <2> QED
    BY <1>3, UpTo
<1> QED
  BY <1>4

(* What has been read after each row.                                      *)
ReadBy(r, n, rows, elements) ==
  /\ r[0] = [taken |-> 0, got |-> <<>>]
  /\ \A i \in 0..n : r[i].taken \in Nat /\ IsFunction(r[i].got) /\ DOMAIN r[i].got = 1..i
  /\ \A i \in 1..n :
       LET next == r[i - 1].taken + 1
           takes == r[i - 1].taken < Len(elements) /\ elements[next][1] = rows[i].tag
       IN  /\ r[i].taken = IF takes THEN next ELSE r[i - 1].taken
           /\ r[i].got[i] = IF takes THEN elements[next][2] ELSE None
           /\ \A j \in 1..(i - 1) : r[i].got[j] = r[i - 1].got[j]
  /\ Fields(rows, elements) = AllTaken(r[n], rows, elements)

(* Fields reads by such steps, row after row.                              *)
LEMMA ReadSteps ==
  ASSUME NEW n \in Nat, NEW rows, Len(rows) = n, NEW elements
  PROVE  \E r : ReadBy(r, n, rows, elements)
<1> DEFINE B == {None} \cup {elements[j][2] : j \in Nat}
           V == [taken : Nat, got : Seq(B)]
           start == [taken |-> 0, got |-> <<>>]
           step == [i \in 1..n |-> [v \in V |-> TakeRow(v, elements, rows[i])]]
           D == 0..n
           Is(g) == g = [i \in D |-> IF i = 0 THEN start ELSE TakeRow(g[i - 1], elements, rows[i])]
<1>1. PICK f : StepsFrom(f, n, start, step)
  BY Steps
<1>2. ASSUME NEW i \in 1..n, NEW v \in V PROVE TakeRow(v, elements, rows[i]) \in V
  <2>1. v.taken \in Nat /\ v.got \in Seq(B) /\ v.taken + 1 \in Nat
    OBVIOUS
  <2>2. None \in B /\ \A j \in Nat : elements[j][2] \in B
    OBVIOUS
  <2> HIDE DEF B
  <2>3. \A b \in B : Append(v.got, b) \in Seq(B)
    BY <2>1
  <2> QED
    BY <2>1, <2>2, <2>3 DEF TakeRow
<1>3. start \in V
  OBVIOUS
<1>4. \A i \in D : f[i] \in V
  <2>1. \A i \in 1..n : \A v \in V : step[i][v] \in V
    <3> HIDE DEF V
    <3> QED
      BY <1>2
  <2> HIDE DEF step, V, start
  <2> QED
    BY <1>1, <1>3, <2>1, StepsStay
<1>5. ASSUME NEW i \in D \ {0} PROVE f[i] = TakeRow(f[i - 1], elements, rows[i])
  <2>1. i \in 1..n /\ i - 1 \in D
    OBVIOUS
  <2>2. f[i - 1] \in V
    BY <2>1, <1>4
  <2>3. step[i][f[i - 1]] = TakeRow(f[i - 1], elements, rows[i])
    <3> HIDE DEF V
    <3> QED
      BY <2>1, <2>2
  <2> HIDE DEF step
  <2> QED
    BY <1>1, <2>1, <2>3 DEF StepsFrom
<1> HIDE DEF step
<1>6. Is(f)
  <2> HIDE DEF start
  <2> QED
    BY <1>1, <1>5 DEF StepsFrom
<1> DEFINE r == CHOOSE g : Is(g)
<1>7. Is(r)
  <2> HIDE DEF Is
  <2> QED
    BY <1>6
<1>8. Fields(rows, elements) = AllTaken(r[n], rows, elements)
  BY DEF Fields
<1>9. \A i \in D : r[i] = IF i = 0 THEN start ELSE TakeRow(r[i - 1], elements, rows[i])
  <2> HIDE DEF r, start
  <2> QED
    BY <1>7
<1> HIDE DEF r, Is
<1>10. \A i \in D : r[i] = f[i]
  <2> DEFINE S == {i \in D : r[i] = f[i]}
  <2>1. 0 \in S
    <3> HIDE DEF start
    <3> QED
      BY <1>1, <1>9 DEF StepsFrom
  <2>2. ASSUME NEW i \in 1..n, i - 1 \in S PROVE i \in S
    <3>1. i \in D \ {0} /\ r[i - 1] = f[i - 1]
      BY <2>2
    <3> HIDE DEF start
    <3> QED
      BY <3>1, <1>5, <1>9
  <2> HIDE DEF S
  <2>3. \A i \in D : i \in S
    BY <2>1, <2>2, UpTo
  <2> QED
    BY <2>3 DEF S
<1>11. \A i \in D : r[i] \in V
  BY <1>4, <1>10
<1>12. ASSUME NEW i \in 1..n
       PROVE  LET next == r[i - 1].taken + 1
                  takes == r[i - 1].taken < Len(elements) /\ elements[next][1] = rows[i].tag
              IN  /\ r[i].taken = IF takes THEN next ELSE r[i - 1].taken
                  /\ Len(r[i].got) = Len(r[i - 1].got) + 1
                  /\ r[i].got[Len(r[i].got)] = IF takes THEN elements[next][2] ELSE None
                  /\ \A j \in 1..Len(r[i - 1].got) : r[i].got[j] = r[i - 1].got[j]
  <2>1. i \in D /\ i # 0 /\ i - 1 \in D
    OBVIOUS
  <2>2. r[i] = TakeRow(r[i - 1], elements, rows[i])
    BY <1>9, <2>1
  <2>3. r[i - 1].got \in Seq(B) /\ r[i - 1].taken \in Nat
    BY <1>11, <2>1
  <2>4. None \in B /\ \A j \in Nat : elements[j][2] \in B
    OBVIOUS
  <2> HIDE DEF B
  <2>5. elements[r[i - 1].taken + 1][2] \in B
    BY <2>3, <2>4
  <2> QED
    BY <2>2, <2>3, <2>4, <2>5 DEF TakeRow
<1>13. r[0] = start
  BY <1>9
<1>14. \A i \in D : Len(r[i].got) = i
  <2> DEFINE S == {i \in D : Len(r[i].got) = i}
  <2>1. 0 \in S
    BY <1>13
  <2>2. ASSUME NEW i \in 1..n, i - 1 \in S PROVE i \in S
    BY <2>2, <1>12
  <2> HIDE DEF S
  <2>3. \A i \in D : i \in S
    BY <2>1, <2>2, UpTo
  <2> QED
    BY <2>3 DEF S
<1>15. \A i \in D : r[i].taken \in Nat /\ IsFunction(r[i].got) /\ DOMAIN r[i].got = 1..i
  <2> SUFFICES ASSUME NEW i \in D
               PROVE  r[i].taken \in Nat /\ IsFunction(r[i].got) /\ DOMAIN r[i].got = 1..i
    OBVIOUS
  <2>1. r[i].taken \in Nat /\ r[i].got \in Seq(B)
    BY <1>11
  <2> HIDE DEF B
  <2> QED
    BY <2>1, <1>14 DEF IsFunction
<1>16. ASSUME NEW i \in 1..n
       PROVE  LET next == r[i - 1].taken + 1
                  takes == r[i - 1].taken < Len(elements) /\ elements[next][1] = rows[i].tag
              IN  /\ r[i].taken = IF takes THEN next ELSE r[i - 1].taken
                  /\ r[i].got[i] = IF takes THEN elements[next][2] ELSE None
                  /\ \A j \in 1..(i - 1) : r[i].got[j] = r[i - 1].got[j]
  BY <1>12, <1>14
<1> QED
  BY <1>8, <1>13, <1>15, <1>16 DEF ReadBy

(* What is written after each row.                                         *)
WrittenBy(w, n, cells, e) ==
  /\ w[0] = <<>>
  /\ w[n] = e
  /\ \A i \in 0..n : w[i] \in Seq({cells[j] : j \in 1..n})
  /\ \A i \in 1..n : w[i] = IF cells[i][2] = None THEN w[i - 1] ELSE Append(w[i - 1], cells[i])

(* Present writes by such steps, row after row.                            *)
LEMMA PresentSteps ==
  ASSUME NEW n \in Nat, NEW rows, Len(rows) = n
  PROVE  \E w : WrittenBy(w, n, rows, Present(rows))
<1> DEFINE V == Seq({rows[j] : j \in 1..n})
           Next1(i, l) == IF rows[i][2] = None THEN l ELSE Append(l, rows[i])
           step == [i \in 1..n |-> [l \in V |-> Next1(i, l)]]
           D == 0..n
           Is(g) == g = [i \in D |-> IF i = 0 THEN <<>> ELSE Next1(i, g[i - 1])]
<1>1. PICK f : StepsFrom(f, n, <<>>, step)
  BY Steps
<1>2. \A i \in D : f[i] \in V
  <2>1. \A i \in 1..n : \A l \in V : step[i][l] \in V
    OBVIOUS
  <2>2. <<>> \in V
    OBVIOUS
  <2> HIDE DEF step, V
  <2> QED
    BY <1>1, <2>1, <2>2, StepsStay
<1>3. ASSUME NEW i \in D \ {0} PROVE f[i] = Next1(i, f[i - 1])
  <2>1. i \in 1..n /\ i - 1 \in D
    OBVIOUS
  <2>2. f[i - 1] \in V
    BY <2>1, <1>2
  <2>3. step[i][f[i - 1]] = Next1(i, f[i - 1])
    <3> HIDE DEF V
    <3> QED
      BY <2>1, <2>2
  <2> HIDE DEF Next1, step
  <2> QED
    BY <1>1, <2>1, <2>3 DEF StepsFrom
<1> HIDE DEF Next1, step
<1>4. Is(f)
  BY <1>1, <1>3 DEF StepsFrom
<1> DEFINE w == CHOOSE g : Is(g)
<1>5. Is(w)
  <2> HIDE DEF Is
  <2> QED
    BY <1>4
<1>0. w[n] = Present(rows)
  BY DEF Present, Next1
<1>6. \A i \in D : w[i] = IF i = 0 THEN <<>> ELSE Next1(i, w[i - 1])
  BY <1>5
<1> HIDE DEF w
<1>7. \A i \in D : w[i] = f[i]
  <2> DEFINE S == {i \in D : w[i] = f[i]}
  <2>1. 0 \in S
    BY <1>1, <1>6 DEF StepsFrom
  <2>2. ASSUME NEW i \in 1..n, i - 1 \in S PROVE i \in S
    <3>1. i \in D \ {0} /\ w[i - 1] = f[i - 1]
      BY <2>2
    <3> QED
      BY <3>1, <1>3, <1>6
  <2> HIDE DEF S
  <2>3. \A i \in D : i \in S
    BY <2>1, <2>2, UpTo
  <2> QED
    BY <2>3 DEF S
<1>8. /\ \A i \in D : w[i] \in V
      /\ w[0] = <<>>
      /\ \A i \in 1..n : w[i] = Next1(i, w[i - 1])
  BY <1>2, <1>6, <1>7
<1> QED
  BY <1>0, <1>8 DEF Next1, WrittenBy

(* A row adds itself at the end, if it is there.                           *)
LEMMA WrittenRow ==
  ASSUME NEW n \in Nat, NEW cells, NEW e, NEW w, WrittenBy(w, n, cells, e), NEW i \in 1..n
  PROVE  /\ Len(w[i - 1]) \in Nat /\ Len(w[i]) \in Nat
         /\ cells[i][2] = None => w[i] = w[i - 1]
         /\ cells[i][2] # None => Len(w[i]) = Len(w[i - 1]) + 1 /\ w[i][Len(w[i])] = cells[i]
         /\ Len(w[i - 1]) <= Len(w[i])
         /\ \A k \in 1..Len(w[i - 1]) : w[i][k] = w[i - 1][k]
<1> DEFINE E == {cells[j] : j \in 1..n}
<1>1. /\ w[i - 1] \in Seq(E) /\ cells[i] \in E
      /\ w[i] = IF cells[i][2] = None THEN w[i - 1] ELSE Append(w[i - 1], cells[i])
  BY DEF WrittenBy
<1> HIDE DEF E
<1>2. CASE cells[i][2] = None
  BY <1>1, <1>2
<1>3. CASE cells[i][2] # None
  BY <1>1, <1>3
<1> QED
  BY <1>2, <1>3

(* What was written stays where it is.                                     *)
LEMMA WrittenStays ==
  ASSUME NEW n \in Nat, NEW cells, NEW e, NEW w, WrittenBy(w, n, cells, e),
         NEW i \in 0..n, NEW j \in i..n
  PROVE  /\ Len(w[i]) \in Nat /\ Len(w[j]) \in Nat
         /\ Len(w[i]) <= Len(w[j])
         /\ \A k \in 1..Len(w[i]) : w[j][k] = w[i][k]
<1> DEFINE Keeps(m) == /\ Len(w[i]) <= Len(w[m])
                       /\ \A k \in 1..Len(w[i]) : w[m][k] = w[i][k]
           S == {m \in 0..n : m < i \/ Keeps(m)}
<1>1. \A m \in 0..n : Len(w[m]) \in Nat
  BY DEF WrittenBy
<1>2. Keeps(i)
  BY <1>1
<1>3. ASSUME NEW m \in 1..n, m > i, Keeps(m - 1) PROVE Keeps(m)
  BY <1>1, <1>3, WrittenRow
<1> HIDE DEF Keeps
<1>4. 0 \in S
  BY <1>2
<1>5. ASSUME NEW m \in 1..n, m - 1 \in S PROVE m \in S
  <2>1. CASE m < i
    BY <2>1
  <2>2. CASE m = i
    BY <2>2, <1>2
  <2>3. CASE m > i
    <3>1. Keeps(m - 1)
      BY <2>3, <1>5
    <3> QED
      BY <3>1, <2>3, <1>3
  <2> QED
    BY <2>1, <2>2, <2>3
<1>6. j \in 0..n
  OBVIOUS
<1>7. j \in S
  <2> HIDE DEF S
  <2> QED
    BY <1>4, <1>5, <1>6, UpTo
<1>8. Keeps(j)
  BY <1>6, <1>7
<1> QED
  BY <1>1, <1>6, <1>8 DEF Keeps

(* A row that is there is at the place that it is written to.              *)
LEMMA WrittenThere ==
  ASSUME NEW n \in Nat, NEW cells, NEW e, NEW w, WrittenBy(w, n, cells, e),
         NEW i \in 1..n, cells[i][2] # None
  PROVE  Len(w[i]) \in 1..Len(e) /\ e[Len(w[i])] = cells[i]
<1>1. n \in i..n /\ i \in 0..n
  OBVIOUS
<1>2. Len(w[i]) = Len(w[i - 1]) + 1 /\ w[i][Len(w[i])] = cells[i] /\ Len(w[i - 1]) \in Nat
  BY WrittenRow
<1>3. /\ Len(w[n]) \in Nat /\ Len(w[i]) <= Len(w[n])
      /\ \A k \in 1..Len(w[i]) : w[n][k] = w[i][k]
  BY <1>1, WrittenStays
<1>4. w[n] = e
  BY DEF WrittenBy
<1> QED
  BY <1>2, <1>3, <1>4

(* What comes next is the next row that is there.                          *)
LEMMA WrittenNext ==
  ASSUME NEW n \in Nat, NEW cells, NEW e, NEW w, WrittenBy(w, n, cells, e),
         NEW i \in 1..n, cells[i][2] = None, Len(w[i]) < Len(e)
  PROVE  \E j \in (i + 1)..n :
           /\ cells[j][2] # None
           /\ \A k \in i..(j - 1) : cells[k][2] = None
           /\ e[Len(w[i]) + 1] = cells[j]
<1> DEFINE Later == {j \in (i + 1)..n : cells[j][2] # None}
<1>1. ASSUME NEW j \in i..n, \A k \in (i + 1)..j : cells[k][2] = None PROVE w[j] = w[i]
  <2> DEFINE S == {m \in 0..n : m < i \/ m > j \/ w[m] = w[i]}
  <2>1. 0 \in S
    OBVIOUS
  <2>2. ASSUME NEW m \in 1..n, m - 1 \in S PROVE m \in S
    <3>1. CASE m \in (i + 1)..j
      <4>1. w[m] = w[m - 1]
        BY <3>1, <1>1, WrittenRow
      <4>2. w[m - 1] = w[i]
        BY <3>1, <2>2
      <4> QED
        BY <4>1, <4>2
    <3>2. CASE m \notin (i + 1)..j
      BY <3>2
    <3> QED
      BY <3>1, <3>2
  <2>3. j \in 0..n
    OBVIOUS
  <2>4. j \in S
    <3> HIDE DEF S
    <3> QED
      BY <2>1, <2>2, <2>3, UpTo
  <2> QED
    BY <2>4
<1>2. Later # {}
  <2> SUFFICES ASSUME Later = {} PROVE FALSE
    OBVIOUS
  <2>1. w[n] = w[i]
    BY <1>1
  <2>2. Len(e) \in Nat
    BY DEF WrittenBy
  <2> QED
    BY <2>1, <2>2 DEF WrittenBy
<1>3. PICK j \in Later : \A k \in Later : j <= k
  <2>1. Later \in SUBSET Nat
    OBVIOUS
  <2> HIDE DEF Later
  <2> QED
    BY <1>2, <2>1, LeastNatural
<1>4. j \in (i + 1)..n /\ cells[j][2] # None
  OBVIOUS
<1>5. \A k \in i..(j - 1) : cells[k][2] = None
  BY <1>3, <1>4
<1> HIDE DEF Later
<1>6. w[j - 1] = w[i]
  <2>1. j - 1 \in i..n
    BY <1>4
  <2> QED
    BY <2>1, <1>1, <1>4, <1>5
<1>7. Len(w[j]) = Len(w[i]) + 1
  BY <1>4, <1>6, WrittenRow
<1>8. e[Len(w[j])] = cells[j]
  BY <1>4, WrittenThere
<1>9. e[Len(w[i]) + 1] = cells[j]
  BY <1>7, <1>8
<1> QED
  BY <1>4, <1>5, <1>9

(* The rows that a decoder can tell apart: of an optional one and any that *)
(* may come next, by their tags.                                           *)
Unambiguous(n, rows) ==
  \A i, j \in 1..n :
    i < j /\ (\A k \in i..(j - 1) : rows[k].optional) => rows[i].tag # rows[j].tag

(* What is written row by row is read row by row: each is found where it   *)
(* was written, and none that was not.                                     *)
LEMMA RowsRoundTrip ==
  ASSUME NEW n \in Nat, NEW rows, Len(rows) = n, DOMAIN rows = 1..n, NEW cells, Len(cells) = n,
         \A i \in 1..n : cells[i][1] = rows[i].tag,
         \A i \in 1..n : cells[i][2] = None => rows[i].optional,
         Unambiguous(n, rows)
  PROVE  LET f == Fields(rows, Present(cells))
         IN  IsFunction(f) /\ DOMAIN f = 1..n /\ \A i \in 1..n : f[i] = cells[i][2]
<1> DEFINE e == Present(cells)
<1>1. PICK w : WrittenBy(w, n, cells, e)
  BY PresentSteps
<1>2. Len(e) \in Nat
  BY <1>1 DEF WrittenBy
<1> HIDE DEF e
<1>3. PICK r : ReadBy(r, n, rows, e)
  BY ReadSteps
(* The decoder is where the encoder was.                                   *)
<1> DEFINE Follows(i) == /\ r[i].taken = Len(w[i])
                         /\ \A j \in 1..i : r[i].got[j] = cells[j][2]
<1>4. ASSUME NEW i \in 1..n, Follows(i - 1) PROVE Follows(i)
  <2>1. r[i - 1].taken = Len(w[i - 1]) /\ Len(w[i - 1]) \in Nat
    BY <1>1, <1>4, WrittenRow
  <2> DEFINE next == Len(w[i - 1]) + 1
             takes == Len(w[i - 1]) < Len(e) /\ e[next][1] = rows[i].tag
  <2>2. /\ r[i].taken = IF takes THEN next ELSE Len(w[i - 1])
        /\ r[i].got[i] = IF takes THEN e[next][2] ELSE None
        /\ \A j \in 1..(i - 1) : r[i].got[j] = r[i - 1].got[j]
    BY SMTT(40), <1>3, <2>1 DEF ReadBy
  <2>3. \A j \in 1..(i - 1) : r[i].got[j] = cells[j][2]
    BY <1>4, <2>2
  <2>4. CASE cells[i][2] # None
    <3>1. Len(w[i]) = Len(w[i - 1]) + 1
      BY <2>4, <1>1, WrittenRow
    <3>2. Len(w[i]) \in 1..Len(e) /\ e[Len(w[i])] = cells[i]
      BY <2>4, <1>1, WrittenThere
    <3>3. takes /\ Len(w[i]) = next
      BY <3>1, <3>2, <2>1, <1>2
    <3> HIDE DEF takes, next
    <3>4. r[i].got[i] = cells[i][2]
      BY <3>2, <3>3, <2>2
    <3> QED
      BY <2>2, <2>3, <3>3, <3>4
  <2>5. CASE cells[i][2] = None
    <3>1. w[i] = w[i - 1]
      BY <2>5, <1>1, WrittenRow
    <3>2. ASSUME Len(w[i - 1]) < Len(e) PROVE e[next][1] # rows[i].tag
      <4>1. PICK j \in (i + 1)..n :
              /\ cells[j][2] # None
              /\ \A k \in i..(j - 1) : cells[k][2] = None
              /\ e[Len(w[i]) + 1] = cells[j]
        BY <2>5, <3>1, <3>2, <1>1, WrittenNext
      <4>2. \A k \in i..(j - 1) : rows[k].optional
        BY <4>1
      <4>3. i < j /\ j \in 1..n
        OBVIOUS
      <4>4. rows[i].tag # rows[j].tag
        BY <4>2, <4>3 DEF Unambiguous
      <4>5. e[next] = cells[j] /\ cells[j][1] = rows[j].tag
        BY <3>1, <4>1, <4>3
      <4> HIDE DEF next
      <4> QED
        BY <4>4, <4>5
    <3>3. ~takes
      BY <3>2
    <3> HIDE DEF takes, next
    <3> QED
      BY <2>2, <2>3, <2>5, <3>1, <3>3
  <2> QED
    BY <2>4, <2>5
<1>5. Follows(n)
  <2> DEFINE S == {i \in 0..n : Follows(i)}
  <2>1. Follows(0)
    BY <1>1, <1>3 DEF WrittenBy, ReadBy
  <2> HIDE DEF Follows
  <2>2. 0 \in S /\ \A i \in 1..n : i - 1 \in S => i \in S
    BY <2>1, <1>4
  <2>3. n \in 0..n
    OBVIOUS
  <2>4. n \in S
    <3> HIDE DEF S
    <3> QED
      BY <2>2, <2>3, UpTo
  <2> QED
    BY <2>4
<1>6. IsFunction(r[n].got) /\ DOMAIN r[n].got = 1..n /\ \A i \in 1..n : r[n].got[i] = cells[i][2]
  BY <1>3, <1>5 DEF ReadBy
<1>7. r[n].taken = Len(e)
  BY <1>1, <1>5 DEF WrittenBy
<1>8. Fields(rows, e) = r[n].got
  BY <1>3, <1>6, <1>7 DEF ReadBy, AllTaken
<1> QED
  BY <1>6, <1>8 DEF e

(* A decoder gets a body for every row, but for optional ones.             *)
LEMMA RowsShape ==
  ASSUME NEW n \in Nat, NEW rows, Len(rows) = n, DOMAIN rows = 1..n, NEW elements,
         Fields(rows, elements) # Malformed
  PROVE  LET f == Fields(rows, elements)
         IN  IsFunction(f) /\ DOMAIN f = 1..n /\ \A i \in 1..n : f[i] = None => rows[i].optional
<1>1. PICK r : ReadBy(r, n, rows, elements)
  BY ReadSteps
<1>2. n \in 0..n
  OBVIOUS
<1>3. IsFunction(r[n].got) /\ DOMAIN r[n].got = 1..n
  BY <1>1, <1>2 DEF ReadBy
<1>4. Fields(rows, elements) = AllTaken(r[n], rows, elements)
  BY <1>1 DEF ReadBy
<1> QED
  BY <1>3, <1>4 DEF AllTaken

(* When every row is there, what is written is the rows.                   *)
LEMMA AllPresent ==
  ASSUME NEW n \in Nat, NEW cells, Len(cells) = n, IsFunction(cells), DOMAIN cells = 1..n,
         \A i \in 1..n : cells[i][2] # None
  PROVE  Present(cells) = cells
<1> DEFINE e == Present(cells)
<1>1. PICK w : WrittenBy(w, n, cells, e)
  BY PresentSteps
<1> HIDE DEF e
<1> DEFINE S == {i \in 0..n : Len(w[i]) = i}
<1>2. 0 \in S
  BY <1>1 DEF WrittenBy
<1>3. ASSUME NEW i \in 1..n, i - 1 \in S PROVE i \in S
  <2>1. Len(w[i]) = Len(w[i - 1]) + 1
    BY <1>1, WrittenRow
  <2> QED
    BY <2>1, <1>3
<1>4. \A i \in 0..n : Len(w[i]) = i
  <2> HIDE DEF S
  <2>1. \A i \in 0..n : i \in S
    BY <1>2, <1>3, UpTo
  <2> QED
    BY <2>1 DEF S
<1>5. \A i \in 1..n : e[i] = cells[i]
  BY <1>1, <1>4, WrittenThere
<1>6. e \in Seq({cells[j] : j \in 1..n}) /\ Len(e) = n
  BY <1>1, <1>4 DEF WrittenBy
<1>7. IsFunction(e) /\ DOMAIN e = 1..n
  <2> DEFINE C == {cells[j] : j \in 1..n}
  <2>1. e \in Seq(C) /\ Len(e) = n
    BY <1>6
  <2> HIDE DEF C
  <2> QED
    BY <2>1 DEF IsFunction
<1>8. e = cells
  BY <1>5, <1>7 DEF IsFunction
<1> QED
  BY <1>8 DEF e

(* What is written second.                                                 *)
LEMMA SecondPresent ==
  ASSUME NEW n \in Nat, n > 1, NEW cells, Len(cells) = n, cells[1][2] # None, cells[2][2] # None
  PROVE  Len(Present(cells)) > 1 /\ Present(cells)[2] = cells[2]
<1> DEFINE e == Present(cells)
<1>1. PICK w : WrittenBy(w, n, cells, e)
  BY PresentSteps
<1> HIDE DEF e
<1>2. 1 \in 1..n /\ 2 \in 1..n
  OBVIOUS
<1>3. Len(w[0]) = 0 /\ Len(w[1]) = Len(w[0]) + 1 /\ Len(w[2]) = Len(w[1]) + 1
  <2>1. Len(w[0]) = 0
    BY <1>1 DEF WrittenBy
  <2>2. Len(w[1]) = Len(w[1 - 1]) + 1 /\ Len(w[2]) = Len(w[2 - 1]) + 1
    BY <1>1, <1>2, WrittenRow
  <2> QED
    BY <2>1, <2>2
<1>4. Len(w[2]) \in 1..Len(e) /\ e[Len(w[2])] = cells[2]
  BY <1>1, <1>2, WrittenThere
<1>5. Len(e) \in Nat
  BY <1>1 DEF WrittenBy
<1>6. Len(e) > 1 /\ e[2] = cells[2]
  BY <1>3, <1>4, <1>5
<1> QED
  BY <1>6 DEF e

-----------------------------------------------------------------------------
(* Structures of so many fields.                                           *)

(* The tags that a structure holds itself, to tell its forms apart.        *)
Words == {GeneralNameChoice[i] : i \in 1..9} \cup {"keyIdentifier", "issuerAndSerial", "certificate", "idSignedData"}

(* Option::None and the error of a decoder are none of the data: no        *)
(* truth value, no number, no tag and no list or structure of a document   *)
(* is one of them, nor is either the other. In Rust the types keep them    *)
(* apart; in the runs they are model values.                               *)
Atoms ==
  /\ None # Malformed
  /\ \A v \in BOOLEAN \cup Nat \cup Words : Required(v)
  /\ \A f : IsFunction(f) => Required(f)

(* Which element a row takes, and whether it may be missing.               *)
LEMMA RowIs ==
  ASSUME NEW tag
  PROVE  /\ One(tag).tag = tag /\ ~One(tag).optional
         /\ Opt(tag).tag = tag /\ Opt(tag).optional
BY DEF One, Opt

(* Structures of two fields: what is written is read, field by field.      *)
LEMMA Read2 ==
  ASSUME NEW r1, NEW r2,
         NEW c1, NEW c2
  PROVE  /\ Unambiguous(2, <<r1, r2>>)
         /\ c1[1] = r1.tag /\ c2[1] = r2.tag
         /\ (c1[2] = None => r1.optional) /\ (c2[2] = None => r2.optional)
         => Fields(<<r1, r2>>, Present(<<c1, c2>>)) = <<c1[2], c2[2]>>
<1>a. SUFFICES ASSUME Unambiguous(2, <<r1, r2>>),
                      c1[1] = r1.tag /\ c2[1] = r2.tag,
                      (c1[2] = None => r1.optional) /\ (c2[2] = None => r2.optional)
               PROVE  Fields(<<r1, r2>>, Present(<<c1, c2>>)) = <<c1[2], c2[2]>>
  OBVIOUS
<1> DEFINE n == 2
           rows == <<r1, r2>>
           cells == <<c1, c2>>
           f == Fields(rows, Present(cells))
<1>0. n \in Nat /\ Len(rows) = n /\ DOMAIN rows = 1..n /\ Len(cells) = n /\ Unambiguous(n, rows)
  BY <1>a
<1>1. /\ n = 2
      /\ rows[1] = r1 /\ rows[2] = r2
      /\ cells[1] = c1 /\ cells[2] = c2
  OBVIOUS
<1> HIDE DEF n, rows, cells
<1>2. \A i \in 1..n : cells[i][1] = rows[i].tag
  BY <1>a, <1>1
<1>3. \A i \in 1..n : cells[i][2] = None => rows[i].optional
  BY <1>a, <1>1
<1>4. IsFunction(f) /\ DOMAIN f = 1..n /\ \A i \in 1..n : f[i] = cells[i][2]
  BY <1>0, <1>2, <1>3, RowsRoundTrip
<1> HIDE DEF f
<1>5. f = <<c1[2], c2[2]>>
  BY <1>1, <1>4 DEF IsFunction
<1> QED
  BY <1>5 DEF f, rows, cells

(* Structures of two fields: only optional ones are missing in what is     *)
(* read.                                                                   *)
LEMMA Shape2 ==
  ASSUME NEW r1, NEW r2, NEW e, Fields(<<r1, r2>>, e) # Malformed
  PROVE  LET f == Fields(<<r1, r2>>, e)
         IN  /\ IsFunction(f) /\ DOMAIN f = 1..2
             /\ (f[1] = None => r1.optional) /\ (f[2] = None => r2.optional)
<1> DEFINE n == 2
           rows == <<r1, r2>>
           f == Fields(rows, e)
<1>1. n \in Nat /\ Len(rows) = n /\ DOMAIN rows = 1..n
  OBVIOUS
<1>2. n = 2 /\ rows[1] = r1 /\ rows[2] = r2
  OBVIOUS
<1> HIDE DEF n, rows
<1>3. IsFunction(f) /\ DOMAIN f = 1..n /\ \A i \in 1..n : f[i] = None => rows[i].optional
  <2>1. Fields(rows, e) # Malformed
    BY DEF rows
  <2> QED
    BY <1>1, <2>1, RowsShape
<1> HIDE DEF f
<1>4. IsFunction(f) /\ DOMAIN f = 1..2 /\ (f[1] = None => r1.optional) /\ (f[2] = None => r2.optional)
  BY <1>2, <1>3
<1> QED
  BY <1>4 DEF f, rows

(* Structures of three fields: what is written is read, field by field.    *)
LEMMA Read3 ==
  ASSUME NEW r1, NEW r2, NEW r3,
         NEW c1, NEW c2, NEW c3
  PROVE  /\ Unambiguous(3, <<r1, r2, r3>>)
         /\ c1[1] = r1.tag /\ c2[1] = r2.tag /\ c3[1] = r3.tag
         /\ (c1[2] = None => r1.optional) /\ (c2[2] = None => r2.optional) /\ (c3[2] = None => r3.optional)
         => Fields(<<r1, r2, r3>>, Present(<<c1, c2, c3>>)) = <<c1[2], c2[2], c3[2]>>
<1>a. SUFFICES ASSUME Unambiguous(3, <<r1, r2, r3>>),
                      c1[1] = r1.tag /\ c2[1] = r2.tag /\ c3[1] = r3.tag,
                      (c1[2] = None => r1.optional) /\ (c2[2] = None => r2.optional) /\ (c3[2] = None => r3.optional)
               PROVE  Fields(<<r1, r2, r3>>, Present(<<c1, c2, c3>>)) = <<c1[2], c2[2], c3[2]>>
  OBVIOUS
<1> DEFINE n == 3
           rows == <<r1, r2, r3>>
           cells == <<c1, c2, c3>>
           f == Fields(rows, Present(cells))
<1>0. n \in Nat /\ Len(rows) = n /\ DOMAIN rows = 1..n /\ Len(cells) = n /\ Unambiguous(n, rows)
  BY <1>a
<1>1. /\ n = 3
      /\ rows[1] = r1 /\ rows[2] = r2 /\ rows[3] = r3
      /\ cells[1] = c1 /\ cells[2] = c2 /\ cells[3] = c3
  OBVIOUS
<1> HIDE DEF n, rows, cells
<1>2. \A i \in 1..n : cells[i][1] = rows[i].tag
  BY <1>a, <1>1
<1>3. \A i \in 1..n : cells[i][2] = None => rows[i].optional
  BY <1>a, <1>1
<1>4. IsFunction(f) /\ DOMAIN f = 1..n /\ \A i \in 1..n : f[i] = cells[i][2]
  BY <1>0, <1>2, <1>3, RowsRoundTrip
<1> HIDE DEF f
<1>5. f = <<c1[2], c2[2], c3[2]>>
  BY <1>1, <1>4 DEF IsFunction
<1> QED
  BY <1>5 DEF f, rows, cells

(* Structures of three fields: only optional ones are missing in what is   *)
(* read.                                                                   *)
LEMMA Shape3 ==
  ASSUME NEW r1, NEW r2, NEW r3, NEW e, Fields(<<r1, r2, r3>>, e) # Malformed
  PROVE  LET f == Fields(<<r1, r2, r3>>, e)
         IN  /\ IsFunction(f) /\ DOMAIN f = 1..3
             /\ (f[1] = None => r1.optional) /\ (f[2] = None => r2.optional) /\ (f[3] = None => r3.optional)
<1> DEFINE n == 3
           rows == <<r1, r2, r3>>
           f == Fields(rows, e)
<1>1. n \in Nat /\ Len(rows) = n /\ DOMAIN rows = 1..n
  OBVIOUS
<1>2. n = 3 /\ rows[1] = r1 /\ rows[2] = r2 /\ rows[3] = r3
  OBVIOUS
<1> HIDE DEF n, rows
<1>3. IsFunction(f) /\ DOMAIN f = 1..n /\ \A i \in 1..n : f[i] = None => rows[i].optional
  <2>1. Fields(rows, e) # Malformed
    BY DEF rows
  <2> QED
    BY <1>1, <2>1, RowsShape
<1> HIDE DEF f
<1>4. IsFunction(f) /\ DOMAIN f = 1..3 /\ (f[1] = None => r1.optional) /\ (f[2] = None => r2.optional) /\
        (f[3] = None => r3.optional)
  BY <1>2, <1>3
<1> QED
  BY <1>4 DEF f, rows

(* Structures of four fields: what is written is read, field by field.     *)
LEMMA Read4 ==
  ASSUME NEW r1, NEW r2, NEW r3, NEW r4,
         NEW c1, NEW c2, NEW c3, NEW c4
  PROVE  /\ Unambiguous(4, <<r1, r2, r3, r4>>)
         /\ c1[1] = r1.tag /\ c2[1] = r2.tag /\ c3[1] = r3.tag /\ c4[1] = r4.tag
         /\ (c1[2] = None => r1.optional) /\ (c2[2] = None => r2.optional)
            /\ (c3[2] = None => r3.optional) /\ (c4[2] = None => r4.optional)
         => Fields(<<r1, r2, r3, r4>>, Present(<<c1, c2, c3, c4>>)) = <<c1[2], c2[2], c3[2], c4[2]>>
<1>a. SUFFICES ASSUME Unambiguous(4, <<r1, r2, r3, r4>>),
                      c1[1] = r1.tag /\ c2[1] = r2.tag /\ c3[1] = r3.tag /\ c4[1] = r4.tag,
                      (c1[2] = None => r1.optional) /\ (c2[2] = None => r2.optional) /\
                        (c3[2] = None => r3.optional) /\ (c4[2] = None => r4.optional)
               PROVE  Fields(<<r1, r2, r3, r4>>, Present(<<c1, c2, c3, c4>>)) = <<c1[2], c2[2], c3[2], c4[2]>>
  OBVIOUS
<1> DEFINE n == 4
           rows == <<r1, r2, r3, r4>>
           cells == <<c1, c2, c3, c4>>
           f == Fields(rows, Present(cells))
<1>0. n \in Nat /\ Len(rows) = n /\ DOMAIN rows = 1..n /\ Len(cells) = n /\ Unambiguous(n, rows)
  BY <1>a
<1>1. /\ n = 4
      /\ rows[1] = r1 /\ rows[2] = r2 /\ rows[3] = r3 /\ rows[4] = r4
      /\ cells[1] = c1 /\ cells[2] = c2 /\ cells[3] = c3 /\ cells[4] = c4
  OBVIOUS
<1> HIDE DEF n, rows, cells
<1>2. \A i \in 1..n : cells[i][1] = rows[i].tag
  BY <1>a, <1>1
<1>3. \A i \in 1..n : cells[i][2] = None => rows[i].optional
  BY <1>a, <1>1
<1>4. IsFunction(f) /\ DOMAIN f = 1..n /\ \A i \in 1..n : f[i] = cells[i][2]
  BY <1>0, <1>2, <1>3, RowsRoundTrip
<1> HIDE DEF f
<1>5. f = <<c1[2], c2[2], c3[2], c4[2]>>
  BY <1>1, <1>4 DEF IsFunction
<1> QED
  BY <1>5 DEF f, rows, cells

(* Structures of four fields: only optional ones are missing in what is    *)
(* read.                                                                   *)
LEMMA Shape4 ==
  ASSUME NEW r1, NEW r2, NEW r3, NEW r4, NEW e, Fields(<<r1, r2, r3, r4>>, e) # Malformed
  PROVE  LET f == Fields(<<r1, r2, r3, r4>>, e)
         IN  /\ IsFunction(f) /\ DOMAIN f = 1..4
             /\ (f[1] = None => r1.optional) /\ (f[2] = None => r2.optional)
                /\ (f[3] = None => r3.optional) /\ (f[4] = None => r4.optional)
<1> DEFINE n == 4
           rows == <<r1, r2, r3, r4>>
           f == Fields(rows, e)
<1>1. n \in Nat /\ Len(rows) = n /\ DOMAIN rows = 1..n
  OBVIOUS
<1>2. n = 4 /\ rows[1] = r1 /\ rows[2] = r2 /\ rows[3] = r3 /\ rows[4] = r4
  OBVIOUS
<1> HIDE DEF n, rows
<1>3. IsFunction(f) /\ DOMAIN f = 1..n /\ \A i \in 1..n : f[i] = None => rows[i].optional
  <2>1. Fields(rows, e) # Malformed
    BY DEF rows
  <2> QED
    BY <1>1, <2>1, RowsShape
<1> HIDE DEF f
<1>4. IsFunction(f) /\ DOMAIN f = 1..4 /\ (f[1] = None => r1.optional) /\ (f[2] = None => r2.optional) /\
        (f[3] = None => r3.optional) /\ (f[4] = None => r4.optional)
  BY <1>2, <1>3
<1> QED
  BY <1>4 DEF f, rows

(* Structures of five fields: what is written is read, field by field.     *)
LEMMA Read5 ==
  ASSUME NEW r1, NEW r2, NEW r3, NEW r4, NEW r5,
         NEW c1, NEW c2, NEW c3, NEW c4, NEW c5
  PROVE  /\ Unambiguous(5, <<r1, r2, r3, r4, r5>>)
         /\ c1[1] = r1.tag /\ c2[1] = r2.tag /\ c3[1] = r3.tag /\ c4[1] = r4.tag /\ c5[1] = r5.tag
         /\ (c1[2] = None => r1.optional) /\ (c2[2] = None => r2.optional)
            /\ (c3[2] = None => r3.optional) /\ (c4[2] = None => r4.optional)
            /\ (c5[2] = None => r5.optional)
         => Fields(<<r1, r2, r3, r4, r5>>, Present(<<c1, c2, c3, c4, c5>>)) = <<c1[2], c2[2], c3[2], c4[2], c5[2]>>
<1>a. SUFFICES ASSUME Unambiguous(5, <<r1, r2, r3, r4, r5>>),
                      c1[1] = r1.tag /\ c2[1] = r2.tag /\ c3[1] = r3.tag /\ c4[1] = r4.tag /\ c5[1] = r5.tag,
                      (c1[2] = None => r1.optional) /\ (c2[2] = None => r2.optional) /\
                        (c3[2] = None => r3.optional) /\ (c4[2] = None => r4.optional) /\ (c5[2] = None => r5.optional)
               PROVE  Fields(<<r1, r2, r3, r4, r5>>,
                        Present(<<c1, c2, c3, c4, c5>>)) = <<c1[2], c2[2], c3[2], c4[2], c5[2]>>
  OBVIOUS
<1> DEFINE n == 5
           rows == <<r1, r2, r3, r4, r5>>
           cells == <<c1, c2, c3, c4, c5>>
           f == Fields(rows, Present(cells))
<1>0. n \in Nat /\ Len(rows) = n /\ DOMAIN rows = 1..n /\ Len(cells) = n /\ Unambiguous(n, rows)
  BY <1>a
<1>1. /\ n = 5
      /\ rows[1] = r1 /\ rows[2] = r2 /\ rows[3] = r3 /\ rows[4] = r4 /\ rows[5] = r5
      /\ cells[1] = c1 /\ cells[2] = c2 /\ cells[3] = c3 /\ cells[4] = c4 /\ cells[5] = c5
  OBVIOUS
<1> HIDE DEF n, rows, cells
<1>2. \A i \in 1..n : cells[i][1] = rows[i].tag
  BY <1>a, <1>1
<1>3. \A i \in 1..n : cells[i][2] = None => rows[i].optional
  BY <1>a, <1>1
<1>4. IsFunction(f) /\ DOMAIN f = 1..n /\ \A i \in 1..n : f[i] = cells[i][2]
  BY <1>0, <1>2, <1>3, RowsRoundTrip
<1> HIDE DEF f
<1>5. f = <<c1[2], c2[2], c3[2], c4[2], c5[2]>>
  BY <1>1, <1>4 DEF IsFunction
<1> QED
  BY <1>5 DEF f, rows, cells

(* Structures of five fields: only optional ones are missing in what is    *)
(* read.                                                                   *)
LEMMA Shape5 ==
  ASSUME NEW r1, NEW r2, NEW r3, NEW r4, NEW r5, NEW e, Fields(<<r1, r2, r3, r4, r5>>, e) # Malformed
  PROVE  LET f == Fields(<<r1, r2, r3, r4, r5>>, e)
         IN  /\ IsFunction(f) /\ DOMAIN f = 1..5
             /\ (f[1] = None => r1.optional) /\ (f[2] = None => r2.optional)
                /\ (f[3] = None => r3.optional) /\ (f[4] = None => r4.optional)
                /\ (f[5] = None => r5.optional)
<1> DEFINE n == 5
           rows == <<r1, r2, r3, r4, r5>>
           f == Fields(rows, e)
<1>1. n \in Nat /\ Len(rows) = n /\ DOMAIN rows = 1..n
  OBVIOUS
<1>2. n = 5 /\ rows[1] = r1 /\ rows[2] = r2 /\ rows[3] = r3 /\ rows[4] = r4 /\ rows[5] = r5
  OBVIOUS
<1> HIDE DEF n, rows
<1>3. IsFunction(f) /\ DOMAIN f = 1..n /\ \A i \in 1..n : f[i] = None => rows[i].optional
  <2>1. Fields(rows, e) # Malformed
    BY DEF rows
  <2> QED
    BY <1>1, <2>1, RowsShape
<1> HIDE DEF f
<1>4. IsFunction(f) /\ DOMAIN f = 1..5 /\ (f[1] = None => r1.optional) /\ (f[2] = None => r2.optional) /\
        (f[3] = None => r3.optional) /\ (f[4] = None => r4.optional) /\ (f[5] = None => r5.optional)
  BY <1>2, <1>3
<1> QED
  BY <1>4 DEF f, rows

(* Structures of six fields: what is written is read, field by field.      *)
LEMMA Read6 ==
  ASSUME NEW r1, NEW r2, NEW r3, NEW r4, NEW r5, NEW r6,
         NEW c1, NEW c2, NEW c3, NEW c4, NEW c5, NEW c6
  PROVE  /\ Unambiguous(6, <<r1, r2, r3, r4, r5, r6>>)
         /\ c1[1] = r1.tag /\ c2[1] = r2.tag /\ c3[1] = r3.tag /\ c4[1] = r4.tag /\ c5[1] = r5.tag /\ c6[1] = r6.tag
         /\ (c1[2] = None => r1.optional) /\ (c2[2] = None => r2.optional)
            /\ (c3[2] = None => r3.optional) /\ (c4[2] = None => r4.optional)
            /\ (c5[2] = None => r5.optional) /\ (c6[2] = None => r6.optional)
         => Fields(<<r1, r2, r3, r4, r5, r6>>, Present(<<c1, c2, c3, c4, c5, c6>>)) = <<c1[2],
            c2[2], c3[2], c4[2], c5[2], c6[2]>>
<1>a. SUFFICES ASSUME Unambiguous(6, <<r1, r2, r3, r4, r5, r6>>),
                      c1[1] = r1.tag /\ c2[1] = r2.tag /\ c3[1] = r3.tag /\ c4[1] = r4.tag /\
                        c5[1] = r5.tag /\ c6[1] = r6.tag,
                      (c1[2] = None => r1.optional) /\ (c2[2] = None => r2.optional) /\
                        (c3[2] = None => r3.optional) /\ (c4[2] = None => r4.optional) /\ (c5[2] = None => r5.optional) /\
                        (c6[2] = None => r6.optional)
               PROVE  Fields(<<r1, r2, r3, r4, r5, r6>>, Present(<<c1, c2, c3, c4, c5,
                        c6>>)) = <<c1[2], c2[2], c3[2], c4[2], c5[2], c6[2]>>
  OBVIOUS
<1> DEFINE n == 6
           rows == <<r1, r2, r3, r4, r5, r6>>
           cells == <<c1, c2, c3, c4, c5, c6>>
           f == Fields(rows, Present(cells))
<1>0. n \in Nat /\ Len(rows) = n /\ DOMAIN rows = 1..n /\ Len(cells) = n /\ Unambiguous(n, rows)
  BY <1>a
<1>1. /\ n = 6
      /\ rows[1] = r1 /\ rows[2] = r2 /\ rows[3] = r3 /\ rows[4] = r4 /\ rows[5] = r5 /\ rows[6] = r6
      /\ cells[1] = c1 /\ cells[2] = c2 /\ cells[3] = c3 /\ cells[4] = c4 /\ cells[5] = c5 /\ cells[6] = c6
  OBVIOUS
<1> HIDE DEF n, rows, cells
<1>2. \A i \in 1..n : cells[i][1] = rows[i].tag
  BY <1>a, <1>1
<1>3. \A i \in 1..n : cells[i][2] = None => rows[i].optional
  BY <1>a, <1>1
<1>4. IsFunction(f) /\ DOMAIN f = 1..n /\ \A i \in 1..n : f[i] = cells[i][2]
  BY <1>0, <1>2, <1>3, RowsRoundTrip
<1> HIDE DEF f
<1>5. f = <<c1[2], c2[2], c3[2], c4[2], c5[2], c6[2]>>
  BY <1>1, <1>4 DEF IsFunction
<1> QED
  BY <1>5 DEF f, rows, cells

(* Structures of six fields: only optional ones are missing in what is     *)
(* read.                                                                   *)
LEMMA Shape6 ==
  ASSUME NEW r1, NEW r2, NEW r3, NEW r4, NEW r5, NEW r6, NEW e, Fields(<<r1, r2, r3, r4, r5, r6>>, e) # Malformed
  PROVE  LET f == Fields(<<r1, r2, r3, r4, r5, r6>>, e)
         IN  /\ IsFunction(f) /\ DOMAIN f = 1..6
             /\ (f[1] = None => r1.optional) /\ (f[2] = None => r2.optional)
                /\ (f[3] = None => r3.optional) /\ (f[4] = None => r4.optional)
                /\ (f[5] = None => r5.optional) /\ (f[6] = None => r6.optional)
<1> DEFINE n == 6
           rows == <<r1, r2, r3, r4, r5, r6>>
           f == Fields(rows, e)
<1>1. n \in Nat /\ Len(rows) = n /\ DOMAIN rows = 1..n
  OBVIOUS
<1>2. n = 6 /\ rows[1] = r1 /\ rows[2] = r2 /\ rows[3] = r3 /\ rows[4] = r4 /\ rows[5] = r5 /\ rows[6] = r6
  OBVIOUS
<1> HIDE DEF n, rows
<1>3. IsFunction(f) /\ DOMAIN f = 1..n /\ \A i \in 1..n : f[i] = None => rows[i].optional
  <2>1. Fields(rows, e) # Malformed
    BY DEF rows
  <2> QED
    BY <1>1, <2>1, RowsShape
<1> HIDE DEF f
<1>4. IsFunction(f) /\ DOMAIN f = 1..6 /\ (f[1] = None => r1.optional) /\ (f[2] = None => r2.optional) /\
        (f[3] = None => r3.optional) /\ (f[4] = None => r4.optional) /\ (f[5] = None => r5.optional) /\
        (f[6] = None => r6.optional)
  BY <1>2, <1>3
<1> QED
  BY <1>4 DEF f, rows

(* Structures of seven fields: what is written is read, field by field.    *)
LEMMA Read7 ==
  ASSUME NEW r1, NEW r2, NEW r3, NEW r4, NEW r5, NEW r6, NEW r7,
         NEW c1, NEW c2, NEW c3, NEW c4, NEW c5, NEW c6, NEW c7
  PROVE  /\ Unambiguous(7, <<r1, r2, r3, r4, r5, r6, r7>>)
         /\ c1[1] = r1.tag /\ c2[1] = r2.tag /\ c3[1] = r3.tag /\ c4[1] = r4.tag
            /\ c5[1] = r5.tag /\ c6[1] = r6.tag /\ c7[1] = r7.tag
         /\ (c1[2] = None => r1.optional) /\ (c2[2] = None => r2.optional)
            /\ (c3[2] = None => r3.optional) /\ (c4[2] = None => r4.optional)
            /\ (c5[2] = None => r5.optional) /\ (c6[2] = None => r6.optional)
            /\ (c7[2] = None => r7.optional)
         => Fields(<<r1, r2, r3, r4, r5, r6, r7>>, Present(<<c1, c2, c3, c4, c5, c6,
            c7>>)) = <<c1[2], c2[2], c3[2], c4[2], c5[2], c6[2], c7[2]>>
<1>a. SUFFICES ASSUME Unambiguous(7, <<r1, r2, r3, r4, r5, r6, r7>>),
                      c1[1] = r1.tag /\ c2[1] = r2.tag /\ c3[1] = r3.tag /\ c4[1] = r4.tag /\
                        c5[1] = r5.tag /\ c6[1] = r6.tag /\ c7[1] = r7.tag,
                      (c1[2] = None => r1.optional) /\ (c2[2] = None => r2.optional) /\
                        (c3[2] = None => r3.optional) /\ (c4[2] = None => r4.optional) /\ (c5[2] = None => r5.optional) /\
                        (c6[2] = None => r6.optional) /\ (c7[2] = None => r7.optional)
               PROVE  Fields(<<r1, r2, r3, r4, r5, r6, r7>>, Present(<<c1, c2, c3, c4, c5, c6,
                        c7>>)) = <<c1[2], c2[2], c3[2], c4[2], c5[2], c6[2], c7[2]>>
  OBVIOUS
<1> DEFINE n == 7
           rows == <<r1, r2, r3, r4, r5, r6, r7>>
           cells == <<c1, c2, c3, c4, c5, c6, c7>>
           f == Fields(rows, Present(cells))
<1>0. n \in Nat /\ Len(rows) = n /\ DOMAIN rows = 1..n /\ Len(cells) = n /\ Unambiguous(n, rows)
  BY <1>a
<1>1. /\ n = 7
      /\ rows[1] = r1 /\ rows[2] = r2 /\ rows[3] = r3 /\ rows[4] = r4 /\ rows[5] = r5 /\ rows[6] = r6 /\ rows[7] = r7
      /\ cells[1] = c1 /\ cells[2] = c2 /\ cells[3] = c3 /\ cells[4] = c4 /\ cells[5] = c5 /\
        cells[6] = c6 /\ cells[7] = c7
  OBVIOUS
<1> HIDE DEF n, rows, cells
<1>2. \A i \in 1..n : cells[i][1] = rows[i].tag
  BY <1>a, <1>1
<1>3. \A i \in 1..n : cells[i][2] = None => rows[i].optional
  BY <1>a, <1>1
<1>4. IsFunction(f) /\ DOMAIN f = 1..n /\ \A i \in 1..n : f[i] = cells[i][2]
  BY <1>0, <1>2, <1>3, RowsRoundTrip
<1> HIDE DEF f
<1>5. f = <<c1[2], c2[2], c3[2], c4[2], c5[2], c6[2], c7[2]>>
  BY <1>1, <1>4 DEF IsFunction
<1> QED
  BY <1>5 DEF f, rows, cells

(* Structures of seven fields: only optional ones are missing in what is   *)
(* read.                                                                   *)
LEMMA Shape7 ==
  ASSUME NEW r1, NEW r2, NEW r3, NEW r4, NEW r5, NEW r6, NEW r7, NEW e,
         Fields(<<r1, r2, r3, r4, r5, r6, r7>>, e) # Malformed
  PROVE  LET f == Fields(<<r1, r2, r3, r4, r5, r6, r7>>, e)
         IN  /\ IsFunction(f) /\ DOMAIN f = 1..7
             /\ (f[1] = None => r1.optional) /\ (f[2] = None => r2.optional)
                /\ (f[3] = None => r3.optional) /\ (f[4] = None => r4.optional)
                /\ (f[5] = None => r5.optional) /\ (f[6] = None => r6.optional)
                /\ (f[7] = None => r7.optional)
<1> DEFINE n == 7
           rows == <<r1, r2, r3, r4, r5, r6, r7>>
           f == Fields(rows, e)
<1>1. n \in Nat /\ Len(rows) = n /\ DOMAIN rows = 1..n
  OBVIOUS
<1>2. n = 7 /\ rows[1] = r1 /\ rows[2] = r2 /\ rows[3] = r3 /\ rows[4] = r4 /\ rows[5] = r5 /\
        rows[6] = r6 /\ rows[7] = r7
  OBVIOUS
<1> HIDE DEF n, rows
<1>3. IsFunction(f) /\ DOMAIN f = 1..n /\ \A i \in 1..n : f[i] = None => rows[i].optional
  <2>1. Fields(rows, e) # Malformed
    BY DEF rows
  <2> QED
    BY <1>1, <2>1, RowsShape
<1> HIDE DEF f
<1>4. IsFunction(f) /\ DOMAIN f = 1..7 /\ (f[1] = None => r1.optional) /\ (f[2] = None => r2.optional) /\
        (f[3] = None => r3.optional) /\ (f[4] = None => r4.optional) /\ (f[5] = None => r5.optional) /\
        (f[6] = None => r6.optional) /\ (f[7] = None => r7.optional)
  BY <1>2, <1>3
<1> QED
  BY <1>4 DEF f, rows

(* Structures of ten fields: what is written is read, field by field.      *)
LEMMA Read10 ==
  ASSUME NEW r1, NEW r2, NEW r3, NEW r4, NEW r5, NEW r6, NEW r7, NEW r8, NEW r9, NEW r10,
         NEW c1, NEW c2, NEW c3, NEW c4, NEW c5, NEW c6, NEW c7, NEW c8, NEW c9, NEW c10
  PROVE  /\ Unambiguous(10, <<r1, r2, r3, r4, r5, r6, r7, r8, r9, r10>>)
         /\ c1[1] = r1.tag /\ c2[1] = r2.tag /\ c3[1] = r3.tag /\ c4[1] = r4.tag
            /\ c5[1] = r5.tag /\ c6[1] = r6.tag /\ c7[1] = r7.tag /\ c8[1] = r8.tag
            /\ c9[1] = r9.tag /\ c10[1] = r10.tag
         /\ (c1[2] = None => r1.optional) /\ (c2[2] = None => r2.optional)
            /\ (c3[2] = None => r3.optional) /\ (c4[2] = None => r4.optional)
            /\ (c5[2] = None => r5.optional) /\ (c6[2] = None => r6.optional)
            /\ (c7[2] = None => r7.optional) /\ (c8[2] = None => r8.optional)
            /\ (c9[2] = None => r9.optional) /\ (c10[2] = None => r10.optional)
         => Fields(<<r1, r2, r3, r4, r5, r6, r7, r8, r9, r10>>, Present(<<c1, c2, c3, c4, c5, c6,
            c7, c8, c9, c10>>)) = <<c1[2], c2[2], c3[2], c4[2], c5[2], c6[2], c7[2], c8[2], c9[2],
            c10[2]>>
<1>a. SUFFICES ASSUME Unambiguous(10, <<r1, r2, r3, r4, r5, r6, r7, r8, r9, r10>>),
                      c1[1] = r1.tag /\ c2[1] = r2.tag /\ c3[1] = r3.tag /\ c4[1] = r4.tag /\
                        c5[1] = r5.tag /\ c6[1] = r6.tag /\ c7[1] = r7.tag /\ c8[1] = r8.tag /\
                        c9[1] = r9.tag /\ c10[1] = r10.tag,
                      (c1[2] = None => r1.optional) /\ (c2[2] = None => r2.optional) /\
                        (c3[2] = None => r3.optional) /\ (c4[2] = None => r4.optional) /\ (c5[2] = None => r5.optional) /\
                        (c6[2] = None => r6.optional) /\ (c7[2] = None => r7.optional) /\
                        (c8[2] = None => r8.optional) /\ (c9[2] = None => r9.optional) /\ (c10[2] = None => r10.optional)
               PROVE  Fields(<<r1, r2, r3, r4, r5, r6, r7, r8, r9, r10>>, Present(<<c1, c2, c3, c4,
                        c5, c6, c7, c8, c9, c10>>)) = <<c1[2], c2[2], c3[2], c4[2], c5[2], c6[2],
                        c7[2], c8[2], c9[2], c10[2]>>
  OBVIOUS
<1> DEFINE n == 10
           rows == <<r1, r2, r3, r4, r5, r6, r7, r8, r9, r10>>
           cells == <<c1, c2, c3, c4, c5, c6, c7, c8, c9, c10>>
           f == Fields(rows, Present(cells))
<1>0. n \in Nat /\ Len(rows) = n /\ DOMAIN rows = 1..n /\ Len(cells) = n /\ Unambiguous(n, rows)
  BY <1>a
<1>1. /\ n = 10
      /\ rows[1] = r1 /\ rows[2] = r2 /\ rows[3] = r3 /\ rows[4] = r4 /\ rows[5] = r5
         /\ rows[6] = r6 /\ rows[7] = r7 /\ rows[8] = r8 /\ rows[9] = r9 /\ rows[10] = r10
      /\ cells[1] = c1 /\ cells[2] = c2 /\ cells[3] = c3 /\ cells[4] = c4 /\ cells[5] = c5
         /\ cells[6] = c6 /\ cells[7] = c7 /\ cells[8] = c8 /\ cells[9] = c9 /\ cells[10] = c10
  OBVIOUS
<1> HIDE DEF n, rows, cells
<1>2. \A i \in 1..n : cells[i][1] = rows[i].tag
  BY <1>a, <1>1
<1>3. \A i \in 1..n : cells[i][2] = None => rows[i].optional
  BY <1>a, <1>1
<1>4. IsFunction(f) /\ DOMAIN f = 1..n /\ \A i \in 1..n : f[i] = cells[i][2]
  BY <1>0, <1>2, <1>3, RowsRoundTrip
<1> HIDE DEF f
<1>5. f = <<c1[2], c2[2], c3[2], c4[2], c5[2], c6[2], c7[2], c8[2], c9[2], c10[2]>>
  BY <1>1, <1>4 DEF IsFunction
<1> QED
  BY <1>5 DEF f, rows, cells

(* Structures of ten fields: only optional ones are missing in what is     *)
(* read.                                                                   *)
LEMMA Shape10 ==
  ASSUME NEW r1, NEW r2, NEW r3, NEW r4, NEW r5, NEW r6, NEW r7, NEW r8, NEW r9, NEW r10, NEW e,
           Fields(<<r1, r2, r3, r4, r5, r6, r7, r8, r9, r10>>, e) # Malformed
  PROVE  LET f == Fields(<<r1, r2, r3, r4, r5, r6, r7, r8, r9, r10>>, e)
         IN  /\ IsFunction(f) /\ DOMAIN f = 1..10
             /\ (f[1] = None => r1.optional) /\ (f[2] = None => r2.optional)
                /\ (f[3] = None => r3.optional) /\ (f[4] = None => r4.optional)
                /\ (f[5] = None => r5.optional) /\ (f[6] = None => r6.optional)
                /\ (f[7] = None => r7.optional) /\ (f[8] = None => r8.optional)
                /\ (f[9] = None => r9.optional) /\ (f[10] = None => r10.optional)
<1> DEFINE n == 10
           rows == <<r1, r2, r3, r4, r5, r6, r7, r8, r9, r10>>
           f == Fields(rows, e)
<1>1. n \in Nat /\ Len(rows) = n /\ DOMAIN rows = 1..n
  OBVIOUS
<1>2. n = 10 /\ rows[1] = r1 /\ rows[2] = r2 /\ rows[3] = r3 /\ rows[4] = r4 /\ rows[5] = r5 /\
        rows[6] = r6 /\ rows[7] = r7 /\ rows[8] = r8 /\ rows[9] = r9 /\ rows[10] = r10
  OBVIOUS
<1> HIDE DEF n, rows
<1>3. IsFunction(f) /\ DOMAIN f = 1..n /\ \A i \in 1..n : f[i] = None => rows[i].optional
  <2>1. Fields(rows, e) # Malformed
    BY DEF rows
  <2> QED
    BY <1>1, <2>1, RowsShape
<1> HIDE DEF f
<1>4. IsFunction(f) /\ DOMAIN f = 1..10 /\ (f[1] = None => r1.optional) /\ (f[2] = None => r2.optional) /\
        (f[3] = None => r3.optional) /\ (f[4] = None => r4.optional) /\ (f[5] = None => r5.optional) /\
        (f[6] = None => r6.optional) /\ (f[7] = None => r7.optional) /\ (f[8] = None => r8.optional) /\
        (f[9] = None => r9.optional) /\ (f[10] = None => r10.optional)
  BY <1>2, <1>3
<1> QED
  BY <1>4 DEF f, rows

(* Where none of two fields is missing, all are written.                   *)
LEMMA All2 ==
  ASSUME NEW c1, NEW c2, c1[2] /= None /\ c2[2] /= None
  PROVE  Present(<<c1, c2>>) = <<c1, c2>>
<1> DEFINE n == 2
           cells == <<c1, c2>>
<1>1. n \in Nat /\ Len(cells) = n /\ DOMAIN cells = 1..n
  OBVIOUS
<1>2. n = 2 /\ cells[1] = c1 /\ cells[2] = c2
  OBVIOUS
<1>3. IsFunction(cells)
  BY DEF IsFunction
<1> HIDE DEF n, cells
<1>4. \A i \in 1..n : cells[i][2] # None
  BY <1>2
<1>5. Present(cells) = cells
  BY <1>1, <1>3, <1>4, AllPresent
<1> QED
  BY <1>5 DEF cells

(* Where none of three fields is missing, all are written.                 *)
LEMMA All3 ==
  ASSUME NEW c1, NEW c2, NEW c3, c1[2] /= None /\ c2[2] /= None /\ c3[2] /= None
  PROVE  Present(<<c1, c2, c3>>) = <<c1, c2, c3>>
<1> DEFINE n == 3
           cells == <<c1, c2, c3>>
<1>1. n \in Nat /\ Len(cells) = n /\ DOMAIN cells = 1..n
  OBVIOUS
<1>2. n = 3 /\ cells[1] = c1 /\ cells[2] = c2 /\ cells[3] = c3
  OBVIOUS
<1>3. IsFunction(cells)
  BY DEF IsFunction
<1> HIDE DEF n, cells
<1>4. \A i \in 1..n : cells[i][2] # None
  BY <1>2
<1>5. Present(cells) = cells
  BY <1>1, <1>3, <1>4, AllPresent
<1> QED
  BY <1>5 DEF cells

(* Where none of four fields is missing, all are written.                  *)
LEMMA All4 ==
  ASSUME NEW c1, NEW c2, NEW c3, NEW c4, c1[2] /= None /\ c2[2] /= None /\ c3[2] /= None /\ c4[2] /= None
  PROVE  Present(<<c1, c2, c3, c4>>) = <<c1, c2, c3, c4>>
<1> DEFINE n == 4
           cells == <<c1, c2, c3, c4>>
<1>1. n \in Nat /\ Len(cells) = n /\ DOMAIN cells = 1..n
  OBVIOUS
<1>2. n = 4 /\ cells[1] = c1 /\ cells[2] = c2 /\ cells[3] = c3 /\ cells[4] = c4
  OBVIOUS
<1>3. IsFunction(cells)
  BY DEF IsFunction
<1> HIDE DEF n, cells
<1>4. \A i \in 1..n : cells[i][2] # None
  BY <1>2
<1>5. Present(cells) = cells
  BY <1>1, <1>3, <1>4, AllPresent
<1> QED
  BY <1>5 DEF cells

(* The fields of an Extension are told apart by their tags, whichever      *)
(* are missing.                                                            *)
LEMMA ExtensionRows ==
  ASSUME NEW a, NEW b, NEW c, Required(a), Required(c)
  PROVE Fields(<<One("OID"), Opt("BOOLEAN"), One("OCTETS")>>, Present(<< <<"OID", a>>, <<"BOOLEAN",
           b>>, <<"OCTETS", c>> >>)) = <<a, b, c>>
<1>1. Unambiguous(3, <<One("OID"), Opt("BOOLEAN"), One("OCTETS")>>)
  BY RowIs DEF Unambiguous
<1> QED BY <1>1, RowIs, Read3 DEF Required

(* An Extension is read as it was written, without a critical that is      *)
(* FALSE.                                                                  *)
LEMMA ExtensionRoundTrip ==
  ASSUME Atoms, NEW x, IsExtension(x)
  PROVE  DecodeExtension(EncodeExtension(x)) = [x EXCEPT !.critical = Flag(@)]
<1>2. Fields(<<One("OID"), Opt("BOOLEAN"), One("OCTETS")>>, EncodeExtension(x)) = <<x.id, Flag(x.critical), x.value>>
  BY ExtensionRows DEF EncodeExtension, Flag, IsExtension
<1>3. IsFunction(<<x.id, Flag(x.critical), x.value>>) /\ IsFunction([x EXCEPT !.critical = Flag(@)])
  BY DEF IsFunction, IsExtension
<1>4. <<x.id, Flag(x.critical), x.value>> # Malformed /\ [x EXCEPT !.critical = Flag(@)] # Malformed
  BY <1>3 DEF Atoms, Required
<1>5. DecodeExtension(EncodeExtension(x)) = Sound([id |-> x.id, critical |-> Flag(x.critical), value |-> x.value])
  BY <1>2, <1>4 DEF DecodeExtension, Decoded, Made
<1>6. [id |-> x.id, critical |-> Flag(x.critical), value |-> x.value] = [x EXCEPT !.critical = Flag(@)]
  BY DEF IsExtension
<1>7. Flag(x.critical) # Malformed
  BY DEF Flag, Atoms, Required
<1> QED
  BY <1>4, <1>5, <1>6, <1>7 DEF Sound, IsExtension, Required

-----------------------------------------------------------------------------
(* Names and extensions.                                                   *)

(* What is read as an Extension is of its type.                            *)
LEMMA ExtensionShape ==
  ASSUME NEW e, DecodeExtension(e) # Malformed
  PROVE  IsExtension(DecodeExtension(e))
BY Shape3, RowIs DEF DecodeExtension, Decoded, Made, Sound, IsExtension, Required

(* An AttributeTypeAndValue is read as it was written.                     *)
LEMMA AttributeRoundTrip ==
  ASSUME Atoms, NEW a, IsAttribute(a)
  PROVE  DecodeAttribute(EncodeAttribute(a)) = a /\ a # Malformed
<1>1. IsFunction(a)
  BY DEF IsAttribute, Attribute, IsFunction
<1> QED
  BY <1>1 DEF DecodeAttribute, EncodeAttribute, IsAttribute, Atoms, Required

(* A RelativeDistinguishedName is read as it was written.                  *)
LEMMA RdnRoundTrip ==
  ASSUME Atoms, NEW rdn, IsRdn(rdn)
  PROVE  DecodeRdn(EncodeRdn(rdn)) = rdn /\ rdn # Malformed
<1>1. \A i \in DOMAIN rdn : DecodeAttribute(EncodeAttribute(rdn[i])) = rdn[i] /\ rdn[i] # Malformed
  BY AttributeRoundTrip DEF IsRdn, IsVec
<1>2. AllTagged(EncodeRdn(rdn), "SEQUENCE")
  BY DEF AllTagged, EncodeRdn
<1>3. [i \in DOMAIN EncodeRdn(rdn) |-> DecodeAttribute(EncodeRdn(rdn)[i][2])] = rdn
  BY <1>1 DEF EncodeRdn, IsRdn, IsFunction, IsVec
<1>4. IsSequence(EncodeRdn(rdn))
  BY DEF EncodeRdn, IsRdn, IsVec, IsSequence
<1> QED
  BY <1>1, <1>2, <1>3, <1>4 DEF DecodeRdn, DecodeEach, Sound, IsRdn, IsVec, Atoms, Required

(* A Name is read as it was written.                                       *)
LEMMA NameRoundTrip ==
  ASSUME Atoms, NEW name, IsName(name)
  PROVE  DecodeName(EncodeName(name)) = name /\ Required(name) /\ Required(EncodeName(name))
<1>1. \A i \in DOMAIN name : DecodeRdn(EncodeRdn(name[i])) = name[i] /\ name[i] # Malformed
  BY RdnRoundTrip DEF IsName, IsVec
<1>2. AllTagged(EncodeName(name), "SET")
  BY DEF AllTagged, EncodeName
<1>3. [i \in DOMAIN EncodeName(name) |-> DecodeRdn(EncodeName(name)[i][2])] = name
  BY <1>1 DEF EncodeName, IsName, IsFunction, IsVec
<1>4. IsFunction(EncodeName(name)) /\ IsSequence(EncodeName(name))
  BY DEF EncodeName, IsFunction, IsName, IsVec, IsSequence
<1> QED
  BY <1>1, <1>2, <1>3, <1>4 DEF DecodeName, DecodeEach, Sound, IsName, Atoms, IsVec

(* What is read as an AttributeTypeAndValue is of its type.                *)
LEMMA AttributeShape ==
  ASSUME NEW e, DecodeAttribute(e) # Malformed
  PROVE  IsAttribute(DecodeAttribute(e))
BY DEF DecodeAttribute, IsAttribute, Attribute

(* What is read as a RelativeDistinguishedName is of its type.             *)
LEMMA RdnShape ==
  ASSUME NEW body, DecodeRdn(body) # Malformed
  PROVE  IsRdn(DecodeRdn(body))
<1>1. /\ DecodeRdn(body) = [i \in DOMAIN body |-> DecodeAttribute(body[i][2])]
      /\ \A i \in DOMAIN body : DecodeAttribute(body[i][2]) # Malformed
      /\ IsSequence(body)
  BY DEF DecodeRdn, DecodeEach, Sound
<1>2. IsSequence(DecodeRdn(body))
  BY <1>1 DEF IsSequence
<1> QED
  BY <1>1, <1>2, AttributeShape DEF IsRdn, IsFunction, IsVec

(* What is read as a Name is of its type.                                  *)
LEMMA NameShape ==
  ASSUME NEW body, DecodeName(body) # Malformed
  PROVE  IsName(DecodeName(body))
<1>1. /\ DecodeName(body) = [i \in DOMAIN body |-> DecodeRdn(body[i][2])]
      /\ \A i \in DOMAIN body : DecodeRdn(body[i][2]) # Malformed
      /\ IsSequence(body)
  BY DEF DecodeName, DecodeEach, Sound
<1>2. IsSequence(DecodeName(body))
  BY <1>1 DEF IsSequence
<1> QED
  BY <1>1, <1>2, RdnShape DEF IsName, IsFunction, IsVec

(* Extensions that obey the rules are read as written, without defaults;   *)
(* any other are refused.                                                  *)
LEMMA ExtensionsRoundTrip ==
  ASSUME Atoms, NEW xs, IsExtensions(xs)
  PROVE  /\ DecodeExtensions(EncodeExtensions(xs)) = IF ExtensionsObey(xs) THEN NormalExtensions(xs) ELSE Malformed
         /\ EncodeExtensions(xs) = None <=> xs = None
         /\ EncodeExtensions(xs) # Malformed
         /\ NormalExtensions(xs) # Malformed
<1>1. CASE xs = None
  BY <1>1 DEF EncodeExtensions, DecodeExtensions, Optional, NormalExtensions, ExtensionsObey, Atoms
<1>2. CASE xs # None
  <2> DEFINE e == EncodeExtensions(xs)
             ys == NormalExtensions(xs)
  <2>1. /\ IsFunction(xs) /\ IsSequence(xs) /\ \A i \in DOMAIN xs : IsExtension(xs[i])
        /\ e = [i \in DOMAIN xs |-> <<"SEQUENCE", EncodeExtension(xs[i])>>]
        /\ ys = [i \in DOMAIN xs |-> [xs[i] EXCEPT !.critical = Flag(@)]]
    BY <1>2 DEF IsExtensions, EncodeExtensions, NormalExtensions, IsVec
  <2> HIDE DEF e, ys
  <2>2. \A i \in DOMAIN xs : /\ DecodeExtension(EncodeExtension(xs[i])) = ys[i]
                             /\ ys[i] # Malformed /\ ys[i].id = xs[i].id
    <3> SUFFICES ASSUME NEW i \in DOMAIN xs
                 PROVE  /\ DecodeExtension(EncodeExtension(xs[i])) = ys[i]
                        /\ ys[i] # Malformed /\ ys[i].id = xs[i].id
      OBVIOUS
    <3>1. ys[i] = [xs[i] EXCEPT !.critical = Flag(@)] /\ IsExtension(xs[i])
      BY <2>1
    <3>2. IsFunction(ys[i]) /\ ys[i].id = xs[i].id
      BY <3>1 DEF IsFunction, IsExtension
    <3> QED
      BY <3>1, <3>2, ExtensionRoundTrip DEF Atoms, Required
  <2>3. /\ IsFunction(e) /\ IsFunction(ys) /\ DOMAIN e = DOMAIN xs /\ DOMAIN ys = DOMAIN xs
        /\ IsSequence(e)
    BY <2>1 DEF IsFunction, IsSequence
  <2>4. AllTagged(e, "SEQUENCE") /\ \A i \in DOMAIN e : e[i][2] = EncodeExtension(xs[i])
    BY <2>1 DEF AllTagged
  <2>5. [i \in DOMAIN e |-> DecodeExtension(e[i][2])] = ys
    BY <2>2, <2>3, <2>4 DEF IsFunction
  <2>6. DecodeEach("SEQUENCE", e, DecodeExtension) = ys
    BY <2>2, <2>3, <2>4, <2>5 DEF DecodeEach, Sound
  <2>7. ExtensionsRules(ys) <=> ExtensionsRules(xs)
    <3>1. ys = <<>> <=> xs = <<>>
      BY <2>1, <2>3 DEF IsFunction
    <3> QED
      BY <2>2, <2>3, <3>1 DEF ExtensionsRules
  <2>8. Required(e) /\ Required(ys)
    BY <2>3 DEF Atoms
  <2>9. DecodeExtensions(e) = IF ExtensionsRules(xs) THEN ys ELSE Malformed
    BY <2>6, <2>7, <2>8 DEF DecodeExtensions, Optional, Obeying, Required
  <2> QED
    BY <1>2, <2>8, <2>9 DEF e, ys, ExtensionsObey, Required
<1> QED
  BY <1>1, <1>2

(* What is read as Extensions is of its type and obeys the rules of its    *)
(* decoder.                                                                *)
LEMMA ExtensionsShape ==
  ASSUME NEW body, DecodeExtensions(body) # Malformed
  PROVE  IsExtensions(DecodeExtensions(body)) /\ ExtensionsObey(DecodeExtensions(body))
<1>1. CASE body = None
  BY <1>1 DEF DecodeExtensions, Optional, IsExtensions, ExtensionsObey, IsVec
<1>2. CASE body # None
  <2>1. /\ DecodeExtensions(body) = [i \in DOMAIN body |-> DecodeExtension(body[i][2])]
        /\ \A i \in DOMAIN body : DecodeExtension(body[i][2]) # Malformed
        /\ ExtensionsRules(DecodeExtensions(body))
        /\ IsSequence(body)
    BY <1>2 DEF DecodeExtensions, Optional, Obeying, DecodeEach, Sound
  <2>2. IsSequence(DecodeExtensions(body))
    BY <2>1 DEF IsSequence
  <2> QED
    BY <2>1, <2>2, ExtensionShape DEF IsExtensions, IsFunction, ExtensionsObey, IsVec
<1> QED
  BY <1>1, <1>2

-----------------------------------------------------------------------------
(* The fields of each structure.                                           *)

(* The fields of a Validity are told apart by their tags, whichever are    *)
(* missing.                                                                *)
LEMMA ValidityRows ==
  ASSUME NEW a, NEW b, Required(a), Required(b)
  PROVE  Fields(<<One("TIME"), One("TIME")>>,
                << <<"TIME", a>>, <<"TIME", b>> >>)
         = <<a, b>>
<1>1. Unambiguous(2, <<One("TIME"), One("TIME")>>)
  BY RowIs DEF Unambiguous
<1> QED
  BY <1>1, RowIs, Read2, All2 DEF Required

(* The fields of a SubjectPublicKeyInfo are told apart by their tags,      *)
(* whichever are missing.                                                  *)
LEMMA SpkiRows ==
  ASSUME NEW a, NEW b, Required(a), Required(b)
  PROVE  Fields(<<One("SEQUENCE"), One("BITS")>>,
                << <<"SEQUENCE", a>>, <<"BITS", b>> >>)
         = <<a, b>>
<1>1. Unambiguous(2, <<One("SEQUENCE"), One("BITS")>>)
  BY RowIs DEF Unambiguous
<1> QED
  BY <1>1, RowIs, Read2, All2 DEF Required

(* The fields of a TbsCertificate are told apart by their tags,            *)
(* whichever are missing.                                                  *)
LEMMA TbsRows ==
  ASSUME NEW a, NEW b, NEW c, NEW d, NEW e, NEW f, NEW g, NEW h, NEW i, NEW j, Required(b),
         Required(c), Required(d), Required(e), Required(f), Required(g)
  PROVE  Fields(<<Opt("0"), One("INTEGER"), One("SEQUENCE"), One("SEQUENCE"), One("SEQUENCE"),
                  One("SEQUENCE"), One("SEQUENCE"), Opt("1"), Opt("2"), Opt("3")>>,
                Present(<< <<"0", a>>, <<"INTEGER", b>>, <<"SEQUENCE", c>>, <<"SEQUENCE", d>>,
                           <<"SEQUENCE", e>>, <<"SEQUENCE", f>>, <<"SEQUENCE", g>>, <<"1", h>>,
                           <<"2", i>>, <<"3", j>> >>))
         = <<a, b, c, d, e, f, g, h, i, j>>
<1>1. Unambiguous(10, <<Opt("0"), One("INTEGER"), One("SEQUENCE"), One("SEQUENCE"),
                        One("SEQUENCE"), One("SEQUENCE"), One("SEQUENCE"), Opt("1"), Opt("2"),
                        Opt("3")>>)
  BY RowIs DEF Unambiguous
<1> QED
  BY <1>1, RowIs, Read10 DEF Required

(* The fields of a Certificate and of a CertificationRequest are told      *)
(* apart by their tags, whichever are missing.                             *)
LEMMA SignedRows ==
  ASSUME NEW a, NEW b, NEW c, Required(a), Required(b), Required(c)
  PROVE  Fields(<<One("SEQUENCE"), One("SEQUENCE"), One("BITS")>>,
                << <<"SEQUENCE", a>>, <<"SEQUENCE", b>>, <<"BITS", c>> >>)
         = <<a, b, c>>
<1>1. Unambiguous(3, <<One("SEQUENCE"), One("SEQUENCE"), One("BITS")>>)
  BY RowIs DEF Unambiguous
<1> QED
  BY <1>1, RowIs, Read3, All3 DEF Required

(* The fields of a CertificationRequestInfo are told apart by their        *)
(* tags, whichever are missing.                                            *)
LEMMA RequestInfoRows ==
  ASSUME NEW a, NEW b, NEW c, NEW d, Required(a), Required(b), Required(c), Required(d)
  PROVE  Fields(<<One("INTEGER"), One("SEQUENCE"), One("SEQUENCE"), One("0")>>,
                << <<"INTEGER", a>>, <<"SEQUENCE", b>>, <<"SEQUENCE", c>>, <<"0", d>> >>)
         = <<a, b, c, d>>
<1>1. Unambiguous(4, <<One("INTEGER"), One("SEQUENCE"), One("SEQUENCE"), One("0")>>)
  BY RowIs DEF Unambiguous
<1> QED
  BY <1>1, RowIs, Read4, All4 DEF Required

(* The fields of a ContentInfo are told apart by their tags, whichever     *)
(* are missing.                                                            *)
LEMMA ContentInfoRows ==
  ASSUME NEW a, NEW b, Required(a), Required(b)
  PROVE  Fields(<<One("OID"), One("0")>>,
                << <<"OID", a>>, <<"0", b>> >>)
         = <<a, b>>
<1>1. Unambiguous(2, <<One("OID"), One("0")>>)
  BY RowIs DEF Unambiguous
<1> QED
  BY <1>1, RowIs, Read2, All2 DEF Required

(* The fields of an IssuerAndSerialNumber are told apart by their tags,    *)
(* whichever are missing.                                                  *)
LEMMA IssuerAndSerialRows ==
  ASSUME NEW a, NEW b, Required(a), Required(b)
  PROVE  Fields(<<One("SEQUENCE"), One("INTEGER")>>,
                << <<"SEQUENCE", a>>, <<"INTEGER", b>> >>)
         = <<a, b>>
<1>1. Unambiguous(2, <<One("SEQUENCE"), One("INTEGER")>>)
  BY RowIs DEF Unambiguous
<1> QED
  BY <1>1, RowIs, Read2, All2 DEF Required

(* The fields of an EncapsulatedContentInfo are told apart by their        *)
(* tags, whichever are missing.                                            *)
LEMMA EncapsulatedRows ==
  ASSUME NEW a, NEW b, Required(a)
  PROVE  Fields(<<One("OID"), Opt("0")>>,
                Present(<< <<"OID", a>>, <<"0", b>> >>))
         = <<a, b>>
<1>1. Unambiguous(2, <<One("OID"), Opt("0")>>)
  BY RowIs DEF Unambiguous
<1> QED
  BY <1>1, RowIs, Read2 DEF Required

(* The fields of a SignedData are told apart by their tags, whichever      *)
(* are missing.                                                            *)
LEMMA SignedDataBodyRows ==
  ASSUME NEW a, NEW b, NEW c, NEW d, NEW e, NEW f, Required(a), Required(b), Required(c),
         Required(f)
  PROVE  Fields(<<One("INTEGER"), One("SET"), One("SEQUENCE"), Opt("0"), Opt("1"), One("SET")>>,
                Present(<< <<"INTEGER", a>>, <<"SET", b>>, <<"SEQUENCE", c>>, <<"0", d>>,
                           <<"1", e>>, <<"SET", f>> >>))
         = <<a, b, c, d, e, f>>
<1>1. Unambiguous(6, <<One("INTEGER"), One("SET"), One("SEQUENCE"), Opt("0"), Opt("1"),
                       One("SET")>>)
  BY RowIs DEF Unambiguous
<1> QED
  BY <1>1, RowIs, Read6 DEF Required

(* The fields of a MessageImprint and of a DigestInfo are told apart by    *)
(* their tags, whichever are missing.                                      *)
LEMMA DigestRows ==
  ASSUME NEW a, NEW b, Required(a), Required(b)
  PROVE  Fields(<<One("SEQUENCE"), One("OCTETS")>>,
                << <<"SEQUENCE", a>>, <<"OCTETS", b>> >>)
         = <<a, b>>
<1>1. Unambiguous(2, <<One("SEQUENCE"), One("OCTETS")>>)
  BY RowIs DEF Unambiguous
<1> QED
  BY <1>1, RowIs, Read2, All2 DEF Required

(* The fields of a TimeStampReq are told apart by their tags, whichever    *)
(* are missing.                                                            *)
LEMMA TimeStampReqRows ==
  ASSUME NEW a, NEW b, NEW c, NEW d, NEW e, NEW f, Required(a), Required(b)
  PROVE  Fields(<<One("INTEGER"), One("SEQUENCE"), Opt("OID"), Opt("INTEGER"), Opt("BOOLEAN"),
                  Opt("0")>>,
                Present(<< <<"INTEGER", a>>, <<"SEQUENCE", b>>, <<"OID", c>>, <<"INTEGER", d>>,
                           <<"BOOLEAN", e>>, <<"0", f>> >>))
         = <<a, b, c, d, e, f>>
<1>1. Unambiguous(6, <<One("INTEGER"), One("SEQUENCE"), Opt("OID"), Opt("INTEGER"),
                       Opt("BOOLEAN"), Opt("0")>>)
  BY RowIs DEF Unambiguous
<1> QED
  BY <1>1, RowIs, Read6 DEF Required

(* The fields of a PKIStatusInfo are told apart by their tags, whichever   *)
(* are missing.                                                            *)
LEMMA StatusInfoRows ==
  ASSUME NEW a, NEW b, NEW c, Required(a)
  PROVE  Fields(<<One("INTEGER"), Opt("SEQUENCE"), Opt("BITS")>>,
                Present(<< <<"INTEGER", a>>, <<"SEQUENCE", b>>, <<"BITS", c>> >>))
         = <<a, b, c>>
<1>1. Unambiguous(3, <<One("INTEGER"), Opt("SEQUENCE"), Opt("BITS")>>)
  BY RowIs DEF Unambiguous
<1> QED
  BY <1>1, RowIs, Read3 DEF Required

(* The fields of a TimeStampResp are told apart by their tags, whichever   *)
(* are missing.                                                            *)
LEMMA TimeStampRespRows ==
  ASSUME NEW a, NEW b, Required(a)
  PROVE  Fields(<<One("SEQUENCE"), Opt("SEQUENCE")>>,
                Present(<< <<"SEQUENCE", a>>, <<"SEQUENCE", b>> >>))
         = <<a, b>>
<1>1. Unambiguous(2, <<One("SEQUENCE"), Opt("SEQUENCE")>>)
  BY RowIs DEF Unambiguous
<1> QED
  BY <1>1, RowIs, Read2 DEF Required

(* The fields of an Accuracy are told apart by their tags, whichever are   *)
(* missing.                                                                *)
LEMMA AccuracyRows ==
  ASSUME NEW a, NEW b, NEW c
  PROVE  Fields(<<Opt("INTEGER"), Opt("0"), Opt("1")>>,
                Present(<< <<"INTEGER", a>>, <<"0", b>>, <<"1", c>> >>))
         = <<a, b, c>>
<1>1. Unambiguous(3, <<Opt("INTEGER"), Opt("0"), Opt("1")>>)
  BY RowIs DEF Unambiguous
<1> QED
  BY <1>1, RowIs, Read3

(* The fields of a TstInfo are told apart by their tags, whichever are     *)
(* missing.                                                                *)
LEMMA TstInfoRows ==
  ASSUME NEW a, NEW b, NEW c, NEW d, NEW e, NEW f, NEW g, NEW h, NEW i, NEW j, Required(a),
         Required(b), Required(c), Required(d), Required(e)
  PROVE  Fields(<<One("INTEGER"), One("OID"), One("SEQUENCE"), One("INTEGER"), One("TIME"),
                  Opt("SEQUENCE"), Opt("BOOLEAN"), Opt("INTEGER"), Opt("0"), Opt("1")>>,
                Present(<< <<"INTEGER", a>>, <<"OID", b>>, <<"SEQUENCE", c>>, <<"INTEGER", d>>,
                           <<"TIME", e>>, <<"SEQUENCE", f>>, <<"BOOLEAN", g>>, <<"INTEGER", h>>,
                           <<"0", i>>, <<"1", j>> >>))
         = <<a, b, c, d, e, f, g, h, i, j>>
<1>1. Unambiguous(10, <<One("INTEGER"), One("OID"), One("SEQUENCE"), One("INTEGER"),
                        One("TIME"), Opt("SEQUENCE"), Opt("BOOLEAN"), Opt("INTEGER"), Opt("0"),
                        Opt("1")>>)
  BY RowIs DEF Unambiguous
<1> QED
  BY <1>1, RowIs, Read10 DEF Required

(* The fields of a OneAsymmetricKey are told apart by their tags,          *)
(* whichever are missing.                                                  *)
LEMMA OneAsymmetricKeyRows ==
  ASSUME NEW a, NEW b, NEW c, NEW d, NEW e, Required(a), Required(b), Required(c)
  PROVE  Fields(<<One("INTEGER"), One("SEQUENCE"), One("OCTETS"), Opt("0"), Opt("1")>>,
                Present(<< <<"INTEGER", a>>, <<"SEQUENCE", b>>, <<"OCTETS", c>>, <<"0", d>>,
                           <<"1", e>> >>))
         = <<a, b, c, d, e>>
<1>1. Unambiguous(5, <<One("INTEGER"), One("SEQUENCE"), One("OCTETS"), Opt("0"), Opt("1")>>)
  BY RowIs DEF Unambiguous
<1> QED
  BY <1>1, RowIs, Read5 DEF Required

(* The fields of an ECPrivateKey are told apart by their tags, whichever   *)
(* are missing.                                                            *)
LEMMA EcPrivateKeyRows ==
  ASSUME NEW a, NEW b, NEW c, NEW d, Required(a), Required(b)
  PROVE  Fields(<<One("INTEGER"), One("OCTETS"), Opt("0"), Opt("1")>>,
                Present(<< <<"INTEGER", a>>, <<"OCTETS", b>>, <<"0", c>>, <<"1", d>> >>))
         = <<a, b, c, d>>
<1>1. Unambiguous(4, <<One("INTEGER"), One("OCTETS"), Opt("0"), Opt("1")>>)
  BY RowIs DEF Unambiguous
<1> QED
  BY <1>1, RowIs, Read4 DEF Required

(* The fields of an AnotherName are told apart by their tags, whichever    *)
(* are missing.                                                            *)
LEMMA OtherNameRows ==
  ASSUME NEW a, NEW b, Required(a), Required(b)
  PROVE  Fields(<<One("OID"), One("0")>>,
                << <<"OID", a>>, <<"0", b>> >>)
         = <<a, b>>
<1>1. Unambiguous(2, <<One("OID"), One("0")>>)
  BY RowIs DEF Unambiguous
<1> QED
  BY <1>1, RowIs, Read2, All2 DEF Required

(* The fields of an EDIPartyName are told apart by their tags, whichever   *)
(* are missing.                                                            *)
LEMMA EdiPartyRows ==
  ASSUME NEW a, NEW b, Required(b)
  PROVE  Fields(<<Opt("0"), One("1")>>,
                Present(<< <<"0", a>>, <<"1", b>> >>))
         = <<a, b>>
<1>1. Unambiguous(2, <<Opt("0"), One("1")>>)
  BY RowIs DEF Unambiguous
<1> QED
  BY <1>1, RowIs, Read2 DEF Required

(* The fields of an OtherPrimeInfo are told apart by their tags,           *)
(* whichever are missing.                                                  *)
LEMMA PrimeRows ==
  ASSUME NEW a, NEW b, NEW c, Required(a), Required(b), Required(c)
  PROVE  Fields(<<One("INTEGER"), One("INTEGER"), One("INTEGER")>>,
                << <<"INTEGER", a>>, <<"INTEGER", b>>, <<"INTEGER", c>> >>)
         = <<a, b, c>>
<1>1. Unambiguous(3, <<One("INTEGER"), One("INTEGER"), One("INTEGER")>>)
  BY RowIs DEF Unambiguous
<1> QED
  BY <1>1, RowIs, Read3, All3 DEF Required

-----------------------------------------------------------------------------
(* Values that are not looked into.                                        *)

(* A value that is not looked into is read as it was written.              *)
LEMMA OpaqueReads ==
  ASSUME Atoms, NEW type, NEW v
  PROVE  Required(Opaque(type, v)) /\ Within(type, Opaque(type, v)) = v
<1>1. IsFunction(Opaque(type, v))
  BY DEF Opaque, IsFunction
<1>2. Required(Opaque(type, v))
  BY <1>1 DEF Atoms
<1> QED
  BY <1>2 DEF Opaque, Within, Required

(* A value in an explicit tag is read as it was written, and one that is   *)
(* missing is not written.                                                 *)
LEMMA ExplicitReads ==
  ASSUME Atoms, NEW tag, NEW body
  PROVE  /\ Inner(tag, Explicit(tag, body)) = body
         /\ Explicit(tag, body) # Malformed
         /\ Explicit(tag, body) = None <=> body = None
<1>1. IsFunction(<< <<tag, body>> >>)
  BY DEF IsFunction
<1>2. Required(<< <<tag, body>> >>)
  BY <1>1 DEF Atoms
<1> QED
  BY <1>2 DEF Explicit, Inner, Required, Atoms

(* A list of values that are not looked into is read as it was written.    *)
LEMMA OpaqueListRoundTrip ==
  ASSUME Atoms, NEW type, NEW values, values = None \/ IsOpaqueList(values)
  PROVE  /\ DecodeOpaqueList(type, EncodeOpaqueList(type, values)) = values
         /\ EncodeOpaqueList(type, values) # Malformed
         /\ EncodeOpaqueList(type, values) = None <=> values = None
         /\ values # Malformed
<1>1. CASE values = None
  BY <1>1 DEF EncodeOpaqueList, DecodeOpaqueList, Optional, Atoms
<1>2. CASE values # None
  <2> DEFINE e == EncodeOpaqueList(type, values)
  <2>1. e = [i \in DOMAIN values |-> <<"SEQUENCE", Opaque(type, values[i])>>]
    BY <1>2 DEF EncodeOpaqueList
  <2> HIDE DEF e
  <2>2. IsFunction(values) /\ IsSequence(values) /\ \A i \in DOMAIN values : values[i] # Malformed
    BY <1>2 DEF IsOpaqueList, IsVec
  <2>3. IsFunction(e) /\ DOMAIN e = DOMAIN values /\ IsSequence(e)
    BY <2>1, <2>2 DEF IsFunction, IsSequence
  <2>4. Required(e) /\ Required(values)
    BY <2>2, <2>3 DEF Atoms
  <2>5. AllTagged(e, "SEQUENCE")
    BY <2>1 DEF AllTagged
  <2>6. \A i \in DOMAIN e : Within(type, e[i][2]) = values[i]
    BY <2>1, OpaqueReads
  <2>7. [i \in DOMAIN e |-> Within(type, e[i][2])] = values
    BY <2>2, <2>3, <2>6 DEF IsFunction
  <2>8. DecodeOpaqueList(type, e) = values
    BY <2>2, <2>3, <2>4, <2>5, <2>7 DEF DecodeOpaqueList, Optional, DecodeEach, Sound, Required
  <2> QED
    BY <1>2, <2>4, <2>8 DEF e, Required
<1> QED
  BY <1>1, <1>2

(* What is read as a list of values that are not looked into is of its     *)
(* type.                                                                   *)
LEMMA OpaqueListShape ==
  ASSUME NEW type, NEW body, DecodeOpaqueList(type, body) # Malformed
  PROVE  LET values == DecodeOpaqueList(type, body)
         IN  /\ values = None \/ IsOpaqueList(values)
             /\ body # None => IsOpaqueList(values)
             /\ body = None => values = None
<1>1. CASE body = None
  BY <1>1 DEF DecodeOpaqueList, Optional
<1>2. CASE body # None
  <2>1. /\ DecodeOpaqueList(type, body) = [i \in DOMAIN body |-> Within(type, body[i][2])]
        /\ \A i \in DOMAIN body : Within(type, body[i][2]) # Malformed
        /\ IsSequence(body)
    BY <1>2 DEF DecodeOpaqueList, Optional, DecodeEach, Sound
  <2>2. IsSequence(DecodeOpaqueList(type, body))
    BY <2>1 DEF IsSequence
  <2> QED
    BY <1>2, <2>1, <2>2 DEF IsOpaqueList, IsFunction, IsVec
<1> QED
  BY <1>1, <1>2

(* A Validity is read as it was written.                                   *)
LEMMA ValidityRoundTrip ==
  ASSUME Atoms, NEW v, IsValidity(v)
  PROVE  /\ DecodeValidity(EncodeValidity(v)) = v
         /\ Required(v) /\ Required(EncodeValidity(v))
<1>1. Fields(<<One("TIME"), One("TIME")>>, EncodeValidity(v)) = <<v.notBefore, v.notAfter>>
  BY ValidityRows DEF EncodeValidity, Time, IsValidity
<1>2. IsFunction(<<v.notBefore, v.notAfter>>) /\ IsFunction(v) /\ IsFunction(EncodeValidity(v))
  BY DEF IsFunction, IsValidity, EncodeValidity
<1>3. Required(<<v.notBefore, v.notAfter>>) /\ Required(v) /\ Required(EncodeValidity(v))
  BY <1>2 DEF Atoms
<1>4. DecodeValidity(EncodeValidity(v)) = Sound([notBefore |-> v.notBefore, notAfter |-> v.notAfter])
  BY <1>1, <1>3 DEF DecodeValidity, Decoded, Made, Required
<1> QED
  BY <1>3, <1>4 DEF Sound, IsValidity, Required

(* What is read as a Validity is of its type.                              *)
LEMMA ValidityShape ==
  ASSUME NEW e, DecodeValidity(e) # Malformed
  PROVE  IsValidity(DecodeValidity(e))
BY Shape2, RowIs DEF DecodeValidity, Decoded, Made, Sound, IsValidity, Required

(* A SubjectPublicKeyInfo is read as it was written.                       *)
LEMMA SpkiRoundTrip ==
  ASSUME Atoms, NEW k, IsSpki(k)
  PROVE  /\ DecodeSpki(EncodeSpki(k)) = k
         /\ Required(k) /\ Required(EncodeSpki(k))
<1> DEFINE a == Opaque("Algorithm", k.algorithm)
<1>0. Required(a) /\ Within("Algorithm", a) = k.algorithm
  BY OpaqueReads
<1>1. Fields(<<One("SEQUENCE"), One("BITS")>>, EncodeSpki(k)) = <<a, k.key>>
  BY <1>0, SpkiRows DEF EncodeSpki, IsSpki
<1> HIDE DEF a
<1>2. IsFunction(<<a, k.key>>) /\ IsFunction(k) /\ IsFunction(EncodeSpki(k))
  BY DEF IsFunction, IsSpki, EncodeSpki
<1>3. Required(<<a, k.key>>) /\ Required(k) /\ Required(EncodeSpki(k))
  BY <1>2 DEF Atoms
<1>4. DecodeSpki(EncodeSpki(k)) = Sound([algorithm |-> k.algorithm, key |-> k.key])
  BY <1>0, <1>1, <1>3 DEF DecodeSpki, Decoded, Made, Required
<1> QED
  BY <1>3, <1>4 DEF Sound, IsSpki, Required

(* What is read as a SubjectPublicKeyInfo is of its type.                  *)
LEMMA SpkiShape ==
  ASSUME NEW e, DecodeSpki(e) # Malformed
  PROVE  IsSpki(DecodeSpki(e))
BY Shape2, RowIs DEF DecodeSpki, Decoded, Made, Sound, IsSpki, Required

-----------------------------------------------------------------------------
(* Certificates and requests.                                              *)

(* What an encoder writes is a value.                                      *)
LEMMA WrittenIsThere ==
  ASSUME Atoms, NEW rows, Len(rows) \in Nat
  PROVE  Required(Present(rows)) /\ IsFunction(Present(rows))
<1> DEFINE n == Len(rows)
<1>1. PICK w : WrittenBy(w, n, rows, Present(rows))
  BY PresentSteps
<1>2. Present(rows) \in Seq({rows[j] : j \in 1..n})
  BY <1>1 DEF WrittenBy
<1> DEFINE e == Present(rows)
           C == {rows[j] : j \in 1..n}
<1>3. e \in Seq(C)
  BY <1>2
<1> HIDE DEF e, C
<1>4. IsFunction(e)
  BY <1>3 DEF IsFunction
<1>5. Required(e)
  BY <1>4 DEF Atoms
<1> QED
  BY <1>4, <1>5 DEF e

(* A version is read back as missing when it is the default, which is      *)
(* not written.                                                            *)
NormalVersion(v) == IF v = V1 THEN None ELSE v

(* The version of a certificate that obeys the rules is read as written,   *)
(* without defaults; any other is refused.                                 *)
LEMMA VersionRoundTrip ==
  ASSUME Atoms, NEW v,
         NEW e, e = IF v \in {None, V1} THEN None ELSE << <<"INTEGER", v>> >>
  PROVE  DecodeVersion(e) = IF v \in {None} \cup 0..2 THEN NormalVersion(v) ELSE Malformed
<1>1. CASE v \in {None, V1}
  BY <1>1 DEF DecodeVersion, Inner, Optional, NormalVersion, V1, Atoms
<1>2. CASE v \notin {None, V1}
  <2>1. IsFunction(e)
    BY <1>2 DEF IsFunction
  <2>2. Inner("INTEGER", e) = v
    BY <1>2, <2>1 DEF Inner, Atoms, Required
  <2> QED
    BY <1>2, <2>2 DEF DecodeVersion, Optional, OneOf, NormalVersion, V1
<1> QED
  BY <1>1, <1>2

(* What is read of a TbsCertificate that was written: defaults are left    *)
(* out.                                                                    *)
NormalTbs(t) == [t EXCEPT !.version = NormalVersion(@), !.extensions = NormalExtensions(@)]

(* Leaving out defaults changes nothing for the rules of a                 *)
(* TbsCertificate.                                                         *)
LEMMA NormalTbsRules ==
  ASSUME Atoms, NEW t, IsTbs(t), ExtensionsObey(t.extensions)
  PROVE  TbsRules(NormalTbs(t)) <=> TbsRules(t)
<1> DEFINE u == NormalTbs(t)
<1>1. /\ u.issuer = t.issuer /\ u.validity = t.validity /\ u.subject = t.subject
      /\ u.issuerUniqueId = t.issuerUniqueId /\ u.subjectUniqueId = t.subjectUniqueId
      /\ u.version = NormalVersion(t.version) /\ u.extensions = NormalExtensions(t.extensions)
  BY DEF IsTbs, NormalTbs
<1>2. EffectiveVersion(u.version) = EffectiveVersion(t.version)
  BY <1>1 DEF EffectiveVersion, NormalVersion, V1
<1>3. u.extensions = None <=> t.extensions = None
  BY <1>1, ExtensionsRoundTrip DEF NormalExtensions, Atoms, IsTbs, IsExtensions, IsFunction, Required, IsVec
<1>4. NamedByExtension(u.extensions) <=> NamedByExtension(t.extensions)
  <2>1. CASE t.extensions = None
    BY <2>1, <1>3 DEF NamedByExtension
  <2>2. CASE t.extensions # None
    <3>1. u.extensions = [i \in DOMAIN t.extensions |-> [t.extensions[i] EXCEPT !.critical = Flag(@)]]
      BY <1>1, <2>2 DEF NormalExtensions
    <3>2. \A i \in DOMAIN t.extensions : IsExtension(t.extensions[i])
      BY <2>2 DEF IsTbs, IsExtensions, IsVec
    <3>3. \A i \in DOMAIN t.extensions : /\ u.extensions[i].id = t.extensions[i].id
                                         /\ u.extensions[i].critical = Flag(t.extensions[i].critical)
                                         /\ u.extensions[i].value = t.extensions[i].value
      BY <3>1, <3>2 DEF IsExtension
    <3>4. None # TRUE
      BY DEF Atoms, Required
    <3> QED
      BY <3>1, <3>3, <3>4, <1>3 DEF NamedByExtension, Flag
  <2> QED
    BY <2>1, <2>2
<1> HIDE DEF u
<1>5. TbsRules(u) <=> TbsRules(t)
  BY <1>1, <1>2, <1>3, <1>4 DEF TbsRules
<1> QED
  BY <1>5 DEF u

(* A TbsCertificate that obeys the rules is read as written, without       *)
(* defaults; any other is refused.                                         *)
LEMMA TbsRoundTrip ==
  ASSUME Atoms, NEW t, IsTbs(t)
  PROVE  /\ DecodeTbs(EncodeTbs(t)) = IF TbsObeys(t) THEN NormalTbs(t) ELSE Malformed
         /\ Required(NormalTbs(t))
<1> DEFINE a == IF t.version \in {None, V1} THEN None ELSE << <<"INTEGER", t.version>> >>
           c == Opaque("Algorithm", t.signature)
           d == EncodeName(t.issuer)
           e == EncodeValidity(t.validity)
           f == EncodeName(t.subject)
           g == EncodeSpki(t.subjectPublicKeyInfo)
           j == Explicit("SEQUENCE", EncodeExtensions(t.extensions))
           fields == <<a, t.serialNumber, c, d, e, f, g, t.issuerUniqueId, t.subjectUniqueId, j>>
           rows == <<Opt("0"), One("INTEGER"), One("SEQUENCE"), One("SEQUENCE"), One("SEQUENCE"),
                     One("SEQUENCE"), One("SEQUENCE"), Opt("1"), Opt("2"), Opt("3")>>
           version == IF t.version \in {None} \cup 0..2 THEN NormalVersion(t.version) ELSE Malformed
           extensions == IF ExtensionsObey(t.extensions) THEN NormalExtensions(t.extensions) ELSE Malformed
<1>1. Required(c) /\ Within("Algorithm", c) = t.signature
  BY OpaqueReads
<1>2. Required(d) /\ DecodeName(d) = t.issuer /\ Required(t.issuer)
  BY NameRoundTrip DEF IsTbs
<1>3. Required(e) /\ DecodeValidity(e) = t.validity /\ Required(t.validity)
  BY ValidityRoundTrip DEF IsTbs
<1>4. Required(f) /\ DecodeName(f) = t.subject /\ Required(t.subject)
  BY NameRoundTrip DEF IsTbs
<1>5. Required(g) /\ DecodeSpki(g) = t.subjectPublicKeyInfo /\ Required(t.subjectPublicKeyInfo)
  BY SpkiRoundTrip DEF IsTbs
<1>6. DecodeExtensions(Inner("SEQUENCE", j)) = extensions /\ NormalExtensions(t.extensions) # Malformed
  BY ExtensionsRoundTrip, ExplicitReads DEF IsTbs
<1>7. DecodeVersion(a) = version
  BY VersionRoundTrip
<1> HIDE DEF a, c, d, e, f, g, j
<1>8. Fields(rows, EncodeTbs(t)) = fields
  <2>1. Required(t.serialNumber)
    BY DEF IsTbs
  <2> QED
    BY <1>1, <1>2, <1>3, <1>4, <1>5, <2>1, TbsRows DEF EncodeTbs, a, c, d, e, f, g, j
<1>9. fields # Malformed
  <2>1. IsFunction(fields)
    BY DEF IsFunction
  <2> HIDE DEF fields
  <2> QED
    BY <2>1 DEF Atoms, Required
<1> DEFINE u == [version              |-> version,
                 serialNumber         |-> t.serialNumber,
                 signature            |-> t.signature,
                 issuer               |-> t.issuer,
                 validity             |-> t.validity,
                 subject              |-> t.subject,
                 subjectPublicKeyInfo |-> t.subjectPublicKeyInfo,
                 issuerUniqueId       |-> t.issuerUniqueId,
                 subjectUniqueId      |-> t.subjectUniqueId,
                 extensions           |-> extensions]
<1>10. TbsFields(fields) = u
  <2> HIDE DEF version, extensions
  <2> QED
    BY <1>1, <1>2, <1>3, <1>4, <1>5, <1>6, <1>7 DEF TbsFields
<1>11. Required(NormalTbs(t))
  <2>1. IsFunction(NormalTbs(t))
    BY DEF IsFunction, IsTbs, NormalTbs
  <2> QED
    BY <2>1 DEF Atoms
<1>12. DecodeTbs(EncodeTbs(t)) = Obeying(Sound(u), TbsRules)
  <2> HIDE DEF fields, u
  <2>1. Decoded(rows, EncodeTbs(t), TbsFields) = Sound(u)
    <3> HIDE DEF rows
    <3> QED
      BY <1>8, <1>9, <1>10 DEF Decoded, Made
  <2> QED
    BY <2>1 DEF DecodeTbs
<1>13. CASE t.version \in {None} \cup 0..2 /\ ExtensionsObey(t.extensions)
  <2>1. u = NormalTbs(t)
    <3>1. version = NormalVersion(t.version) /\ extensions = NormalExtensions(t.extensions)
      BY <1>13
    <3>2. t = [version |-> t.version, serialNumber |-> t.serialNumber, signature |-> t.signature,
               issuer |-> t.issuer, validity |-> t.validity, subject |-> t.subject,
               subjectPublicKeyInfo |-> t.subjectPublicKeyInfo, issuerUniqueId |-> t.issuerUniqueId,
               subjectUniqueId |-> t.subjectUniqueId, extensions |-> t.extensions]
      BY DEF IsTbs
    <3> HIDE DEF version, extensions
    <3>3. /\ u.version = NormalTbs(t).version
          /\ u.extensions = NormalTbs(t).extensions
      BY <3>1, <3>2 DEF NormalTbs
    <3>4. NormalTbs(t) = [t EXCEPT !.version = version, !.extensions = extensions]
      BY <3>1 DEF NormalTbs
    <3> QED
      BY <3>2, <3>4
  <2>2. version # Malformed /\ extensions # Malformed
    <3>1. \A n \in 0..2 : n # Malformed
      BY DEF Atoms, Required
    <3>2. None # Malformed
      BY DEF Atoms
    <3> QED
      BY <3>1, <3>2, <1>6, <1>13 DEF NormalVersion
  <2>3. Sound(u) = u
    <3> HIDE DEF version, extensions
    <3> QED
      BY <2>2, <1>1, <1>2, <1>3, <1>4, <1>5 DEF Sound, IsTbs, Required
  <2> HIDE DEF u
  <2> QED
    BY <1>11, <1>12, <1>13, <2>1, <2>3, NormalTbsRules DEF Obeying, TbsObeys, Required
<1>14. CASE ~(t.version \in {None} \cup 0..2 /\ ExtensionsObey(t.extensions))
  <2>1. version = Malformed \/ extensions = Malformed
    BY <1>14
  <2>2. Sound(u) = Malformed
    <3> HIDE DEF version, extensions
    <3> QED
      BY <2>1 DEF Sound
  <2> HIDE DEF u
  <2> QED
    BY <1>11, <1>12, <1>14, <2>2 DEF Obeying, TbsObeys
<1> QED
  BY <1>11, <1>13, <1>14

(* What is read as the version of a certificate is of its type and obeys   *)
(* the rules of its decoder.                                               *)
LEMMA VersionShape ==
  ASSUME NEW e, DecodeVersion(e) # Malformed
  PROVE  DecodeVersion(e) \in {None} \cup 0..2
BY DEF DecodeVersion, Optional, OneOf

(* What is read as a TbsCertificate is of its type and obeys the rules     *)
(* of its decoder.                                                         *)
LEMMA TbsShape ==
  ASSUME NEW e, DecodeTbs(e) # Malformed
  PROVE  IsTbs(DecodeTbs(e)) /\ TbsObeys(DecodeTbs(e))
<1> DEFINE rows == <<Opt("0"), One("INTEGER"), One("SEQUENCE"), One("SEQUENCE"), One("SEQUENCE"),
                     One("SEQUENCE"), One("SEQUENCE"), Opt("1"), Opt("2"), Opt("3")>>
           f == Fields(rows, e)
           t == DecodeTbs(e)
<1>1. f # Malformed /\ t = TbsFields(f) /\ TbsRules(t) /\ (\A x \in DOMAIN t : t[x] # Malformed)
  BY DEF DecodeTbs, Obeying, Decoded, Made, Sound
<1>2. f[2] # None
  BY <1>1, Shape10, RowIs
<1> HIDE DEF f, t
<1>3. /\ t.version = DecodeVersion(f[1]) /\ t.serialNumber = f[2]
      /\ t.signature = Within("Algorithm", f[3])
      /\ t.issuer = DecodeName(f[4]) /\ t.validity = DecodeValidity(f[5]) /\ t.subject = DecodeName(f[6])
      /\ t.subjectPublicKeyInfo = DecodeSpki(f[7])
      /\ t.issuerUniqueId = f[8] /\ t.subjectUniqueId = f[9]
      /\ t.extensions = DecodeExtensions(Inner("SEQUENCE", f[10]))
  BY <1>1 DEF TbsFields
<1>4. DOMAIN t = {"version", "serialNumber", "signature", "issuer", "validity", "subject",
                  "subjectPublicKeyInfo", "issuerUniqueId", "subjectUniqueId", "extensions"}
  BY <1>1 DEF TbsFields
<1>5. /\ t.version # Malformed /\ t.serialNumber # Malformed /\ t.signature # Malformed
      /\ t.issuer # Malformed /\ t.validity # Malformed /\ t.subject # Malformed
      /\ t.subjectPublicKeyInfo # Malformed /\ t.issuerUniqueId # Malformed
      /\ t.subjectUniqueId # Malformed /\ t.extensions # Malformed
  BY <1>1, <1>4
<1>6. /\ IsName(t.issuer) /\ IsValidity(t.validity) /\ IsName(t.subject)
      /\ IsSpki(t.subjectPublicKeyInfo)
      /\ IsExtensions(t.extensions) /\ ExtensionsObey(t.extensions)
      /\ t.version \in {None} \cup 0..2
  BY <1>3, <1>5, NameShape, ValidityShape, SpkiShape, ExtensionsShape, VersionShape
<1>7. t = [version |-> t.version, serialNumber |-> t.serialNumber, signature |-> t.signature,
           issuer |-> t.issuer, validity |-> t.validity, subject |-> t.subject,
           subjectPublicKeyInfo |-> t.subjectPublicKeyInfo, issuerUniqueId |-> t.issuerUniqueId,
           subjectUniqueId |-> t.subjectUniqueId, extensions |-> t.extensions]
  BY <1>1 DEF TbsFields
<1>8. IsTbs(t) /\ TbsObeys(t)
  BY <1>1, <1>2, <1>3, <1>5, <1>6, <1>7 DEF IsTbs, TbsObeys, Required
<1> QED
  BY <1>8 DEF t

(* A Certificate that obeys the rules is read as written, without          *)
(* defaults; any other is refused.                                         *)
LEMMA CertificateRoundTrip ==
  ASSUME Atoms, NEW c, IsCertificate(c), NEW form
  PROVE  LET v == DecodeCertificate(form, EncodeCertificate(c))
         IN  IF TbsObeys(c.tbs)
               THEN /\ v = [tbs                |-> NormalTbs(c.tbs),
                            signatureAlgorithm |-> c.signatureAlgorithm,
                            signature          |-> c.signature,
                            rawData            |-> [form |-> form, elements |-> EncodeTbs(c.tbs)]]
                    /\ Required(v)
               ELSE v = Malformed
<1> DEFINE a == EncodeTbs(c.tbs)
           b == Opaque("Algorithm", c.signatureAlgorithm)
           raw == [form |-> form, elements |-> a]
           fields == <<a, b, c.signature>>
           u == [tbs |-> DecodeTbs(a), signatureAlgorithm |-> c.signatureAlgorithm,
                 signature |-> c.signature, rawData |-> raw]
<1>1. Required(b) /\ Within("Algorithm", b) = c.signatureAlgorithm
  BY OpaqueReads
<1>2. Required(a)
  BY WrittenIsThere DEF EncodeTbs
<1>3. Required(raw) /\ Required(fields) /\ Required(u)
  <2>1. IsFunction(raw) /\ IsFunction(fields) /\ IsFunction(u)
    BY DEF IsFunction
  <2> HIDE DEF raw, fields, u
  <2> QED
    BY <2>1 DEF Atoms
<1>4. Fields(<<One("SEQUENCE"), One("SEQUENCE"), One("BITS")>>, EncodeCertificate(c)) = fields
  BY <1>1, <1>2, SignedRows DEF EncodeCertificate, IsCertificate
<1> HIDE DEF b
<1>5. DecodeCertificate(form, EncodeCertificate(c)) = Sound(u)
  <2> HIDE DEF a
  <2> QED
    BY <1>1, <1>3, <1>4 DEF DecodeCertificate, Decoded, Made, Required
<1>6. DecodeTbs(a) = (IF TbsObeys(c.tbs) THEN NormalTbs(c.tbs) ELSE Malformed) /\ Required(NormalTbs(c.tbs))
  BY TbsRoundTrip DEF IsCertificate
<1> HIDE DEF raw
<1>7. Sound(u) = IF TbsObeys(c.tbs) THEN u ELSE Malformed
  BY <1>3, <1>6 DEF Sound, IsCertificate, Required
<1> QED
  BY <1>3, <1>5, <1>6, <1>7 DEF raw

(* What is read as a Certificate is of its type and obeys the rules of     *)
(* its decoder.                                                            *)
LEMMA CertificateShape ==
  ASSUME NEW form, NEW e, DecodeCertificate(form, e) # Malformed
  PROVE  LET c == DecodeCertificate(form, e)
         IN  IsCertificate(c) /\ TbsObeys(c.tbs)
<1> DEFINE c == DecodeCertificate(form, e)
           f == Fields(<<One("SEQUENCE"), One("SEQUENCE"), One("BITS")>>, e)
<1>1. /\ f # Malformed
      /\ c = [tbs |-> DecodeTbs(f[1]), signatureAlgorithm |-> Within("Algorithm", f[2]),
              signature |-> f[3], rawData |-> [form |-> form, elements |-> f[1]]]
      /\ \A x \in DOMAIN c : c[x] # Malformed
  BY DEF DecodeCertificate, Decoded, Made, Sound
<1>2. f[3] # None
  BY <1>1, Shape3, RowIs
<1> HIDE DEF c, f
<1>3. IsTbs(c.tbs) /\ TbsObeys(c.tbs)
  BY <1>1, TbsShape
<1>4. IsCertificate(c) /\ TbsObeys(c.tbs)
  BY <1>1, <1>2, <1>3 DEF IsCertificate, Required
<1> QED
  BY <1>4 DEF c

(* A CertificationRequestInfo that obeys the rules is read as it was       *)
(* written; any other is refused.                                          *)
LEMMA RequestInfoRoundTrip ==
  ASSUME Atoms, NEW r, IsRequest(r)
  PROVE  /\ DecodeRequestInfo(EncodeRequestInfo(r.info)) = IF r.info.version = 0 THEN r.info ELSE Malformed
         /\ Required(r.info) /\ Required(EncodeRequestInfo(r.info))
<1> DEFINE i == r.info
           b == EncodeName(i.subject)
           c == EncodeSpki(i.subjectPublicKeyInfo)
           d == EncodeOpaqueList("Attribute", i.attributes)
           fields == <<i.version, b, c, d>>
           u == [version |-> OneOf({0}, i.version), subject |-> i.subject,
                 subjectPublicKeyInfo |-> i.subjectPublicKeyInfo, attributes |-> i.attributes]
<1>1. Required(b) /\ DecodeName(b) = i.subject /\ Required(i.subject)
  BY NameRoundTrip DEF IsRequest
<1>2. Required(c) /\ DecodeSpki(c) = i.subjectPublicKeyInfo /\ Required(i.subjectPublicKeyInfo)
  BY SpkiRoundTrip DEF IsRequest
<1>3. i.attributes # None
  BY DEF IsRequest, IsOpaqueList, Atoms, Required, IsVec
<1>4. Required(d) /\ DecodeOpaqueList("Attribute", d) = i.attributes /\ Required(i.attributes)
  BY <1>3, OpaqueListRoundTrip DEF IsRequest, Required
<1>5. Required(i.version)
  BY DEF IsRequest
<1>6. i = [version |-> i.version, subject |-> i.subject,
           subjectPublicKeyInfo |-> i.subjectPublicKeyInfo, attributes |-> i.attributes]
  BY DEF IsRequest
<1> HIDE DEF i, b, c, d
<1>7. Fields(<<One("INTEGER"), One("SEQUENCE"), One("SEQUENCE"), One("0")>>, EncodeRequestInfo(i)) = fields
  BY <1>1, <1>2, <1>4, <1>5, RequestInfoRows DEF EncodeRequestInfo, b, c, d
<1>8. Required(fields) /\ Required(u) /\ Required(i) /\ Required(EncodeRequestInfo(i))
  <2>1. IsFunction(fields) /\ IsFunction(u) /\ IsFunction(i) /\ IsFunction(EncodeRequestInfo(i))
    BY <1>6 DEF IsFunction, EncodeRequestInfo
  <2> HIDE DEF fields, u
  <2> QED
    BY <2>1 DEF Atoms
<1>9. DecodeRequestInfo(EncodeRequestInfo(i)) = Sound(u)
  BY <1>1, <1>2, <1>4, <1>7, <1>8 DEF DecodeRequestInfo, Decoded, Made, Required
<1>10. Sound(u) = IF i.version = 0 THEN i ELSE Malformed
  BY <1>1, <1>2, <1>4, <1>5, <1>6, <1>8 DEF Sound, OneOf, Required
<1> QED
  BY <1>8, <1>9, <1>10 DEF i

(* A CertificationRequest that obeys the rules is read as it was           *)
(* written; any other is refused.                                          *)
LEMMA RequestRoundTrip ==
  ASSUME Atoms, NEW r, IsRequest(r)
  PROVE  /\ DecodeRequest(EncodeRequest(r)) = IF r.info.version = 0 THEN r ELSE Malformed
         /\ Required(r)
<1> DEFINE a == EncodeRequestInfo(r.info)
           b == Opaque("Algorithm", r.signatureAlgorithm)
           fields == <<a, b, r.signature>>
           u == [info |-> DecodeRequestInfo(a), signatureAlgorithm |-> r.signatureAlgorithm,
                 signature |-> r.signature]
<1>1. /\ DecodeRequestInfo(a) = IF r.info.version = 0 THEN r.info ELSE Malformed
      /\ Required(r.info) /\ Required(a)
  BY RequestInfoRoundTrip
<1>2. Required(b) /\ Within("Algorithm", b) = r.signatureAlgorithm
  BY OpaqueReads
<1>3. /\ r.signatureAlgorithm # Malformed /\ Required(r.signature)
      /\ r = [info |-> r.info, signatureAlgorithm |-> r.signatureAlgorithm, signature |-> r.signature]
  BY DEF IsRequest
<1> HIDE DEF a, b
<1>4. Fields(<<One("SEQUENCE"), One("SEQUENCE"), One("BITS")>>, EncodeRequest(r)) = fields
  BY <1>1, <1>2, <1>3, SignedRows DEF EncodeRequest, a, b
<1>5. Required(fields) /\ Required(u) /\ Required(r)
  <2>1. IsFunction(fields) /\ IsFunction(u) /\ IsFunction(r)
    BY <1>3 DEF IsFunction
  <2> HIDE DEF fields, u
  <2> QED
    BY <2>1 DEF Atoms
<1>6. DecodeRequest(EncodeRequest(r)) = Sound(u)
  BY <1>2, <1>4, <1>5 DEF DecodeRequest, Decoded, Made, Required
<1>7. Sound(u) = IF r.info.version = 0 THEN r ELSE Malformed
  BY <1>1, <1>3, <1>5 DEF Sound, Required
<1> QED
  BY <1>5, <1>6, <1>7

(* What is read as a CertificationRequest is of its type and obeys the     *)
(* rules of its decoder.                                                   *)
LEMMA RequestShape ==
  ASSUME Atoms, NEW e, DecodeRequest(e) # Malformed
  PROVE  LET r == DecodeRequest(e)
         IN  IsRequest(r) /\ r.info.version = 0
<1> DEFINE r == DecodeRequest(e)
           f == Fields(<<One("SEQUENCE"), One("SEQUENCE"), One("BITS")>>, e)
           g == Fields(<<One("INTEGER"), One("SEQUENCE"), One("SEQUENCE"), One("0")>>, f[1])
<1>1. /\ f # Malformed
      /\ r = [info |-> DecodeRequestInfo(f[1]), signatureAlgorithm |-> Within("Algorithm", f[2]),
              signature |-> f[3]]
      /\ \A x \in DOMAIN r : r[x] # Malformed
  BY DEF DecodeRequest, Decoded, Made, Sound
<1>2. f[3] # None
  BY <1>1, Shape3, RowIs
<1> HIDE DEF r
<1>3. r.info # Malformed /\ r.info = DecodeRequestInfo(f[1])
  BY <1>1
<1> HIDE DEF f
<1>4. /\ g # Malformed
      /\ r.info = [version |-> OneOf({0}, g[1]), subject |-> DecodeName(g[2]),
                   subjectPublicKeyInfo |-> DecodeSpki(g[3]),
                   attributes |-> DecodeOpaqueList("Attribute", g[4])]
      /\ \A x \in DOMAIN r.info : r.info[x] # Malformed
  BY <1>3 DEF DecodeRequestInfo, Decoded, Made, Sound
<1>5. g[1] # None /\ g[4] # None
  BY <1>4, Shape4, RowIs
<1> HIDE DEF g
<1>6. /\ IsName(r.info.subject) /\ IsSpki(r.info.subjectPublicKeyInfo)
      /\ IsOpaqueList(r.info.attributes)
      /\ r.info.version = 0 /\ Required(r.info.version)
  <2>1. r.info.version = OneOf({0}, g[1]) /\ r.info.version # Malformed
    BY <1>4
  <2>2. r.info.version = 0
    BY <2>1 DEF OneOf
  <2> QED
    BY <1>4, <1>5, <2>2, NameShape, SpkiShape, OpaqueListShape DEF Atoms
<1>7. IsRequest(r)
  BY <1>1, <1>2, <1>4, <1>6 DEF IsRequest, Required
<1> QED
  BY <1>6, <1>7 DEF r

-----------------------------------------------------------------------------
(* Signed data.                                                            *)

(* A ContentInfo is read as it was written.                                *)
LEMMA ContentInfoRoundTrip ==
  ASSUME Atoms, NEW c, IsContentInfo(c)
  PROVE  DecodeContentInfo(EncodeContentInfo(c)) = c /\ Required(c)
<1> DEFINE b == Opaque("Any", c.content)
           fields == <<c.contentType, b>>
<1>1. Required(b) /\ Within("Any", b) = c.content
  BY OpaqueReads
<1>2. /\ Required(c.contentType) /\ c.content # Malformed
      /\ c = [contentType |-> c.contentType, content |-> c.content]
  BY DEF IsContentInfo
<1> HIDE DEF b
<1>3. Fields(<<One("OID"), One("0")>>, EncodeContentInfo(c)) = fields
  BY <1>1, <1>2, ContentInfoRows DEF EncodeContentInfo, b
<1>4. Required(fields) /\ Required(c)
  <2>1. IsFunction(fields) /\ IsFunction(c)
    BY <1>2 DEF IsFunction
  <2> HIDE DEF fields
  <2> QED
    BY <2>1 DEF Atoms
<1>5. DecodeContentInfo(EncodeContentInfo(c)) = Sound([contentType |-> c.contentType, content |-> c.content])
  BY <1>1, <1>3, <1>4 DEF DecodeContentInfo, Decoded, Made, Required
<1> QED
  BY <1>2, <1>4, <1>5 DEF Sound, Required

(* What is read as a ContentInfo is of its type.                           *)
LEMMA ContentInfoShape ==
  ASSUME NEW e, DecodeContentInfo(e) # Malformed
  PROVE  IsContentInfo(DecodeContentInfo(e))
BY Shape2, RowIs DEF DecodeContentInfo, Decoded, Made, Sound, IsContentInfo, Required

(* An EncapsulatedContentInfo is read as it was written.                   *)
LEMMA EncapsulatedRoundTrip ==
  ASSUME Atoms, NEW c, IsEncapsulated(c)
  PROVE  DecodeEncapsulated(EncodeEncapsulated(c)) = c /\ Required(c) /\ Required(EncodeEncapsulated(c))
<1> DEFINE b == Explicit("OCTETS", c.content)
           fields == <<c.contentType, b>>
<1>1. Inner("OCTETS", b) = c.content
  BY ExplicitReads
<1>2. /\ Required(c.contentType) /\ c.content # Malformed
      /\ c = [contentType |-> c.contentType, content |-> c.content]
  BY DEF IsEncapsulated
<1> HIDE DEF b
<1>3. Fields(<<One("OID"), Opt("0")>>, EncodeEncapsulated(c)) = fields
  BY <1>1, <1>2, EncapsulatedRows DEF EncodeEncapsulated, b
<1>4. Required(fields) /\ Required(c) /\ Required(EncodeEncapsulated(c))
  <2>1. IsFunction(fields) /\ IsFunction(c)
    BY <1>2 DEF IsFunction
  <2> HIDE DEF fields
  <2> QED
    BY <2>1, WrittenIsThere DEF Atoms, EncodeEncapsulated
<1>5. DecodeEncapsulated(EncodeEncapsulated(c)) = Sound([contentType |-> c.contentType, content |-> c.content])
  BY <1>1, <1>3, <1>4 DEF DecodeEncapsulated, Decoded, Made, Required
<1> QED
  BY <1>2, <1>4, <1>5 DEF Sound, Required

(* What is read as an EncapsulatedContentInfo is of its type.              *)
LEMMA EncapsulatedShape ==
  ASSUME NEW e, DecodeEncapsulated(e) # Malformed
  PROVE  IsEncapsulated(DecodeEncapsulated(e))
BY Shape2, RowIs DEF DecodeEncapsulated, Decoded, Made, Sound, IsEncapsulated, Required

-----------------------------------------------------------------------------
(* A SignerIdentifier is read as it was written, and its tag tells which   *)
(* form it has.                                                            *)
LEMMA SidRoundTrip ==
  ASSUME Atoms, NEW sid, IsSid(sid)
  PROVE  LET e == EncodeSid(sid)
         IN  /\ e = <<e[1], e[2]>> /\ Required(e[2])
             /\ e[1] = IF sid.form = "keyIdentifier" THEN "0" ELSE "SEQUENCE"
             /\ sid.form = "keyIdentifier" => DecodeKeyIdentifier(e[2]) = sid
             /\ sid.form # "keyIdentifier" => DecodeIssuerAndSerial(e[2]) = sid
             /\ Required(sid)
<1>1. CASE sid.form = "keyIdentifier"
  <2>1. sid = SubjectKeyIdentifier(sid.id) /\ sid.id # Malformed
    BY <1>1 DEF IsSid
  <2>2. Required(sid)
    <3>1. IsFunction(sid)
      BY <2>1 DEF IsFunction, SubjectKeyIdentifier
    <3> QED
      BY <3>1 DEF Atoms
  <2>3. "keyIdentifier" # Malformed
    BY DEF Atoms, Words, Required
  <2>4. Sound(sid) = sid
    BY <2>1, <2>3 DEF Sound, SubjectKeyIdentifier
  <2> QED
    BY <1>1, <2>1, <2>2, <2>4, OpaqueReads DEF EncodeSid, DecodeKeyIdentifier
<1>2. CASE sid.form # "keyIdentifier"
  <2> DEFINE a == EncodeName(sid.issuer)
             body == << <<"SEQUENCE", a>>, <<"INTEGER", sid.serialNumber>> >>
             fields == <<a, sid.serialNumber>>
  <2>1. sid = IssuerAndSerialNumber(sid.issuer, sid.serialNumber) /\ Required(sid.serialNumber)
    BY <1>2 DEF IsSid
  <2>2. Required(a) /\ DecodeName(a) = sid.issuer /\ Required(sid.issuer)
    BY <1>2, NameRoundTrip DEF IsSid
  <2> HIDE DEF a
  <2>3. Required(sid) /\ Required(fields) /\ Required(body)
    <3>1. IsFunction(sid) /\ IsFunction(fields) /\ IsFunction(body)
      BY <2>1 DEF IsFunction, IssuerAndSerialNumber
    <3> HIDE DEF fields, body
    <3> QED
      BY <3>1 DEF Atoms
  <2>4. Fields(<<One("SEQUENCE"), One("INTEGER")>>, body) = fields
    BY <2>1, <2>2, IssuerAndSerialRows
  <2>5. "issuerAndSerial" # Malformed
    BY DEF Atoms, Words, Required
  <2>6. Sound(sid) = sid
    BY <2>1, <2>2, <2>5 DEF Sound, IssuerAndSerialNumber, Required
  <2>7. DecodeIssuerAndSerial(body) = Sound(sid)
    <3> HIDE DEF body
    <3> QED
      BY <2>1, <2>2, <2>3, <2>4 DEF DecodeIssuerAndSerial, Decoded, Made, Required
  <2> QED
    BY <1>2, <2>3, <2>6, <2>7 DEF EncodeSid, a
<1> QED
  BY <1>1, <1>2

(* Either form of a SignerIdentifier that is read is one.                  *)
LEMMA SidShape ==
  ASSUME NEW e
  PROVE  /\ DecodeKeyIdentifier(e) # Malformed => IsSid(DecodeKeyIdentifier(e))
         /\ DecodeIssuerAndSerial(e) # Malformed => IsSid(DecodeIssuerAndSerial(e))
<1>1. ASSUME DecodeKeyIdentifier(e) # Malformed PROVE IsSid(DecodeKeyIdentifier(e))
  BY <1>1 DEF DecodeKeyIdentifier, Sound, IsSid, SubjectKeyIdentifier
<1>2. ASSUME DecodeIssuerAndSerial(e) # Malformed PROVE IsSid(DecodeIssuerAndSerial(e))
  <2> DEFINE f == Fields(<<One("SEQUENCE"), One("INTEGER")>>, e)
             sid == DecodeIssuerAndSerial(e)
  <2>1. /\ f # Malformed
        /\ sid = IssuerAndSerialNumber(DecodeName(f[1]), f[2])
        /\ \A x \in DOMAIN sid : sid[x] # Malformed
    BY <1>2 DEF DecodeIssuerAndSerial, Decoded, Made, Sound
  <2>2. f[2] # None
    BY <2>1, Shape2, RowIs
  <2> HIDE DEF f, sid
  <2>3. sid.form = "issuerAndSerial" /\ sid.issuer = DecodeName(f[1]) /\ sid.serialNumber = f[2]
        /\ sid = IssuerAndSerialNumber(sid.issuer, sid.serialNumber)
        /\ sid.issuer # Malformed /\ sid.serialNumber # Malformed
    BY <2>1 DEF IssuerAndSerialNumber
  <2>4. IsSid(sid)
    BY <2>2, <2>3, NameShape DEF IsSid, Required
  <2> QED
    BY <2>4 DEF sid
<1> QED
  BY <1>1, <1>2

(* The fields of a SignerInfo are told apart by their tags, whichever      *)
(* are missing.                                                            *)
LEMMA SignerInfoRows ==
  ASSUME NEW a, NEW b, NEW c, NEW d, NEW e, NEW f, NEW g, NEW tag,
         Required(a), Required(b), Required(c), Required(e), Required(f)
  PROVE  Fields(<<One("INTEGER"), One(tag), One("SEQUENCE"), Opt("0"), One("SEQUENCE"),
                  One("OCTETS"), Opt("1")>>,
                Present(<< <<"INTEGER", a>>, <<tag, b>>, <<"SEQUENCE", c>>, <<"0", d>>,
                           <<"SEQUENCE", e>>, <<"OCTETS", f>>, <<"1", g>> >>))
         = <<a, b, c, d, e, f, g>>
<1>1. Unambiguous(7, <<One("INTEGER"), One(tag), One("SEQUENCE"), Opt("0"), One("SEQUENCE"),
                       One("OCTETS"), Opt("1")>>)
  BY RowIs DEF Unambiguous
<1> QED
  BY <1>1, RowIs, Read7 DEF Required

(* A SignerInfo that obeys the rules is read as it was written, with the   *)
(* bytes of its signed attributes; any other is refused.                   *)
LEMMA SignerInfoRoundTrip ==
  ASSUME Atoms, NEW s, IsSignerInfo(s)
  PROVE  LET v == [s EXCEPT !.signedAttributesData = s.signedAttributes]
         IN  /\ DecodeSignerInfo(EncodeSignerInfo(s)) = IF SignerInfoObeys(s) THEN v ELSE Malformed
             /\ Required(v)
<1> DEFINE sid == EncodeSid(s.sid)
           c == Opaque("Algorithm", s.digestAlgorithm)
           d == EncodeOpaqueList("Attribute", s.signedAttributes)
           e == Opaque("Algorithm", s.signatureAlgorithm)
           g == EncodeOpaqueList("Attribute", s.unsignedAttributes)
           byKey == s.sid.form = "keyIdentifier"
           tag == IF byKey THEN "0" ELSE "SEQUENCE"
           rows == <<One("INTEGER"), One(tag), One("SEQUENCE"), Opt("0"), One("SEQUENCE"),
                     One("OCTETS"), Opt("1")>>
           cells == << <<"INTEGER", s.version>>, sid, <<"SEQUENCE", c>>, <<"0", d>>,
                       <<"SEQUENCE", e>>, <<"OCTETS", s.signature>>, <<"1", g>> >>
           elements == Present(cells)
           fields == <<s.version, sid[2], c, d, e, s.signature, g>>
           v == [s EXCEPT !.signedAttributesData = s.signedAttributes]
           Value(f) == [version              |-> OneOf(0..5, f[1]),
                        sid                  |-> IF byKey THEN DecodeKeyIdentifier(f[2])
                                                   ELSE DecodeIssuerAndSerial(f[2]),
                        digestAlgorithm      |-> Within("Algorithm", f[3]),
                        signedAttributes     |-> DecodeOpaqueList("Attribute", f[4]),
                        signatureAlgorithm   |-> Within("Algorithm", f[5]),
                        signature            |-> f[6],
                        unsignedAttributes   |-> DecodeOpaqueList("Attribute", f[7]),
                        signedAttributesData |-> DecodeOpaqueList("Attribute", f[4])]
           u == [version              |-> OneOf(0..5, s.version),
                 sid                  |-> s.sid,
                 digestAlgorithm      |-> s.digestAlgorithm,
                 signedAttributes     |-> s.signedAttributes,
                 signatureAlgorithm   |-> s.signatureAlgorithm,
                 signature            |-> s.signature,
                 unsignedAttributes   |-> s.unsignedAttributes,
                 signedAttributesData |-> s.signedAttributes]
<1>1. /\ sid = <<tag, sid[2]>> /\ Required(sid[2])
      /\ byKey => DecodeKeyIdentifier(sid[2]) = s.sid
      /\ ~byKey => DecodeIssuerAndSerial(sid[2]) = s.sid
      /\ Required(s.sid)
  BY SidRoundTrip DEF IsSignerInfo
<1>2. Required(c) /\ Within("Algorithm", c) = s.digestAlgorithm
  BY OpaqueReads
<1>3. Required(e) /\ Within("Algorithm", e) = s.signatureAlgorithm
  BY OpaqueReads
<1>4. DecodeOpaqueList("Attribute", d) = s.signedAttributes /\ s.signedAttributes # Malformed
  BY OpaqueListRoundTrip DEF IsSignerInfo
<1>5. DecodeOpaqueList("Attribute", g) = s.unsignedAttributes /\ s.unsignedAttributes # Malformed
  BY OpaqueListRoundTrip DEF IsSignerInfo
<1>6. /\ Required(s.version) /\ Required(s.signature)
      /\ s.digestAlgorithm # Malformed /\ s.signatureAlgorithm # Malformed
      /\ s = [version |-> s.version, sid |-> s.sid, digestAlgorithm |-> s.digestAlgorithm,
              signedAttributes |-> s.signedAttributes, signatureAlgorithm |-> s.signatureAlgorithm,
              signature |-> s.signature, unsignedAttributes |-> s.unsignedAttributes,
              signedAttributesData |-> s.signedAttributesData]
  BY DEF IsSignerInfo
<1>7. EncodeSignerInfo(s) = elements
  BY DEF EncodeSignerInfo
<1>8. (Len(elements) > 1 /\ elements[2][1] = "0") <=> byKey
  <2>1. cells[1][2] = s.version /\ cells[2] = sid /\ Len(cells) = 7
    OBVIOUS
  <2>2. cells[1][2] # None /\ cells[2][2] # None
    BY <2>1, <1>1, <1>6 DEF Required
  <2> HIDE DEF cells, sid
  <2>3. Len(elements) > 1 /\ elements[2] = cells[2]
    <3>1. \A n \in Nat : n > 1 /\ Len(cells) = n => Len(elements) > 1 /\ elements[2] = cells[2]
      BY <2>2, SecondPresent
    <3> QED
      BY <2>1, <3>1
  <2>4. elements[2][1] = tag
    BY <2>1, <2>3, <1>1
  <2> QED
    BY <2>3, <2>4
<1>9. Fields(rows, elements) = fields
  <2> HIDE DEF sid, c, d, e, g, tag
  <2>1. cells = << <<"INTEGER", s.version>>, <<tag, sid[2]>>, <<"SEQUENCE", c>>, <<"0", d>>,
                   <<"SEQUENCE", e>>, <<"OCTETS", s.signature>>, <<"1", g>> >>
    BY <1>1
  <2> QED
    BY <2>1, <1>1, <1>2, <1>3, <1>6, SignerInfoRows
<1> HIDE DEF sid, c, d, e, g, byKey
<1>10. Required(fields) /\ Required(v)
  <2>1. IsFunction(fields) /\ IsFunction(v)
    BY <1>6 DEF IsFunction
  <2> HIDE DEF fields, v
  <2> QED
    BY <2>1 DEF Atoms
<1>11. Value(fields) = u
  BY <1>1, <1>2, <1>3, <1>4, <1>5
<1> HIDE DEF elements
<1>12. DecodeSignerInfo(elements) = Obeying(Decoded(rows, elements, Value), SignedAttributesRules)
  <2>1. CASE byKey
    BY <1>8, <2>1 DEF DecodeSignerInfo, SignerInfoRead, Decoded, Made
  <2>2. CASE ~byKey
    BY <1>8, <2>2 DEF DecodeSignerInfo, SignerInfoRead, Decoded, Made
  <2> QED
    BY <2>1, <2>2
<1>13. Decoded(rows, elements, Value) = Sound(u)
  <2> HIDE DEF rows, fields, Value, u
  <2> QED
    BY <1>9, <1>10, <1>11 DEF Decoded, Made, Required
<1> HIDE DEF rows, fields, Value
<1>14. SignedAttributesRules(v) <=> SignedAttributesRules(s)
  BY <1>6 DEF SignedAttributesRules
<1>15. Sound(u) = IF s.version \in 0..5 THEN v ELSE Malformed
  <2>1. CASE s.version \in 0..5
    <3>1. u = v
      BY <1>6, <2>1 DEF OneOf
    <3>2. \A x \in DOMAIN u : u[x] # Malformed
      BY <1>1, <1>4, <1>5, <1>6, <2>1 DEF OneOf, Required
    <3> HIDE DEF u, v
    <3> QED
      BY <3>1, <3>2, <2>1 DEF Sound
  <2>2. CASE s.version \notin 0..5
    BY <2>2 DEF OneOf, Sound
  <2> QED
    BY <2>1, <2>2
<1> HIDE DEF u, v
<1>16. DecodeSignerInfo(elements) = IF SignerInfoObeys(s) THEN v ELSE Malformed
  BY <1>10, <1>12, <1>13, <1>14, <1>15 DEF Obeying, SignerInfoObeys, Required
<1> QED
  BY <1>7, <1>10, <1>16 DEF v

(* What is read as a SignerInfo is of its type and obeys the rules of      *)
(* its decoder.                                                            *)
LEMMA SignerInfoShape ==
  ASSUME NEW e, DecodeSignerInfo(e) # Malformed
  PROVE  IsSignerInfo(DecodeSignerInfo(e)) /\ SignerInfoObeys(DecodeSignerInfo(e))
<1> DEFINE byKey == Len(e) > 1 /\ e[2][1] = "0"
           tag == IF byKey THEN "0" ELSE "SEQUENCE"
           f == Fields(<<One("INTEGER"), One(tag), One("SEQUENCE"), Opt("0"), One("SEQUENCE"),
                         One("OCTETS"), Opt("1")>>, e)
           s == DecodeSignerInfo(e)
<1>1. /\ f # Malformed
      /\ s = [version              |-> OneOf(0..5, f[1]),
              sid                  |-> IF byKey THEN DecodeKeyIdentifier(f[2])
                                         ELSE DecodeIssuerAndSerial(f[2]),
              digestAlgorithm      |-> Within("Algorithm", f[3]),
              signedAttributes     |-> DecodeOpaqueList("Attribute", f[4]),
              signatureAlgorithm   |-> Within("Algorithm", f[5]),
              signature            |-> f[6],
              unsignedAttributes   |-> DecodeOpaqueList("Attribute", f[7]),
              signedAttributesData |-> DecodeOpaqueList("Attribute", f[4])]
      /\ SignedAttributesRules(s)
      /\ \A x \in DOMAIN s : s[x] # Malformed
  BY DEF DecodeSignerInfo, SignerInfoRead, Obeying, Decoded, Made, Sound
<1>2. f[1] # None /\ f[6] # None
  BY <1>1, Shape7, RowIs
<1> HIDE DEF f, s, byKey
<1>3. /\ s = [version |-> s.version, sid |-> s.sid, digestAlgorithm |-> s.digestAlgorithm,
              signedAttributes |-> s.signedAttributes, signatureAlgorithm |-> s.signatureAlgorithm,
              signature |-> s.signature, unsignedAttributes |-> s.unsignedAttributes,
              signedAttributesData |-> s.signedAttributesData]
      /\ s.version = OneOf(0..5, f[1]) /\ s.version # Malformed
      /\ s.sid = IF byKey THEN DecodeKeyIdentifier(f[2]) ELSE DecodeIssuerAndSerial(f[2])
      /\ s.sid # Malformed /\ s.digestAlgorithm # Malformed /\ s.signatureAlgorithm # Malformed
      /\ s.signedAttributes = DecodeOpaqueList("Attribute", f[4]) /\ s.signedAttributes # Malformed
      /\ s.unsignedAttributes = DecodeOpaqueList("Attribute", f[7]) /\ s.unsignedAttributes # Malformed
      /\ s.signature = f[6] /\ s.signature # Malformed
  BY <1>1
<1>4. IsSid(s.sid)
  BY <1>3, SidShape
<1>5. /\ s.signedAttributes = None \/ IsOpaqueList(s.signedAttributes)
      /\ s.unsignedAttributes = None \/ IsOpaqueList(s.unsignedAttributes)
  BY <1>3, OpaqueListShape
<1>6. s.version \in 0..5 /\ Required(s.version)
  BY <1>2, <1>3 DEF OneOf, Required
<1>7. IsSignerInfo(s) /\ SignerInfoObeys(s)
  BY <1>1, <1>2, <1>3, <1>4, <1>5, <1>6 DEF IsSignerInfo, SignerInfoObeys, Required
<1> QED
  BY <1>7 DEF s

(* A CertificateSet of certificates is read as it was written.             *)
LEMMA CertificateSetRoundTrip ==
  ASSUME Atoms, NEW cs, IsCertificateSet(cs),
         cs # None => \A i \in DOMAIN cs : cs[i].choice = "certificate"
  PROVE  /\ DecodeCertificateSet(EncodeCertificateSet(cs)) = cs
         /\ cs # Malformed
<1>1. CASE cs = None
  BY <1>1 DEF EncodeCertificateSet, DecodeCertificateSet, Atoms, IsVec
<1>2. CASE cs # None
  <2> DEFINE e == EncodeCertificateSet(cs)
  <2>1. e = [i \in DOMAIN cs |-> <<"SEQUENCE", Opaque("Certificate", cs[i].certificate)>>]
    BY <1>2 DEF EncodeCertificateSet
  <2> HIDE DEF e
  <2>2. /\ IsFunction(cs) /\ IsSequence(cs)
        /\ \A i \in DOMAIN cs : cs[i] = CertificateChoice("certificate", cs[i].certificate)
                                /\ cs[i].certificate # Malformed
    BY <1>2 DEF IsCertificateSet, IsVec
  <2>3. IsFunction(e) /\ DOMAIN e = DOMAIN cs /\ IsSequence(e)
    BY <2>1, <2>2 DEF IsFunction, IsSequence
  <2>4. Required(e) /\ Required(cs)
    BY <2>2, <2>3 DEF Atoms
  <2>5. \A i \in DOMAIN e : e[i][1] = "SEQUENCE" /\ Within("Certificate", e[i][2]) = cs[i].certificate
    BY <2>1, OpaqueReads
  <2>6. [i \in DOMAIN e |-> CertificateChoice("certificate", Within("Certificate", e[i][2]))] = cs
    BY <2>2, <2>3, <2>5 DEF IsFunction
  <2>7. DecodeCertificateSet(e) = cs
    BY <2>2, <2>3, <2>4, <2>5, <2>6 DEF DecodeCertificateSet, Required
  <2> QED
    BY <2>4, <2>7 DEF e, Required
<1> QED
  BY <1>1, <1>2

(* Only certificates are read in a CertificateSet: the other choices are   *)
(* not implemented.                                                        *)
LEMMA CertificateSetShape ==
  ASSUME NEW body, DecodeCertificateSet(body) # Malformed
  PROVE  LET cs == DecodeCertificateSet(body)
         IN  IsCertificateSet(cs) /\ (cs # None => \A i \in DOMAIN cs : cs[i].choice = "certificate")
<1>1. CASE body = None
  BY <1>1 DEF DecodeCertificateSet, IsCertificateSet, IsVec
<1>2. CASE body # None
  <2> DEFINE cs == DecodeCertificateSet(body)
  <2>1. /\ cs = [i \in DOMAIN body |-> CertificateChoice("certificate", Within("Certificate", body[i][2]))]
        /\ \A i \in DOMAIN body : Within("Certificate", body[i][2]) # Malformed
        /\ IsSequence(body)
    BY <1>2 DEF DecodeCertificateSet
  <2> HIDE DEF cs
  <2>2. \A i \in DOMAIN cs : /\ cs[i] = CertificateChoice(cs[i].choice, cs[i].certificate)
                             /\ cs[i].certificate # Malformed
                             /\ cs[i].choice = "certificate"
    BY <2>1 DEF CertificateChoice
  <2>3. IsFunction(cs) /\ IsSequence(cs)
    BY <2>1 DEF IsFunction, IsSequence
  <2> QED
    BY <2>2, <2>3 DEF IsCertificateSet, cs, IsVec
<1> QED
  BY <1>1, <1>2

(* A row that is not there leaves no trace.                                *)
LEMMA PresentSkips ==
  ASSUME NEW a, NEW b, NEW c, NEW d, NEW x, NEW e, x[2] = None
  PROVE  Present(<<a, b, c, d, x, e>>) = Present(<<a, b, c, d, e>>)
<1> DEFINE p == <<a, b, c, d, x, e>>
           q == <<a, b, c, d, e>>
<1>1. PICK v : WrittenBy(v, 6, p, Present(p))
  <2>1. Len(p) = 6
    OBVIOUS
  <2> HIDE DEF p
  <2>2. \A n \in Nat : n = Len(p) => \E w : WrittenBy(w, n, p, Present(p))
    BY PresentSteps
  <2> QED
    BY <2>1, <2>2
<1>2. PICK w : WrittenBy(w, 5, q, Present(q))
  <2>1. Len(q) = 5
    OBVIOUS
  <2> HIDE DEF q
  <2>2. \A n \in Nat : n = Len(q) => \E y : WrittenBy(y, n, q, Present(q))
    BY PresentSteps
  <2> QED
    BY <2>1, <2>2
<1>3. /\ p[1] = a /\ p[2] = b /\ p[3] = c /\ p[4] = d /\ p[5] = x /\ p[6] = e
      /\ q[1] = a /\ q[2] = b /\ q[3] = c /\ q[4] = d /\ q[5] = e
  OBVIOUS
<1> HIDE DEF p, q
<1> DEFINE Next1(l, y) == IF y[2] = None THEN l ELSE Append(l, y)
<1>4. /\ v[0] = <<>> /\ v[6] = Present(p)
      /\ v[1] = Next1(v[0], a) /\ v[2] = Next1(v[1], b) /\ v[3] = Next1(v[2], c) /\ v[4] = Next1(v[3], d)
      /\ v[5] = Next1(v[4], x) /\ v[6] = Next1(v[5], e)
  <2>1. v[0] = <<>> /\ v[6] = Present(p) /\ \A i \in 1..6 : v[i] = Next1(v[i - 1], p[i])
    BY <1>1 DEF WrittenBy
  <2> HIDE DEF Next1
  <2>2. /\ v[1] = Next1(v[1 - 1], p[1]) /\ v[2] = Next1(v[2 - 1], p[2]) /\ v[3] = Next1(v[3 - 1], p[3])
        /\ v[4] = Next1(v[4 - 1], p[4]) /\ v[5] = Next1(v[5 - 1], p[5]) /\ v[6] = Next1(v[6 - 1], p[6])
    BY <2>1
  <2> QED
    BY <1>3, <2>1, <2>2
<1>5. /\ w[0] = <<>> /\ w[5] = Present(q)
      /\ w[1] = Next1(w[0], a) /\ w[2] = Next1(w[1], b) /\ w[3] = Next1(w[2], c) /\ w[4] = Next1(w[3], d)
      /\ w[5] = Next1(w[4], e)
  <2>1. w[0] = <<>> /\ w[5] = Present(q) /\ \A i \in 1..5 : w[i] = Next1(w[i - 1], q[i])
    BY <1>2 DEF WrittenBy
  <2> HIDE DEF Next1
  <2>2. /\ w[1] = Next1(w[1 - 1], q[1]) /\ w[2] = Next1(w[2 - 1], q[2]) /\ w[3] = Next1(w[3 - 1], q[3])
        /\ w[4] = Next1(w[4 - 1], q[4]) /\ w[5] = Next1(w[5 - 1], q[5])
    BY <2>1
  <2> QED
    BY <1>3, <2>1, <2>2
<1>6. v[5] = v[4]
  BY <1>4
<1> HIDE DEF Next1
<1>7. Present(p) = Present(q)
  BY <1>4, <1>5, <1>6
<1> QED
  BY <1>7 DEF p, q

(* A SignedData that obeys the rules is read as it was written; any        *)
(* other is refused.                                                       *)
LEMMA SignedDataRoundTrip ==
  ASSUME Atoms, NEW d, IsSignedData(d), SignedDataEncodable(d)
  PROVE  /\ DecodeSignedData(EncodeSignedData(d)) = IF d.version \in 0..5 THEN d ELSE Malformed
         /\ Required(d)
<1> DEFINE ds == EncodeOpaqueList("Algorithm", d.digestAlgorithms)
           content == EncodeEncapsulated(d.contentInfo)
           cs == EncodeCertificateSet(d.certificates)
           signers == EncodeOpaqueList("SignerInfo", d.signerInfos)
           body == Present(<< <<"INTEGER", d.version>>, <<"SET", ds>>, <<"SEQUENCE", content>>,
                              <<"0", cs>>, <<"SET", signers>> >>)
           outer == << <<"SEQUENCE", body>> >>
           fields == <<d.version, ds, content, cs, None, signers>>
           u == [version |-> OneOf(0..5, d.version), digestAlgorithms |-> d.digestAlgorithms,
                 contentInfo |-> d.contentInfo, certificates |-> d.certificates, crls |-> None,
                 signerInfos |-> d.signerInfos]
<1>1. /\ d = [version |-> d.version, digestAlgorithms |-> d.digestAlgorithms,
              contentInfo |-> d.contentInfo, certificates |-> d.certificates, crls |-> d.crls,
              signerInfos |-> d.signerInfos]
      /\ d.crls = None /\ Required(d.version)
  BY DEF IsSignedData, SignedDataEncodable
<1>2. Required(d.digestAlgorithms) /\ Required(d.signerInfos)
  BY DEF IsSignedData, IsOpaqueList, Atoms, IsVec
<1>3. Required(ds) /\ DecodeOpaqueList("Algorithm", ds) = d.digestAlgorithms
  BY <1>2, OpaqueListRoundTrip DEF IsSignedData, Required
<1>4. Required(signers) /\ DecodeOpaqueList("SignerInfo", signers) = d.signerInfos
  BY <1>2, OpaqueListRoundTrip DEF IsSignedData, Required
<1>5. Required(content) /\ DecodeEncapsulated(content) = d.contentInfo /\ Required(d.contentInfo)
  BY EncapsulatedRoundTrip DEF IsSignedData
<1>6. DecodeCertificateSet(cs) = d.certificates /\ d.certificates # Malformed
  BY CertificateSetRoundTrip DEF IsSignedData, SignedDataEncodable
<1>7. Required(body)
  BY WrittenIsThere
<1>8. EncodeSignedData(d) = << <<"OID", "idSignedData">>, <<"0", outer>> >>
  BY DEF EncodeSignedData
<1> HIDE DEF ds, content, cs, signers
<1>9. Fields(<<One("INTEGER"), One("SET"), One("SEQUENCE"), Opt("0"), Opt("1"), One("SET")>>, body) = fields
  <2> DEFINE x == <<"1", None>>
  <2>1. body = Present(<< <<"INTEGER", d.version>>, <<"SET", ds>>, <<"SEQUENCE", content>>,
                          <<"0", cs>>, x, <<"SET", signers>> >>)
    <3>1. x[2] = None
      OBVIOUS
    <3> HIDE DEF x
    <3> QED
      BY <3>1, PresentSkips
  <2> HIDE DEF body
  <2> QED
    BY <2>1, <1>1, <1>3, <1>4, <1>5, SignedDataBodyRows
<1> HIDE DEF body
<1>10. Required(fields) /\ Required(outer) /\ Required(d) /\ Required(u)
  <2>1. IsFunction(fields) /\ IsFunction(outer) /\ IsFunction(d) /\ IsFunction(u)
    BY <1>1 DEF IsFunction
  <2> HIDE DEF fields, outer, u
  <2> QED
    BY <2>1 DEF Atoms
<1>11. DecodeSignedDataBody(body) = Sound(u)
  <2>1. OneOf({None}, None) = None
    BY DEF OneOf
  <2> QED
    BY <1>3, <1>4, <1>5, <1>6, <1>9, <1>10, <2>1 DEF DecodeSignedDataBody, Decoded, Made, Required
<1>12. Sound(u) = IF d.version \in 0..5 THEN d ELSE Malformed
  <2>1. CASE d.version \in 0..5
    <3>1. u = d
      BY <1>1, <2>1 DEF OneOf
    <3>2. None # Malformed
      BY DEF Atoms
    <3>3. \A x \in DOMAIN u : u[x] # Malformed
      BY <1>1, <1>2, <1>5, <1>6, <2>1, <3>2 DEF OneOf, Required
    <3> HIDE DEF u
    <3> QED
      BY <2>1, <3>1, <3>3 DEF Sound
  <2>2. CASE d.version \notin 0..5
    BY <2>2 DEF Sound, OneOf
  <2> QED
    BY <2>1, <2>2
<1> HIDE DEF u, fields
<1>13. Inner("SEQUENCE", outer) = body
  BY <1>10 DEF Inner, Required
<1>14. Required("idSignedData")
  BY DEF Atoms, Words
<1>15. Fields(<<One("OID"), One("0")>>, EncodeSignedData(d)) = <<"idSignedData", outer>>
  <2> HIDE DEF outer
  <2> QED
    BY <1>8, <1>10, <1>14, ContentInfoRows
<1>16. Required(<<"idSignedData", outer>>)
  <2> DEFINE pair == <<"idSignedData", outer>>
  <2>1. IsFunction(pair)
    BY DEF IsFunction
  <2> HIDE DEF pair
  <2>2. Required(pair)
    BY <2>1 DEF Atoms
  <2> QED
    BY <2>2 DEF pair
<1> HIDE DEF outer
<1>17. DecodeSignedData(EncodeSignedData(d)) = DecodeSignedDataBody(body)
  BY <1>7, <1>13, <1>15, <1>16 DEF DecodeSignedData, Required
<1> QED
  BY <1>10, <1>11, <1>12, <1>17

(* What is read as a SignedData is of its type and obeys the rules of      *)
(* its decoder.                                                            *)
LEMMA SignedDataShape ==
  ASSUME Atoms, NEW e, DecodeSignedData(e) # Malformed
  PROVE  LET d == DecodeSignedData(e)
         IN  IsSignedData(d) /\ d.version \in 0..5 /\ SignedDataEncodable(d)
<1> DEFINE d == DecodeSignedData(e)
<1>1. PICK b : d = DecodeSignedDataBody(b)
  BY DEF DecodeSignedData
<1> DEFINE f == Fields(<<One("INTEGER"), One("SET"), One("SEQUENCE"), Opt("0"), Opt("1"), One("SET")>>, b)
<1>2. /\ f # Malformed
      /\ d = [version          |-> OneOf(0..5, f[1]),
              digestAlgorithms |-> DecodeOpaqueList("Algorithm", f[2]),
              contentInfo      |-> DecodeEncapsulated(f[3]),
              certificates     |-> DecodeCertificateSet(f[4]),
              crls             |-> OneOf({None}, f[5]),
              signerInfos      |-> DecodeOpaqueList("SignerInfo", f[6])]
      /\ \A x \in DOMAIN d : d[x] # Malformed
  <2>1. d # Malformed
    OBVIOUS
  <2> HIDE DEF d
  <2> QED
    BY <1>1, <2>1 DEF DecodeSignedDataBody, Decoded, Made, Sound
<1>3. f[1] # None /\ f[2] # None /\ f[6] # None
  BY <1>2, Shape6, RowIs
<1> HIDE DEF f, d
<1>4. /\ d = [version |-> d.version, digestAlgorithms |-> d.digestAlgorithms,
              contentInfo |-> d.contentInfo, certificates |-> d.certificates, crls |-> d.crls,
              signerInfos |-> d.signerInfos]
      /\ d.version = OneOf(0..5, f[1]) /\ d.version # Malformed
      /\ d.digestAlgorithms = DecodeOpaqueList("Algorithm", f[2]) /\ d.digestAlgorithms # Malformed
      /\ d.contentInfo = DecodeEncapsulated(f[3]) /\ d.contentInfo # Malformed
      /\ d.certificates = DecodeCertificateSet(f[4]) /\ d.certificates # Malformed
      /\ d.crls = OneOf({None}, f[5]) /\ d.crls # Malformed
      /\ d.signerInfos = DecodeOpaqueList("SignerInfo", f[6]) /\ d.signerInfos # Malformed
  BY <1>2
<1>5. d.version \in 0..5 /\ Required(d.version) /\ d.crls = None
  BY <1>3, <1>4 DEF OneOf, Required
<1>6. IsOpaqueList(d.digestAlgorithms) /\ IsOpaqueList(d.signerInfos)
  BY <1>3, <1>4, OpaqueListShape
<1>7. IsEncapsulated(d.contentInfo)
  BY <1>4, EncapsulatedShape
<1>8. /\ IsCertificateSet(d.certificates)
      /\ d.certificates # None => \A i \in DOMAIN d.certificates : d.certificates[i].choice = "certificate"
  BY <1>4, CertificateSetShape
<1>9. IsSignedData(d) /\ SignedDataEncodable(d)
  BY <1>4, <1>5, <1>6, <1>7, <1>8 DEF IsSignedData, SignedDataEncodable
<1> QED
  BY <1>5, <1>9 DEF d

-----------------------------------------------------------------------------
(* Time stamps.                                                            *)

(* A MessageImprint is read as it was written.                             *)
LEMMA ImprintRoundTrip ==
  ASSUME Atoms, NEW m, IsImprint(m)
  PROVE  /\ DecodeImprint(EncodeImprint(m)) = m
         /\ Required(m) /\ Required(EncodeImprint(m))
<1> DEFINE a == Opaque("Algorithm", m.algorithm)
           fields == <<a, m.digest>>
<1>1. Required(a) /\ Within("Algorithm", a) = m.algorithm
  BY OpaqueReads
<1>2. Fields(<<One("SEQUENCE"), One("OCTETS")>>, EncodeImprint(m)) = fields
  BY <1>1, DigestRows DEF EncodeImprint, IsImprint
<1> HIDE DEF a
<1>3. Required(fields) /\ Required(m) /\ Required(EncodeImprint(m))
  <2>1. IsFunction(fields) /\ IsFunction(m) /\ IsFunction(EncodeImprint(m))
    BY DEF IsFunction, IsImprint, EncodeImprint
  <2> HIDE DEF fields
  <2> QED
    BY <2>1 DEF Atoms
<1>4. DecodeImprint(EncodeImprint(m)) = Sound([algorithm |-> m.algorithm, digest |-> m.digest])
  BY <1>1, <1>2, <1>3 DEF DecodeImprint, Decoded, Made, Required
<1> QED
  BY <1>3, <1>4 DEF Sound, IsImprint, Required

(* What is read as a MessageImprint is of its type.                        *)
LEMMA ImprintShape ==
  ASSUME NEW e, DecodeImprint(e) # Malformed
  PROVE  IsImprint(DecodeImprint(e))
BY Shape2, RowIs DEF DecodeImprint, Decoded, Made, Sound, IsImprint, Required

(* A DigestInfo is read as it was written.                                 *)
LEMMA DigestInfoRoundTrip ==
  ASSUME Atoms, NEW m, IsDigestInfo(m)
  PROVE  DecodeDigestInfo(EncodeDigestInfo(m)) = m /\ Required(m)
BY ImprintRoundTrip DEF IsImprint, IsDigestInfo, DecodeImprint, DecodeDigestInfo, EncodeImprint, EncodeDigestInfo

(* What is read as a DigestInfo is of its type.                            *)
LEMMA DigestInfoShape ==
  ASSUME NEW e, DecodeDigestInfo(e) # Malformed
  PROVE  IsDigestInfo(DecodeDigestInfo(e))
BY Shape2, RowIs DEF DecodeDigestInfo, Decoded, Made, Sound, IsDigestInfo, Required

(* What is read of a TimeStampReq that was written: defaults are left      *)
(* out.                                                                    *)
NormalReq(r) == [r EXCEPT !.certReq = Flag(@), !.extensions = NormalExtensions(@)]

(* A TimeStampReq that obeys the rules is read as written, without         *)
(* defaults; any other is refused.                                         *)
LEMMA TimeStampReqRoundTrip ==
  ASSUME Atoms, NEW r, IsTimeStampReq(r)
  PROVE  /\ DecodeTimeStampReq(EncodeTimeStampReq(r)) = IF TimeStampReqObeys(r) THEN NormalReq(r) ELSE Malformed
         /\ Required(NormalReq(r))
<1> DEFINE b == EncodeImprint(r.messageImprint)
           f == EncodeExtensions(r.extensions)
           flag == Flag(r.certReq)
           fields == <<r.version, b, r.reqPolicy, r.nonce, flag, f>>
           rows == <<One("INTEGER"), One("SEQUENCE"), Opt("OID"), Opt("INTEGER"), Opt("BOOLEAN"), Opt("0")>>
           extensions == IF ExtensionsObey(r.extensions) THEN NormalExtensions(r.extensions) ELSE Malformed
           u == [version |-> OneOf({1}, r.version), messageImprint |-> r.messageImprint,
                 reqPolicy |-> r.reqPolicy, nonce |-> r.nonce, certReq |-> flag, extensions |-> extensions]
<1>1. Required(b) /\ DecodeImprint(b) = r.messageImprint /\ Required(r.messageImprint)
  BY ImprintRoundTrip DEF IsTimeStampReq
<1>2. DecodeExtensions(f) = extensions /\ NormalExtensions(r.extensions) # Malformed
  BY ExtensionsRoundTrip DEF IsTimeStampReq
<1>3. /\ r = [version |-> r.version, messageImprint |-> r.messageImprint, reqPolicy |-> r.reqPolicy,
              nonce |-> r.nonce, certReq |-> r.certReq, extensions |-> r.extensions]
      /\ Required(r.version) /\ r.reqPolicy # Malformed /\ r.nonce # Malformed
  BY DEF IsTimeStampReq
<1>4. flag # Malformed
  BY DEF Flag, Atoms, Required
<1> HIDE DEF b, f
<1>5. Fields(rows, EncodeTimeStampReq(r)) = fields
  BY <1>1, <1>3, TimeStampReqRows DEF EncodeTimeStampReq, b, f
<1>6. Required(fields) /\ Required(NormalReq(r))
  <2>1. IsFunction(fields) /\ IsFunction(NormalReq(r))
    <3>1. IsFunction(fields)
      BY DEF IsFunction
    <3>2. IsFunction(NormalReq(r))
      BY <1>3 DEF IsFunction, NormalReq
    <3> QED
      BY <3>1, <3>2
  <2> HIDE DEF fields
  <2> QED
    BY <2>1 DEF Atoms
<1> HIDE DEF flag, extensions
<1>7. DecodeTimeStampReq(EncodeTimeStampReq(r)) = Sound(u)
  BY <1>1, <1>2, <1>5, <1>6 DEF DecodeTimeStampReq, Decoded, Made, Required
<1>8. Sound(u) = IF TimeStampReqObeys(r) THEN NormalReq(r) ELSE Malformed
  <2>1. CASE TimeStampReqObeys(r)
    <3>1. r.version = 1 /\ extensions = NormalExtensions(r.extensions)
      BY <2>1 DEF TimeStampReqObeys, extensions
    <3>2. NormalReq(r) = [r EXCEPT !.certReq = flag, !.extensions = extensions]
      BY <1>3, <3>1 DEF NormalReq, flag
    <3>3. OneOf({1}, r.version) = r.version
      BY <3>1 DEF OneOf
    <3>4. u = NormalReq(r)
      BY <1>3, <3>2, <3>3
    <3>5. \A x \in DOMAIN u : u[x] # Malformed
      BY <1>1, <1>2, <1>3, <1>4, <3>1, <3>3 DEF Required
    <3> HIDE DEF u
    <3> QED
      BY <2>1, <3>4, <3>5 DEF Sound
  <2>2. CASE ~TimeStampReqObeys(r)
    <3>1. OneOf({1}, r.version) = Malformed \/ extensions = Malformed
      BY <2>2 DEF TimeStampReqObeys, OneOf, extensions
    <3> QED
      BY <2>2, <3>1 DEF Sound
  <2> QED
    BY <2>1, <2>2
<1> QED
  BY <1>6, <1>7, <1>8

(* What is read as a TimeStampReq is of its type and obeys the rules of    *)
(* its decoder.                                                            *)
LEMMA TimeStampReqShape ==
  ASSUME Atoms, NEW e, DecodeTimeStampReq(e) # Malformed
  PROVE  IsTimeStampReq(DecodeTimeStampReq(e)) /\ TimeStampReqObeys(DecodeTimeStampReq(e))
<1> DEFINE f == Fields(<<One("INTEGER"), One("SEQUENCE"), Opt("OID"), Opt("INTEGER"), Opt("BOOLEAN"), Opt("0")>>, e)
           r == DecodeTimeStampReq(e)
<1>1. /\ f # Malformed
      /\ r = [version |-> OneOf({1}, f[1]), messageImprint |-> DecodeImprint(f[2]), reqPolicy |-> f[3],
              nonce |-> f[4], certReq |-> f[5], extensions |-> DecodeExtensions(f[6])]
      /\ \A x \in DOMAIN r : r[x] # Malformed
  BY DEF DecodeTimeStampReq, Decoded, Made, Sound
<1> HIDE DEF f, r
<1>2. /\ r = [version |-> r.version, messageImprint |-> r.messageImprint, reqPolicy |-> r.reqPolicy,
              nonce |-> r.nonce, certReq |-> r.certReq, extensions |-> r.extensions]
      /\ r.version = OneOf({1}, f[1]) /\ r.version # Malformed
      /\ r.messageImprint = DecodeImprint(f[2]) /\ r.messageImprint # Malformed
      /\ r.reqPolicy # Malformed /\ r.nonce # Malformed
      /\ r.extensions = DecodeExtensions(f[6]) /\ r.extensions # Malformed
  BY <1>1
<1>3. r.version = 1 /\ Required(r.version)
  BY <1>2 DEF OneOf, Atoms
<1>4. IsImprint(r.messageImprint) /\ IsExtensions(r.extensions) /\ ExtensionsObey(r.extensions)
  BY <1>2, ImprintShape, ExtensionsShape
<1>5. IsTimeStampReq(r) /\ TimeStampReqObeys(r)
  BY <1>2, <1>3, <1>4 DEF IsTimeStampReq, TimeStampReqObeys
<1> QED
  BY <1>5 DEF r

-----------------------------------------------------------------------------
(* A PKIFailureInfo is read as it was written.                             *)
LEMMA FailureInfoRoundTrip ==
  ASSUME NEW bit \in KnownFailure
  PROVE  DecodeFailureInfo(EncodeFailureInfo(bit)) = bit
<1> DEFINE bits == EncodeFailureInfo(bit)
           selected == {8 * b[1] + b[2] : b \in bits.set} \cap (0..(8 * bits.octets - bits.unused - 1))
<1>1. bit \in Nat
  BY DEF KnownFailure
<1>2. 8 * (bit \div 8) + (bit % 8) = bit /\ bit \div 8 \in Nat /\ bit % 8 \in 0..7
  BY <1>1
<1>3. bits.set = {<<bit \div 8, bit % 8>>} /\ bits.octets = bit \div 8 + 1 /\ bits.unused = 7 - (bit % 8)
  BY DEF EncodeFailureInfo
<1> HIDE DEF bits
<1>4. {8 * b[1] + b[2] : b \in bits.set} = {bit}
  <2> DEFINE x == bit \div 8
             y == bit % 8
  <2>1. 8 * x + y = bit /\ bits.set = {<<x, y>>}
    BY <1>2, <1>3
  <2> HIDE DEF x, y
  <2> QED
    BY <2>1
<1>5. 8 * bits.octets - bits.unused - 1 = bit
  BY <1>1, <1>2, <1>3
<1>6. selected = {bit}
  <2>1. bit \in 0..bit
    BY <1>1
  <2> QED
    BY <2>1, <1>4, <1>5
<1> HIDE DEF selected
<1>7. Cardinality(selected) = 1 /\ (CHOOSE n \in selected : TRUE) = bit
  BY <1>6, FS_Singleton
<1>8. DecodeFailureInfo(bits) = bit
  BY <1>7 DEF DecodeFailureInfo, selected
<1> QED
  BY <1>8 DEF bits

(* What is read as a PKIFailureInfo is of its type.                        *)
LEMMA FailureInfoShape ==
  ASSUME NEW bits, DecodeFailureInfo(bits) # Malformed
  PROVE  DecodeFailureInfo(bits) \in KnownFailure
BY DEF DecodeFailureInfo

(* A PKIFreeText is read as it was written.                                *)
LEMMA FreeTextRoundTrip ==
  ASSUME Atoms, NEW strings, strings = None \/ IsOpaqueList(strings)
  PROVE  DecodeFreeText(EncodeFreeText(strings)) = strings /\ strings # Malformed
<1>1. CASE strings = None
  BY <1>1 DEF EncodeFreeText, DecodeFreeText, Optional, Atoms
<1>2. CASE strings # None
  <2> DEFINE e == EncodeFreeText(strings)
  <2>1. e = [i \in DOMAIN strings |-> <<"UTF8", strings[i]>>]
    BY <1>2 DEF EncodeFreeText
  <2> HIDE DEF e
  <2>2. IsFunction(strings) /\ IsSequence(strings) /\ \A i \in DOMAIN strings : strings[i] # Malformed
    BY <1>2 DEF IsOpaqueList, IsVec
  <2>3. IsFunction(e) /\ DOMAIN e = DOMAIN strings /\ IsSequence(e)
    BY <2>1, <2>2 DEF IsFunction, IsSequence
  <2>4. Required(e) /\ Required(strings)
    BY <2>2, <2>3 DEF Atoms
  <2>5. AllTagged(e, "UTF8")
    BY <2>1 DEF AllTagged
  <2>6. [i \in DOMAIN e |-> e[i][2]] = strings
    BY <2>1, <2>2, <2>3 DEF IsFunction
  <2>7. DecodeFreeText(e) = strings
    BY <2>2, <2>3, <2>4, <2>5, <2>6 DEF DecodeFreeText, Optional, DecodeEach, Sound, Required
  <2> QED
    BY <2>4, <2>7 DEF e, Required
<1> QED
  BY <1>1, <1>2

(* What is read as a PKIFreeText is of its type.                           *)
LEMMA FreeTextShape ==
  ASSUME NEW body, DecodeFreeText(body) # Malformed
  PROVE  DecodeFreeText(body) = None \/ IsOpaqueList(DecodeFreeText(body))
<1>1. CASE body = None
  BY <1>1 DEF DecodeFreeText, Optional
<1>2. CASE body # None
  <2>1. /\ DecodeFreeText(body) = [i \in DOMAIN body |-> body[i][2]]
        /\ \A i \in DOMAIN body : body[i][2] # Malformed
        /\ IsSequence(body)
    BY <1>2 DEF DecodeFreeText, Optional, DecodeEach, Sound
  <2>2. IsSequence(DecodeFreeText(body))
    BY <2>1 DEF IsSequence
  <2> QED
    BY <2>1, <2>2 DEF IsOpaqueList, IsFunction, IsVec
<1> QED
  BY <1>1, <1>2

(* A PKIStatusInfo that obeys the rules is read as it was written; any     *)
(* other is refused.                                                       *)
LEMMA StatusInfoRoundTrip ==
  ASSUME Atoms, NEW s, IsStatusInfo(s)
  PROVE  /\ DecodeStatusInfo(EncodeStatusInfo(s)) = IF s.status \in 0..5 THEN s ELSE Malformed
         /\ Required(s) /\ Required(EncodeStatusInfo(s))
<1> DEFINE b == EncodeFreeText(s.statusString)
           c == IF s.failInfo = None THEN None ELSE EncodeFailureInfo(s.failInfo)
           fields == <<s.status, b, c>>
           u == [status |-> OneOf(0..5, s.status), statusString |-> s.statusString, failInfo |-> s.failInfo]
<1>1. DecodeFreeText(b) = s.statusString /\ s.statusString # Malformed
  BY FreeTextRoundTrip DEF IsStatusInfo
<1>2. /\ s = [status |-> s.status, statusString |-> s.statusString, failInfo |-> s.failInfo]
      /\ Required(s.status) /\ s.failInfo \in {None} \cup KnownFailure
  BY DEF IsStatusInfo
<1>3. Optional(c, DecodeFailureInfo) = s.failInfo /\ s.failInfo # Malformed
  <2>1. CASE s.failInfo = None
    BY <2>1 DEF Optional, Atoms
  <2>2. CASE s.failInfo # None
    <3>1. s.failInfo \in KnownFailure /\ s.failInfo # Malformed
      BY <1>2, <2>2 DEF KnownFailure, Atoms, Required
    <3>2. Required(EncodeFailureInfo(s.failInfo))
      <4>1. IsFunction(EncodeFailureInfo(s.failInfo))
        BY DEF IsFunction, EncodeFailureInfo
      <4> QED
        BY <4>1 DEF Atoms
    <3> QED
      BY <2>2, <3>1, <3>2, FailureInfoRoundTrip DEF Optional, Required
  <2> QED
    BY <2>1, <2>2
<1> HIDE DEF b, c
<1>4. Fields(<<One("INTEGER"), Opt("SEQUENCE"), Opt("BITS")>>, EncodeStatusInfo(s)) = fields
  BY <1>2, StatusInfoRows DEF EncodeStatusInfo, b, c
<1>5. Required(fields) /\ Required(s) /\ Required(EncodeStatusInfo(s))
  <2>1. IsFunction(fields) /\ IsFunction(s)
    BY <1>2 DEF IsFunction
  <2> HIDE DEF fields
  <2> QED
    BY <2>1, WrittenIsThere DEF Atoms, EncodeStatusInfo
<1>6. DecodeStatusInfo(EncodeStatusInfo(s)) = Sound(u)
  BY <1>1, <1>3, <1>4, <1>5 DEF DecodeStatusInfo, Decoded, Made, Required
<1>7. Sound(u) = IF s.status \in 0..5 THEN s ELSE Malformed
  BY <1>1, <1>2, <1>3 DEF Sound, OneOf, Required
<1> QED
  BY <1>5, <1>6, <1>7

(* What is read as a PKIStatusInfo is of its type and obeys the rules of   *)
(* its decoder.                                                            *)
LEMMA StatusInfoShape ==
  ASSUME Atoms, NEW e, DecodeStatusInfo(e) # Malformed
  PROVE  IsStatusInfo(DecodeStatusInfo(e)) /\ DecodeStatusInfo(e).status \in 0..5
<1> DEFINE f == Fields(<<One("INTEGER"), Opt("SEQUENCE"), Opt("BITS")>>, e)
           s == DecodeStatusInfo(e)
<1>1. /\ f # Malformed
      /\ s = [status |-> OneOf(0..5, f[1]), statusString |-> DecodeFreeText(f[2]),
              failInfo |-> Optional(f[3], DecodeFailureInfo)]
      /\ \A x \in DOMAIN s : s[x] # Malformed
  BY DEF DecodeStatusInfo, Decoded, Made, Sound
<1> HIDE DEF f, s
<1>2. /\ s = [status |-> s.status, statusString |-> s.statusString, failInfo |-> s.failInfo]
      /\ s.status = OneOf(0..5, f[1]) /\ s.status # Malformed
      /\ s.statusString = DecodeFreeText(f[2]) /\ s.statusString # Malformed
      /\ s.failInfo = Optional(f[3], DecodeFailureInfo) /\ s.failInfo # Malformed
  BY <1>1
<1>3. s.status \in 0..5 /\ Required(s.status)
  BY <1>2 DEF OneOf, Atoms
<1>4. s.failInfo \in {None} \cup KnownFailure
  BY <1>2, FailureInfoShape DEF Optional
<1>5. IsStatusInfo(s)
  BY <1>2, <1>3, <1>4, FreeTextShape DEF IsStatusInfo
<1> QED
  BY <1>3, <1>5 DEF s

(* A TimeStampResp that obeys the rules is read as it was written; any     *)
(* other is refused.                                                       *)
LEMMA TimeStampRespRoundTrip ==
  ASSUME Atoms, NEW r, IsTimeStampResp(r)
  PROVE  /\ DecodeTimeStampResp(EncodeTimeStampResp(r)) = IF TimeStampRespObeys(r) THEN r ELSE Malformed
         /\ Required(r)
<1> DEFINE a == EncodeStatusInfo(r.status)
           b == IF r.timeStampToken = None THEN None ELSE Opaque("ContentInfo", r.timeStampToken)
           rows == <<One("SEQUENCE"), Opt("SEQUENCE")>>
           fields == <<a, b>>
           Value(f) == [status |-> DecodeStatusInfo(f[1]), timeStampToken |-> Within("ContentInfo", f[2])]
           u == [status |-> DecodeStatusInfo(a), timeStampToken |-> r.timeStampToken]
<1>1. /\ DecodeStatusInfo(a) = IF r.status.status \in 0..5 THEN r.status ELSE Malformed
      /\ Required(r.status) /\ Required(a)
  BY StatusInfoRoundTrip DEF IsTimeStampResp
<1>2. /\ r = [status |-> r.status, timeStampToken |-> r.timeStampToken]
      /\ r.timeStampToken # Malformed
  BY DEF IsTimeStampResp
<1>3. Within("ContentInfo", b) = r.timeStampToken
  BY OpaqueReads DEF Within
<1> HIDE DEF a, b
<1>4. Fields(rows, EncodeTimeStampResp(r)) = fields
  BY <1>1, TimeStampRespRows DEF EncodeTimeStampResp, a, b
<1>5. Required(fields) /\ Required(r)
  <2>1. IsFunction(fields) /\ IsFunction(r)
    BY <1>2 DEF IsFunction
  <2> HIDE DEF fields
  <2> QED
    BY <2>1 DEF Atoms
<1>6. Decoded(rows, EncodeTimeStampResp(r), Value) = Sound(u)
  BY <1>3, <1>4, <1>5 DEF Decoded, Made, Required
<1>7. Sound(u) = IF r.status.status \in 0..5 THEN r ELSE Malformed
  BY <1>1, <1>2 DEF Sound, Required
<1>8. DecodeTimeStampResp(EncodeTimeStampResp(r)) = Obeying(Sound(u), TokenWithSuccess)
  <2>1. DecodeTimeStampResp(EncodeTimeStampResp(r)) =
          Obeying(Decoded(rows, EncodeTimeStampResp(r), Value), TokenWithSuccess)
    BY DEF DecodeTimeStampResp, Decoded, Made
  <2> HIDE DEF u, rows, Value
  <2> QED
    BY <1>6, <2>1
<1> QED
  BY <1>5, <1>7, <1>8 DEF Obeying, TimeStampRespObeys, Required

(* What is read as a TimeStampResp is of its type and obeys the rules of   *)
(* its decoder.                                                            *)
LEMMA TimeStampRespShape ==
  ASSUME Atoms, NEW e, DecodeTimeStampResp(e) # Malformed
  PROVE  IsTimeStampResp(DecodeTimeStampResp(e)) /\ TimeStampRespObeys(DecodeTimeStampResp(e))
<1> DEFINE f == Fields(<<One("SEQUENCE"), Opt("SEQUENCE")>>, e)
           r == DecodeTimeStampResp(e)
<1>1. /\ f # Malformed
      /\ r = [status |-> DecodeStatusInfo(f[1]), timeStampToken |-> Within("ContentInfo", f[2])]
      /\ \A x \in DOMAIN r : r[x] # Malformed
      /\ TokenWithSuccess(r)
  BY DEF DecodeTimeStampResp, Obeying, Decoded, Made, Sound
<1> HIDE DEF f, r
<1>2. /\ r = [status |-> r.status, timeStampToken |-> r.timeStampToken]
      /\ r.status = DecodeStatusInfo(f[1]) /\ r.status # Malformed /\ r.timeStampToken # Malformed
  BY <1>1
<1>3. IsTimeStampResp(r) /\ TimeStampRespObeys(r)
  BY <1>1, <1>2, StatusInfoShape DEF IsTimeStampResp, TimeStampRespObeys
<1> QED
  BY <1>3 DEF r

-----------------------------------------------------------------------------
(* General names.                                                          *)

(* An Accuracy that obeys the rules is read as it was written; any other   *)
(* is refused.                                                             *)
LEMMA AccuracyRoundTrip ==
  ASSUME Atoms, NEW a, a = None \/ IsAccuracy(a)
  PROVE  /\ DecodeAccuracy(EncodeAccuracy(a)) = IF a = None \/ AccuracyRules(a) THEN a ELSE Malformed
         /\ a # Malformed
<1>1. CASE a = None
  BY <1>1 DEF EncodeAccuracy, DecodeAccuracy, Optional, Atoms
<1>2. CASE a # None
  <2> DEFINE rows == <<Opt("INTEGER"), Opt("0"), Opt("1")>>
             fields == <<a.seconds, a.millis, a.micros>>
             e == EncodeAccuracy(a)
             Value(f) == [seconds |-> f[1], millis |-> f[2], micros |-> f[3]]
  <2>1. /\ a = [seconds |-> a.seconds, millis |-> a.millis, micros |-> a.micros]
        /\ a.seconds # Malformed /\ a.millis # Malformed /\ a.micros # Malformed
    BY <1>2 DEF IsAccuracy
  <2>2. Fields(rows, e) = fields
    BY <1>2, AccuracyRows DEF EncodeAccuracy
  <2>3. Required(fields) /\ Required(a) /\ Required(e)
    <3>1. IsFunction(fields) /\ IsFunction(a)
      BY <2>1 DEF IsFunction
    <3>2. Required(e)
      BY <1>2, WrittenIsThere DEF EncodeAccuracy
    <3> HIDE DEF fields, e
    <3> QED
      BY <3>1, <3>2 DEF Atoms
  <2> HIDE DEF e
  <2>4. Decoded(rows, e, Value) = Sound(a)
    BY <2>1, <2>2, <2>3 DEF Decoded, Made, Required
  <2>5. Sound(a) = a
    BY <2>1 DEF Sound
  <2>6. DecodeAccuracy(e) = Obeying(Decoded(rows, e, Value), AccuracyRules)
    <3>1. e \notin {None, Malformed}
      BY <2>3 DEF Required
    <3> QED
      BY <3>1 DEF DecodeAccuracy, Optional, Decoded, Made
  <2> HIDE DEF rows, Value
  <2> QED
    BY <1>2, <2>3, <2>4, <2>5, <2>6 DEF Obeying, Required, e
<1> QED
  BY <1>1, <1>2

(* What is read as an Accuracy is of its type and obeys the rules of its   *)
(* decoder.                                                                *)
LEMMA AccuracyShape ==
  ASSUME NEW body, DecodeAccuracy(body) # Malformed
  PROVE  LET a == DecodeAccuracy(body)
         IN  a = None \/ (IsAccuracy(a) /\ AccuracyRules(a))
<1>1. CASE body = None
  BY <1>1 DEF DecodeAccuracy, Optional
<1>2. CASE body # None
  <2> DEFINE f == Fields(<<Opt("INTEGER"), Opt("0"), Opt("1")>>, body)
             a == DecodeAccuracy(body)
  <2>1. /\ a = [seconds |-> f[1], millis |-> f[2], micros |-> f[3]]
        /\ \A x \in DOMAIN a : a[x] # Malformed
        /\ AccuracyRules(a)
    BY <1>2 DEF DecodeAccuracy, Optional, Obeying, Decoded, Made, Sound
  <2> HIDE DEF f, a
  <2>2. IsAccuracy(a)
    BY <2>1 DEF IsAccuracy
  <2> QED
    BY <2>1, <2>2 DEF a
<1> QED
  BY <1>1, <1>2

-----------------------------------------------------------------------------
(* An AnotherName is read as it was written.                               *)
LEMMA OtherNameRoundTrip ==
  ASSUME Atoms, NEW n, IsOtherName(n)
  PROVE  DecodeOtherName(<< <<"OID", n.typeId>>, <<"0", Opaque("Any", n.value)>> >>) = n /\ Required(n)
<1> DEFINE b == Opaque("Any", n.value)
           fields == <<n.typeId, b>>
           body == << <<"OID", n.typeId>>, <<"0", b>> >>
<1>1. Required(b) /\ Within("Any", b) = n.value
  BY OpaqueReads
<1>2. /\ Required(n.typeId) /\ n.value # Malformed
      /\ n = [typeId |-> n.typeId, value |-> n.value]
  BY DEF IsOtherName
<1>3. Fields(<<One("OID"), One("0")>>, body) = fields
  BY <1>1, <1>2, OtherNameRows
<1> HIDE DEF b
<1>4. Required(fields) /\ Required(n)
  <2>1. IsFunction(fields) /\ IsFunction(n)
    BY <1>2 DEF IsFunction
  <2> HIDE DEF fields
  <2> QED
    BY <2>1 DEF Atoms
<1>5. DecodeOtherName(body) = Sound([typeId |-> n.typeId, value |-> n.value])
  <2> HIDE DEF body
  <2> QED
    BY <1>1, <1>3, <1>4 DEF DecodeOtherName, Decoded, Made, Required
<1>6. DecodeOtherName(body) = n
  BY <1>2, <1>5 DEF Sound, Required
<1> QED
  BY <1>4, <1>6 DEF b

(* A DirectoryString is read as it was written.                            *)
LEMMA DirectoryStringRoundTrip ==
  ASSUME NEW s, IsDirectoryString(s)
  PROVE  DecodeDirectoryString(<<s>>) = s /\ s # Malformed
BY DEF IsDirectoryString, DecodeDirectoryString

(* An EDIPartyName is read as it was written.                              *)
LEMMA EdiPartyNameRoundTrip ==
  ASSUME Atoms, NEW n, IsEdiPartyName(n)
  PROVE  /\ DecodeEdiPartyName(Present(<< <<"0", IF n.nameAssigner = None THEN None ELSE <<n.nameAssigner>> >>,
                                          <<"1", <<n.partyName>> >> >>)) = n
         /\ Required(n)
<1> DEFINE a == IF n.nameAssigner = None THEN None ELSE <<n.nameAssigner>>
           b == <<n.partyName>>
           fields == <<a, b>>
           body == Present(<< <<"0", a>>, <<"1", b>> >>)
<1>1. n = [nameAssigner |-> n.nameAssigner, partyName |-> n.partyName]
  BY DEF IsEdiPartyName
<1>2. Optional(a, DecodeDirectoryString) = n.nameAssigner /\ n.nameAssigner # Malformed
  <2>1. CASE n.nameAssigner = None
    BY <2>1 DEF Optional, Atoms
  <2>2. CASE n.nameAssigner # None
    <3>1. IsDirectoryString(n.nameAssigner) /\ a = <<n.nameAssigner>>
      BY <2>2 DEF IsEdiPartyName
    <3>2. IsFunction(a)
      BY <3>1 DEF IsFunction
    <3>3. Required(a)
      BY <3>2 DEF Atoms
    <3> QED
      BY <3>1, <3>3, DirectoryStringRoundTrip DEF Optional, Required
  <2> QED
    BY <2>1, <2>2
<1>3. DecodeDirectoryString(b) = n.partyName /\ n.partyName # Malformed
  BY DirectoryStringRoundTrip DEF IsEdiPartyName
<1>4. Required(b) /\ Required(n) /\ Required(fields)
  <2>1. IsFunction(b) /\ IsFunction(n) /\ IsFunction(fields)
    BY <1>1 DEF IsFunction
  <2> HIDE DEF fields, b
  <2> QED
    BY <2>1 DEF Atoms
<1> HIDE DEF a, b
<1>5. Fields(<<Opt("0"), One("1")>>, body) = fields
  BY <1>4, EdiPartyRows
<1>6. DecodeEdiPartyName(body) = Sound([nameAssigner |-> n.nameAssigner, partyName |-> n.partyName])
  <2> HIDE DEF body
  <2>1. fields[1] = a /\ fields[2] = b
    OBVIOUS
  <2> HIDE DEF fields
  <2>2. DecodeEdiPartyName(body) = Sound([nameAssigner |-> Optional(fields[1], DecodeDirectoryString),
                                          partyName    |-> DecodeDirectoryString(fields[2])])
    BY <1>4, <1>5 DEF DecodeEdiPartyName, Decoded, Made, Required
  <2> QED
    BY <1>2, <1>3, <2>1, <2>2
<1>7. DecodeEdiPartyName(body) = n
  BY <1>1, <1>2, <1>3, <1>6 DEF Sound
<1> QED
  BY <1>4, <1>7 DEF a, b

(* The tag says which of the names it is.                                  *)
LEMMA ChoiceByTag ==
  ASSUME NEW k \in 1..9, NEW body
  PROVE  DecodeGeneralName(<<GeneralNameTag[k], body>>)
           = Sound([choice |-> GeneralNameChoice[k], name |-> DecodeChoice(GeneralNameChoice[k], body)])
<1>1. DOMAIN GeneralNameTag = 1..9
  BY DEF GeneralNameTag
<1>2. \A i, j \in 1..9 : GeneralNameTag[i] = GeneralNameTag[j] => i = j
  BY DEF GeneralNameTag
<1>3. {i \in DOMAIN GeneralNameTag : GeneralNameTag[i] = <<GeneralNameTag[k], body>>[1]} = {k}
  BY <1>1, <1>2
<1>4. (CHOOSE i \in {k} : TRUE) = k
  OBVIOUS
<1> QED
  BY <1>3, <1>4 DEF DecodeGeneralName

(* A GeneralName is read as it was written.                                *)
LEMMA GeneralNameRoundTrip ==
  ASSUME Atoms, NEW n, IsGeneralName(n)
  PROVE  DecodeGeneralName(EncodeGeneralName(n)) = n /\ Required(n)
<1>1. /\ n = [choice |-> n.choice, name |-> n.name]
      /\ Required(n)
  <2>1. n = [choice |-> n.choice, name |-> n.name]
    BY DEF IsGeneralName
  <2>2. IsFunction(n)
    BY <2>1 DEF IsFunction
  <2> QED
    BY <2>1, <2>2 DEF Atoms
<1>2. PICK k \in 1..9 : n.choice = GeneralNameChoice[k]
  BY DEF IsGeneralName
<1>3. n.choice # Malformed
  BY <1>2 DEF Atoms, Words, Required
<1> SUFFICES ASSUME NEW body, EncodeGeneralName(n) = <<GeneralNameTag[k], body>>,
                    DecodeChoice(n.choice, body) = n.name, n.name # Malformed
             PROVE  DecodeGeneralName(EncodeGeneralName(n)) = n
  <2> HIDE DEF Atoms
  <2>1. CASE n.choice = "otherName"
    <3>1. k = 1
      BY <1>2, <2>1 DEF GeneralNameChoice
    <3>2. IsOtherName(n.name)
      BY <2>1 DEF IsGeneralName
    <3> QED
      BY <2>1, <3>1, <3>2, <1>1, OtherNameRoundTrip DEF EncodeGeneralName, GeneralNameTag, DecodeChoice, Required
  <2>2. CASE n.choice = "directoryName"
    <3>1. k = 5
      BY <1>2, <2>2 DEF GeneralNameChoice
    <3>2. IsName(n.name)
      BY <2>2 DEF IsGeneralName
    <3> DEFINE b == << <<"SEQUENCE", EncodeName(n.name)>> >>
    <3>3. EncodeGeneralName(n) = <<GeneralNameTag[5], b>>
      BY <2>2 DEF EncodeGeneralName, GeneralNameTag
    <3>4. DecodeName(EncodeName(n.name)) = n.name /\ Required(n.name) /\ Required(EncodeName(n.name))
      BY <3>2, NameRoundTrip
    <3>5. Inner("SEQUENCE", b) = EncodeName(n.name)
      <4>1. b = Explicit("SEQUENCE", EncodeName(n.name))
        BY <3>4 DEF Explicit, Required
      <4> QED
        BY <4>1, ExplicitReads
    <3> HIDE DEF b
    <3> QED
      BY <2>2, <3>1, <3>3, <3>4, <3>5, <1>1 DEF DecodeChoice, Required
  <2>3. CASE n.choice = "ediPartyName"
    <3>1. k = 6
      BY <1>2, <2>3 DEF GeneralNameChoice
    <3>2. IsEdiPartyName(n.name)
      BY <2>3 DEF IsGeneralName
    <3> QED
      BY <2>3, <3>1, <3>2, <1>1, EdiPartyNameRoundTrip DEF EncodeGeneralName, GeneralNameTag, DecodeChoice, Required
  <2>4. CASE n.choice = "x400Address"
    <3>1. k = 4
      BY <1>2, <2>4 DEF GeneralNameChoice
    <3>2. n.name # Malformed
      BY <2>4 DEF IsGeneralName
    <3> QED
      BY <2>4, <3>1, <3>2, <1>1, OpaqueReads DEF EncodeGeneralName, GeneralNameTag, DecodeChoice
  <2>5. CASE n.choice \in {"rfc822Name", "dnsName", "uniformResourceIdentifier", "ipAddress", "registeredId"}
    <3>1. n.name # Malformed
      BY <2>5 DEF IsGeneralName
    <3>2. DecodeChoice(n.choice, n.name) = n.name
      BY <2>5 DEF DecodeChoice
    <3>3. EncodeGeneralName(n) = <<GeneralNameTag[k], n.name>>
      BY <1>2, <2>5 DEF EncodeGeneralName, GeneralNameTag, GeneralNameChoice
    <3> QED
      BY <1>1, <3>1, <3>2, <3>3
  <2> QED
    BY <1>2, <2>1, <2>2, <2>3, <2>4, <2>5 DEF GeneralNameChoice
<1>4. DecodeGeneralName(EncodeGeneralName(n)) = Sound([choice |-> n.choice, name |-> n.name])
  BY <1>2, ChoiceByTag
<1> QED
  BY <1>1, <1>3, <1>4 DEF Sound

(* What is read as an AnotherName is of its type.                          *)
LEMMA OtherNameShape ==
  ASSUME NEW e, DecodeOtherName(e) # Malformed
  PROVE  IsOtherName(DecodeOtherName(e))
BY Shape2, RowIs DEF DecodeOtherName, Decoded, Made, Sound, IsOtherName, Required

(* What is read as a DirectoryString is of its type.                       *)
LEMMA DirectoryStringShape ==
  ASSUME NEW b, DecodeDirectoryString(b) # Malformed
  PROVE  IsDirectoryString(DecodeDirectoryString(b))
BY DEF DecodeDirectoryString, IsDirectoryString

(* What is read as an EDIPartyName is of its type.                         *)
LEMMA EdiPartyNameShape ==
  ASSUME NEW e, DecodeEdiPartyName(e) # Malformed
  PROVE  IsEdiPartyName(DecodeEdiPartyName(e))
<1> DEFINE f == Fields(<<Opt("0"), One("1")>>, e)
           n == DecodeEdiPartyName(e)
<1>1. /\ f # Malformed
      /\ n = [nameAssigner |-> Optional(f[1], DecodeDirectoryString),
              partyName    |-> DecodeDirectoryString(f[2])]
      /\ \A x \in DOMAIN n : n[x] # Malformed
  BY DEF DecodeEdiPartyName, Decoded, Made, Sound
<1> HIDE DEF f, n
<1>2. /\ n = [nameAssigner |-> n.nameAssigner, partyName |-> n.partyName]
      /\ n.nameAssigner = Optional(f[1], DecodeDirectoryString) /\ n.nameAssigner # Malformed
      /\ n.partyName = DecodeDirectoryString(f[2]) /\ n.partyName # Malformed
  BY <1>1
<1>3. n.nameAssigner = None \/ IsDirectoryString(n.nameAssigner)
  BY <1>2, DirectoryStringShape DEF Optional
<1>4. IsEdiPartyName(n)
  BY <1>2, <1>3, DirectoryStringShape DEF IsEdiPartyName
<1> QED
  BY <1>4 DEF n

(* What is read as a GeneralName is of its type.                           *)
LEMMA GeneralNameShape ==
  ASSUME NEW e, DecodeGeneralName(e) # Malformed
  PROVE  IsGeneralName(DecodeGeneralName(e))
<1> DEFINE known == {i \in DOMAIN GeneralNameTag : GeneralNameTag[i] = e[1]}
           k == CHOOSE i \in known : TRUE
           n == DecodeGeneralName(e)
<1>1. known # {}
  BY DEF DecodeGeneralName
<1>2. k \in 1..9
  <2>1. DOMAIN GeneralNameTag = 1..9
    BY DEF GeneralNameTag
  <2> QED
    BY <1>1, <2>1
<1>3. /\ n = [choice |-> GeneralNameChoice[k], name |-> DecodeChoice(GeneralNameChoice[k], e[2])]
      /\ \A x \in DOMAIN n : n[x] # Malformed
  BY <1>1 DEF DecodeGeneralName, Sound
<1> HIDE DEF k, n
<1>4. /\ n = [choice |-> n.choice, name |-> n.name]
      /\ n.choice = GeneralNameChoice[k]
      /\ n.name = DecodeChoice(n.choice, e[2]) /\ n.name # Malformed
  BY <1>3
<1>5. n.choice \in {GeneralNameChoice[i] : i \in 1..9}
  BY <1>2, <1>4
<1>6. n.choice = "otherName" => IsOtherName(n.name)
  BY <1>4, OtherNameShape DEF DecodeChoice
<1>7. n.choice = "directoryName" => IsName(n.name)
  BY <1>4, NameShape DEF DecodeChoice
<1>8. n.choice = "ediPartyName" => IsEdiPartyName(n.name)
  BY <1>4, EdiPartyNameShape DEF DecodeChoice
<1>9. IsGeneralName(n)
  BY <1>4, <1>5, <1>6, <1>7, <1>8 DEF IsGeneralName
<1> QED
  BY <1>9 DEF n

(* The tsa of a TstInfo is read as it was written.                         *)
LEMMA TsaRoundTrip ==
  ASSUME Atoms, NEW n, n = None \/ IsGeneralName(n)
  PROVE  DecodeTsa(IF n = None THEN None ELSE <<EncodeGeneralName(n)>>) = n /\ n # Malformed
<1>1. CASE n = None
  BY <1>1 DEF DecodeTsa, Optional, Atoms
<1>2. CASE n # None
  <2> DEFINE b == <<EncodeGeneralName(n)>>
  <2>1. IsFunction(b) /\ Len(b) = 1 /\ b[1] = EncodeGeneralName(n)
    BY DEF IsFunction
  <2> HIDE DEF b
  <2>2. Required(b)
    BY <2>1 DEF Atoms
  <2>3. DecodeTsa(b) = n /\ n # Malformed
    BY <1>2, <2>1, <2>2, GeneralNameRoundTrip DEF DecodeTsa, Optional, Required
  <2> QED
    BY <1>2, <2>3 DEF b
<1> QED
  BY <1>1, <1>2

(* What is read as the tsa of a TstInfo is of its type.                    *)
LEMMA TsaShape ==
  ASSUME NEW body, DecodeTsa(body) # Malformed
  PROVE  DecodeTsa(body) = None \/ IsGeneralName(DecodeTsa(body))
BY GeneralNameShape DEF DecodeTsa, Optional

(* What is read of a TstInfo that was written: defaults are left out.      *)
NormalTst(t) == [t EXCEPT !.ordering = Flag(@), !.extensions = NormalExtensions(@)]

(* A TstInfo that obeys the rules is read as written, without defaults;    *)
(* any other is refused.                                                   *)
LEMMA TstInfoRoundTrip ==
  ASSUME Atoms, NEW t, IsTstInfo(t)
  PROVE  /\ DecodeTstInfo(EncodeTstInfo(t)) = IF TstInfoObeys(t) THEN NormalTst(t) ELSE Malformed
         /\ Required(NormalTst(t))
<1> DEFINE c == EncodeImprint(t.messageImprint)
           f == EncodeAccuracy(t.accuracy)
           flag == Flag(t.ordering)
           i == IF t.tsa = None THEN None ELSE <<EncodeGeneralName(t.tsa)>>
           j == EncodeExtensions(t.extensions)
           fields == <<t.version, t.policy, c, t.serialNumber, t.genTime, f, flag, t.nonce, i, j>>
           rows == <<One("INTEGER"), One("OID"), One("SEQUENCE"), One("INTEGER"), One("TIME"),
                     Opt("SEQUENCE"), Opt("BOOLEAN"), Opt("INTEGER"), Opt("0"), Opt("1")>>
           accuracy == IF t.accuracy = None \/ AccuracyRules(t.accuracy) THEN t.accuracy ELSE Malformed
           extensions == IF ExtensionsObey(t.extensions) THEN NormalExtensions(t.extensions) ELSE Malformed
           u == [version |-> OneOf({1}, t.version), policy |-> t.policy,
                 messageImprint |-> t.messageImprint, serialNumber |-> t.serialNumber,
                 genTime |-> t.genTime, accuracy |-> accuracy, ordering |-> flag, nonce |-> t.nonce,
                 tsa |-> t.tsa, extensions |-> extensions]
<1>1. Required(c) /\ DecodeImprint(c) = t.messageImprint /\ Required(t.messageImprint)
  BY ImprintRoundTrip DEF IsTstInfo
<1>2. DecodeExtensions(j) = extensions /\ NormalExtensions(t.extensions) # Malformed
  BY ExtensionsRoundTrip DEF IsTstInfo
<1>3. DecodeAccuracy(f) = accuracy /\ t.accuracy # Malformed
  BY AccuracyRoundTrip DEF IsTstInfo
<1>4. DecodeTsa(i) = t.tsa /\ t.tsa # Malformed
  BY TsaRoundTrip DEF IsTstInfo
<1>5. /\ t = [version |-> t.version, policy |-> t.policy, messageImprint |-> t.messageImprint,
              serialNumber |-> t.serialNumber, genTime |-> t.genTime, accuracy |-> t.accuracy,
              ordering |-> t.ordering, nonce |-> t.nonce, tsa |-> t.tsa, extensions |-> t.extensions]
      /\ Required(t.version) /\ Required(t.policy) /\ Required(t.serialNumber) /\ Required(t.genTime)
      /\ t.nonce # Malformed
  BY DEF IsTstInfo
<1>6. flag # Malformed
  BY DEF Flag, Atoms, Required
<1> HIDE DEF c, f, i, j
<1>7. Fields(rows, EncodeTstInfo(t)) = fields
  BY <1>1, <1>5, TstInfoRows DEF EncodeTstInfo, c, f, i, j
<1>8. Required(fields) /\ Required(NormalTst(t))
  <2>1. IsFunction(fields)
    BY DEF IsFunction
  <2>2. IsFunction(NormalTst(t))
    BY <1>5 DEF IsFunction, NormalTst
  <2> HIDE DEF fields
  <2> QED
    BY <2>1, <2>2 DEF Atoms
<1> HIDE DEF flag, extensions, accuracy
<1>9. DecodeTstInfo(EncodeTstInfo(t)) = Sound(u)
  BY <1>1, <1>2, <1>3, <1>4, <1>7, <1>8 DEF DecodeTstInfo, Decoded, Made, Required
<1>10. Sound(u) = IF TstInfoObeys(t) THEN NormalTst(t) ELSE Malformed
  <2>1. CASE TstInfoObeys(t)
    <3>1. t.version = 1 /\ extensions = NormalExtensions(t.extensions) /\ accuracy = t.accuracy
      BY <2>1 DEF TstInfoObeys, extensions, accuracy
    <3>2. NormalTst(t) = [t EXCEPT !.ordering = flag, !.extensions = extensions]
      BY <1>5, <3>1 DEF NormalTst, flag
    <3>3. OneOf({1}, t.version) = t.version
      BY <3>1 DEF OneOf
    <3>4. u = NormalTst(t)
      BY <1>5, <3>1, <3>2, <3>3
    <3>5. \A x \in DOMAIN u : u[x] # Malformed
      BY <1>1, <1>2, <1>3, <1>4, <1>5, <1>6, <3>1, <3>3 DEF Required
    <3> HIDE DEF u
    <3> QED
      BY <2>1, <3>4, <3>5 DEF Sound
  <2>2. CASE ~TstInfoObeys(t)
    <3>1. OneOf({1}, t.version) = Malformed \/ extensions = Malformed \/ accuracy = Malformed
      BY <2>2 DEF TstInfoObeys, OneOf, extensions, accuracy
    <3> QED
      BY <2>2, <3>1 DEF Sound
  <2> QED
    BY <2>1, <2>2
<1> QED
  BY <1>8, <1>9, <1>10

(* What is read as a TstInfo is of its type and obeys the rules of its     *)
(* decoder.                                                                *)
LEMMA TstInfoShape ==
  ASSUME Atoms, NEW e, DecodeTstInfo(e) # Malformed
  PROVE  IsTstInfo(DecodeTstInfo(e)) /\ TstInfoObeys(DecodeTstInfo(e))
<1> DEFINE f == Fields(<<One("INTEGER"), One("OID"), One("SEQUENCE"), One("INTEGER"), One("TIME"),
                         Opt("SEQUENCE"), Opt("BOOLEAN"), Opt("INTEGER"), Opt("0"), Opt("1")>>, e)
           t == DecodeTstInfo(e)
<1>1. /\ f # Malformed
      /\ t = [version |-> OneOf({1}, f[1]), policy |-> f[2], messageImprint |-> DecodeImprint(f[3]),
              serialNumber |-> f[4], genTime |-> f[5], accuracy |-> DecodeAccuracy(f[6]),
              ordering |-> f[7], nonce |-> f[8], tsa |-> DecodeTsa(f[9]),
              extensions |-> DecodeExtensions(f[10])]
      /\ \A x \in DOMAIN t : t[x] # Malformed
  BY DEF DecodeTstInfo, Decoded, Made, Sound
<1>2. f[2] # None /\ f[4] # None /\ f[5] # None
  BY <1>1, Shape10, RowIs
<1> HIDE DEF f, t
<1>3. /\ t = [version |-> t.version, policy |-> t.policy, messageImprint |-> t.messageImprint,
              serialNumber |-> t.serialNumber, genTime |-> t.genTime, accuracy |-> t.accuracy,
              ordering |-> t.ordering, nonce |-> t.nonce, tsa |-> t.tsa, extensions |-> t.extensions]
      /\ t.version = OneOf({1}, f[1]) /\ t.policy = f[2]
      /\ t.messageImprint = DecodeImprint(f[3])
      /\ t.serialNumber = f[4] /\ t.genTime = f[5]
      /\ t.accuracy = DecodeAccuracy(f[6])
      /\ t.tsa = DecodeTsa(f[9])
      /\ t.extensions = DecodeExtensions(f[10])
  BY <1>1
<1>4. /\ t.version # Malformed /\ t.policy # Malformed /\ t.messageImprint # Malformed
      /\ t.serialNumber # Malformed /\ t.genTime # Malformed /\ t.accuracy # Malformed
      /\ t.nonce # Malformed /\ t.tsa # Malformed /\ t.extensions # Malformed
  <2>1. {"version", "policy", "messageImprint", "serialNumber", "genTime", "accuracy", "nonce",
         "tsa", "extensions"} \subseteq DOMAIN t
    BY <1>1
  <2> QED
    BY <1>1, <2>1
<1>5. t.version = 1 /\ Required(t.version)
  BY <1>3, <1>4 DEF OneOf, Atoms
<1>6. IsImprint(t.messageImprint) /\ IsExtensions(t.extensions) /\ ExtensionsObey(t.extensions)
  BY <1>3, <1>4, ImprintShape, ExtensionsShape
<1>7. /\ t.accuracy = None \/ (IsAccuracy(t.accuracy) /\ AccuracyRules(t.accuracy))
      /\ t.tsa = None \/ IsGeneralName(t.tsa)
  BY <1>3, <1>4, AccuracyShape, TsaShape
<1>8. Required(t.policy) /\ Required(t.serialNumber) /\ Required(t.genTime)
  BY <1>2, <1>3, <1>4 DEF Required
<1>9. IsTstInfo(t)
  BY <1>3, <1>4, <1>5, <1>6, <1>7, <1>8 DEF IsTstInfo
<1>10. TstInfoObeys(t)
  BY <1>5, <1>6, <1>7 DEF TstInfoObeys
<1> QED
  BY <1>9, <1>10 DEF t

-----------------------------------------------------------------------------
(* A OneAsymmetricKey that obeys the rules is read as it was written;      *)
(* any other is refused.                                                   *)
LEMMA OneAsymmetricKeyRoundTrip ==
  ASSUME Atoms, NEW k, IsOneAsymmetricKey(k)
  PROVE  /\ DecodeOneAsymmetricKey(EncodeOneAsymmetricKey(k)) = IF k.version \in {0, 1} THEN k ELSE Malformed
         /\ Required(k)
<1> DEFINE b == Opaque("Algorithm", k.privateKeyAlgorithm)
           d == EncodeOpaqueList("Attribute", k.attributes)
           fields == <<k.version, b, k.privateKey, d, k.publicKey>>
           u == [version |-> OneOf({0, 1}, k.version), privateKeyAlgorithm |-> k.privateKeyAlgorithm,
                 privateKey |-> k.privateKey, attributes |-> k.attributes, publicKey |-> k.publicKey]
<1>1. Required(b) /\ Within("Algorithm", b) = k.privateKeyAlgorithm
  BY OpaqueReads
<1>2. DecodeOpaqueList("Attribute", d) = k.attributes /\ k.attributes # Malformed
  BY OpaqueListRoundTrip DEF IsOneAsymmetricKey
<1>3. /\ k = [version |-> k.version, privateKeyAlgorithm |-> k.privateKeyAlgorithm,
              privateKey |-> k.privateKey, attributes |-> k.attributes, publicKey |-> k.publicKey]
      /\ Required(k.version) /\ k.privateKeyAlgorithm # Malformed /\ Required(k.privateKey)
      /\ k.publicKey # Malformed
  BY DEF IsOneAsymmetricKey
<1> HIDE DEF b, d
<1>4. Fields(<<One("INTEGER"), One("SEQUENCE"), One("OCTETS"), Opt("0"), Opt("1")>>, EncodeOneAsymmetricKey(k)) = fields
  BY <1>1, <1>3, OneAsymmetricKeyRows DEF EncodeOneAsymmetricKey, b, d
<1>5. Required(fields) /\ Required(k)
  <2>1. IsFunction(fields) /\ IsFunction(k)
    BY <1>3 DEF IsFunction
  <2> HIDE DEF fields
  <2> QED
    BY <2>1 DEF Atoms
<1>6. DecodeOneAsymmetricKey(EncodeOneAsymmetricKey(k)) = Sound(u)
  BY <1>1, <1>2, <1>4, <1>5 DEF DecodeOneAsymmetricKey, Decoded, Made, Required
<1>7. Sound(u) = IF k.version \in {0, 1} THEN k ELSE Malformed
  BY <1>2, <1>3 DEF Sound, OneOf, Required
<1> QED
  BY <1>5, <1>6, <1>7

(* What is read as a OneAsymmetricKey is of its type and obeys the rules   *)
(* of its decoder.                                                         *)
LEMMA OneAsymmetricKeyShape ==
  ASSUME Atoms, NEW e, DecodeOneAsymmetricKey(e) # Malformed
  PROVE  IsOneAsymmetricKey(DecodeOneAsymmetricKey(e)) /\ DecodeOneAsymmetricKey(e).version \in {0, 1}
<1> DEFINE f == Fields(<<One("INTEGER"), One("SEQUENCE"), One("OCTETS"), Opt("0"), Opt("1")>>, e)
           k == DecodeOneAsymmetricKey(e)
<1>1. /\ f # Malformed
      /\ k = [version |-> OneOf({0, 1}, f[1]), privateKeyAlgorithm |-> Within("Algorithm", f[2]),
              privateKey |-> f[3], attributes |-> DecodeOpaqueList("Attribute", f[4]), publicKey |-> f[5]]
      /\ \A x \in DOMAIN k : k[x] # Malformed
  BY DEF DecodeOneAsymmetricKey, Decoded, Made, Sound
<1>2. f[3] # None
  BY <1>1, Shape5, RowIs
<1> HIDE DEF f, k
<1>3. /\ k = [version |-> k.version, privateKeyAlgorithm |-> k.privateKeyAlgorithm,
              privateKey |-> k.privateKey, attributes |-> k.attributes, publicKey |-> k.publicKey]
      /\ k.version = OneOf({0, 1}, f[1]) /\ k.version # Malformed
      /\ k.privateKeyAlgorithm # Malformed /\ k.privateKey = f[3] /\ k.privateKey # Malformed
      /\ k.attributes = DecodeOpaqueList("Attribute", f[4]) /\ k.attributes # Malformed
      /\ k.publicKey # Malformed
  BY <1>1
<1>4. k.version \in {0, 1} /\ Required(k.version)
  BY <1>3 DEF OneOf, Atoms
<1>5. k.attributes = None \/ IsOpaqueList(k.attributes)
  BY <1>3, OpaqueListShape
<1>6. IsOneAsymmetricKey(k)
  BY <1>2, <1>3, <1>4, <1>5 DEF IsOneAsymmetricKey, Required
<1> QED
  BY <1>4, <1>6 DEF k

(* An ECPrivateKey is read as it was written.                              *)
LEMMA EcPrivateKeyRoundTrip ==
  ASSUME Atoms, NEW k, IsEcPrivateKey(k)
  PROVE  DecodeEcPrivateKey(EncodeEcPrivateKey(k)) = k /\ Required(k)
<1> DEFINE c == EncodeEcParameters(k.parameters)
           d == Explicit("BITS", k.publicKey)
           fields == <<k.version, k.privateKey, c, d>>
<1>1. DecodeEcParameters(c) = k.parameters /\ k.parameters # Malformed
  <2>1. CASE k.parameters = None
    BY <2>1 DEF EncodeEcParameters, DecodeEcParameters, Optional, Atoms
  <2>2. CASE k.parameters # None
    <3>1. /\ k.parameters # Malformed /\ k.parameters[1] \in {"OID", "NULL"}
          /\ c = <<k.parameters>>
      BY <2>2 DEF EncodeEcParameters, IsEcPrivateKey
    <3>2. IsFunction(c) /\ Len(c) = 1 /\ c[1] = k.parameters
      BY <3>1 DEF IsFunction
    <3> HIDE DEF c
    <3>3. Required(c)
      BY <3>2 DEF Atoms
    <3> QED
      BY <3>1, <3>2, <3>3 DEF DecodeEcParameters, Optional, Required
  <2> QED
    BY <2>1, <2>2
<1>2. Inner("BITS", d) = k.publicKey
  BY ExplicitReads
<1>3. /\ k = [version |-> k.version, privateKey |-> k.privateKey, parameters |-> k.parameters,
              publicKey |-> k.publicKey]
      /\ Required(k.version) /\ Required(k.privateKey) /\ k.publicKey # Malformed
  BY DEF IsEcPrivateKey
<1> HIDE DEF c, d
<1>4. Fields(<<One("INTEGER"), One("OCTETS"), Opt("0"), Opt("1")>>, EncodeEcPrivateKey(k)) = fields
  BY <1>3, EcPrivateKeyRows DEF EncodeEcPrivateKey, c, d
<1>5. Required(fields) /\ Required(k)
  <2>1. IsFunction(fields) /\ IsFunction(k)
    BY <1>3 DEF IsFunction
  <2> HIDE DEF fields
  <2> QED
    BY <2>1 DEF Atoms
<1>6. DecodeEcPrivateKey(EncodeEcPrivateKey(k)) = Sound(k)
  BY <1>1, <1>2, <1>3, <1>4, <1>5 DEF DecodeEcPrivateKey, Decoded, Made, Required
<1>7. Sound(k) = k
  BY <1>1, <1>3 DEF Sound, Required
<1> QED
  BY <1>5, <1>6, <1>7

(* What is read as an ECPrivateKey is of its type.                         *)
LEMMA EcPrivateKeyShape ==
  ASSUME NEW e, DecodeEcPrivateKey(e) # Malformed
  PROVE  IsEcPrivateKey(DecodeEcPrivateKey(e))
<1> DEFINE f == Fields(<<One("INTEGER"), One("OCTETS"), Opt("0"), Opt("1")>>, e)
           k == DecodeEcPrivateKey(e)
<1>1. /\ f # Malformed
      /\ k = [version |-> f[1], privateKey |-> f[2], parameters |-> DecodeEcParameters(f[3]),
              publicKey |-> Inner("BITS", f[4])]
      /\ \A x \in DOMAIN k : k[x] # Malformed
  BY DEF DecodeEcPrivateKey, Decoded, Made, Sound
<1>2. f[1] # None /\ f[2] # None
  BY <1>1, Shape4, RowIs
<1> HIDE DEF f, k
<1>3. /\ k = [version |-> k.version, privateKey |-> k.privateKey, parameters |-> k.parameters,
              publicKey |-> k.publicKey]
      /\ k.version = f[1] /\ k.version # Malformed /\ k.privateKey = f[2] /\ k.privateKey # Malformed
      /\ k.parameters = DecodeEcParameters(f[3]) /\ k.parameters # Malformed
      /\ k.publicKey # Malformed
  BY <1>1
<1>4. k.parameters = None \/ (k.parameters # Malformed /\ k.parameters[1] \in {"OID", "NULL"})
  BY <1>3 DEF DecodeEcParameters, Optional
<1>5. IsEcPrivateKey(k)
  BY <1>2, <1>3, <1>4 DEF IsEcPrivateKey, Required
<1> QED
  BY <1>5 DEF k

-----------------------------------------------------------------------------
(* RSA private keys.                                                       *)

(* An OtherPrimeInfo is read as it was written.                            *)
LEMMA PrimeRoundTrip ==
  ASSUME Atoms, NEW p, IsPrime(p)
  PROVE  DecodePrime(EncodePrime(p)) = p /\ p # Malformed
<1> DEFINE fields == <<p.ri, p.di, p.ti>>
<1>1. /\ p = [ri |-> p.ri, di |-> p.di, ti |-> p.ti]
      /\ Required(p.ri) /\ Required(p.di) /\ Required(p.ti)
  BY DEF IsPrime
<1>2. Fields(<<One("INTEGER"), One("INTEGER"), One("INTEGER")>>, EncodePrime(p)) = fields
  BY <1>1, PrimeRows DEF EncodePrime
<1>3. Required(fields) /\ Required(p)
  <2>1. IsFunction(fields) /\ IsFunction(p)
    BY <1>1 DEF IsFunction
  <2> HIDE DEF fields
  <2> QED
    BY <2>1 DEF Atoms
<1>4. DecodePrime(EncodePrime(p)) = Sound(p)
  BY <1>1, <1>2, <1>3 DEF DecodePrime, Decoded, Made, Required
<1> QED
  BY <1>1, <1>3, <1>4 DEF Sound, Required

(* What is read as an OtherPrimeInfo is of its type.                       *)
LEMMA PrimeShape ==
  ASSUME NEW e, DecodePrime(e) # Malformed
  PROVE  IsPrime(DecodePrime(e))
BY Shape3, RowIs DEF DecodePrime, Decoded, Made, Sound, IsPrime, Required

(* The other primes of an RSA private key, if it has any.                  *)
IsPrimes(ps) == ps = None \/ (IsVec(ps) /\ \A i \in DOMAIN ps : IsPrime(ps[i]))

(* The other primes of an RSA key are read as they were written.           *)
LEMMA PrimesRoundTrip ==
  ASSUME Atoms, NEW ps, IsPrimes(ps)
  PROVE  DecodePrimes(EncodePrimes(ps)) = ps /\ ps # Malformed
<1>1. CASE ps = None
  BY <1>1 DEF EncodePrimes, DecodePrimes, Optional, Atoms
<1>2. CASE ps # None
  <2> DEFINE e == EncodePrimes(ps)
  <2>1. e = [i \in DOMAIN ps |-> <<"SEQUENCE", EncodePrime(ps[i])>>]
    BY <1>2 DEF EncodePrimes
  <2> HIDE DEF e
  <2>2. IsFunction(ps) /\ IsSequence(ps) /\ \A i \in DOMAIN ps : DecodePrime(EncodePrime(ps[i])) = ps[i] /\
          ps[i] # Malformed
    BY <1>2, PrimeRoundTrip DEF IsPrimes, IsVec
  <2>3. IsFunction(e) /\ DOMAIN e = DOMAIN ps /\ IsSequence(e)
    BY <2>1, <2>2 DEF IsFunction, IsSequence
  <2>4. Required(e) /\ Required(ps)
    BY <2>2, <2>3 DEF Atoms
  <2>5. AllTagged(e, "SEQUENCE")
    BY <2>1 DEF AllTagged
  <2>6. [i \in DOMAIN e |-> DecodePrime(e[i][2])] = ps
    BY <2>1, <2>2, <2>3 DEF IsFunction
  <2>7. DecodePrimes(e) = ps
    BY <2>2, <2>3, <2>4, <2>5, <2>6 DEF DecodePrimes, Optional, DecodeEach, Sound, Required
  <2> QED
    BY <2>4, <2>7 DEF e, Required
<1> QED
  BY <1>1, <1>2

(* What is read as the other primes of an RSA key is of its type.          *)
LEMMA PrimesShape ==
  ASSUME NEW body, DecodePrimes(body) # Malformed
  PROVE  IsPrimes(DecodePrimes(body))
<1>1. CASE body = None
  BY <1>1 DEF DecodePrimes, Optional, IsPrimes, IsVec
<1>2. CASE body # None
  <2>1. /\ DecodePrimes(body) = [i \in DOMAIN body |-> DecodePrime(body[i][2])]
        /\ \A i \in DOMAIN body : DecodePrime(body[i][2]) # Malformed
        /\ IsSequence(body)
    BY <1>2 DEF DecodePrimes, Optional, DecodeEach, Sound
  <2>2. IsSequence(DecodePrimes(body))
    BY <2>1 DEF IsSequence
  <2> QED
    BY <2>1, <2>2, PrimeShape DEF IsPrimes, IsFunction, IsVec
<1> QED
  BY <1>1, <1>2

(* Nine rows and one more.                                                 *)
LEMMA NineAndOne ==
  ASSUME NEW first, first = [i \in 1..9 |-> first[i]], NEW last
  PROVE  LET all == first \o <<last>>
         IN  Len(all) = 10 /\ DOMAIN all = 1..10 /\ all[10] = last /\ \A i \in 1..9 : all[i] = first[i]
<1> DEFINE B == {first[i] : i \in 1..9} \cup {last}
<1>1. first \in Seq(B) /\ Len(first) = 9 /\ <<last>> \in Seq(B) /\ Len(<<last>>) = 1
  <2>1. \A i \in 1..9 : first[i] \in B
    OBVIOUS
  <2>2. last \in B
    OBVIOUS
  <2> HIDE DEF B
  <2>3. first \in [1..9 -> B]
    BY <2>1
  <2>4. first \in Seq(B) /\ Len(first) = 9
    BY <2>3
  <2> QED
    BY <2>2, <2>4
<1> HIDE DEF B
<1> QED
  BY <1>1

(* The nine integers of an RSA private key, in front of its other          *)
(* primes.                                                                 *)
LEMMA FirstNine ==
  ASSUME NEW f, IsFunction(f), DOMAIN f = 1..10
  PROVE  SubSeq(f, 1, 9) = [i \in 1..9 |-> f[i]]
<1> DEFINE B == {f[i] : i \in 1..9}
           s == SubSeq(f, 1, 9)
<1>1. \A i \in 1..9 : f[i] \in B
  OBVIOUS
<1> HIDE DEF B
<1>2. /\ s \in Seq(B)
      /\ Len(s) = IF 1 <= 9 THEN 9 - 1 + 1 ELSE 0
      /\ \A i \in 1..(9 - 1 + 1) : s[i] = f[1 + i - 1]
  BY <1>1, SubSeqProperties
<1> HIDE DEF s
<1>3. s = [i \in 1..Len(s) |-> s[i]] /\ Len(s) = 9
  BY <1>2, LenProperties
<1>4. \A i \in 1..9 : s[i] = f[i]
  BY <1>2
<1>5. s = [i \in 1..9 |-> f[i]]
  BY <1>3, <1>4
<1> QED
  BY <1>5 DEF s

(* An RsaPrivateKey is read as it was written.                             *)
LEMMA RsaPrivateKeyRoundTrip ==
  ASSUME Atoms, NEW k, IsRsaPrivateKey(k)
  PROVE  DecodeRsaPrivateKey(EncodeRsaPrivateKey(k)) = k /\ Required(k)
<1> DEFINE ps == EncodePrimes(k.otherPrimeInfos)
           ints == [i \in 1..9 |-> <<"INTEGER", k.integers[i]>>]
           ones == [i \in 1..9 |-> One("INTEGER")]
           cells == ints \o << <<"SEQUENCE", ps>> >>
           rows == ones \o <<Opt("SEQUENCE")>>
           f == Fields(rows, Present(cells))
<1>1. DecodePrimes(ps) = k.otherPrimeInfos /\ k.otherPrimeInfos # Malformed
  BY PrimesRoundTrip DEF IsRsaPrivateKey, IsPrimes, IsVec
<1>2. /\ k = [integers |-> k.integers, otherPrimeInfos |-> k.otherPrimeInfos]
      /\ k.integers = [i \in 1..9 |-> k.integers[i]] /\ \A i \in 1..9 : k.integers[i] # None
  BY DEF IsRsaPrivateKey
<1> HIDE DEF ps
<1>3. /\ Len(cells) = 10 /\ cells[10] = <<"SEQUENCE", ps>>
      /\ \A i \in 1..9 : cells[i] = <<"INTEGER", k.integers[i]>>
  <2> DEFINE last == <<"SEQUENCE", ps>>
  <2>1. ints = [i \in 1..9 |-> ints[i]] /\ \A i \in 1..9 : ints[i] = <<"INTEGER", k.integers[i]>>
    OBVIOUS
  <2> HIDE DEF ints, last
  <2> QED
    BY <2>1, NineAndOne DEF last
<1>4. /\ Len(rows) = 10 /\ DOMAIN rows = 1..10 /\ rows[10] = Opt("SEQUENCE")
      /\ \A i \in 1..9 : rows[i] = One("INTEGER")
  <2> DEFINE last == Opt("SEQUENCE")
  <2>1. ones = [i \in 1..9 |-> ones[i]] /\ \A i \in 1..9 : ones[i] = One("INTEGER")
    OBVIOUS
  <2> HIDE DEF ones, last
  <2> QED
    BY <2>1, NineAndOne DEF last
<1> HIDE DEF cells, rows
<1>5. Unambiguous(10, rows)
  <2> SUFFICES ASSUME NEW i \in 1..10, NEW j \in 1..10, i < j, \A x \in i..(j - 1) : rows[x].optional
               PROVE  FALSE
    BY DEF Unambiguous
  <2>1. i \in 1..9 /\ i \in i..(j - 1)
    OBVIOUS
  <2> QED
    BY <2>1, <1>4, RowIs
<1>6. \A i \in 1..10 : cells[i][1] = rows[i].tag /\ (cells[i][2] = None => rows[i].optional)
  <2> SUFFICES ASSUME NEW i \in 1..10
               PROVE  cells[i][1] = rows[i].tag /\ (cells[i][2] = None => rows[i].optional)
    OBVIOUS
  <2>1. CASE i = 10
    BY <2>1, <1>3, <1>4, RowIs
  <2>2. CASE i \in 1..9
    BY <2>2, <1>2, <1>3, <1>4, RowIs
  <2> QED
    BY <2>1, <2>2
<1>7. IsFunction(f) /\ DOMAIN f = 1..10 /\ \A i \in 1..10 : f[i] = cells[i][2]
  <2> DEFINE n == 10
  <2>1. /\ n \in Nat /\ Len(rows) = n /\ DOMAIN rows = 1..n /\ Len(cells) = n /\ Unambiguous(n, rows)
        /\ \A i \in 1..n : cells[i][1] = rows[i].tag
        /\ \A i \in 1..n : cells[i][2] = None => rows[i].optional
    BY <1>3, <1>4, <1>5, <1>6
  <2> HIDE DEF n
  <2>2. IsFunction(f) /\ DOMAIN f = 1..n /\ \A i \in 1..n : f[i] = cells[i][2]
    BY <2>1, RowsRoundTrip
  <2> QED
    BY <2>2 DEF n
<1> HIDE DEF f
<1>8. SubSeq(f, 1, 9) = k.integers /\ f[10] = ps /\ Required(f)
  <2>1. Required(f)
    BY <1>7 DEF Atoms
  <2>2. f[10] = ps /\ \A i \in 1..9 : f[i] = k.integers[i]
    BY <1>3, <1>7
  <2>3. SubSeq(f, 1, 9) = [i \in 1..9 |-> f[i]]
    BY <1>7, FirstNine
  <2>4. [i \in 1..9 |-> f[i]] = k.integers
    BY <1>2, <2>2
  <2> QED
    BY <2>1, <2>2, <2>3, <2>4
<1>9. EncodeRsaPrivateKey(k) = Present(cells)
  BY DEF EncodeRsaPrivateKey, cells, ps
<1>10. Required(k) /\ k.integers # Malformed
  <2>1. IsFunction(k) /\ IsFunction(k.integers)
    BY <1>2 DEF IsFunction
  <2> QED
    BY <2>1 DEF Atoms, Required
<1>11. DecodeRsaPrivateKey(Present(cells)) =
        Sound([integers |-> SubSeq(f, 1, 9), otherPrimeInfos |-> DecodePrimes(f[10])])
  BY <1>8 DEF DecodeRsaPrivateKey, Decoded, Made, Required, f, rows
<1>12. Sound(k) = k
  BY <1>1, <1>2, <1>10 DEF Sound
<1> QED
  BY <1>1, <1>2, <1>8, <1>9, <1>10, <1>11, <1>12

(* What is read as an RsaPrivateKey is of its type.                        *)
LEMMA RsaPrivateKeyShape ==
  ASSUME NEW e, DecodeRsaPrivateKey(e) # Malformed
  PROVE  IsRsaPrivateKey(DecodeRsaPrivateKey(e))
<1> DEFINE ones == [i \in 1..9 |-> One("INTEGER")]
           rows == ones \o <<Opt("SEQUENCE")>>
           f == Fields(rows, e)
           k == DecodeRsaPrivateKey(e)
<1>1. /\ f # Malformed
      /\ k = [integers |-> SubSeq(f, 1, 9), otherPrimeInfos |-> DecodePrimes(f[10])]
      /\ \A x \in DOMAIN k : k[x] # Malformed
  BY DEF DecodeRsaPrivateKey, Decoded, Made, Sound
<1>2. /\ Len(rows) = 10 /\ DOMAIN rows = 1..10
      /\ \A i \in 1..9 : rows[i] = One("INTEGER")
  <2> DEFINE last == Opt("SEQUENCE")
  <2>1. ones = [i \in 1..9 |-> ones[i]] /\ \A i \in 1..9 : ones[i] = One("INTEGER")
    OBVIOUS
  <2> HIDE DEF ones, last
  <2> QED
    BY <2>1, NineAndOne DEF last
<1> HIDE DEF rows
<1>3. IsFunction(f) /\ DOMAIN f = 1..10 /\ \A i \in 1..10 : f[i] = None => rows[i].optional
  <2>1. \A n \in Nat : n = 10 =>
          (IsFunction(f) /\ DOMAIN f = 1..n /\ \A i \in 1..n : f[i] = None => rows[i].optional)
    <3> SUFFICES ASSUME NEW n \in Nat, n = 10
                 PROVE  IsFunction(f) /\ DOMAIN f = 1..n /\ \A i \in 1..n : f[i] = None => rows[i].optional
      OBVIOUS
    <3>1. Len(rows) = n /\ DOMAIN rows = 1..n
      BY <1>2
    <3> QED
      BY <1>1, <3>1, RowsShape
  <2> QED
    BY <2>1
<1> HIDE DEF f, k
<1>4. SubSeq(f, 1, 9) = [i \in 1..9 |-> f[i]]
  BY <1>3, FirstNine
<1>5. \A i \in 1..9 : f[i] # None
  BY <1>2, <1>3, RowIs
<1>6. /\ k = [integers |-> k.integers, otherPrimeInfos |-> k.otherPrimeInfos]
      /\ k.integers = [i \in 1..9 |-> k.integers[i]] /\ \A i \in 1..9 : k.integers[i] # None
      /\ k.otherPrimeInfos = DecodePrimes(f[10]) /\ k.otherPrimeInfos # Malformed
  BY <1>1, <1>4, <1>5
<1>7. IsPrimes(k.otherPrimeInfos)
  BY <1>6, PrimesShape
<1>8. IsRsaPrivateKey(k)
  BY <1>6, <1>7 DEF IsRsaPrivateKey, IsPrimes, IsVec
<1> QED
  BY <1>8 DEF k

-----------------------------------------------------------------------------
(* Elements and the rows they are read by.                                 *)

(* The row that each element is read by: in their order, by the tag. The   *)
(* other rows are optional ones.                                           *)
Aligned(p, n, rows, e, f) ==
  /\ \A j \in 1..Len(e) : p[j] \in 1..n /\ e[j][1] = rows[p[j]].tag /\ f[p[j]] = e[j][2]
  /\ \A j, k \in 1..Len(e) : j < k => p[j] < p[k]
  /\ \A i \in 1..n : (\A j \in 1..Len(e) : p[j] # i) => f[i] = None /\ rows[i].optional

(* A decoder that succeeds has read every element by a row.                *)
LEMMA ReadInOrder ==
  ASSUME NEW n \in Nat, NEW rows, Len(rows) = n, DOMAIN rows = 1..n,
         NEW e, Fields(rows, e) # Malformed
  PROVE  Len(e) \in Nat /\ \E p : Aligned(p, n, rows, e, Fields(rows, e))
<1> DEFINE f == Fields(rows, e)
<1>1. PICK r : ReadBy(r, n, rows, e)
  BY ReadSteps
<1> DEFINE t(i) == r[i].taken
           Takes(i) == t(i) = t(i - 1) + 1
<1>2. /\ f = r[n].got /\ t(n) = Len(e)
      /\ \A i \in 1..n : f[i] = None => rows[i].optional
  BY <1>1 DEF ReadBy, AllTaken
<1>3. t(0) = 0 /\ \A i \in 0..n : t(i) \in Nat
  BY <1>1 DEF ReadBy
<1>4. ASSUME NEW i \in 1..n
      PROVE  /\ i - 1 \in 0..n /\ i \in 0..n
             /\ t(i) = t(i - 1) \/ t(i) = t(i - 1) + 1
             /\ Takes(i) => e[t(i)][1] = rows[i].tag /\ r[i].got[i] = e[t(i)][2]
             /\ ~Takes(i) => r[i].got[i] = None
             /\ \A j \in 1..(i - 1) : r[i].got[j] = r[i - 1].got[j]
  <2>1. i - 1 \in 0..n /\ i \in 0..n
    OBVIOUS
  <2>2. t(i - 1) \in Nat /\ t(i) \in Nat
    BY <1>3, <2>1
  <2> DEFINE takes == t(i - 1) < Len(e) /\ e[t(i - 1) + 1][1] = rows[i].tag
  <2>3. /\ t(i) = IF takes THEN t(i - 1) + 1 ELSE t(i - 1)
        /\ r[i].got[i] = IF takes THEN e[t(i - 1) + 1][2] ELSE None
        /\ \A j \in 1..(i - 1) : r[i].got[j] = r[i - 1].got[j]
    BY <1>1 DEF ReadBy
  <2>4. Takes(i) <=> takes
    <3> HIDE DEF takes
    <3> QED
      BY <2>2, <2>3
  <2> QED
    BY <2>1, <2>2, <2>3, <2>4
(* More is taken with every row, and what a row got stays.                 *)
<1>5. ASSUME NEW i \in 0..n, NEW k \in i..n
      PROVE  t(i) <= t(k) /\ \A j \in 1..i : r[k].got[j] = r[i].got[j]
  <2> DEFINE Keeps(m) == t(i) <= t(m) /\ \A j \in 1..i : r[m].got[j] = r[i].got[j]
             S == {m \in 0..n : m < i \/ Keeps(m)}
  <2>1. Keeps(i)
    BY <1>3
  <2>2. ASSUME NEW m \in 1..n, m > i, Keeps(m - 1) PROVE Keeps(m)
    <3>1. t(i) \in Nat /\ t(m - 1) \in Nat /\ t(m) \in Nat
      BY <1>3, <1>4
    <3>2. t(m) = t(m - 1) \/ t(m) = t(m - 1) + 1
      BY <1>4
    <3>3. \A j \in 1..i : r[m].got[j] = r[m - 1].got[j]
      BY <1>4, <2>2
    <3> QED
      BY <2>2, <3>1, <3>2, <3>3
  <2> HIDE DEF Keeps
  <2>3. 0 \in S
    BY <2>1
  <2>4. ASSUME NEW m \in 1..n, m - 1 \in S PROVE m \in S
    BY <2>1, <2>2, <2>4
  <2>5. k \in 0..n
    OBVIOUS
  <2>6. k \in S
    <3> HIDE DEF S
    <3> QED
      BY <2>3, <2>4, <2>5, UpTo
  <2>7. Keeps(k)
    BY <2>6
  <2> QED
    BY <2>7 DEF Keeps
<1>6. \A i \in 1..n : f[i] = r[i].got[i]
  <2> SUFFICES ASSUME NEW i \in 1..n PROVE f[i] = r[i].got[i]
    OBVIOUS
  <2>1. i \in 0..n /\ n \in i..n
    OBVIOUS
  <2> QED
    BY <1>2, <1>5, <2>1
(* Every element was taken by a row.                                       *)
<1> DEFINE By(j, i) == Takes(i) /\ t(i) = j
<1>7. ASSUME NEW j \in 1..t(n) PROVE \E i \in 1..n : By(j, i)
  <2> DEFINE S == {m \in 0..n : t(m) < j \/ \E i \in 1..n : By(j, i)}
  <2>1. 0 \in S
    BY <1>3
  <2>2. ASSUME NEW m \in 1..n, m - 1 \in S PROVE m \in S
    <3>1. t(m - 1) \in Nat /\ t(m) \in Nat /\ j \in Nat /\ m \in 0..n
      BY <1>2, <1>3, <1>4
    <3>2. t(m) = t(m - 1) \/ t(m) = t(m - 1) + 1
      BY <1>4
    <3>3. CASE t(m - 1) < j /\ ~(t(m) < j)
      BY <3>1, <3>2, <3>3
    <3> QED
      BY <2>2, <3>1, <3>2, <3>3
  <2>3. n \in 0..n
    OBVIOUS
  <2>4. n \in S
    <3> HIDE DEF S
    <3> QED
      BY <2>1, <2>2, <2>3, UpTo
  <2> QED
    BY <2>4, <1>3
<1> DEFINE p == [j \in 1..t(n) |-> CHOOSE i \in 1..n : By(j, i)]
<1>8. \A j \in 1..t(n) : p[j] \in 1..n /\ By(j, p[j])
  <2> HIDE DEF By
  <2> QED
    BY <1>7
<1> HIDE DEF p
<1>9. \A j \in 1..t(n) : e[j][1] = rows[p[j]].tag /\ f[p[j]] = e[j][2]
  <2> SUFFICES ASSUME NEW j \in 1..t(n) PROVE e[j][1] = rows[p[j]].tag /\ f[p[j]] = e[j][2]
    OBVIOUS
  <2> DEFINE i == p[j]
  <2>1. i \in 1..n /\ Takes(i) /\ t(i) = j
    BY <1>8
  <2> HIDE DEF i
  <2>2. e[t(i)][1] = rows[i].tag /\ r[i].got[i] = e[t(i)][2]
    BY <1>4, <2>1
  <2>3. e[j][1] = rows[i].tag /\ f[i] = e[j][2]
    BY <1>6, <2>1, <2>2
  <2> QED
    BY <2>3 DEF i
<1>10. ASSUME NEW j \in 1..t(n), NEW k \in 1..t(n), j < k PROVE p[j] < p[k]
  <2>1. p[j] \in 1..n /\ p[k] \in 1..n /\ t(p[j]) = j /\ t(p[k]) = k
    BY <1>8
  <2>2. CASE p[k] <= p[j]
    <3>1. p[k] \in 0..n /\ p[j] \in p[k]..n
      BY <2>1, <2>2
    <3>2. t(p[k]) <= t(p[j])
      BY <1>5, <3>1
    <3> QED
      BY <1>3, <1>10, <2>1, <3>2
  <2> QED
    BY <2>1, <2>2
<1>11. ASSUME NEW i \in 1..n, \A j \in 1..t(n) : p[j] # i PROVE f[i] = None /\ rows[i].optional
  <2>1. CASE Takes(i)
    <3>1. t(i) \in Nat /\ t(i - 1) \in Nat /\ t(n) \in Nat /\ i \in 0..n /\ n \in i..n
      BY <1>3, <1>4
    <3>2. t(i) \in 1..t(n)
      BY <2>1, <3>1, <1>5
    <3>3. p[t(i)] \in 1..n /\ Takes(p[t(i)]) /\ t(p[t(i)]) = t(i) /\ p[t(i)] # i
      BY <1>8, <1>11, <3>2
    <3> DEFINE k == p[t(i)]
    <3> HIDE DEF k
    <3>4. k \in 1..n /\ Takes(k) /\ t(k) = t(i) /\ k # i
      BY <3>3 DEF k
    <3>5. t(k - 1) \in Nat /\ t(i - 1) \in Nat
      BY <1>3, <1>4, <3>4
    <3>6. CASE k < i
      <4>1. k \in 0..n /\ i - 1 \in k..n
        BY <3>4, <3>6
      <4> QED
        BY <1>5, <2>1, <3>1, <3>4, <3>5, <4>1
    <3>7. CASE i < k
      <4>1. i \in 0..n /\ k - 1 \in i..n
        BY <3>4, <3>7
      <4> QED
        BY <1>5, <2>1, <3>1, <3>4, <3>5, <4>1
    <3> QED
      BY <3>4, <3>6, <3>7
  <2>2. CASE ~Takes(i)
    BY <1>2, <1>4, <1>6, <2>2
  <2> QED
    BY <2>1, <2>2
<1>12. Aligned(p, n, rows, e, f)
  BY <1>2, <1>8, <1>9, <1>10, <1>11 DEF Aligned
<1>13. t(n) \in Nat
  BY <1>3
<1> QED
  BY <1>2, <1>12, <1>13

(* As the rows before it are told apart (Unambiguous), so are the rows     *)
(* after one: an optional row, and any that may have come last before it.  *)
UnambiguousBack(n, rows) ==
  \A i, j \in 1..n :
    i < j /\ (\A k \in (i + 1)..j : rows[k].optional) => rows[i].tag # rows[j].tag

(* Two documents that begin alike begin with the same rows.                *)
LEMMA SameBeginning ==
  ASSUME NEW n \in Nat, NEW rows, Unambiguous(n, rows),
         NEW e1, Len(e1) \in Nat, NEW f1, NEW p1, Aligned(p1, n, rows, e1, f1),
         NEW e2, Len(e2) \in Nat, NEW f2, NEW p2, Aligned(p2, n, rows, e2, f2),
         NEW m \in Nat, m <= Len(e1), m <= Len(e2), \A j \in 1..m : e1[j][1] = e2[j][1]
  PROVE  \A j \in 1..m : p1[j] = p2[j]
<1> DEFINE S == {j \in 0..m : j = 0 \/ p1[j] = p2[j]}
<1>1. ASSUME NEW j \in 1..m, j - 1 \in S PROVE j \in S
  <2>0. j \in 0..m /\ j \in 1..Len(e1) /\ j \in 1..Len(e2) /\ (j > 1 => j - 1 \in 1..Len(e1) /\ j - 1 \in 1..Len(e2))
    OBVIOUS
  <2>1. /\ p1[j] \in 1..n /\ rows[p1[j]].tag = e1[j][1] /\ p2[j] \in 1..n /\ rows[p2[j]].tag = e2[j][1]
        /\ rows[p1[j]].tag = rows[p2[j]].tag
    BY <2>0 DEF Aligned
  <2>2. j > 1 => p1[j - 1] = p2[j - 1] /\ p1[j - 1] < p1[j] /\ p2[j - 1] < p2[j] /\ p1[j - 1] \in 1..n
    BY <1>1, <2>0 DEF Aligned
  <2>3. CASE p1[j] < p2[j]
    <3>1. ASSUME NEW k \in p1[j]..(p2[j] - 1) PROVE rows[k].optional
      <4>1. k \in 1..n
        BY <2>1
      <4>2. \A h \in 1..Len(e2) : p2[h] # k
        <5> SUFFICES ASSUME NEW h \in 1..Len(e2), p2[h] = k PROVE FALSE
          OBVIOUS
        <5>1. h < j
          <6>1. ~(j < h) /\ h # j
            BY <2>0, <2>1 DEF Aligned
          <6> QED
            BY <6>1
        <5>2. j > 1 /\ (h = j - 1 \/ h < j - 1)
          BY <5>1
        <5>3. p2[h] <= p2[j - 1]
          <6>1. p2[j - 1] \in 1..n /\ j - 1 \in 1..Len(e2)
            BY <2>0, <2>2, <5>2
          <6>2. h < j - 1 => p2[h] < p2[j - 1]
            BY <6>1 DEF Aligned
          <6> QED
            BY <2>1, <5>2, <6>1, <6>2
        <5> QED
          BY <2>1, <2>2, <5>2, <5>3
      <4> QED
        BY <4>1, <4>2 DEF Aligned
    <3> QED
      BY <2>1, <2>3, <3>1 DEF Unambiguous
  <2>4. CASE p2[j] < p1[j]
    <3>1. ASSUME NEW k \in p2[j]..(p1[j] - 1) PROVE rows[k].optional
      <4>1. k \in 1..n
        BY <2>1
      <4>2. \A h \in 1..Len(e1) : p1[h] # k
        <5> SUFFICES ASSUME NEW h \in 1..Len(e1), p1[h] = k PROVE FALSE
          OBVIOUS
        <5>1. h < j
          <6>1. ~(j < h) /\ h # j
            BY <2>0, <2>1 DEF Aligned
          <6> QED
            BY <6>1
        <5>2. j > 1 /\ (h = j - 1 \/ h < j - 1)
          BY <5>1
        <5>3. p1[h] <= p1[j - 1]
          <6>1. p1[j - 1] \in 1..n /\ j - 1 \in 1..Len(e1)
            BY <2>0, <2>2, <5>2
          <6>2. h < j - 1 => p1[h] < p1[j - 1]
            BY <6>1 DEF Aligned
          <6> QED
            BY <2>1, <5>2, <6>1, <6>2
        <5> QED
          BY <2>1, <2>2, <5>2, <5>3
      <4> QED
        BY <4>1, <4>2 DEF Aligned
    <3> QED
      BY <2>1, <2>4, <3>1 DEF Unambiguous
  <2> QED
    BY <2>0, <2>1, <2>3, <2>4
<1>2. \A j \in 0..m : j \in S
  <2>1. 0 \in S
    OBVIOUS
  <2> HIDE DEF S
  <2> QED
    BY <1>1, <2>1, UpTo
<1> QED
  BY <1>2

(* The last elements of two documents have the same tags.                  *)
EndAlike(m, e1, e2) == \A j \in 1..m : e1[Len(e1) + 1 - j][1] = e2[Len(e2) + 1 - j][1]

SameRowsLast(m, p1, l1, p2, l2) == \A j \in 1..m : p1[l1 + 1 - j] = p2[l2 + 1 - j]

(* And two that end alike end with the same rows.                          *)
LEMMA SameEnd ==
  ASSUME NEW n \in Nat, NEW rows, UnambiguousBack(n, rows),
         NEW e1, Len(e1) \in Nat, NEW f1, NEW p1, Aligned(p1, n, rows, e1, f1),
         NEW e2, Len(e2) \in Nat, NEW f2, NEW p2, Aligned(p2, n, rows, e2, f2),
         NEW m \in Nat, m <= Len(e1), m <= Len(e2), EndAlike(m, e1, e2)
  PROVE  SameRowsLast(m, p1, Len(e1), p2, Len(e2))
<1> DEFINE n1 == Len(e1) + 1
           n2 == Len(e2) + 1
           S == {j \in 0..m : j = 0 \/ p1[n1 - j] = p2[n2 - j]}
<1>0. n1 \in Nat /\ n2 \in Nat /\ Len(e1) = n1 - 1 /\ Len(e2) = n2 - 1
  OBVIOUS
<1> HIDE DEF n1, n2
<1>1. ASSUME NEW j \in 1..m, j - 1 \in S PROVE j \in S
  <2> DEFINE a == n1 - j
             b == n2 - j
  <2>0. /\ j \in 0..m /\ a \in 1..Len(e1) /\ b \in 1..Len(e2)
        /\ (j > 1 => a + 1 \in 1..Len(e1) /\ b + 1 \in 1..Len(e2) /\ n1 - (j - 1) = a + 1 /\ n2 - (j - 1) = b + 1)
        /\ (j = 1 => a = Len(e1) /\ b = Len(e2))
    BY <1>0
  <2>a. e1[a][1] = e2[b][1]
    BY DEF n1, n2, EndAlike
  <2>b. j > 1 => p1[a + 1] = p2[b + 1]
    BY <1>1, <2>0
  <2>c. a = n1 - j /\ b = n2 - j /\ a \in Int /\ b \in Int
    BY <1>0
  <2> HIDE DEF a, b
  <2>1. /\ p1[a] \in 1..n /\ rows[p1[a]].tag = e1[a][1] /\ p2[b] \in 1..n /\ rows[p2[b]].tag = e2[b][1]
        /\ rows[p1[a]].tag = rows[p2[b]].tag
    BY <2>0, <2>a DEF Aligned
  <2>2. j > 1 => p1[a] < p1[a + 1] /\ p2[b] < p2[b + 1] /\ p1[a + 1] \in 1..n
    BY <2>0 DEF Aligned
  <2>3. CASE p1[a] < p2[b]
    <3>1. ASSUME NEW k \in (p1[a] + 1)..p2[b] PROVE rows[k].optional
      <4>1. k \in 1..n
        BY <2>1
      <4>2. \A h \in 1..Len(e1) : p1[h] # k
        <5> SUFFICES ASSUME NEW h \in 1..Len(e1), p1[h] = k PROVE FALSE
          OBVIOUS
        <5>1. a < h
          <6>1. h # a
            BY <2>1
          <6>2. ~(h < a)
            BY <2>0, <2>1 DEF Aligned
          <6> QED
            BY <2>c, <6>1, <6>2
        <5>2. j > 1 /\ (h = a + 1 \/ a + 1 < h)
          BY <2>0, <2>c, <5>1
        <5>3. p1[a + 1] <= p1[h]
          <6>1. p1[a + 1] \in 1..n /\ a + 1 \in 1..Len(e1)
            BY <2>0, <2>2, <2>b, <5>2
          <6>2. a + 1 < h => p1[a + 1] < p1[h]
            BY <6>1 DEF Aligned
          <6> QED
            BY <2>1, <5>2, <6>1, <6>2
        <5> QED
          BY <2>1, <2>2, <2>b, <5>2, <5>3
      <4> QED
        BY <4>1, <4>2 DEF Aligned
    <3> QED
      BY <2>1, <2>3, <3>1 DEF UnambiguousBack
  <2>4. CASE p2[b] < p1[a]
    <3>1. ASSUME NEW k \in (p2[b] + 1)..p1[a] PROVE rows[k].optional
      <4>1. k \in 1..n
        BY <2>1
      <4>2. \A h \in 1..Len(e2) : p2[h] # k
        <5> SUFFICES ASSUME NEW h \in 1..Len(e2), p2[h] = k PROVE FALSE
          OBVIOUS
        <5>1. b < h
          <6>1. h # b
            BY <2>1
          <6>2. ~(h < b)
            <7>1. h < b => p2[h] < p2[b]
              BY <2>0 DEF Aligned
            <7> QED
              BY <2>1, <7>1
          <6> QED
            BY <2>c, <6>1, <6>2
        <5>2. j > 1 /\ (h = b + 1 \/ b + 1 < h)
          BY <2>0, <2>c, <5>1
        <5>3. p2[b + 1] <= p2[h]
          <6>1. p2[b + 1] \in 1..n /\ b + 1 \in 1..Len(e2)
            BY <2>0, <2>2, <2>b, <5>2
          <6>2. b + 1 < h => p2[b + 1] < p2[h]
            BY <6>1 DEF Aligned
          <6> QED
            BY <2>1, <5>2, <6>1, <6>2
        <5> QED
          BY <2>1, <2>2, <2>b, <5>2, <5>3
      <4> QED
        BY <4>1, <4>2 DEF Aligned
    <3> QED
      BY <2>1, <2>4, <3>1 DEF UnambiguousBack
  <2>5. CASE p1[a] = p2[b]
    BY <2>0, <2>5, <2>c
  <2> QED
    BY <2>1, <2>3, <2>4, <2>5
<1>2. \A j \in 0..m : j \in S
  <2>1. 0 \in S
    OBVIOUS
  <2> HIDE DEF S
  <2> QED
    BY <1>1, <2>1, UpTo
<1> QED
  BY <1>2 DEF n1, n2, SameRowsLast

(* A document without one of its elements.                                 *)
Without(e, d, i) ==
  /\ i \in 1..Len(e) /\ Len(d) = Len(e) - 1
  /\ \A j \in 1..(i - 1) : d[j] = e[j]
  /\ \A j \in i..Len(d) : d[j] = e[j + 1]

(* What is read from two documents is the same but for one optional field, *)
(* which one of them does not have.                                        *)
OneApart(n, rows, f, g) ==
  \E i \in 1..n :
    /\ rows[i].optional
    /\ f[i] = None \/ g[i] = None
    /\ \A j \in 1..n : j # i => f[j] = g[j]

(* An element less is an optional field less, and no other field is        *)
(* disturbed.                                                              *)
LEMMA LosingARow ==
  ASSUME NEW n \in Nat, NEW rows, Unambiguous(n, rows), UnambiguousBack(n, rows),
         NEW e, Len(e) \in Nat, NEW f, NEW p, Aligned(p, n, rows, e, f),
         NEW d, Len(d) \in Nat, NEW g, NEW q, Aligned(q, n, rows, d, g),
         NEW i, Without(e, d, i)
  PROVE  OneApart(n, rows, f, g)
<1> DEFINE m == Len(e)
<1>1. m \in Nat /\ Len(d) \in Nat
  OBVIOUS
<1>2. Aligned(p, n, rows, e, f)
  OBVIOUS
<1>3. Aligned(q, n, rows, d, g)
  OBVIOUS
<1>4. i \in 1..m /\ Len(d) = m - 1
  BY DEF Without
<1>5. \A j \in 1..(i - 1) : p[j] = q[j]
  <2>1. i - 1 \in Nat /\ i - 1 <= Len(e) /\ i - 1 <= Len(d)
    BY <1>1, <1>4
  <2>2. \A j \in 1..(i - 1) : e[j][1] = d[j][1]
    BY DEF Without
  <2> QED
    BY <1>1, <1>2, <1>3, <2>1, <2>2, SameBeginning
<1>6. \A j \in (i + 1)..m : p[j] = q[j - 1]
  <2> DEFINE l == m - i
  <2>1. l \in Nat /\ l <= Len(e) /\ l <= Len(d)
    BY <1>1, <1>4
  <2>2. EndAlike(l, e, d)
    <3> SUFFICES ASSUME NEW j \in 1..l PROVE e[Len(e) + 1 - j][1] = d[Len(d) + 1 - j][1]
      BY DEF EndAlike
    <3>1. Len(d) + 1 - j \in i..Len(d) /\ (Len(d) + 1 - j) + 1 = Len(e) + 1 - j
      BY <1>1, <1>4
    <3> QED
      BY <3>1 DEF Without
  <2>3. SameRowsLast(l, p, Len(e), q, Len(d))
    <3> HIDE DEF l
    <3>1. Len(e) \in Nat
      BY <1>1
    <3> HIDE DEF m
    <3> QED
      BY <1>1, <1>2, <1>3, <2>1, <2>2, <3>1, SameEnd
  <2> SUFFICES ASSUME NEW j \in (i + 1)..m PROVE p[j] = q[j - 1]
    OBVIOUS
  <2> DEFINE k == m + 1 - j
  <2>4. k \in 1..l /\ Len(e) + 1 - k = j /\ Len(d) + 1 - k = j - 1
    BY <1>1, <1>4
  <2> HIDE DEF k
  <2> QED
    BY <2>3, <2>4 DEF SameRowsLast
<1>7. p[i] \in 1..n
  BY <1>2, <1>4 DEF Aligned
<1>8. ASSUME NEW h \in 1..Len(d) PROVE q[h] # p[i]
  <2>1. CASE h < i
    <3>1. h \in 1..(i - 1) /\ h \in 1..m
      BY <1>1, <1>4, <2>1
    <3>2. p[h] < p[i] /\ p[h] = q[h] /\ p[h] \in 1..n
      BY <1>2, <1>4, <1>5, <2>1, <3>1 DEF Aligned
    <3> QED
      BY <1>7, <3>2
  <2>2. CASE h >= i
    <3>1. h + 1 \in (i + 1)..m /\ (h + 1) - 1 = h /\ h + 1 \in 1..m /\ i < h + 1
      BY <1>1, <1>4, <2>2
    <3>2. p[i] < p[h + 1] /\ p[h + 1] = q[h] /\ p[h + 1] \in 1..n
      BY <1>2, <1>4, <1>6, <3>1 DEF Aligned
    <3> QED
      BY <1>7, <3>2
  <2> QED
    BY <1>4, <2>1, <2>2
<1>9. g[p[i]] = None /\ rows[p[i]].optional
  BY <1>3, <1>7, <1>8 DEF Aligned
<1>10. ASSUME NEW k \in 1..n, k # p[i] PROVE f[k] = g[k]
  <2>1. CASE \E j \in 1..m : p[j] = k
    <3>1. PICK j \in 1..m : p[j] = k
      BY <2>1
    <3>2. f[k] = e[j][2] /\ j # i
      BY <1>2, <1>10, <3>1 DEF Aligned
    <3>3. CASE j < i
      <4>1. j \in 1..(i - 1) /\ j \in 1..Len(d)
        BY <1>1, <1>4, <3>3
      <4>2. q[j] = k /\ d[j] = e[j]
        BY <1>5, <3>1, <4>1 DEF Without
      <4>3. g[q[j]] = d[j][2]
        BY <1>3, <4>1 DEF Aligned
      <4> QED
        BY <3>2, <4>2, <4>3
    <3>4. CASE i < j
      <4>1. j \in (i + 1)..m /\ j - 1 \in 1..Len(d) /\ j - 1 \in i..Len(d) /\ (j - 1) + 1 = j
        BY <1>1, <1>4, <3>4
      <4>2. q[j - 1] = k /\ d[j - 1] = e[j]
        BY <1>6, <3>1, <4>1 DEF Without
      <4>3. g[q[j - 1]] = d[j - 1][2]
        BY <1>3, <4>1 DEF Aligned
      <4> QED
        BY <3>2, <4>2, <4>3
    <3> QED
      BY <1>4, <3>2, <3>3, <3>4
  <2>2. CASE \A j \in 1..m : p[j] # k
    <3>1. f[k] = None
      BY <1>2, <2>2 DEF Aligned
    <3>2. ASSUME NEW h \in 1..Len(d) PROVE q[h] # k
      <4>1. CASE h < i
        <5>1. h \in 1..(i - 1) /\ h \in 1..m
          BY <1>1, <1>4, <4>1
        <5> QED
          BY <1>5, <2>2, <5>1
      <4>2. CASE h >= i
        <5>1. h + 1 \in (i + 1)..m /\ (h + 1) - 1 = h /\ h + 1 \in 1..m
          BY <1>1, <1>4, <4>2
        <5> QED
          BY <1>6, <2>2, <5>1
      <4> QED
        BY <1>4, <4>1, <4>2
    <3>3. g[k] = None
      BY <1>3, <3>2 DEF Aligned
    <3> QED
      BY <3>1, <3>3
  <2> QED
    BY <2>1, <2>2
<1> QED
  BY <1>7, <1>9, <1>10 DEF OneApart

(* The same of what is read.                                               *)
LEMMA LosingOne ==
  ASSUME NEW n \in Nat, NEW rows, Len(rows) = n, DOMAIN rows = 1..n,
         Unambiguous(n, rows), UnambiguousBack(n, rows),
         NEW e, Fields(rows, e) # Malformed, NEW d, Fields(rows, d) # Malformed, NEW i, Without(e, d, i)
  PROVE  OneApart(n, rows, Fields(rows, e), Fields(rows, d))
<1>1. Len(e) \in Nat /\ Len(d) \in Nat
  BY ReadInOrder
<1>2. PICK p : Aligned(p, n, rows, e, Fields(rows, e))
  BY ReadInOrder
<1>3. PICK q : Aligned(q, n, rows, d, Fields(rows, d))
  BY ReadInOrder
<1> QED
  BY <1>1, <1>2, <1>3, LosingARow

(* Two documents that read the same, but for a pair of neighbours.         *)
Swapped(e, d, i) ==
  /\ i \in 1..Len(e) /\ i + 1 \in 1..Len(e) /\ Len(d) = Len(e)
  /\ d[i] = e[i + 1] /\ d[i + 1] = e[i] /\ e[i][1] # e[i + 1][1]
  /\ \A j \in 1..Len(e) : j \notin {i, i + 1} => d[j] = e[j]

(* No decoder reads both an element after another and before it.           *)
LEMMA SwappingRows ==
  ASSUME NEW n \in Nat, NEW rows, Unambiguous(n, rows), UnambiguousBack(n, rows),
         \A j, k \in 1..n : rows[j].optional /\ rows[k].optional /\ rows[j].tag = rows[k].tag => j = k,
         NEW e, Len(e) \in Nat, NEW f, NEW p, Aligned(p, n, rows, e, f),
         NEW d, NEW g, NEW q, Aligned(q, n, rows, d, g),
         NEW i, Swapped(e, d, i)
  PROVE  FALSE
<1> DEFINE m == Len(e)
<1>1. m \in Nat /\ Len(d) = m /\ i \in 1..m /\ i + 1 \in 1..m
  BY DEF Swapped
<1>2. Aligned(p, n, rows, e, f)
  OBVIOUS
<1>3. Aligned(q, n, rows, d, g)
  OBVIOUS
<1>5. \A j \in 1..(i - 1) : p[j] = q[j]
  <2>1. i - 1 \in Nat /\ i - 1 <= Len(e) /\ i - 1 <= Len(d)
    BY <1>1
  <2>2. \A j \in 1..(i - 1) : e[j][1] = d[j][1]
    BY <1>1 DEF Swapped
  <2> QED
    BY <1>1, <1>2, <1>3, <2>1, <2>2, SameBeginning
<1>6. \A j \in (i + 2)..m : p[j] = q[j]
  <2> DEFINE l == m - i - 1
  <2>1. l \in Nat /\ l <= Len(e) /\ l <= Len(d)
    BY <1>1
  <2>2. EndAlike(l, e, d)
    <3> SUFFICES ASSUME NEW j \in 1..l PROVE e[Len(e) + 1 - j][1] = d[Len(d) + 1 - j][1]
      BY DEF EndAlike
    <3>1. Len(d) + 1 - j \in (i + 2)..m /\ Len(d) + 1 - j = Len(e) + 1 - j
      BY <1>1
    <3> QED
      BY <1>1, <3>1 DEF Swapped
  <2>3. SameRowsLast(l, p, Len(e), q, Len(d))
    <3> HIDE DEF l
    <3>1. Len(e) \in Nat
      BY <1>1
    <3> HIDE DEF m
    <3> QED
      BY <1>1, <1>2, <1>3, <2>1, <2>2, <3>1, SameEnd
  <2> SUFFICES ASSUME NEW j \in (i + 2)..m PROVE p[j] = q[j]
    OBVIOUS
  <2> DEFINE k == m + 1 - j
  <2>4. k \in 1..l /\ Len(e) + 1 - k = j /\ Len(d) + 1 - k = j
    BY <1>1
  <2> HIDE DEF k
  <2> QED
    BY <2>3, <2>4 DEF SameRowsLast
<1> DEFINE a == p[i]
           b == p[i + 1]
           c == q[i]
           z == q[i + 1]
<1>7. /\ a \in 1..n /\ b \in 1..n /\ a < b /\ c \in 1..n /\ z \in 1..n /\ c < z
      /\ rows[a].tag = e[i][1] /\ rows[b].tag = e[i + 1][1] /\ rows[a].tag # rows[b].tag
      /\ rows[c].tag = rows[b].tag /\ rows[z].tag = rows[a].tag
  BY <1>1, <1>2, <1>3 DEF Aligned, Swapped
(* A row that reads one of the two in one document only is optional.       *)
<1>8. ASSUME NEW k \in {a, b}, k \notin {c, z} PROVE rows[k].optional
  <2>1. ASSUME NEW h \in 1..m PROVE q[h] # k
    <3>1. CASE h < i
      <4>1. p[h] = q[h]
        BY <1>1, <1>5, <3>1
      <4>2. p[h] < p[i] /\ p[h] < p[i + 1] /\ p[h] \in 1..n
        BY <1>1, <1>2, <3>1 DEF Aligned
      <4> QED
        BY <1>7, <4>1, <4>2
    <3>2. CASE h > i + 1
      <4>1. p[h] = q[h]
        BY <1>1, <1>6, <3>2
      <4>2. p[i] < p[h] /\ p[i + 1] < p[h] /\ p[h] \in 1..n
        BY <1>1, <1>2, <3>2 DEF Aligned
      <4> QED
        BY <1>7, <4>1, <4>2
    <3>3. CASE h \in {i, i + 1}
      BY <1>8, <3>3
    <3> QED
      BY <1>1, <3>1, <3>2, <3>3
  <2> QED
    BY <1>1, <1>3, <1>7, <2>1 DEF Aligned
<1>9. ASSUME NEW k \in {c, z}, k \notin {a, b} PROVE rows[k].optional
  <2>1. ASSUME NEW h \in 1..m PROVE p[h] # k
    <3>1. CASE h < i
      <4>1. p[h] = q[h]
        BY <1>1, <1>5, <3>1
      <4>2. q[h] < q[i] /\ q[h] < q[i + 1] /\ q[h] \in 1..n
        BY <1>1, <1>3, <3>1 DEF Aligned
      <4> QED
        BY <1>7, <4>1, <4>2
    <3>2. CASE h > i + 1
      <4>1. p[h] = q[h]
        BY <1>1, <1>6, <3>2
      <4>2. q[i] < q[h] /\ q[i + 1] < q[h] /\ q[h] \in 1..n
        BY <1>1, <1>3, <3>2 DEF Aligned
      <4> QED
        BY <1>7, <4>1, <4>2
    <3>3. CASE h \in {i, i + 1}
      BY <1>9, <3>3
    <3> QED
      BY <1>1, <3>1, <3>2, <3>3
  <2> QED
    BY <1>1, <1>2, <1>7, <2>1 DEF Aligned
<1> HIDE DEF a, b, c, z
<1>10. b = c
  BY <1>7, <1>8, <1>9
<1>11. a = z
  BY <1>7, <1>8, <1>9
<1> QED
  BY <1>7, <1>10, <1>11

(* The same of what is read.                                               *)
LEMMA SwappingTwo ==
  ASSUME NEW n \in Nat, NEW rows, Len(rows) = n, DOMAIN rows = 1..n,
         Unambiguous(n, rows), UnambiguousBack(n, rows),
         \A j, k \in 1..n : rows[j].optional /\ rows[k].optional /\ rows[j].tag = rows[k].tag => j = k,
         NEW e, Fields(rows, e) # Malformed, NEW d, Fields(rows, d) # Malformed, NEW i, Swapped(e, d, i)
  PROVE  FALSE
<1>1. Len(e) \in Nat
  BY ReadInOrder
<1>2. PICK p : Aligned(p, n, rows, e, Fields(rows, e))
  BY ReadInOrder
<1>3. PICK q : Aligned(q, n, rows, d, Fields(rows, d))
  BY ReadInOrder
<1> QED
  BY <1>1, <1>2, <1>3, SwappingRows

(* The rows of a structure that are told apart from either end, and its    *)
(* optional ones among each other.                                         *)
ToldApart(n, rows) ==
  /\ Unambiguous(n, rows)
  /\ UnambiguousBack(n, rows)
  /\ \A j, k \in 1..n : rows[j].optional /\ rows[k].optional /\ rows[j].tag = rows[k].tag => j = k

(* A document that an element was dropped from, added to or moved in: one  *)
(* that is repeated is there twice, and either may be called the new one.  *)
AlteredTo(what, old, new) ==
  \E i \in Nat :
    \/ what = "drop" /\ Without(old, new, i)
    \/ what = "repeat" /\ Without(new, old, i) /\ Without(new, old, i + 1)
    \/ what = "spell" /\ Without(new, old, i)
    \/ what = "swap" /\ Swapped(old, new, i)

(* A decoder that reads both documents, before and after an alteration,    *)
(* finds one optional field in one of them and not in the other.           *)
LEMMA AlterationIsOneField ==
  ASSUME NEW n \in Nat, NEW rows, Len(rows) = n, DOMAIN rows = 1..n, ToldApart(n, rows),
         NEW what, NEW old, NEW new, AlteredTo(what, old, new),
         Fields(rows, old) # Malformed, Fields(rows, new) # Malformed
  PROVE  what # "swap" /\ OneApart(n, rows, Fields(rows, new), Fields(rows, old))
<1>1. PICK i \in Nat : \/ what = "drop" /\ Without(old, new, i)
                       \/ what \in {"repeat", "spell"} /\ Without(new, old, i)
                       \/ what = "swap" /\ Swapped(old, new, i)
  BY DEF AlteredTo
<1>2. Unambiguous(n, rows) /\ UnambiguousBack(n, rows)
  BY DEF ToldApart
<1>3. CASE what = "drop" /\ Without(old, new, i)
  <2>1. OneApart(n, rows, Fields(rows, old), Fields(rows, new))
    BY <1>2, <1>3, LosingOne
  <2> QED
    BY <1>3, <2>1 DEF OneApart
<1>4. CASE what \in {"repeat", "spell"} /\ Without(new, old, i)
  BY <1>2, <1>4, LosingOne
<1>5. CASE what = "swap" /\ Swapped(old, new, i)
  <2>1. \A j, k \in 1..n : rows[j].optional /\ rows[k].optional /\ rows[j].tag = rows[k].tag => j = k
    BY DEF ToldApart
  <2> QED
    BY <1>2, <1>5, <2>1, SwappingTwo
<1> QED
  BY <1>1, <1>3, <1>4, <1>5
=============================================================================
