----------------------- MODULE ResponseCaptureProofs -----------------------
(***************************************************************************)
(* ResponseCapture for any answers, requests, prices and cuts: an exchange *)
(* is billed at most once, and for exactly what was read of its answer;    *)
(* and UsageExtraction for any documents: what is found in one does not    *)
(* depend on the order in which it is searched.                            *)
(***************************************************************************)
EXTENDS DocumentCapture, TotalsProofs

-----------------------------------------------------------------------------
(* Where the lines of an answer are on its wire *)

\* The symbols of an answer.
HalfSymbols(a) == [line : 1..Len(a), half : {1, 2}]
SymbolsOf(a) == {LineFeed} \cup HalfSymbols(a)

\* The halves of a line.
Width(line) == IF line.kind = "blank" THEN 0 ELSE 2

\* Line k is the symbols from s[k - 1] + 1 on, and the line feed after it is symbol s[k].
Lays(a, s) ==
    /\ s \in [0..Len(a) -> Nat] /\ s[0] = 0
    /\ \A k \in 1..Len(a) : s[k] = s[k - 1] + Width(a[k]) + 1
    /\ Wire(a) \in Seq(SymbolsOf(a)) /\ Len(Wire(a)) = s[Len(a)] - 1
    /\ \A k \in 1..Len(a) :
          /\ \A h \in 1..Width(a[k]) : Wire(a)[s[k - 1] + h] = [line |-> k, half |-> h]
          /\ k < Len(a) => Wire(a)[s[k]] = LineFeed

\* What Wire joins for line i.
Piece(a, i) == (IF i = 1 THEN <<>> ELSE <<LineFeed>>)
                   \o (IF a[i].kind = "blank" THEN <<>> ELSE Halves(i))

\* The line feed of that piece.
Lead(i) == IF i = 1 THEN 0 ELSE 1

\* A line's piece of the wire is the line feed before it, if it is not the first, and its halves.
LEMMA PieceIs ==
  ASSUME NEW a \in Seq(Line), NEW i \in 1..Len(a)
  PROVE  /\ Piece(a, i) \in Seq(SymbolsOf(a)) /\ Len(Piece(a, i)) = Lead(i) + Width(a[i])
         /\ i # 1 => Piece(a, i)[1] = LineFeed
         /\ \A h \in 1..Width(a[i]) : Piece(a, i)[Lead(i) + h] = [line |-> i, half |-> h]
  <1> DEFINE S == SymbolsOf(a)
             x == [line |-> i, half |-> 1]
             y == [line |-> i, half |-> 2]
  <1>1. x \in S /\ y \in S /\ LineFeed \in S
    BY DEF SymbolsOf, HalfSymbols
  <1>2. Halves(i) = <<x, y>>
    BY DEF Halves
  <1>3. \A h \in 1..2 : [line |-> i, half |-> h] = IF h = 1 THEN x ELSE y
    OBVIOUS
  <1> DEFINE lf == LineFeed
  <1> HIDE DEF S, x, y, lf
  <1>4. CASE i = 1 /\ a[i].kind = "blank"
    <2>1. Piece(a, i) = <<>> /\ Width(a[i]) = 0
      BY <1>4 DEF Piece, Width
    <2>2. <<>> \in Seq(S) /\ Len(<<>>) = 0
      OBVIOUS
    <2>3. \A h \in 1..Width(a[i]) : FALSE
      BY <2>1
    <2>4. Lead(i) = 0
      BY <1>4 DEF Lead
    <2>5. Piece(a, i) \in Seq(S)
      BY <2>1, <2>2
    <2>6. Len(Piece(a, i)) = Lead(i) + Width(a[i])
      BY <2>1, <2>2, <2>4
    <2>7. ~(i # 1)
      BY <1>4
    <2> QED BY <2>3, <2>5, <2>6, <2>7 DEF S
  <1>5. CASE i = 1 /\ a[i].kind # "blank"
    <2>1. Piece(a, i) = <<>> \o <<x, y>> /\ Width(a[i]) = 2
      BY <1>2, <1>5 DEF Piece, Width
    <2>2. Piece(a, i) = <<x, y>> /\ <<x, y>> \in Seq(S)
      BY <1>1, <2>1
    <2>3. Len(<<x, y>>) = 2 /\ <<x, y>>[1] = x /\ <<x, y>>[2] = y
      OBVIOUS
    <2>4. \A h \in 1..2 : (h = 1 \/ h = 2) /\ 0 + h = h
      OBVIOUS
    <2>5. \A h \in 1..Width(a[i]) : Piece(a, i)[0 + h] = [line |-> i, half |-> h]
      BY <1>3, <2>1, <2>2, <2>3, <2>4
    <2>6. Lead(i) = 0
      BY <1>5 DEF Lead
    <2>7. Piece(a, i) \in Seq(S)
      BY <2>2
    <2>8. Len(Piece(a, i)) = Lead(i) + Width(a[i])
      BY <2>1, <2>2, <2>3, <2>6
    <2>9. ~(i # 1)
      BY <1>5
    <2> QED BY <2>5, <2>6, <2>7, <2>8, <2>9 DEF S
  <1>6. CASE i # 1 /\ a[i].kind = "blank"
    <2>1. Piece(a, i) = <<lf>> \o <<>> /\ Width(a[i]) = 0
      BY <1>6 DEF Piece, Width, lf
    <2>2. lf \in S
      BY <1>1 DEF lf
    <2>3. Piece(a, i) = <<lf>> /\ <<lf>> \in Seq(S) /\ Len(<<lf>>) = 1 /\ <<lf>>[1] = lf
      BY <2>1, <2>2
    <2>4. \A h \in 1..Width(a[i]) : FALSE
      BY <2>1
    <2>5. Lead(i) = 1
      BY <1>6 DEF Lead
    <2> QED BY <1>6, <2>1, <2>3, <2>4, <2>5 DEF S, lf
  <1>7. CASE i # 1 /\ a[i].kind # "blank"
    <2>1. Piece(a, i) = <<lf>> \o <<x, y>> /\ Width(a[i]) = 2
      BY <1>2, <1>7 DEF Piece, Width, lf
    <2>2. lf \in S
      BY <1>1 DEF lf
    <2> DEFINE u == <<lf>>
               v == <<x, y>>
               c == Piece(a, i)
    <2>3. u \in Seq(S) /\ v \in Seq(S) /\ Len(u) = 1 /\ Len(v) = 2 /\ u[1] = lf /\ v[1] = x /\ v[2] = y
      BY <1>1, <2>2
    <2>4. Lead(i) = 1 /\ c = u \o v
      BY <1>7, <2>1 DEF Lead
    <2> HIDE DEF u, v, c
    <2>5. /\ c \in Seq(S) /\ Len(c) = Len(u) + Len(v)
          /\ \A j \in 1..(Len(u) + Len(v)) : c[j] = IF j <= Len(u) THEN u[j] ELSE v[j - Len(u)]
      BY <2>3, <2>4, ConcatProperties
    <2>6. Len(c) = 3 /\ c[1] = lf /\ c[2] = x /\ c[3] = y
      BY <2>3, <2>5
    <2>7. \A h \in 1..2 : (h = 1 /\ 1 + h = 2) \/ (h = 2 /\ 1 + h = 3)
      OBVIOUS
    <2>8. \A h \in 1..Width(a[i]) : c[1 + h] = [line |-> i, half |-> h]
      BY <1>3, <2>1, <2>6, <2>7
    <2> QED BY <1>7, <2>1, <2>4, <2>5, <2>6, <2>8 DEF S, lf, c
  <1> QED BY <1>4, <1>5, <1>6, <1>7

\* The wire of an answer is laid out so.
LEMMA WireLaidOut ==
  ASSUME NEW a \in Seq(Line), a # <<>>
  PROVE  \E s : Lays(a, s)
  <1> DEFINE N == Len(a)
             S == SymbolsOf(a)
             seqs == [i \in 1..N |-> Piece(a, i)]
  <1>1. N \in Nat \ {0} /\ DOMAIN a = 1..N /\ \A i \in 1..N : a[i] \in Line
    OBVIOUS
  <1>2. Wire(a) = FlattenSeq(seqs)
    BY DEF Wire, Piece
  <1>3. seqs \in Seq(Seq(S)) /\ Len(seqs) = N /\ seqs # <<>>
    <2>1. \A i \in 1..N : Piece(a, i) \in Seq(S)
      BY PieceIs
    <2> HIDE DEF S
    <2>2. seqs \in [1..N -> Seq(S)]
      BY <2>1
    <2> QED BY <1>1, <2>2
  <1> HIDE DEF S
  <1>4. PICK f : /\ FlattenSeq(seqs) = f[N]
                 /\ \A i \in 1..N : f[i] \in Seq(S) /\ f[i] = IF i = 1 THEN seqs[i] ELSE f[i - 1] \o seqs[i]
    <2> HIDE DEF seqs
    <2> QED BY <1>3, FlattenJoins
  <1>5. \A i \in 1..N : seqs[i] = Piece(a, i)
    OBVIOUS
  <1> DEFINE s == [k \in 0..N |-> IF k = 0 THEN 0 ELSE Len(f[k]) + 1]
  <1>6. s \in [0..N -> Nat] /\ s[0] = 0 /\ \A k \in 1..N : Len(f[k]) \in Nat /\ s[k] = Len(f[k]) + 1
    <2>1. \A k \in 1..N : Len(f[k]) \in Nat
      BY <1>4
    <2> QED BY <1>1, <2>1
  <1> HIDE DEF s, seqs
  <1> DEFINE Laid(k) ==
               /\ s[k] = s[k - 1] + Width(a[k]) + 1
               /\ \A j \in 1..k : /\ \A h \in 1..Width(a[j]) : f[k][s[j - 1] + h] = [line |-> j, half |-> h]
                                  /\ j < k => f[k][s[j]] = LineFeed
             G == {k \in 0..N : \A j \in 1..k : Laid(j)}
  <1>7. \A k \in 1..N : Width(a[k]) \in {0, 2}
    BY DEF Width
  <1>8. 0 \in G
    BY <1>1
  <1>9. ASSUME NEW k \in 0..(N - 1), k \in G PROVE k + 1 \in G
    <2> DEFINE m == k + 1
               d == Lead(m)
               piece == Piece(a, m)
    <2>1. m \in 1..N /\ m \in 0..N
      BY <1>1
    <2>2. /\ piece \in Seq(S) /\ Len(piece) = d + Width(a[m])
          /\ m # 1 => piece[1] = LineFeed
          /\ \A h \in 1..Width(a[m]) : piece[d + h] = [line |-> m, half |-> h]
      BY <2>1, PieceIs DEF S
    <2>3. Laid(m)
      <3>1. CASE m = 1
        <4>1. f[m] = piece /\ d = 0
          BY <1>4, <1>5, <2>1, <3>1 DEF Lead
        <4>2. s[m] = Width(a[m]) + 1 /\ s[m - 1] = 0
          <5>1. m - 1 = 0 /\ s[m] = Len(f[m]) + 1
            BY <1>6, <2>1, <3>1
          <5>2. Len(f[m]) = Width(a[m])
            BY <1>7, <2>1, <2>2, <4>1
          <5> QED BY <1>6, <5>1, <5>2
        <4>3. ASSUME NEW j \in 1..m, NEW h \in 1..Width(a[j])
              PROVE  f[m][s[j - 1] + h] = [line |-> j, half |-> h]
          <5>1. j = m /\ s[j - 1] + h = d + h
            BY <1>7, <2>1, <3>1, <4>1, <4>2
          <5> QED BY <2>2, <4>1, <4>3, <5>1
        <4>4. \A j \in 1..m : ~(j < m)
          BY <3>1
        <4> HIDE DEF m, d, piece
        <4>5. s[m] = s[m - 1] + Width(a[m]) + 1
          BY <1>7, <2>1, <4>2
        <4> QED BY <4>3, <4>4, <4>5
      <3>2. CASE m # 1
        <4> DEFINE g == f[k]
        <4>1. k \in 1..N /\ k = m - 1 /\ f[m] = g \o piece /\ g \in Seq(S) /\ d = 1 /\ Laid(k)
          <5>1. k \in 1..N /\ k = m - 1 /\ d = 1
            BY <1>1, <3>2 DEF Lead
          <5>2. f[m] = f[m - 1] \o seqs[m] /\ seqs[m] = piece
            <6> HIDE DEF m, piece
            <6>1. m - 1 = k
              BY <5>1
            <6> QED BY <1>4, <1>5, <2>1, <3>2 DEF piece
          <5>3. f[k] \in Seq(S)
            BY <1>4, <5>1
          <5>4. Laid(k)
            <6>1. k \in 1..k
              BY <5>1
            <6> HIDE DEF Laid, m
            <6> QED BY <1>9, <6>1
          <5> HIDE DEF m, piece, Laid
          <5> QED BY <5>1, <5>2, <5>3, <5>4
        <4> HIDE DEF m, piece, g, d
        <4>2. /\ Len(f[m]) = Len(g) + Len(piece) /\ Len(g) \in Nat /\ Len(piece) \in Nat
              /\ \A j \in 1..(Len(g) + Len(piece)) :
                    f[m][j] = IF j <= Len(g) THEN g[j] ELSE piece[j - Len(g)]
          <5>1. piece \in Seq(S) /\ g \in Seq(S) /\ f[m] = g \o piece
            BY <2>2, <4>1
          <5> QED BY <5>1, ConcatProperties, LenProperties
        <4>3. s[k] = Len(g) + 1 /\ s[m] = Len(f[m]) + 1
          BY <1>6, <2>1, <4>1 DEF g
        <4>4. s[m] = s[m - 1] + Width(a[m]) + 1 /\ Len(piece) = 1 + Width(a[m]) /\ Width(a[m]) \in {0, 2}
          <5>1. Width(a[m]) \in {0, 2} /\ Len(piece) = 1 + Width(a[m])
            BY <1>7, <2>1, <2>2, <4>1
          <5>2. m - 1 = k
            BY <4>1
          <5>3. s[m] = Len(g) + Len(piece) + 1 /\ s[k] = Len(g) + 1
            BY <4>2, <4>3
          <5> HIDE DEF m, piece, g, d
          <5> QED BY <4>2, <5>1, <5>2, <5>3
        <4>0. k \in 1..N /\ s[k] \in Nat /\ \A q \in 0..k : q = k \/ s[q] < s[k]
          <5> DEFINE H == {i \in 0..k : \A q \in 0..i : q = i \/ s[q] < s[i]}
          <5>0. k \in 1..N /\ k \in Nat /\ \A i \in 0..k : i \in 0..N
            BY <1>1, <4>1
          <5>1. k \in 1..N /\ k \in Nat /\ \A i \in 0..k : s[i] \in Nat
            BY <1>6, <5>0
          <5>2. 0 \in H
            BY <5>1
          <5>3. ASSUME NEW i \in 0..(k - 1), i \in H PROVE i + 1 \in H
            <6>1. i + 1 \in 1..k /\ i \in 0..k /\ i + 1 \in 0..k /\ i + 1 \in 1..N /\ (i + 1) - 1 = i
              BY <1>1, <5>1
            <6>2. s[i + 1] = s[i] + Width(a[i + 1]) + 1
              <7>1. Laid(i + 1)
                <8> HIDE DEF Laid
                <8> QED BY <1>9, <6>1
              <7> QED BY <6>1, <7>1
            <6>3. Width(a[i + 1]) \in Nat
              BY <1>7, <6>1
            <6>4. s[i] < s[i + 1]
              BY <5>1, <6>1, <6>2, <6>3
            <6>5. \A q \in 0..(i + 1) : q \in 0..i \/ q = i + 1
              BY <6>1
            <6>6. \A q \in 0..i : (q = i \/ s[q] < s[i]) /\ q \in 0..k
              BY <5>1, <5>3, <6>1
            <6>7. \A q \in 0..(i + 1) : q = i + 1 \/ s[q] < s[i + 1]
              BY <5>1, <6>1, <6>4, <6>5, <6>6
            <6> QED BY <6>1, <6>7
          <5>4. \A i \in 0..k : i \in H
            <6> HIDE DEF H
            <6> QED BY <5>1, <5>2, <5>3, CountingInduction
          <5>5. k \in H
            BY <5>1, <5>4
          <5> QED BY <5>1, <5>5
        <4>5. ASSUME NEW j \in 1..m, NEW h \in 1..Width(a[j])
              PROVE  f[m][s[j - 1] + h] = [line |-> j, half |-> h]
          <5>1. CASE j = m
            <6>0. m - 1 = k /\ h \in 1..Width(a[m]) /\ h \in 1..2
              BY <2>1, <4>1, <4>4, <4>5, <5>1
            <6>1. s[m - 1] + h = Len(g) + (1 + h) /\ 1 + h \in 1..Len(piece)
              <7> DEFINE z == s[m - 1]
                         l == Len(g)
                         t == Len(piece)
                         w == Width(a[m])
              <7>1. z = l + 1 /\ l \in Nat
                BY <4>2, <4>3, <6>0
              <7>2. w \in {0, 2} /\ t = 1 + w /\ h \in 1..w
                BY <4>4, <6>0
              <7> HIDE DEF z, l, t, w
              <7>3. z + h = l + (1 + h) /\ 1 + h \in 1..t
                BY <7>1, <7>2
              <7> QED BY <7>3 DEF z, l, t
            <6>2. f[m][s[m - 1] + h] = piece[1 + h]
              <7>1. Len(g) + (1 + h) \in 1..(Len(g) + Len(piece)) /\ ~(Len(g) + (1 + h) <= Len(g))
                    /\ (Len(g) + (1 + h)) - Len(g) = 1 + h
                BY <4>2, <6>0, <6>1
              <7> QED BY <4>2, <6>1, <7>1
            <6> QED BY <2>2, <4>1, <5>1, <6>1, <6>2
          <5>2. CASE j # m
            <6>1. j \in 1..k /\ j \in 1..N /\ Width(a[j]) \in {0, 2} /\ h \in Nat
              BY <1>1, <1>7, <2>1, <4>1, <4>5, <5>2
            <6>2. s[j - 1] + h \in 1..Len(g)
              <7>1. s[j] = s[j - 1] + Width(a[j]) + 1 /\ s[j - 1] \in Nat /\ s[j] \in Nat
                <8>1. j - 1 \in 0..N /\ j \in 0..N
                  BY <6>1
                <8>2. Laid(j)
                  BY <1>9, <6>1
                <8> QED BY <1>6, <8>1, <8>2
              <7>2. s[j] <= s[k]
                <8>1. k \in Nat /\ j \in 0..k
                  BY <1>1, <4>1, <6>1
                <8> QED BY <4>0, <7>1, <8>1
              <7>3. s[j] = s[j - 1] + Width(a[j]) + 1 /\ h <= Width(a[j]) /\ 1 <= h
                BY <4>5, <6>1, <7>1
              <7>4. s[k] \in Nat
                BY <4>2, <4>3
              <7>5. s[j - 1] + h \in Nat /\ s[j - 1] + h >= 1 /\ s[j - 1] + h < s[k] /\ Len(g) \in Nat
                <8> DEFINE u == s[j - 1]
                           v == s[j]
                           w == Width(a[j])
                <8>1. u \in Nat /\ v \in Nat /\ w \in Nat /\ h \in Nat /\ v = u + w + 1 /\ h <= w /\ 1 <= h
                  BY <6>1, <7>1, <7>3
                <8>2. s[k] \in Nat /\ v <= s[k] /\ Len(g) \in Nat
                  BY <4>2, <7>2, <7>4
                <8> HIDE DEF u, v, w
                <8>3. u + h \in Nat /\ u + h >= 1 /\ u + h < s[k]
                  BY <8>1, <8>2
                <8> QED BY <8>2, <8>3 DEF u
              <7> QED BY <4>3, <7>5
            <6>3. f[m][s[j - 1] + h] = g[s[j - 1] + h]
              <7> DEFINE y == s[j - 1] + h
              <7>1. y \in 1..Len(g)
                BY <6>2
              <7>2. \A x \in 1..Len(g) : f[m][x] = g[x]
                BY <4>2
              <7> HIDE DEF y
              <7>3. f[m][y] = g[y]
                BY <7>1, <7>2
              <7> QED BY <7>3 DEF y
            <6>4. f[k][s[j - 1] + h] = [line |-> j, half |-> h]
              <7>1. \A i \in 1..k : \A x \in 1..Width(a[i]) : f[k][s[i - 1] + x] = [line |-> i, half |-> x]
                BY <4>1
              <7> QED BY <4>5, <6>1, <7>1
            <6> QED BY <6>3, <6>4 DEF g
          <5> QED BY <5>1, <5>2
        <4>6. ASSUME NEW j \in 1..m, j < m PROVE f[m][s[j]] = LineFeed
          <5>1. CASE j = k
            <6>1. s[j] = Len(g) + 1 /\ 1 \in 1..Len(piece)
              BY <4>3, <4>4, <5>1
            <6>2. f[m][s[j]] = piece[1]
              BY <4>2, <6>1
            <6> QED BY <2>2, <3>2, <6>2
          <5>2. CASE j # k
            <6>1. j \in 1..k /\ j < k /\ j \in 0..k /\ j \in 1..N
              BY <1>1, <2>1, <4>1, <4>6, <5>2
            <6>2. s[j] \in 1..Len(g)
              <7>1. s[j] \in Nat /\ s[j] >= 1
                BY <1>6, <6>1
              <7>2. s[j] < s[k] /\ s[k] = Len(g) + 1
                BY <4>0, <4>1, <4>3, <6>1
              <7>3. Len(g) \in Nat
                BY <4>2
              <7> QED BY <7>1, <7>2, <7>3
            <6>3. f[m][s[j]] = g[s[j]]
              BY <4>2, <6>2
            <6>4. f[k][s[j]] = LineFeed
              BY <4>1, <6>1
            <6> QED BY <6>3, <6>4 DEF g
          <5> QED BY <4>1, <4>6, <5>1, <5>2
        <4> QED BY <4>4, <4>5, <4>6
      <3> QED BY <3>1, <3>2
    <2>4. \A j \in 1..m : j \in 1..k \/ j = m
      BY <1>1
    <2> HIDE DEF Laid, m
    <2>5. \A j \in 1..m : Laid(j)
      BY <1>9, <2>3, <2>4
    <2>6. m \in G
      BY <2>1, <2>5
    <2> QED BY <2>6 DEF m
  <1>10. N \in G
    <2> HIDE DEF G
    <2>1. \A k \in 0..N : k \in G
      BY <1>1, <1>8, <1>9, CountingInduction
    <2> QED BY <1>1, <2>1
  <1>11. \A k \in 1..N : Laid(k)
    <2> HIDE DEF Laid
    <2> QED BY <1>10
  <1>12. N \in 1..N /\ f[N] = Wire(a)
    BY <1>1, <1>2, <1>4
  <1>13. Wire(a) \in Seq(S) /\ Len(Wire(a)) = s[N] - 1
    BY <1>4, <1>6, <1>12
  <1>14. /\ \A k \in 1..N : s[k] = s[k - 1] + Width(a[k]) + 1
         /\ \A k \in 1..N : /\ \A h \in 1..Width(a[k]) : Wire(a)[s[k - 1] + h] = [line |-> k, half |-> h]
                            /\ k < N => Wire(a)[s[k]] = LineFeed
    BY <1>11, <1>12
  <1>15. Lays(a, s)
    BY <1>6, <1>13, <1>14 DEF Lays, S
  <1> QED BY <1>15

\* Before symbol n + 1, d halves of line k have come.
Place(a, s, n, k, d) ==
    Lays(a, s) /\ k \in 1..Len(a) /\ d \in 0..Width(a[k]) /\ n = s[k - 1] + d

\* The next symbol is the next half of the line or, after the last, its line feed.
LEMMA NextSymbol ==
  ASSUME NEW a \in Seq(Line), NEW s, NEW n \in Nat, NEW k, NEW d,
         Place(a, s, n, k, d), n < Len(Wire(a))
  PROVE  \/ /\ d < Width(a[k]) /\ Wire(a)[n + 1] = [line |-> k, half |-> d + 1]
            /\ Place(a, s, n + 1, k, d + 1)
         \/ /\ d = Width(a[k]) /\ k < Len(a) /\ Wire(a)[n + 1] = LineFeed
            /\ Place(a, s, n + 1, k + 1, 0)
  <1> DEFINE N == Len(a)
             w == Width(a[k])
  <1>1. N \in Nat /\ k \in 1..N /\ w \in Nat /\ d \in 0..w /\ n = s[k - 1] + d
    BY DEF Place, Width
  <1>2. /\ s \in [0..N -> Nat] /\ s[k] = s[k - 1] + w + 1
        /\ \A h \in 1..w : Wire(a)[s[k - 1] + h] = [line |-> k, half |-> h]
        /\ k < N => Wire(a)[s[k]] = LineFeed
        /\ Len(Wire(a)) = s[N] - 1 /\ Lays(a, s)
    BY <1>1 DEF Place, Lays
  <1>3. s[k - 1] \in Nat /\ s[k] \in Nat
    BY <1>1, <1>2
  <1> HIDE DEF N, w
  <1>4. CASE d < w
    <2>1. d + 1 \in 1..w /\ d + 1 \in 0..w /\ n + 1 = s[k - 1] + (d + 1)
      <3> DEFINE z == s[k - 1]
      <3>1. z \in Nat /\ n = z + d /\ d \in 0..w /\ w \in Nat /\ d < w
        BY <1>1, <1>3, <1>4
      <3> HIDE DEF z
      <3>2. d + 1 \in 1..w /\ d + 1 \in 0..w /\ n + 1 = z + (d + 1)
        BY <3>1
      <3> QED BY <3>2 DEF z
    <2> QED BY <1>1, <1>2, <1>4, <2>1 DEF Place, N, w
  <1>5. CASE d = w
    <2>1. n + 1 = s[k]
      BY <1>1, <1>2, <1>3, <1>5
    <2>2. k # N
      BY <1>1, <1>2, <1>3, <1>5
    <2>3. k < N /\ k + 1 \in 1..N /\ (k + 1) - 1 = k
      BY <1>1, <2>2
    <2>4. 0 \in 0..Width(a[k + 1]) /\ s[k] = s[k] + 0
      BY <1>3 DEF Width
    <2> QED BY <1>1, <1>2, <1>5, <2>1, <2>3, <2>4 DEF Place, N, w
  <1> QED BY <1>1, <1>4, <1>5 DEF w

-----------------------------------------------------------------------------
(* What a parser can hold *)

\* What the assumptions say of an answer.
LEMMA AnswersFit ==
  ASSUME NEW a \in Answers
  PROVE  /\ a \in Seq(Line) /\ a # <<>> /\ Len(a) \in Nat \ {0} /\ DOMAIN a = 1..Len(a)
         /\ \A i \in 1..Len(a) :
               /\ a[i] \in Line /\ a[i].payload \in Payload
               /\ a[i].kind = "data" => a[i].part \in 1..a[i].of
               /\ a[i].kind = "json" => a[i].part = 1 /\ a[i].of = 1
         /\ \A line \in ToSet(a) : line \in Line /\ line.payload \in Payload
  <1>1. a \in Seq(Line) /\ a # <<>>
    BY AnswersAssumption, LinesAssumption
  <1>2. \A i \in 1..Len(a) : a[i] \in Line /\ a[i].payload \in Payload
    <2>1. \A i \in 1..Len(a) : a[i] \in Line
      BY <1>1
    <2> QED BY <2>1 DEF Line
  <1>3. Len(a) \in Nat \ {0} /\ DOMAIN a = 1..Len(a)
    BY <1>1
  <1>4. \A line \in ToSet(a) : line \in Line /\ line.payload \in Payload
    BY <1>2, <1>3 DEF ToSet
  <1> QED BY <1>1, <1>2, <1>3, <1>4, LinesAssumption

\* The documents of an answer hold texts, which are cut as they may be.
LEMMA TextsFit ==
  ASSUME NEW a \in Answers, NEW line \in ToSet(a)
  PROVE  line.payload.text \in Text /\ CutsWell(line.payload.text)
  <1>1. PICK i \in DOMAIN a : line = a[i]
    BY DEF ToSet
  <1>2. line.payload \in Payload
    BY AnswersFit
  <1> QED BY <1>1, <1>2, LinesAssumption DEF Payload

\* The characters a part of a text counts as.
LEMMA CutsCount ==
  ASSUME NEW text \in Text, CutsWell(text), NEW n \in 0..text.bytes
  PROVE  /\ Runes(text, n) \in 0..n /\ (n # 0 => Runes(text, n) # 0)
         /\ n = text.bytes => Runes(text, n) = text.chars
         /\ n = 0 => Runes(text, n) = 0
  <1>1. text.bytes \in Nat
    BY DEF Text
  <1>2. CASE n = 0
    BY <1>1, <1>2 DEF CutsWell
  <1>3. CASE n # 0
    <2>1. n \in 1..text.bytes
      BY <1>1, <1>3
    <2>2. Runes(text, n) \in 1..n
      BY <2>1 DEF CutsWell
    <2>3. n = text.bytes => Runes(text, n) = text.chars
      BY DEF CutsWell
    <2> QED BY <1>3, <2>1, <2>2, <2>3
  <1> QED BY <1>2, <1>3

\* The lines an event is gathered from, and the parsers an answer can leave.
Gathering(a) == [line : ToSet(a), whole : BOOLEAN]

Fields(a) == [pending : Seq(HalfSymbols(a)), event : Seq(Gathering(a)), usage : Usage,
              text : Nat, textLen : 0..MaxText, raw : Nat, gap : Nat, rawLen : 0..MaxText,
              size : Nat]
Parsers(a) == {p \in Fields(a) : p.text <= p.textLen /\ p.raw + p.gap <= p.rawLen}

\* Two parsers that differ, if at all, in their raw text and in what is billed.
SameRest(p, q) ==
    /\ q.pending = p.pending /\ q.event = p.event /\ q.usage = p.usage
    /\ q.text = p.text /\ q.textLen = p.textLen /\ q.size = p.size

\* The text of a half of a line, cut or not.
LEMMA HalvesFit ==
  ASSUME NEW a \in Answers, NEW symbol \in HalfSymbols(a), NEW alone \in BOOLEAN,
         NEW text, text = Sanitized(a[symbol.line], symbol.half, alone)
  PROVE  /\ symbol # LineFeed
         /\ text \in Text /\ CutsWell(text)
         /\ SymbolChars(a, symbol) \in Nat /\ SymbolBytes(a, symbol) \in Nat /\ SymbolRaw(a, symbol) \in Nat
         /\ SymbolChars(a, symbol) <= text.chars /\ text.chars <= SymbolBytes(a, symbol)
         /\ text.bytes <= SymbolRaw(a, symbol)
         /\ SymbolBytes(a, symbol) = 0 => SymbolRaw(a, symbol) = 0
  <1> DEFINE i == symbol.line
             h == symbol.half
             w == a[i].whole[h]
             c == a[i].cut[h]
             b == BytesOf(a[i], h)
  <1>1. i \in 1..Len(a) /\ i \in DOMAIN a /\ h \in 1..2 /\ a[i] \in Line
    <2>1. i \in 1..Len(a) /\ h \in {1, 2}
      BY DEF HalfSymbols
    <2> QED BY <2>1, AnswersFit
  <1>2. symbol # LineFeed
    <2>1. i # 0
      BY <1>1, AnswersFit
    <2> QED BY <2>1 DEF LineFeed
  <1>3. w \in Text /\ c \in Text
    BY <1>1 DEF Line
  <1>4. CutsWell(w) /\ CutsWell(c) /\ w.chars <= c.chars /\ c.chars <= b
    BY <1>1, LinesAssumption
  <1>5. b \in Nat
    <2>1. a[i].bytes \in Nat
      BY <1>1 DEF Line
    <2>2. a[i].bytes \div 2 \in Nat /\ a[i].bytes - a[i].bytes \div 2 \in Nat
      BY <2>1
    <2> QED BY <2>2 DEF BytesOf
  <1>6. /\ SymbolChars(a, symbol) = w.chars /\ SymbolBytes(a, symbol) = b
        /\ SymbolRaw(a, symbol) = Larger(w.bytes, c.bytes)
    BY <1>2 DEF SymbolChars, SymbolBytes, SymbolRaw
  <1>7. text = IF alone THEN c ELSE w
    BY DEF Sanitized
  <1> HIDE DEF w, c, b
  <1>8. /\ w.chars \in Nat /\ w.bytes \in Nat /\ c.chars \in Nat /\ c.bytes \in Nat
        /\ w.bytes <= 4 * w.chars /\ c.bytes <= 4 * c.chars
    BY <1>3 DEF Text
  <1>9. /\ Larger(w.bytes, c.bytes) \in Nat /\ w.bytes <= Larger(w.bytes, c.bytes)
        /\ c.bytes <= Larger(w.bytes, c.bytes)
        /\ b = 0 => Larger(w.bytes, c.bytes) = 0
    BY <1>4, <1>5, <1>8 DEF Larger
  <1>10. CASE alone
    BY <1>2, <1>3, <1>4, <1>5, <1>6, <1>7, <1>8, <1>9, <1>10
  <1>11. CASE ~alone
    <2>1. w.chars <= b
      BY <1>4, <1>5, <1>8
    <2> QED BY <1>2, <1>3, <1>4, <1>5, <1>6, <1>7, <1>8, <1>9, <1>11, <2>1
  <1> QED BY <1>10, <1>11

\* As much of a text is kept as there is room for, and it counts as it should.
LEMMA RawGrows ==
  ASSUME NEW a, NEW p \in Parsers(a), NEW text \in Text, CutsWell(text), NEW q, q = KeepRaw(p, text)
  PROVE  /\ q \in Parsers(a)
         /\ SameRest(p, q)
         /\ q.rawLen <= p.rawLen + text.bytes
         /\ p.rawLen + text.bytes <= MaxText =>
               q.raw + q.gap <= p.raw + p.gap + text.chars /\ q.raw >= p.raw + text.chars
  <1> DEFINE r == p.raw
             g == p.gap
             l == p.rawLen
             b == text.bytes
             kept == Smaller(b, MaxText - l)
             n == Runes(text, kept)
  <1>1. /\ p \in Fields(a) /\ r \in Nat /\ g \in Nat /\ l \in 0..MaxText /\ r + g <= l
        /\ p.text <= p.textLen /\ MaxText \in Nat
    BY ParserAssumption DEF Parsers, Fields
  <1>2. b \in Nat /\ text.chars \in Nat /\ text.chars <= b
    BY DEF Text
  <1>3. /\ kept \in 0..b /\ l + kept \in 0..MaxText
        /\ l + b <= MaxText => kept = b
    BY <1>1, <1>2 DEF Smaller
  <1>4. n \in 0..kept /\ (kept = b => n = text.chars)
    <2>1. \A k \in 0..text.bytes : /\ Runes(text, k) \in 0..k
                                   /\ k = text.bytes => Runes(text, k) = text.chars
      BY CutsCount
    <2> HIDE DEF kept
    <2> QED BY <1>3, <2>1
  <1> HIDE DEF n
  <1>5. CASE kept = 0
    <2>1. q = p
      BY <1>5 DEF KeepRaw
    <2>2. SameRest(p, p)
      BY DEF SameRest
    <2>3. l + b <= MaxText => text.chars = 0
      BY <1>2, <1>3, <1>5
    <2>4. l <= l + b
      BY <1>1, <1>2
    <2>5. l + b <= MaxText => r + g <= r + g + text.chars /\ r >= r + text.chars
      BY <1>1, <2>3
    <2> QED BY <2>1, <2>2, <2>4, <2>5
  <1>6. CASE kept # 0
    <2> DEFINE R == (IF r = 0 THEN 0 ELSE r + g) + n
               L == l + kept
    <2>1. q = [p EXCEPT !.raw = R, !.gap = 0, !.rawLen = L]
      BY <1>1, <1>6 DEF KeepRaw, Fields, n
    <2> HIDE DEF kept
    <2>2. R \in Nat /\ R <= L /\ L \in 0..MaxText /\ L <= l + b
      BY <1>1, <1>2, <1>3, <1>4
    <2>3. l + b <= MaxText => R <= r + g + text.chars /\ R >= r + text.chars
      BY <1>1, <1>2, <1>3, <1>4
    <2> HIDE DEF R, L
    <2>4. q.raw = R /\ q.gap = 0 /\ q.rawLen = L /\ SameRest(p, q) /\ q \in Fields(a)
      <3>1. q.raw = R /\ q.gap = 0 /\ q.rawLen = L /\ SameRest(p, q)
        BY <1>1, <2>1 DEF Fields, SameRest
      <3>2. R \in Nat /\ 0 \in Nat /\ L \in 0..MaxText
        BY <2>2
      <3> HIDE DEF r, g, l
      <3>3. q \in Fields(a)
        BY <1>1, <2>1, <3>2 DEF Fields
      <3> QED BY <3>1, <3>3
    <2>5. q \in Parsers(a)
      <3>1. q.text <= q.textLen
        BY <1>1, <2>4 DEF SameRest
      <3>2. q.raw + q.gap <= q.rawLen
        BY <2>2, <2>4
      <3> QED BY <2>4, <3>1, <3>2 DEF Parsers
    <2>6. q.raw + q.gap = R
      BY <2>2, <2>4
    <2> QED BY <2>1, <2>2, <2>3, <2>4, <2>5, <2>6
  <1> QED BY <1>5, <1>6

\* Nor does a line feed take more than there is room for; it holds no character.
LEMMA SpaceGrows ==
  ASSUME NEW a, NEW p \in Parsers(a), NEW q, q = KeepSpace(p)
  PROVE  /\ q \in Parsers(a)
         /\ SameRest(p, q)
         /\ q.rawLen <= p.rawLen + 1 /\ q.raw = p.raw
         /\ q.raw + q.gap <= p.raw + p.gap + 1
  <1>1. /\ p \in Fields(a) /\ p.raw \in Nat /\ p.gap \in Nat /\ p.rawLen \in 0..MaxText
        /\ p.raw + p.gap <= p.rawLen /\ p.text <= p.textLen /\ MaxText \in Nat
    BY ParserAssumption DEF Parsers, Fields
  <1>2. CASE p.rawLen = MaxText
    <2>1. q = p
      BY <1>2 DEF KeepSpace
    <2>2. SameRest(p, p)
      BY DEF SameRest
    <2> QED BY <1>1, <2>1, <2>2
  <1>3. CASE p.rawLen # MaxText
    <2>1. q = [p EXCEPT !.gap = p.gap + 1, !.rawLen = p.rawLen + 1]
      BY <1>1, <1>3 DEF KeepSpace, Fields
    <2>2. p.gap + 1 \in Nat /\ p.rawLen + 1 \in 0..MaxText /\ p.raw + (p.gap + 1) <= p.rawLen + 1
      BY <1>1, <1>3
    <2>3. /\ q.raw = p.raw /\ q.gap = p.gap + 1 /\ q.rawLen = p.rawLen + 1
          /\ SameRest(p, q)
      BY <1>1, <2>1, <2>2 DEF Fields, SameRest
    <2>5. q \in Fields(a)
      BY <1>1, <2>1, <2>2 DEF Fields
    <2>4. q \in Parsers(a)
      BY <1>1, <2>2, <2>3, <2>5 DEF Parsers, SameRest
    <2> QED BY <1>1, <2>3, <2>4
  <1> QED BY <1>2, <1>3

\* What two documents report together is a usage again.
LEMMA UsageMerges ==
  ASSUME NEW current \in Usage, NEW payload \in Payload
  PROVE  MergeUsage(current, payload) \in Usage
  BY DEF Usage, Payload, MergeUsage, Larger, Names

\* The bytes of a text that are kept after l others.
Room(text, l) == Smaller(text.bytes, MaxText - l)

\* A document changes the usage and the text.
LEMMA PayloadFits ==
  ASSUME NEW a, NEW p \in Parsers(a), NEW payload \in Payload, CutsWell(payload.text),
         NEW q, q = ProcessPayload(p, payload)
  PROVE  /\ q \in Parsers(a)
         /\ q = [p EXCEPT !.usage = MergeUsage(p.usage, payload),
                          !.text = p.text + Runes(payload.text, Room(payload.text, p.textLen)),
                          !.textLen = p.textLen + Room(payload.text, p.textLen)]
  <1> DEFINE x == payload.text
             k == Room(x, p.textLen)
             t == p.text + Runes(x, k)
             l == p.textLen + k
             u == MergeUsage(p.usage, payload)
  <1>1. /\ p \in Fields(a) /\ p.raw + p.gap <= p.rawLen /\ MaxText \in Nat /\ p.usage \in Usage
        /\ p.text \in Nat /\ p.textLen \in 0..MaxText /\ p.text <= p.textLen
    BY ParserAssumption DEF Parsers, Fields
  <1>2. q = [p EXCEPT !.usage = u, !.text = t, !.textLen = l]
    BY <1>1 DEF ProcessPayload, Room, Fields
  <1>3. u \in Usage
    BY <1>1, UsageMerges
  <1>4. x \in Text /\ CutsWell(x) /\ x.bytes \in Nat
    BY DEF Payload, Text
  <1>5. k \in 0..x.bytes /\ l \in 0..MaxText
    BY <1>1, <1>4 DEF Smaller, Room
  <1>6. Runes(x, k) \in 0..k
    <2> HIDE DEF x, k
    <2> QED BY <1>4, <1>5, CutsCount
  <1> HIDE DEF k
  <1>7. t \in Nat /\ t <= l
    BY <1>1, <1>5, <1>6
  <1> HIDE DEF t, u, l, x
  <1>8. q \in Fields(a) /\ q.text = t /\ q.textLen = l /\ q.raw = p.raw /\ q.gap = p.gap /\ q.rawLen = p.rawLen
    BY <1>1, <1>2, <1>3, <1>5, <1>7 DEF Fields
  <1>9. q \in Parsers(a)
    BY <1>1, <1>7, <1>8 DEF Parsers
  <1> QED BY <1>2, <1>9 DEF t, u, l, k, x

\* Two parsers that differ, if at all, in what is billed.
SameRaw(p, q) ==
    q.raw = p.raw /\ q.gap = p.gap /\ q.rawLen = p.rawLen /\ q.size = p.size

\* A document changes nothing else.
LEMMA PayloadKeeps ==
  ASSUME NEW a, NEW p \in Parsers(a), NEW payload \in Payload, CutsWell(payload.text),
         NEW q, q = ProcessPayload(p, payload)
  PROVE  q.pending = p.pending /\ q.event = p.event /\ SameRaw(p, q)
  <1>1. p \in Fields(a)
    BY DEF Parsers
  <1> QED BY <1>1 DEF ProcessPayload, Fields, SameRaw

\* The end of an event changes nothing but what it reports.
LEMMA FlushFits ==
  ASSUME NEW a \in Answers, NEW p \in Parsers(a), NEW q, q = FlushEvent(p)
  PROVE  q \in Parsers(a) /\ q.event = <<>> /\ q.pending = p.pending /\ SameRaw(p, q)
  <1> DEFINE e == [p EXCEPT !.event = <<>>]
  <1>1. p \in Fields(a)
    BY DEF Parsers
  <1>2. e \in Parsers(a) /\ e.event = <<>> /\ e.pending = p.pending /\ SameRaw(p, e)
    <2>1. <<>> \in Seq(Gathering(a)) /\ p.raw + p.gap <= p.rawLen /\ p.text <= p.textLen
      BY DEF Parsers
    <2> QED BY <1>1, <2>1 DEF Parsers, Fields, SameRaw
  <1>3. CASE p.event # <<>> /\ IsDocument(p.event)
    <2> DEFINE line == p.event[1].line
               payload == line.payload
    <2>1. payload \in Payload /\ CutsWell(payload.text)
      <3>1. p.event[1] \in Gathering(a)
        BY <1>1, <1>3 DEF Fields
      <3>2. line \in ToSet(a)
        BY <3>1 DEF Gathering
      <3> HIDE DEF line
      <3> QED BY <3>2, AnswersFit, TextsFit
    <2>2. q = ProcessPayload(e, payload)
      BY <1>3 DEF FlushEvent
    <2> HIDE DEF payload, e
    <2>3. q \in Parsers(a) /\ q.event = e.event /\ q.pending = e.pending /\ SameRaw(e, q)
      BY <1>2, <2>1, <2>2, PayloadFits, PayloadKeeps, ZenonT(30)
    <2> QED BY <1>2, <2>3 DEF SameRaw
  <1>4. CASE ~(p.event # <<>> /\ IsDocument(p.event))
    <2>1. q = e
      BY <1>4 DEF FlushEvent
    <2> HIDE DEF e
    <2> QED BY <1>2, <2>1
  <1> QED BY <1>3, <1>4

\* Nor does the end of a line.
LEMMA LineFits ==
  ASSUME NEW a \in Answers, NEW p \in Parsers(a), NEW q, q = ProcessLine(p, a)
  PROVE  q \in Parsers(a) /\ q.pending = <<>> /\ SameRaw(p, q)
  <1> DEFINE e == [p EXCEPT !.pending = <<>>]
             line == a[Head(p.pending).line]
             whole == Len(p.pending) = 2
  <1>1. p \in Fields(a)
    BY DEF Parsers
  <1>2. e \in Parsers(a) /\ e.pending = <<>> /\ SameRaw(p, e)
    <2>1. <<>> \in Seq(HalfSymbols(a)) /\ p.raw + p.gap <= p.rawLen /\ p.text <= p.textLen
      BY DEF Parsers
    <2> QED BY <1>1, <2>1 DEF Parsers, Fields, SameRaw
  <1>3. CASE p.pending = <<>>
    <2>1. q = FlushEvent(e)
      BY <1>3 DEF ProcessLine
    <2>2. q \in Parsers(a) /\ q.pending = e.pending /\ SameRaw(e, q)
      <3> HIDE DEF e
      <3> QED BY <1>2, <2>1, FlushFits
    <2> HIDE DEF e
    <2> QED BY <1>2, <2>2 DEF SameRaw
  <1>4. CASE p.pending # <<>>
    <2>1. Head(p.pending) \in HalfSymbols(a)
      BY <1>1, <1>4 DEF Fields
    <2>2. line \in ToSet(a)
      BY <2>1, AnswersFit DEF HalfSymbols, ToSet
    <2> HIDE DEF line
    <2>3. line.payload \in Payload /\ CutsWell(line.payload.text)
      BY <2>2, AnswersFit, TextsFit
    <2>4. CASE line.kind = "data"
      <3> DEFINE x == [line |-> line, whole |-> whole]
      <3>1. q = [e EXCEPT !.event = Append(e.event, x)]
        BY <1>4, <2>4 DEF ProcessLine, line
      <3>2. Append(e.event, x) \in Seq(Gathering(a))
        <4>1. x \in Gathering(a)
          BY <2>2 DEF Gathering
        <4>2. e.event \in Seq(Gathering(a))
          BY <1>2 DEF Parsers, Fields
        <4> HIDE DEF x, e
        <4> QED BY <4>1, <4>2
      <3> HIDE DEF x, e
      <3>3. q \in Parsers(a) /\ q.pending = e.pending /\ SameRaw(e, q)
        BY <1>2, <3>1, <3>2 DEF Parsers, Fields, SameRaw
      <3> QED BY <1>2, <3>3 DEF SameRaw
    <2>5. CASE line.kind # "data" /\ line.kind = "json" /\ whole
      <3>1. q = ProcessPayload(e, line.payload)
        BY <1>4, <2>5 DEF ProcessLine, line
      <3> HIDE DEF e
      <3> DEFINE payload == line.payload
      <3>2. payload \in Payload /\ CutsWell(payload.text) /\ q = ProcessPayload(e, payload)
        BY <2>3, <3>1
      <3> HIDE DEF payload
      <3>3. q \in Parsers(a) /\ q.pending = e.pending /\ SameRaw(e, q)
        BY <1>2, <3>2, PayloadFits, PayloadKeeps
      <3> QED BY <1>2, <3>3 DEF SameRaw
    <2>6. CASE line.kind # "data" /\ ~(line.kind = "json" /\ whole)
      <3>1. q = e
        BY <1>4, <2>6 DEF ProcessLine, line
      <3> HIDE DEF e
      <3> QED BY <1>2, <3>1
    <2> QED BY <2>4, <2>5, <2>6
  <1> QED BY <1>3, <1>4

-----------------------------------------------------------------------------
(* A chunk, symbol by symbol *)

\* The part of Take that comes before Feed, for a symbol that is alone in its line or not.
Kept(p, symbol, alone, a) ==
    [(IF symbol = LineFeed THEN KeepSpace(p)
      ELSE KeepRaw(p, Sanitized(a[symbol.line], symbol.half, alone)))
        EXCEPT !.size = @ + SymbolBytes(a, symbol)]
TakeOne(p, symbol, alone, a) == Feed(Kept(p, symbol, alone, a), symbol, a)

\* Take first keeps the raw text and the size of a symbol, and then feeds it to the parser.
LEMMA TakeFeeds ==
  ASSUME NEW a, NEW p, NEW chunk, NEW i
  PROVE  \E alone \in BOOLEAN : Take(p, chunk, i, a) = TakeOne(p, chunk[i], alone, a)
  <1> DEFINE symbol == chunk[i]
             alone == i = IF symbol.half = 1 THEN Len(chunk) ELSE 1
  <1>1. Take(p, chunk, i, a) = TakeOne(p, symbol, alone, a)
    BY DEF Take, TakeOne, Kept, SymbolBytes
  <1>2. alone \in BOOLEAN
    OBVIOUS
  <1> HIDE DEF alone
  <1> QED BY <1>1, <1>2

\* The raw text and the size of one symbol more.
LEMMA KeptFits ==
  ASSUME NEW a \in Answers, NEW p \in Parsers(a), NEW symbol \in SymbolsOf(a), NEW alone \in BOOLEAN,
         NEW q, q = Kept(p, symbol, alone, a)
  PROVE  /\ q \in Parsers(a)
         /\ q.pending = p.pending /\ q.event = p.event /\ q.usage = p.usage
         /\ q.text = p.text /\ q.textLen = p.textLen
         /\ SymbolBytes(a, symbol) \in Nat /\ SymbolChars(a, symbol) \in Nat /\ SymbolRaw(a, symbol) \in Nat
         /\ SymbolBytes(a, symbol) = 0 => SymbolRaw(a, symbol) = 0
         /\ q.size = p.size + SymbolBytes(a, symbol)
         /\ q.rawLen <= p.rawLen + SymbolRaw(a, symbol)
         /\ p.rawLen + SymbolRaw(a, symbol) <= MaxText =>
               /\ q.raw + q.gap <= p.raw + p.gap + SymbolBytes(a, symbol)
               /\ q.raw >= p.raw + SymbolChars(a, symbol)
  <1>1. /\ p \in Fields(a) /\ p.raw \in Nat /\ p.gap \in Nat /\ p.rawLen \in Nat /\ MaxText \in Nat
    BY ParserAssumption DEF Parsers, Fields
  <1> DEFINE text == Sanitized(a[symbol.line], symbol.half, alone)
             k == IF symbol = LineFeed THEN KeepSpace(p) ELSE KeepRaw(p, text)
             b == SymbolBytes(a, symbol)
             c == SymbolChars(a, symbol)
             w == SymbolRaw(a, symbol)
  <1>2. /\ b \in Nat /\ c \in Nat /\ w \in Nat /\ (b = 0 => w = 0)
        /\ k \in Parsers(a)
        /\ SameRest(p, k)
        /\ k.rawLen <= p.rawLen + w
        /\ p.rawLen + w <= MaxText => k.raw + k.gap <= p.raw + p.gap + b /\ k.raw >= p.raw + c
    <2>1. CASE symbol = LineFeed
      <3>1. b = 1 /\ c = 0 /\ w = 1 /\ k = KeepSpace(p)
        BY <2>1 DEF SymbolBytes, SymbolChars, SymbolRaw
      <3> HIDE DEF b, c, w, k
      <3>2. /\ k \in Parsers(a)
            /\ SameRest(p, k)
            /\ k.rawLen <= p.rawLen + 1 /\ k.raw = p.raw
            /\ k.raw + k.gap <= p.raw + p.gap + 1
        BY <3>1, SpaceGrows
      <3>3. p.raw + 0 = p.raw /\ p.raw >= p.raw
        BY <1>1
      <3> QED BY <3>1, <3>2, <3>3
    <2>2. CASE symbol # LineFeed
      <3>1. symbol \in HalfSymbols(a) /\ k = KeepRaw(p, text)
        BY <2>2 DEF SymbolsOf
      <3> HIDE DEF k, text
      <3>2. /\ text \in Text /\ CutsWell(text) /\ c \in Nat /\ b \in Nat /\ w \in Nat
            /\ c <= text.chars /\ text.chars <= b /\ text.bytes <= w /\ (b = 0 => w = 0)
        <4> HIDE DEF b, c, w
        <4> QED BY <3>1, HalvesFit DEF b, c, w, text
      <3> HIDE DEF b, c, w
      <3>3. /\ k \in Parsers(a)
            /\ SameRest(p, k)
            /\ k.rawLen <= p.rawLen + text.bytes
            /\ p.rawLen + text.bytes <= MaxText =>
                  k.raw + k.gap <= p.raw + p.gap + text.chars /\ k.raw >= p.raw + text.chars
        BY <3>1, <3>2, RawGrows
      <3>4. text.bytes \in Nat /\ text.chars \in Nat
        BY <3>2 DEF Text
      <3>5. k.raw \in Nat /\ k.gap \in Nat /\ k.rawLen \in Nat
        BY <1>1, <3>3 DEF Parsers, Fields
      <3>6. k.rawLen <= p.rawLen + w
        BY <1>1, <3>2, <3>3, <3>4, <3>5
      <3>7. ASSUME p.rawLen + w <= MaxText
            PROVE  k.raw + k.gap <= p.raw + p.gap + b /\ k.raw >= p.raw + c
        <4>1. p.rawLen + text.bytes <= MaxText
          BY <1>1, <3>2, <3>4, <3>7
        <4>2. k.raw + k.gap <= p.raw + p.gap + text.chars /\ k.raw >= p.raw + text.chars
          BY <3>3, <4>1
        <4> QED BY <1>1, <3>2, <3>4, <3>5, <4>2
      <3> QED BY <3>2, <3>3, <3>6, <3>7
    <2> QED BY <2>1, <2>2
  <1>3. q = [k EXCEPT !.size = @ + b]
    BY DEF Kept
  <1> HIDE DEF b, c, w, k
  <1>4. /\ k.pending = p.pending /\ k.event = p.event /\ k.usage = p.usage /\ k.text = p.text
        /\ k.textLen = p.textLen /\ k.size = p.size
    BY <1>2 DEF SameRest
  <1>5. k \in Fields(a) /\ k.size \in Nat /\ k.text <= k.textLen /\ k.raw + k.gap <= k.rawLen
    BY <1>2 DEF Parsers, Fields
  <1>6. /\ q.pending = k.pending /\ q.event = k.event /\ q.usage = k.usage /\ q.text = k.text
        /\ q.textLen = k.textLen /\ q.raw = k.raw /\ q.gap = k.gap /\ q.rawLen = k.rawLen
        /\ q.size = k.size + b /\ q \in Fields(a)
    <2>1. k.size + b \in Nat
      BY <1>2, <1>5
    <2>2. q.size = k.size + b
      BY <1>3, <1>5 DEF Fields
    <2>3. /\ q.pending = k.pending /\ q.event = k.event /\ q.usage = k.usage /\ q.text = k.text
          /\ q.textLen = k.textLen /\ q.raw = k.raw /\ q.gap = k.gap /\ q.rawLen = k.rawLen
      BY <1>3, <1>5 DEF Fields
    <2>4. q \in Fields(a)
      BY <1>3, <1>5, <2>1 DEF Fields
    <2> QED BY <2>2, <2>3, <2>4
  <1>7. q \in Parsers(a)
    BY <1>5, <1>6 DEF Parsers
  <1> QED BY <1>2, <1>4, <1>6, <1>7 DEF b, c, w

\* What the parser holds after any symbol is again something a parser can hold.
LEMMA OneFits ==
  ASSUME NEW a \in Answers, NEW p \in Parsers(a), NEW symbol \in SymbolsOf(a), NEW alone \in BOOLEAN
  PROVE  TakeOne(p, symbol, alone, a) \in Parsers(a)
  <1> DEFINE q == Kept(p, symbol, alone, a)
  <1>1. q \in Parsers(a) /\ TakeOne(p, symbol, alone, a) = Feed(q, symbol, a)
    BY KeptFits DEF TakeOne
  <1> HIDE DEF q
  <1>2. CASE symbol = LineFeed
    <2>1. TakeOne(p, symbol, alone, a) = ProcessLine(q, a)
      BY <1>1, <1>2 DEF Feed
    <2> QED BY <1>1, <2>1, LineFits
  <1>3. CASE symbol # LineFeed
    <2>1. TakeOne(p, symbol, alone, a) = [q EXCEPT !.pending = Append(@, symbol)]
      BY <1>1, <1>3 DEF Feed
    <2>2. symbol \in HalfSymbols(a)
      BY <1>3 DEF SymbolsOf
    <2>3. q \in Fields(a) /\ q.text <= q.textLen /\ q.raw + q.gap <= q.rawLen /\ q.pending \in Seq(HalfSymbols(a))
      BY <1>1 DEF Parsers, Fields
    <2>4. Append(q.pending, symbol) \in Seq(HalfSymbols(a))
      BY <2>2, <2>3
    <2> QED BY <2>1, <2>3, <2>4 DEF Parsers, Fields
  <1> QED BY <1>2, <1>3

LEMMA TakeFits ==
  ASSUME NEW a \in Answers, NEW p \in Parsers(a), NEW chunk, NEW i, chunk[i] \in SymbolsOf(a)
  PROVE  Take(p, chunk, i, a) \in Parsers(a)
  BY OneFits, TakeFeeds

\* A chunk is taken symbol by symbol: what every symbol of it keeps, given as the set G of the pairs of a place in the wire and a parser that have it,
\* the chunk keeps.
LEMMA ChunkKeeps ==
  ASSUME NEW a \in Answers, NEW p \in Parsers(a),
         NEW n \in Nat, NEW m \in Nat, n < m, m <= Len(Wire(a)),
         NEW G, <<n, p>> \in G,
         \A i \in n..(m - 1) : \A q \in Parsers(a) : \A alone \in BOOLEAN :
            <<i, q>> \in G => <<i + 1, TakeOne(q, Wire(a)[i + 1], alone, a)>> \in G,
         NEW r, r = AppendChunk(p, SubSeq(Wire(a), n + 1, m), a)
  PROVE  r \in Parsers(a) /\ <<m, r>> \in G
  <1> DEFINE w == Wire(a)
             chunk == SubSeq(w, n + 1, m)
             size == m - n
             V == Parsers(a)
             step == [x \in V \X (1..size) |-> Take(x[1], chunk, x[2], a)]
             pick == [T \in SUBSET (1..size) |-> Max(T)]
             idx == [i \in DOMAIN chunk |-> i]
             Loops(g) == g = [T \in SUBSET (DOMAIN idx) |->
                                IF T = {} THEN p
                                ELSE Take(g[T \ {Max(T)}], chunk, idx[Max(T)], a)]
  <1>1. PICK s : Lays(a, s)
    BY AnswersFit, WireLaidOut
  <1>2. w \in Seq(SymbolsOf(a)) /\ Len(w) \in Nat
    BY <1>1 DEF Lays
  <1>3. size \in Nat \ {0} /\ DOMAIN chunk = 1..size /\ \A i \in 1..size : chunk[i] = w[n + i] /\ chunk[i] \in SymbolsOf(a)
    <2> HIDE DEF w
    <2>1. size \in Nat \ {0} /\ n + 1 \in Nat /\ m - (n + 1) + 1 = size /\ n + 1 >= 1 /\ m <= Len(w)
      BY <1>2 DEF w
    <2>2. Len(chunk) = size /\ DOMAIN chunk = 1..size
      BY <1>2, <2>1
    <2>3. ASSUME NEW i \in 1..size PROVE chunk[i] = w[n + i] /\ chunk[i] \in SymbolsOf(a)
      <3>1. n + i \in 1..Len(w) /\ (n + 1) + i - 1 = n + i
        BY <1>2, <2>1
      <3>2. chunk[i] = w[n + i]
        BY <1>2, <2>1, <2>2, <3>1
      <3> QED BY <1>2, <3>1, <3>2
    <2> QED BY <2>1, <2>2, <2>3
  <1>4. DOMAIN idx = 1..size /\ \A i \in 1..size : idx[i] = i
    BY <1>3
  <1> HIDE DEF size, w, chunk, idx
  <1>5. step \in [V \X (1..size) -> V]
    <2>1. ASSUME NEW x \in V \X (1..size) PROVE Take(x[1], chunk, x[2], a) \in V
      <3>1. x[1] \in Parsers(a) /\ chunk[x[2]] \in SymbolsOf(a)
        BY <1>3
      <3> QED BY <3>1, TakeFits
    <2> HIDE DEF V
    <2> QED BY <2>1
  <1>6. \A T \in SUBSET (1..size) : T # {} => pick[T] \in T
    BY <1>3, MaxIn
  <1>7. p \in V /\ IsFiniteSet(1..size)
    BY <1>3, FS_Interval
  <1> HIDE DEF V
  <1>8. PICK g : Folds(V, p, pick, step, 1..size, g)
    <2> HIDE DEF step, pick
    <2> QED BY <1>5, <1>6, <1>7, FoldsExist
  <1>9. g \in [SUBSET (1..size) -> V] /\ g[{}] = p
    BY <1>8 DEF Folds
  <1>10. ASSUME NEW T \in SUBSET (1..size), T # {}
         PROVE  g[T] = Take(g[T \ {Max(T)}], chunk, Max(T), a)
    <2>1. g[T] = step[<<g[T \ {pick[T]}], pick[T]>>]
      <3> HIDE DEF step, pick
      <3> QED BY <1>8, <1>10 DEF Folds
    <2>2. pick[T] = Max(T) /\ Max(T) \in 1..size
      BY <1>6, <1>10
    <2>3. g[T \ {Max(T)}] \in V
      BY <1>9
    <2>4. <<g[T \ {Max(T)}], Max(T)>> \in V \X (1..size)
      BY <2>2, <2>3
    <2> HIDE DEF pick
    <2> QED BY <2>1, <2>2, <2>4
  <1>11. Loops(g)
    <2>1. ASSUME NEW T \in SUBSET (1..size)
          PROVE  g[T] = IF T = {} THEN p
                        ELSE Take(g[T \ {Max(T)}], chunk, idx[Max(T)], a)
      <3>1. CASE T = {}
        BY <1>9, <3>1
      <3>2. CASE T # {}
        <4>1. Max(T) \in 1..size
          BY <1>6, <3>2
        <4>2. idx[Max(T)] = Max(T)
          BY <1>4, <4>1
        <4> QED BY <1>10, <3>2, <4>2
      <3> QED BY <3>1, <3>2
    <2>2. g = [T \in SUBSET (1..size) |-> g[T]]
      BY <1>9
    <2> QED BY <1>4, <2>1, <2>2
  <1> DEFINE f == CHOOSE h : Loops(h)
  <1>12. Loops(f)
    <2> HIDE DEF Loops
    <2> QED BY <1>11
  <1>13. r = f[DOMAIN idx]
    BY DEF AppendChunk, FoldLeftDomain, FoldLeft, MapThenFoldSet, chunk, w, idx
  <1> HIDE DEF f
  <1>14. ASSUME NEW T \in SUBSET (1..size), T # {}
         PROVE  f[T] = Take(f[T \ {Max(T)}], chunk, Max(T), a)
    <2>1. Max(T) \in 1..size
      BY <1>6, <1>14
    <2>2. idx[Max(T)] = Max(T)
      BY <1>4, <2>1
    <2>3. f[T] = Take(f[T \ {Max(T)}], chunk, idx[Max(T)], a)
      BY <1>4, <1>12, <1>14
    <2> QED BY <2>2, <2>3
  <1>15. f[{}] = p
    BY <1>4, <1>12
  <1> HIDE DEF Loops
  <1> DEFINE H == {i \in 0..size : f[1..i] \in V /\ <<n + i, f[1..i]>> \in G}
  <1>16. 0 \in H
    <2>1. 1..0 = {} /\ 0 \in 0..size
      BY <1>3
    <2> QED BY <1>7, <1>15, <2>1
  <1>17. ASSUME NEW i \in 0..(size - 1), i \in H PROVE i + 1 \in H
    <2> DEFINE j == i + 1
               T == 1..j
               symbol == w[n + j]
    <2>1. j \in 1..size /\ j \in 0..size /\ n + i \in n..(m - 1) /\ n + j = (n + i) + 1
      BY <1>3 DEF size
    <2>2. T \in SUBSET (1..size) /\ T # {}
      <3>1. \A x \in 1..j : x \in 1..size
        BY <1>3, <2>1
      <3>2. j \in 1..j
        BY <2>1
      <3> QED BY <3>1, <3>2
    <2>3. Max(T) = j /\ T \ {j} = 1..i
      <3>1. Max(T) \in T /\ \A x \in T : x <= Max(T)
        BY <1>3, <2>2, MaxIn
      <3> QED BY <2>1, <3>1
    <2>4. f[T] = Take(f[1..i], chunk, j, a) /\ chunk[j] = symbol
      <3>1. chunk[j] = symbol
        BY <1>3, <2>1
      <3> HIDE DEF j, T, symbol
      <3> QED BY <1>14, <2>2, <2>3, <3>1
    <2>5. f[1..i] \in V /\ <<n + i, f[1..i]>> \in G
      BY <1>17
    <2>6. symbol \in SymbolsOf(a)
      BY <1>3, <2>1
    <2> HIDE DEF j, T, symbol
    <2>7. f[T] \in V
      BY <2>4, <2>5, <2>6, TakeFits DEF V
    <2>8. <<(n + i) + 1, f[T]>> \in G
      <3>1. PICK alone \in BOOLEAN : Take(f[1..i], chunk, j, a) = TakeOne(f[1..i], chunk[j], alone, a)
        BY TakeFeeds
      <3>2. <<(n + i) + 1, TakeOne(f[1..i], w[(n + i) + 1], alone, a)>> \in G
        BY <2>1, <2>5 DEF V, w
      <3>3. w[(n + i) + 1] = symbol
        BY <2>1 DEF symbol
      <3> QED BY <2>4, <3>1, <3>2, <3>3
    <2>9. <<n + j, f[T]>> \in G
      BY <2>1, <2>8
    <2> QED BY <2>1, <2>7, <2>9 DEF j, T
  <1>18. size \in H
    <2> HIDE DEF H
    <2>1. \A i \in 0..size : i \in H
      BY <1>3, <1>16, <1>17, CountingInduction
    <2> QED BY <1>3, <2>1
  <1>19. n + size = m /\ 1..size = DOMAIN idx
    BY <1>4 DEF size
  <1> QED BY <1>13, <1>18, <1>19 DEF V

-----------------------------------------------------------------------------
(* Documents and the lines they are cut into *)

\* The documents that end in the first k lines, by the line each starts at.
Docs(a, k) ==
    {i \in 1..k : a[i].kind \in {"data", "json"} /\ a[i].part = 1 /\ i + a[i].of - 1 <= k}

\* The lines of a document follow the first of them.
LEMMA PartsFollow ==
  ASSUME NEW a \in Answers, WellFormed(a), NEW i \in 1..Len(a), a[i].kind = "data"
  PROVE  \A j \in 0..(a[i].of - a[i].part) :
            /\ i + j \in 1..Len(a) /\ a[i + j].kind = "data" /\ a[i + j].payload = a[i].payload
            /\ a[i + j].of = a[i].of /\ a[i + j].part = a[i].part + j
  <1> DEFINE n == a[i].of - a[i].part
             Goes(j) == /\ i + j \in 1..Len(a) /\ a[i + j].kind = "data"
                        /\ a[i + j].payload = a[i].payload
                        /\ a[i + j].of = a[i].of /\ a[i + j].part = a[i].part + j
             G == {j \in 0..n : Goes(j)}
  <1>1. Len(a) \in Nat /\ i \in 1..Len(a) /\ \A j \in 1..Len(a) : a[j] \in Line
    BY AnswersFit
  <1>2. a[i].part \in Nat /\ a[i].of \in Nat /\ n \in Nat /\ a[i].of = a[i].part + n
    <2>1. a[i].part \in Nat /\ a[i].of \in Nat /\ a[i].part \in 1..a[i].of
      BY <1>1, AnswersFit DEF Line
    <2> QED BY <2>1
  <1> HIDE DEF n
  <1>3. 0 \in G
    <2>1. i + 0 = i /\ a[i].part + 0 = a[i].part /\ 0 \in 0..n
      BY <1>1, <1>2
    <2> QED BY <1>1, <2>1
  <1>4. ASSUME NEW j \in 0..(n - 1), j \in G PROVE j + 1 \in G
    <2> DEFINE x == i + j
               y == i + (j + 1)
    <2>0. j \in Nat /\ j + 1 \in 0..n /\ i \in Nat
      <3>1. n \in Nat
        BY <1>2
      <3>2. j \in Nat /\ j + 1 \in 0..n
        BY <3>1
      <3> QED BY <1>1, <3>2
    <2>1. x \in 1..Len(a) /\ y = x + 1 /\ j + 1 \in 0..n /\ j \in Nat
      <3>1. x \in 1..Len(a)
        BY <1>4
      <3> QED BY <2>0, <3>1
    <2>2. a[x].kind = "data" /\ a[x].payload = a[i].payload /\ a[x].of = a[i].of /\ a[x].part = a[i].part + j
      BY <1>4
    <2>3. a[x].part < a[x].of
      <3> DEFINE u == a[i].part
                 v == a[i].of
      <3>1. u \in Nat /\ v = u + n /\ j \in 0..(n - 1) /\ n \in Nat /\ a[x].part = u + j /\ a[x].of = v
        BY <1>2, <1>4, <2>2
      <3> HIDE DEF u, v, x
      <3> QED BY <3>1
    <2>4. x \in DOMAIN a
      BY <2>1, AnswersFit
    <2>5. x < Len(a) /\ a[x + 1] = [a[x] EXCEPT !.part = @ + 1]
      BY <2>3, <2>4 DEF WellFormed
    <2>6. y \in 1..Len(a)
      <3>1. y = x + 1 /\ x \in 1..Len(a) /\ x < Len(a) /\ Len(a) \in Nat
        BY <1>1, <2>1, <2>5
      <3> HIDE DEF x, y
      <3> QED BY <3>1
    <2>7. a[y].kind = "data" /\ a[y].payload = a[x].payload /\ a[y].of = a[x].of /\ a[y].part = a[x].part + 1
      <3>1. a[x] \in Line
        BY <1>1, <2>1
      <3>2. a[y] = [a[x] EXCEPT !.part = @ + 1]
        BY <2>1, <2>5
      <3> HIDE DEF x, y
      <3> QED BY <2>2, <3>1, <3>2 DEF Line
    <2>8. a[y].part = a[i].part + (j + 1)
      <3>1. a[y].part = (a[i].part + j) + 1
        BY <2>2, <2>7
      <3> DEFINE q == a[i].part
      <3>2. q \in Nat /\ j \in Nat /\ a[y].part = (q + j) + 1
        BY <1>2, <2>0, <3>1
      <3> HIDE DEF y, q
      <3>3. a[y].part = q + (j + 1)
        BY <3>2
      <3> QED BY <3>3 DEF y, q
    <2> QED BY <2>1, <2>2, <2>6, <2>7, <2>8
  <1>5. \A j \in 0..n : j \in G
    <2> HIDE DEF G
    <2> QED BY <1>2, <1>3, <1>4, CountingInduction
  <1> QED BY <1>5 DEF n

\* The data lines that end with line k, if it is one, start with line s.
RunFrom(a, s, k) ==
    /\ s \in 1..k + 1 /\ \A j \in s..k : a[j].kind = "data"
    /\ s = 1 \/ a[s - 1].kind # "data"

\* Such lines are parts of one document.
LEMMA RunsAreParts ==
  ASSUME NEW a \in Answers, WellFormed(a), NEW k \in 1..Len(a), NEW s \in 1..k, RunFrom(a, s, k)
  PROVE  \A j \in 0..(k - s) :
            /\ a[s + j].kind = "data" /\ a[s + j].payload = a[s].payload
            /\ a[s + j].of = a[s].of /\ a[s + j].part = a[s].part + j /\ a[s + j].part \in 1..a[s].of
  <1> DEFINE n == a[s].of - a[s].part
  <1>1. Len(a) \in Nat /\ s \in 1..Len(a) /\ k \in Nat /\ s \in Nat /\ s <= k /\ k <= Len(a)
    BY AnswersFit
  <1>2. a[s].kind = "data"
    BY <1>1 DEF RunFrom
  <1>3. a[s].part \in Nat /\ a[s].of \in Nat /\ a[s].part \in 1..a[s].of
    BY <1>1, <1>2, AnswersFit DEF Line
  <1>4. n \in Nat /\ a[s].part + n = a[s].of
    BY <1>3
  <1>5. \A j \in 0..n : /\ s + j \in 1..Len(a) /\ a[s + j].kind = "data" /\ a[s + j].payload = a[s].payload
                        /\ a[s + j].of = a[s].of /\ a[s + j].part = a[s].part + j
    BY <1>1, <1>2, PartsFollow
  <1> HIDE DEF n
  <1>6. k - s <= n
    <2> SUFFICES ASSUME k - s > n PROVE FALSE
      BY <1>1, <1>4
    <2> DEFINE x == s + n
    <2>1. x \in 1..Len(a) /\ a[x].kind = "data" /\ a[x].part = a[x].of
      BY <1>3, <1>4, <1>5
    <2>2. x + 1 \in s..k /\ x < Len(a)
      BY <1>1, <1>4
    <2>3. x \in DOMAIN a
      BY <2>1, AnswersFit
    <2>4. a[x + 1].kind = "blank"
      BY <2>1, <2>2, <2>3 DEF WellFormed
    <2>5. a[x + 1].kind = "data"
      BY <2>2 DEF RunFrom
    <2> QED BY <2>4, <2>5
  <1>7. ASSUME NEW j \in 0..(k - s)
        PROVE  /\ a[s + j].kind = "data" /\ a[s + j].payload = a[s].payload
               /\ a[s + j].of = a[s].of /\ a[s + j].part = a[s].part + j /\ a[s + j].part \in 1..a[s].of
    <2>1. j \in 0..n
      BY <1>1, <1>4, <1>6
    <2>2. a[s].part + j \in 1..a[s].of
      BY <1>3, <1>4, <2>1
    <2> QED BY <1>5, <2>1, <2>2
  <1> QED BY <1>7

\* Of such lines, the first may start a document, which ends with the last or later.
LEMMA DocsOfRun ==
  ASSUME NEW a \in Answers, WellFormed(a), NEW k \in 0..Len(a), NEW s, RunFrom(a, s, k)
  PROVE  Docs(a, k) = Docs(a, s - 1) \cup (IF s <= k /\ a[s].part = 1 /\ a[s].of = k - s + 1 THEN {s} ELSE {})
  <1> DEFINE Whole == s <= k /\ a[s].part = 1 /\ a[s].of = k - s + 1
  <1>0. Len(a) \in Nat /\ k \in Nat /\ s \in 1..(k + 1) /\ s \in Nat /\ k <= Len(a)
    <2>1. Len(a) \in Nat /\ s \in 1..(k + 1)
      BY AnswersFit DEF RunFrom
    <2> QED BY <2>1
  <1>1. /\ Len(a) \in Nat /\ k \in Nat /\ s \in 1..(k + 1) /\ s \in Nat /\ k <= Len(a)
        /\ \A i \in 1..Len(a) : a[i].part \in Nat /\ a[i].of \in Nat
    <2>1. \A i \in 1..Len(a) : a[i] \in Line
      BY AnswersFit
    <2>2. \A i \in 1..Len(a) : a[i].part \in Nat /\ a[i].of \in Nat
      BY <2>1 DEF Line
    <2> QED BY <1>0, <2>2
  <1>2. \A j \in s..k : a[j].kind = "data"
    BY DEF RunFrom
  <1>3. ASSUME NEW i \in Docs(a, k), i >= s PROVE i = s /\ Whole
    <2>1. i \in 1..k /\ i \in s..k /\ a[i].part = 1 /\ i + a[i].of - 1 <= k /\ i \in 1..Len(a)
      BY <1>1, <1>3 DEF Docs
    <2>2. k \in 1..Len(a) /\ s \in 1..k
      <3>1. i \in s..k /\ i \in 1..k
        BY <2>1
      <3> QED BY <1>0, <3>1
    <2>3. \A j \in 0..(k - s) :
            /\ a[s + j].kind = "data" /\ a[s + j].payload = a[s].payload
            /\ a[s + j].of = a[s].of /\ a[s + j].part = a[s].part + j /\ a[s + j].part \in 1..a[s].of
      BY <2>2, RunsAreParts
    <2>4. i - s \in 0..(k - s) /\ s + (i - s) = i /\ k - s \in 0..(k - s) /\ s \in 1..Len(a) /\ 0 \in 0..(k - s)
          /\ s + 0 = s
      <3>1. i \in s..k /\ s \in 1..k /\ k \in 1..Len(a) /\ Len(a) \in Nat
        BY <1>0, <2>1, <2>2
      <3>2. s \in Nat /\ i \in Nat /\ k \in Nat
        BY <3>1
      <3>3. i - s \in 0..(k - s) /\ k - s \in 0..(k - s) /\ 0 \in 0..(k - s)
        BY <3>1, <3>2
      <3> QED BY <3>1, <3>2, <3>3
    <2>5. a[i].part = a[s].part + (i - s) /\ a[s].part \in 1..a[s].of
      BY <2>3, <2>4
    <2>6. i = s
      <3> DEFINE q == a[s].part
      <3>1. 1 = q + (i - s) /\ q \in 1..a[s].of /\ a[s].of \in Nat
        BY <1>1, <2>1, <2>4, <2>5
      <3> HIDE DEF q
      <3>2. q >= 1 /\ q \in Nat
        BY <3>1
      <3> QED BY <1>1, <1>3, <2>1, <3>1, <3>2
    <2>7. a[s].part + (k - s) \in 1..a[s].of
      BY <2>3, <2>4
    <2> QED BY <1>1, <2>1, <2>2, <2>4, <2>6, <2>7
  <1>4. ASSUME NEW i \in Docs(a, k), i < s PROVE i \in Docs(a, s - 1)
    <2>1. i \in 1..k /\ a[i].kind \in {"data", "json"} /\ a[i].part = 1 /\ i + a[i].of - 1 <= k /\ i \in 1..Len(a)
      BY <1>1, <1>4 DEF Docs
    <2>2. i \in 1..(s - 1) /\ s # 1 /\ s - 1 \in 1..k
      BY <1>1, <1>4, <2>1
    <2>3. CASE a[i].kind = "json"
      <3>1. a[i].of = 1
        BY <2>1, <2>3, AnswersFit
      <3>2. i + a[i].of - 1 <= s - 1
        BY <1>1, <2>2, <3>1
      <3> QED BY <2>1, <2>2, <3>2 DEF Docs
    <2>4. CASE a[i].kind = "data"
      <3>1. \A j \in 0..(a[i].of - a[i].part) : a[i + j].kind = "data"
        BY <2>1, <2>4, PartsFollow
      <3>2. CASE i + a[i].of - 1 <= s - 1
        BY <2>1, <2>2, <3>2 DEF Docs
      <3>3. CASE i + a[i].of - 1 > s - 1
        <4>1. (s - 1) - i \in 0..(a[i].of - a[i].part) /\ i + ((s - 1) - i) = s - 1
          BY <1>1, <2>1, <2>2, <3>3
        <4>2. a[s - 1].kind = "data"
          BY <3>1, <4>1
        <4> QED BY <2>2, <4>2 DEF RunFrom
      <3>4. i + a[i].of - 1 \in Int /\ s - 1 \in Int
        BY <1>1, <2>1
      <3> QED BY <3>2, <3>3, <3>4
    <2> QED BY <2>1, <2>3, <2>4
  <1>5. ASSUME NEW i \in Docs(a, s - 1) PROVE i \in Docs(a, k)
    <2>1. i \in 1..(s - 1) /\ a[i].kind \in {"data", "json"} /\ a[i].part = 1 /\ i + a[i].of - 1 <= s - 1
      BY DEF Docs
    <2>2. i \in 1..k /\ a[i].of \in Nat
      BY <1>1, <2>1
    <2>3. i + a[i].of - 1 <= k
      BY <1>1, <2>1, <2>2
    <2> QED BY <2>1, <2>2, <2>3 DEF Docs
  <1>6. Whole => s \in Docs(a, k)
    <2> SUFFICES ASSUME Whole PROVE s \in Docs(a, k)
      OBVIOUS
    <2>1. s \in 1..k /\ s \in s..k /\ s + a[s].of - 1 <= k
      BY <1>1
    <2> QED BY <1>2, <2>1 DEF Docs
  <1>7. \A i \in Docs(a, k) : i \in Nat
    BY <1>1 DEF Docs
  <1> HIDE DEF Whole
  <1>8. \A i \in Docs(a, k) : i >= s \/ i < s
    BY <1>1, <1>7
  <1>9. Docs(a, k) = Docs(a, s - 1) \cup (IF Whole THEN {s} ELSE {})
    BY <1>3, <1>4, <1>5, <1>6, <1>8
  <1> QED BY <1>9 DEF Whole

\* A line that is not a data line is a document if it is a bare one.
LEMMA DocsOfLine ==
  ASSUME NEW a \in Answers, WellFormed(a), NEW k \in 1..Len(a), a[k].kind # "data"
  PROVE  Docs(a, k) = Docs(a, k - 1) \cup (IF a[k].kind = "json" THEN {k} ELSE {})
  <1>1. /\ Len(a) \in Nat /\ k \in Nat /\ k >= 1 /\ k <= Len(a)
        /\ \A i \in 1..Len(a) : a[i].part \in Nat /\ a[i].of \in Nat
    <2>1. Len(a) \in Nat /\ \A i \in 1..Len(a) : a[i] \in Line
      BY AnswersFit
    <2>2. \A i \in 1..Len(a) : a[i].part \in Nat /\ a[i].of \in Nat
      BY <2>1 DEF Line
    <2> QED BY <2>1, <2>2
  <1>2. ASSUME NEW i \in Docs(a, k) PROVE i \in Docs(a, k - 1) \/ (i = k /\ a[k].kind = "json")
    <2>1. i \in 1..k /\ a[i].kind \in {"data", "json"} /\ a[i].part = 1 /\ i + a[i].of - 1 <= k /\ i \in 1..Len(a)
      BY <1>1 DEF Docs
    <2>2. CASE i = k
      BY <2>1, <2>2
    <2>3. CASE i # k
      <3>1. i \in 1..(k - 1)
        BY <1>1, <2>1, <2>3
      <3>2. i + a[i].of - 1 <= k - 1
        <4>1. CASE a[i].kind = "json"
          <5>1. a[i].of = 1
            BY <2>1, <4>1, AnswersFit
          <5> QED BY <1>1, <3>1, <5>1
        <4>2. CASE a[i].kind = "data"
          <5>1. \A j \in 0..(a[i].of - a[i].part) : a[i + j].kind = "data"
            BY <2>1, <4>2, PartsFollow
          <5>2. CASE i + a[i].of - 1 = k
            <6>1. k - i \in 0..(a[i].of - a[i].part) /\ i + (k - i) = k
              <7> DEFINE q == a[i].of
              <7>1. q \in Nat /\ i + q - 1 = k /\ i \in Nat /\ i <= k /\ a[i].part = 1
                BY <1>1, <2>1, <5>2
              <7> HIDE DEF q
              <7>2. k - i \in 0..(q - 1) /\ i + (k - i) = k
                BY <1>1, <7>1
              <7> QED BY <7>1, <7>2 DEF q
            <6> QED BY <5>1, <6>1
          <5>3. CASE i + a[i].of - 1 # k
            <6> DEFINE q == a[i].of
            <6>1. q \in Nat /\ i \in Nat /\ k \in Nat /\ i + q - 1 <= k /\ i + q - 1 # k
              BY <1>1, <2>1, <5>3
            <6> HIDE DEF q
            <6>2. i + q - 1 <= k - 1
              BY <6>1
            <6> QED BY <6>2 DEF q
          <5> QED BY <5>2, <5>3
        <4> QED BY <2>1, <4>1, <4>2
      <3> QED BY <2>1, <3>1, <3>2 DEF Docs
    <2> QED BY <2>2, <2>3
  <1>3. ASSUME NEW i \in Docs(a, k - 1) PROVE i \in Docs(a, k)
    <2>1. i \in 1..(k - 1) /\ a[i].kind \in {"data", "json"} /\ a[i].part = 1 /\ i + a[i].of - 1 <= k - 1
      BY DEF Docs
    <2>2. i \in 1..k /\ a[i].of \in Nat
      BY <1>1, <2>1
    <2>3. i + a[i].of - 1 <= k
      BY <1>1, <2>1, <2>2
    <2> QED BY <2>1, <2>2, <2>3 DEF Docs
  <1>4. a[k].kind = "json" => k \in Docs(a, k)
    <2> SUFFICES ASSUME a[k].kind = "json" PROVE k \in Docs(a, k)
      OBVIOUS
    <2>1. a[k].part = 1 /\ a[k].of = 1
      BY AnswersFit
    <2>2. k + a[k].of - 1 <= k
      BY <1>1, <2>1
    <2> QED BY <1>1, <2>1, <2>2 DEF Docs
  <1> QED BY <1>2, <1>3, <1>4

\* The documents wholly read are those that end in the lines wholly read.
LEMMA DocumentsAreDocs ==
  ASSUME NEW a \in Answers, WellFormed(a), NEW n, NEW k \in 0..Len(a),
         LinesIn(a, n) = {i \in 1..k : a[i].kind # "blank"}
  PROVE  DocumentsIn(a, n) = Docs(a, k)
  <1>1. /\ Len(a) \in Nat /\ k \in Nat /\ k <= Len(a)
        /\ \A i \in 1..Len(a) : a[i].part \in Nat /\ a[i].of \in Nat
    <2>1. Len(a) \in Nat /\ \A i \in 1..Len(a) : a[i] \in Line
      BY AnswersFit
    <2>2. \A i \in 1..Len(a) : a[i].part \in Nat /\ a[i].of \in Nat
      BY <2>1 DEF Line
    <2>3. k \in Nat /\ k <= Len(a)
      BY <2>1
    <2> QED BY <2>1, <2>2, <2>3
  <1>2. ASSUME NEW i \in DocumentsIn(a, n) PROVE i \in Docs(a, k)
    <2>1. /\ i \in 1..k /\ a[i].kind \in {"data", "json"} /\ a[i].part = 1 /\ i \in 1..Len(a)
          /\ \A j \in i..(i + a[i].of - 1) : j \in 1..k
      BY <1>1 DEF DocumentsIn
    <2>2. a[i].of \in Nat \ {0}
      <3>1. a[i].of \in Nat /\ a[i].part \in 1..a[i].of
        <4>1. CASE a[i].kind = "data"
          BY <1>1, <2>1, <4>1, AnswersFit
        <4>2. CASE a[i].kind = "json"
          <5>1. a[i].of = 1
            BY <2>1, <4>2, AnswersFit
          <5> QED BY <2>1, <5>1
        <4> QED BY <2>1, <4>1, <4>2
      <3> QED BY <3>1
    <2>3. i + a[i].of - 1 \in i..(i + a[i].of - 1)
      BY <1>1, <2>1, <2>2
    <2>4. i + a[i].of - 1 <= k
      BY <1>1, <2>1, <2>3
    <2> QED BY <2>1, <2>4 DEF Docs
  <1>3. ASSUME NEW i \in Docs(a, k) PROVE i \in DocumentsIn(a, n)
    <2>1. i \in 1..k /\ a[i].kind \in {"data", "json"} /\ a[i].part = 1 /\ i + a[i].of - 1 <= k /\ i \in 1..Len(a)
      BY <1>1 DEF Docs
    <2>2. ASSUME NEW j \in i..(i + a[i].of - 1) PROVE j \in 1..k /\ a[j].kind # "blank"
      <3>1. j \in 1..k
        BY <1>1, <2>1, <2>2
      <3>2. CASE a[i].kind = "json"
        <4>1. a[i].of = 1
          BY <2>1, <3>2, AnswersFit
        <4>2. j = i
          BY <1>1, <2>1, <2>2, <4>1
        <4> QED BY <3>1, <3>2, <4>2
      <3>3. CASE a[i].kind = "data"
        <4>1. \A x \in 0..(a[i].of - a[i].part) : a[i + x].kind = "data"
          BY <2>1, <3>3, PartsFollow
        <4>2. j - i \in 0..(a[i].of - a[i].part) /\ i + (j - i) = j
          <5> DEFINE x == a[i].of
          <5>1. a[i].part = 1 /\ x \in Nat /\ j \in i..(i + x - 1) /\ i \in Nat
            BY <1>1, <2>1, <2>2
          <5> HIDE DEF x
          <5>2. j - i \in 0..(x - 1) /\ i + (j - i) = j
            BY <5>1
          <5> QED BY <5>1, <5>2 DEF x
        <4>3. a[j].kind = "data"
          BY <4>1, <4>2
        <4> QED BY <3>1, <4>3
      <3> QED BY <2>1, <3>2, <3>3
    <2>3. i \in LinesIn(a, n)
      BY <2>1
    <2> QED BY <2>1, <2>2, <2>3 DEF DocumentsIn
  <1> QED BY <1>2, <1>3

-----------------------------------------------------------------------------
(* What the parser has gathered *)

\* A count is the largest of those reported by the documents at the lines in D, or 0.
Largest(count, counts, D) ==
    /\ \A i \in D : counts[i] <= count
    /\ count = 0 \/ \E i \in D : count = counts[i]

\* A name is the first that is reported.
First(name, names, D) ==
    \/ name = NoModel /\ \A i \in D : names[i] = NoModel
    \/ \E m \in D : /\ name = names[m] /\ name # NoModel
                    /\ \A i \in D : i < m => names[i] = NoModel

Ins(a) == [i \in DOMAIN a |-> a[i].payload.in]
Outs(a) == [i \in DOMAIN a |-> a[i].payload.out]
ModelNames(a) == [i \in DOMAIN a |-> a[i].payload.model]

\* The parser has gathered the documents at the lines in D.
Gathered(p, a, D) ==
    /\ Largest(p.usage.in, Ins(a), D) /\ Largest(p.usage.out, Outs(a), D)
    /\ First(p.usage.model, ModelNames(a), D)
    /\ p.text = TextKept(a, D) /\ p.textLen = Smaller(TextBytes(a, D), MaxText)

\* The text of the document at line i, and what is kept of it after those at the lines in D.
Sizes(a) == [j \in DOMAIN a |-> a[j].payload.text.bytes]
Kepts(a, D) ==
    [j \in DOMAIN a |->
        Runes(a[j].payload.text,
              Smaller(a[j].payload.text.bytes,
                      Larger(MaxText - TextBytes(a, {h \in D : h < j}), 0)))]

\* These are what the texts are totalled from, and they are numbers.
LEMMA KeptTexts ==
  ASSUME NEW a \in Answers, NEW D \in SUBSET (1..Len(a))
  PROVE  /\ TextBytes(a, D) = Total(Sizes(a), D) /\ TextKept(a, D) = Total(Kepts(a, D), D)
         /\ TextBytes(a, D) \in Nat /\ TextKept(a, D) \in Nat
         /\ IsFiniteSet(1..Len(a)) /\ DOMAIN a = 1..Len(a)
         /\ \A j \in 1..Len(a) : Sizes(a)[j] \in Nat /\ Kepts(a, D)[j] \in Nat
  <1>1. Len(a) \in Nat /\ DOMAIN a = 1..Len(a)
    BY AnswersFit
  <1>2. \A j \in 1..Len(a) : a[j].payload.text \in Text /\ CutsWell(a[j].payload.text)
    <2>1. \A j \in 1..Len(a) : a[j] \in ToSet(a)
      BY <1>1 DEF ToSet
    <2> QED BY <2>1, TextsFit
  <1>3. \A j \in 1..Len(a) : Sizes(a)[j] \in Nat
    BY <1>1, <1>2 DEF Sizes, Text
  <1>4. IsFiniteSet(1..Len(a))
    BY <1>1, FS_Interval
  <1>5. \A T \in SUBSET (1..Len(a)) : TextBytes(a, T) = Total(Sizes(a), T) /\ TextBytes(a, T) \in Nat
    <2> DEFINE S == 1..Len(a)
               f == Sizes(a)
    <2>1. \A T : TextBytes(a, T) = Total(f, T)
      BY DEF TextBytes, Sizes
    <2>2. IsFiniteSet(S) /\ \A j \in S : f[j] \in Nat
      BY <1>3, <1>4
    <2> HIDE DEF S, f
    <2>3. \A T \in SUBSET S : Total(f, T) \in Nat
      BY <2>2, TotalNat
    <2> QED BY <2>1, <2>3 DEF S, f
  <1>6. ASSUME NEW j \in 1..Len(a) PROVE Kepts(a, D)[j] \in Nat
    <2> DEFINE text == a[j].payload.text
               T == {h \in D : h < j}
               room == Larger(MaxText - TextBytes(a, T), 0)
    <2>1. T \in SUBSET (1..Len(a))
      OBVIOUS
    <2>2. TextBytes(a, T) \in Nat /\ MaxText \in Nat
      <3> HIDE DEF T
      <3> QED BY <1>5, <2>1, ParserAssumption
    <2> HIDE DEF T
    <2>3. room \in Nat
      BY <2>2 DEF Larger
    <2>4. text \in Text /\ CutsWell(text) /\ text.bytes \in Nat
      BY <1>2 DEF Text
    <2>5. Kepts(a, D)[j] = Runes(text, Smaller(text.bytes, room))
      BY <1>1 DEF Kepts, T
    <2> HIDE DEF text, room
    <2>6. Smaller(text.bytes, room) \in 0..text.bytes
      BY <2>3, <2>4 DEF Smaller
    <2> DEFINE n == Smaller(text.bytes, room)
    <2> HIDE DEF n
    <2>7. Runes(text, n) \in 0..n /\ n \in Nat
      BY <2>4, <2>6, CutsCount DEF n
    <2> QED BY <2>5, <2>7 DEF n
  <1>7. TextKept(a, D) = Total(Kepts(a, D), D)
    BY DEF TextKept, Kepts
  <1>8. Total(Kepts(a, D), D) \in Nat
    <2> DEFINE S == 1..Len(a)
               f == Kepts(a, D)
    <2>1. IsFiniteSet(S) /\ (\A j \in S : f[j] \in Nat) /\ D \in SUBSET S
      BY <1>4, <1>6
    <2> HIDE DEF S, f
    <2> QED BY <2>1, TotalNat DEF f
  <1> QED BY <1>1, <1>3, <1>4, <1>5, <1>6, <1>7, <1>8

\* A cap on what is added up, and what is left of it.
LEMMA CapsAddUp ==
  ASSUME NEW sum \in Nat, NEW size \in Nat, NEW cap \in Nat, NEW left, left = Smaller(sum, cap)
  PROVE  Smaller(sum + size, cap) = left + Smaller(size, cap - left)
  BY DEF Smaller

\* The text of one document more, after the others, is kept as far as there is room.
LEMMA TextGrows ==
  ASSUME NEW a \in Answers, NEW D \in SUBSET (1..Len(a)), NEW i \in 1..Len(a), \A j \in D : j < i,
         NEW x, x = a[i].payload.text, NEW l, l = Smaller(TextBytes(a, D), MaxText)
  PROVE  /\ TextKept(a, D \cup {i}) = TextKept(a, D) + Runes(x, Room(x, l))
         /\ Smaller(TextBytes(a, D \cup {i}), MaxText) = l + Room(x, l)
  <1> DEFINE E == D \cup {i}
             S == 1..Len(a)
             f == Sizes(a)
             g == Kepts(a, D)
             h == Kepts(a, E)
  <1>1. /\ i \in E /\ E \in SUBSET S /\ D \in SUBSET S /\ i \in S /\ i \notin D /\ E \ {i} = D
    <2>1. i \notin D
      <3>1. ~(i < i)
        BY AnswersFit
      <3> QED BY <3>1
    <2> QED BY <2>1
  <1>2. /\ IsFiniteSet(S) /\ DOMAIN a = S
        /\ \A j \in S : f[j] \in Nat /\ g[j] \in Nat /\ h[j] \in Nat
        /\ TextBytes(a, D) = Total(f, D) /\ TextKept(a, D) = Total(g, D)
        /\ TextBytes(a, E) = Total(f, E) /\ TextKept(a, E) = Total(h, E)
        /\ TextBytes(a, D) \in Nat /\ TextKept(a, D) \in Nat
    <2> HIDE DEF E, S, f, g, h
    <2>1. D \in SUBSET (1..Len(a)) /\ E \in SUBSET (1..Len(a))
      BY <1>1 DEF S
    <2> QED BY <2>1, KeptTexts DEF S, f, g, h
  <1>3. f[i] = x.bytes /\ f[i] \in Nat
    BY <1>1, <1>2 DEF Sizes
  <1>4. \A j \in D : g[j] = h[j]
    <2> TAKE j \in D
    <2>1. {k \in D : k < j} = {k \in E : k < j}
      <3>1. ~(i < j)
        <4>1. j < i /\ i \in Nat /\ j \in Nat
          BY <1>1, AnswersFit
        <4> QED BY <4>1
      <3> QED BY <3>1
    <2>2. j \in DOMAIN a
      BY <1>1, <1>2
    <2> QED BY <2>1, <2>2 DEF Kepts
  <1>5. h[i] = Runes(x, Smaller(x.bytes, Larger(MaxText - TextBytes(a, D), 0)))
    <2>1. {k \in E : k < i} = D
      <3>1. ~(i < i)
        BY AnswersFit
      <3> QED BY <3>1
    <2>2. i \in DOMAIN a
      BY <1>1, <1>2
    <2> QED BY <2>1, <2>2 DEF Kepts
  <1> DEFINE T == TextBytes(a, D)
  <1>6. T \in Nat /\ MaxText \in Nat /\ x.bytes \in Nat /\ l = Smaller(T, MaxText)
    BY <1>2, <1>3, ParserAssumption
  <1> HIDE DEF T
  <1>7. Larger(MaxText - T, 0) = MaxText - l
    BY <1>6 DEF Larger, Smaller
  <1>8. h[i] = Runes(x, Room(x, l))
    BY <1>5, <1>7 DEF Room, T
  <1> HIDE DEF E, S, f, g, h
  <1>9. Total(f, E) = f[i] + Total(f, D) /\ Total(h, E) = h[i] + Total(h, D)
    <2>1. \A j \in S : f[j] \in Int /\ h[j] \in Int
      BY <1>2
    <2>2. ASSUME NEW y, \A j \in S : y[j] \in Int
          PROVE  Total(y, E) = y[i] + Total(y, E \ {i})
      <3>1. IsFiniteSet(S)
        BY <1>2
      <3>2. \A V \in SUBSET S : \A j \in V : Total(y, V) = y[j] + Total(y, V \ {j})
        BY <2>2, <3>1, TotalTakes, ZenonT(30)
      <3> QED BY <1>1, <3>2
    <2>3. Total(f, E) = f[i] + Total(f, E \ {i}) /\ Total(h, E) = h[i] + Total(h, E \ {i})
      BY <2>1, <2>2
    <2> QED BY <1>1, <2>3
  <1>10. Total(h, D) = Total(g, D)
    <2>1. IsFiniteSet(D)
      <3>1. IsFiniteSet(S) /\ D \in SUBSET S
        BY <1>1, <1>2
      <3> QED BY <3>1, FS_Subset
    <2>2. \A j \in D : g[j] \in Int /\ h[j] = g[j]
      BY <1>1, <1>2, <1>4
    <2> QED BY <2>1, <2>2, TotalSame
  <1>11. TextKept(a, E) = TextKept(a, D) + h[i]
    <2>1. h[i] \in Nat
      BY <1>1, <1>2
    <2> QED BY <1>2, <1>9, <1>10, <2>1
  <1>12. TextBytes(a, E) = T + x.bytes
    BY <1>2, <1>3, <1>6, <1>9 DEF T
  <1>13. Smaller(T + x.bytes, MaxText) = l + Smaller(x.bytes, MaxText - l)
    <2> DEFINE size == x.bytes
               cap == MaxText
    <2>1. T \in Nat /\ size \in Nat /\ cap \in Nat /\ l = Smaller(T, cap)
      BY <1>6
    <2> HIDE DEF size, cap
    <2>2. Smaller(T + size, cap) = l + Smaller(size, cap - l)
      BY <2>1, CapsAddUp
    <2> QED BY <2>2 DEF size, cap
  <1> QED BY <1>8, <1>11, <1>12, <1>13 DEF E, Room

\* One document more, after the others.
LEMMA OneMore ==
  ASSUME NEW a \in Answers, NEW D \in SUBSET (1..Len(a)), NEW i \in 1..Len(a), \A j \in D : j < i,
         NEW p \in Parsers(a), Gathered(p, a, D), NEW q, q = ProcessPayload(p, a[i].payload)
  PROVE  Gathered(q, a, D \cup {i})
  <1> DEFINE x == a[i].payload
             u == p.usage
             E == D \cup {i}
  <1>1. /\ Len(a) \in Nat /\ DOMAIN a = 1..Len(a) /\ x \in Payload /\ CutsWell(x.text)
        /\ \A j \in 1..Len(a) : a[j].payload \in Payload
    <2>1. /\ Len(a) \in Nat /\ DOMAIN a = 1..Len(a) /\ x \in Payload
          /\ \A j \in 1..Len(a) : a[j].payload \in Payload
      BY AnswersFit
    <2>2. CutsWell(x.text)
      BY <2>1, LinesAssumption
    <2> QED BY <2>1, <2>2
  <1>2. u \in Usage
    BY DEF Parsers, Fields
  <1>3. /\ q.usage = MergeUsage(u, x)
        /\ q.text = p.text + Runes(x.text, Room(x.text, p.textLen))
        /\ q.textLen = p.textLen + Room(x.text, p.textLen)
    <2>1. p \in Fields(a)
      BY DEF Parsers
    <2> QED BY <2>1 DEF ProcessPayload, Room, Fields
  <1>4. /\ q.usage.in = Larger(u.in, x.in) /\ q.usage.out = Larger(u.out, x.out)
        /\ q.usage.model = IF u.model = NoModel THEN x.model ELSE u.model
    BY <1>3 DEF MergeUsage
  <1>5. /\ u.in \in Nat /\ u.out \in Nat /\ x.in \in Nat /\ x.out \in Nat
    BY <1>1, <1>2 DEF Usage, Payload
  <1>6. /\ \A j \in 1..Len(a) : Ins(a)[j] \in Nat /\ Outs(a)[j] \in Nat
        /\ Ins(a)[i] = x.in /\ Outs(a)[i] = x.out /\ ModelNames(a)[i] = x.model
    BY <1>1 DEF Ins, Outs, ModelNames, Payload
  <1> HIDE DEF x, u
  <1>7. Largest(q.usage.in, Ins(a), E)
    <2> DEFINE c == q.usage.in
               f == Ins(a)
    <2>1. c = Larger(u.in, x.in) /\ Largest(u.in, f, D) /\ f[i] = x.in /\ \A j \in 1..Len(a) : f[j] \in Nat
      BY <1>4, <1>6 DEF Gathered, u
    <2> HIDE DEF c, f
    <2>2. \A j \in D : f[j] \in Nat /\ f[j] <= u.in
      BY <2>1 DEF Largest
    <2>3. \A j \in E : f[j] <= c
      BY <1>5, <2>1, <2>2 DEF Larger
    <2>4. c = 0 \/ \E j \in E : c = f[j]
      BY <1>5, <2>1 DEF Larger, Largest
    <2> QED BY <2>3, <2>4 DEF Largest, c, f
  <1>8. Largest(q.usage.out, Outs(a), E)
    <2> DEFINE c == q.usage.out
               f == Outs(a)
    <2>1. c = Larger(u.out, x.out) /\ Largest(u.out, f, D) /\ f[i] = x.out /\ \A j \in 1..Len(a) : f[j] \in Nat
      BY <1>4, <1>6 DEF Gathered, u
    <2> HIDE DEF c, f
    <2>2. \A j \in D : f[j] \in Nat /\ f[j] <= u.out
      BY <2>1 DEF Largest
    <2>3. \A j \in E : f[j] <= c
      BY <1>5, <2>1, <2>2 DEF Larger
    <2>4. c = 0 \/ \E j \in E : c = f[j]
      BY <1>5, <2>1 DEF Larger, Largest
    <2> QED BY <2>3, <2>4 DEF Largest, c, f
  <1>9. First(q.usage.model, ModelNames(a), E)
    <2> DEFINE c == q.usage.model
               f == ModelNames(a)
    <2>1. /\ c = IF u.model = NoModel THEN x.model ELSE u.model
          /\ First(u.model, f, D) /\ f[i] = x.model
      BY <1>4, <1>6 DEF Gathered, u
    <2> HIDE DEF c, f
    <2>2. CASE u.model = NoModel
      <3>1. \A j \in D : f[j] = NoModel
        BY <2>1, <2>2 DEF First
      <3>2. CASE x.model = NoModel
        BY <2>1, <2>2, <3>1, <3>2 DEF First, c, f
      <3>3. CASE x.model # NoModel
        <4>1. \A j \in E : j < i => f[j] = NoModel
          <5>1. \A j \in E : j \in D \/ j = i
            OBVIOUS
          <5>2. ~(i < i)
            OBVIOUS
          <5> QED BY <3>1, <5>1, <5>2
        <4>2. i \in E /\ c = f[i] /\ c # NoModel
          BY <2>1, <2>2, <3>3
        <4>3. First(c, f, E)
          BY <4>1, <4>2 DEF First
        <4> QED BY <4>3 DEF c, f
      <3> QED BY <3>2, <3>3
    <2>3. CASE u.model # NoModel
      <3>1. PICK m \in D : /\ u.model = f[m] /\ \A j \in D : j < m => f[j] = NoModel
        BY <2>1, <2>3 DEF First
      <3>2. m \in E /\ c = f[m] /\ c # NoModel
        BY <2>1, <2>3, <3>1
      <3>3. \A j \in E : j < m => f[j] = NoModel
        <4>1. m < i /\ ~(i < m)
          BY <1>1
        <4> QED BY <3>1, <4>1
      <3>4. First(c, f, E)
        BY <3>2, <3>3 DEF First
      <3> QED BY <3>4 DEF c, f
    <2> QED BY <2>2, <2>3
  <1>10. q.text = TextKept(a, E) /\ q.textLen = Smaller(TextBytes(a, E), MaxText)
    <2>1. p.text = TextKept(a, D) /\ p.textLen = Smaller(TextBytes(a, D), MaxText)
      BY DEF Gathered
    <2> DEFINE t == x.text
               l == p.textLen
    <2>2. t = a[i].payload.text
      BY DEF x
    <2> HIDE DEF t, l
    <2>3. /\ TextKept(a, D \cup {i}) = TextKept(a, D) + Runes(t, Room(t, l))
          /\ Smaller(TextBytes(a, D \cup {i}), MaxText) = l + Room(t, l)
      BY <2>1, <2>2, TextGrows DEF l
    <2> QED BY <1>3, <2>1, <2>3 DEF t, l
  <1> QED BY <1>7, <1>8, <1>9, <1>10 DEF Gathered

SameText(p, q) == q.text = p.text /\ q.textLen = p.textLen

\* What has been gathered are the usage and the text.
LEMMA SameGathered ==
  ASSUME NEW a, NEW D, NEW p, NEW q, q.usage = p.usage, SameText(p, q), Gathered(p, a, D)
  PROVE  Gathered(q, a, D)
  BY DEF Gathered, SameText

\* Documents start at lines that were read.
LEMMA DocsAreLines ==
  ASSUME NEW a \in Answers, NEW k \in 0..Len(a)
  PROVE  Docs(a, k) \in SUBSET (1..Len(a)) /\ \A i \in Docs(a, k) : i \in 1..k
  <1>1. Len(a) \in Nat
    BY AnswersFit
  <1> QED BY <1>1 DEF Docs

\* The event gathered is the lines from s to k.
EventIs(event, a, s, k) ==
    /\ Len(event) = k - s + 1
    /\ \A j \in 1..(k - s + 1) : event[j] = [line |-> a[s + j - 1], whole |-> TRUE]

\* What has been gathered after k lines: the documents before the data lines that end with
\* line k, and those lines.
Holds(p, a, k) ==
    \E s \in 1..(k + 1) : /\ RunFrom(a, s, k) /\ EventIs(p.event, a, s, k)
                          /\ Gathered(p, a, Docs(a, s - 1))

\* The event gathered is a document when it has all of its parts, from the first on.
LEMMA EventIsDocument ==
  ASSUME NEW a \in Answers, WellFormed(a), NEW k \in 1..Len(a), NEW s \in 1..k, RunFrom(a, s, k),
         NEW p \in Parsers(a), EventIs(p.event, a, s, k)
  PROVE  /\ p.event # <<>> /\ p.event[1].line = a[s]
         /\ IsDocument(p.event) <=> a[s].part = 1 /\ a[s].of = k - s + 1
  <1> DEFINE n == k - s + 1
             e == p.event
  <1>1. /\ Len(a) \in Nat /\ s \in Nat /\ k \in Nat /\ n \in Nat \ {0} /\ s \in 1..Len(a)
    BY AnswersFit
  <1>2. Len(e) = n /\ \A j \in 1..n : e[j] = [line |-> a[s + j - 1], whole |-> TRUE]
    BY DEF EventIs
  <1>3. \A j \in 0..(k - s) :
            /\ a[s + j].payload = a[s].payload
            /\ a[s + j].of = a[s].of /\ a[s + j].part = a[s].part + j /\ a[s + j].part \in 1..a[s].of
    BY RunsAreParts
  <1>4. e \in Seq(Gathering(a)) /\ e # <<>> /\ DOMAIN e = 1..n
    <2>1. e \in Seq(Gathering(a))
      BY DEF Parsers, Fields
    <2> HIDE DEF e, n
    <2> QED BY <1>1, <1>2, <2>1
  <1>5. \A j \in 1..n : j - 1 \in 0..(k - s) /\ s + j - 1 = s + (j - 1)
    BY <1>1
  <1>6. e[1].line = a[s]
    <2>1. 1 \in 1..n /\ s + 1 - 1 = s
      BY <1>1
    <2> HIDE DEF n, e
    <2>2. e[1] = [line |-> a[s], whole |-> TRUE]
      BY <1>2, <2>1
    <2> QED BY <2>2
  <1>7. \A j \in 1..n : e[j].whole /\ e[j].line.payload = a[s].payload /\ e[j].line.part = a[s].part + (j - 1)
    <2> TAKE j \in 1..n
    <2>1. e[j] = [line |-> a[s + (j - 1)], whole |-> TRUE]
      <3> HIDE DEF n, e
      <3> QED BY <1>2, <1>5
    <2>2. a[s + (j - 1)].payload = a[s].payload /\ a[s + (j - 1)].part = a[s].part + (j - 1)
      <3> HIDE DEF n, e
      <3> QED BY <1>3, <1>5
    <2> QED BY <2>1, <2>2
  <1>8. a[s].part \in Nat /\ a[s].of \in Nat
    BY <1>1, AnswersFit DEF Line
  <1> HIDE DEF n, e
  <1>9. ASSUME a[s].part = 1, a[s].of = n PROVE IsDocument(e)
    <2>1. \A j \in 1..n : e[j].line.part = j
      <3>1. \A j \in 1..n : 1 + (j - 1) = j
        BY <1>1
      <3> QED BY <1>7, <1>9, <3>1
    <2> QED BY <1>2, <1>4, <1>6, <1>7, <1>9, <2>1 DEF IsDocument
  <1>10. ASSUME IsDocument(e) PROVE a[s].part = 1 /\ a[s].of = n
    <2>1. 1 \in 1..n /\ a[s].of = n /\ e[1].line.part = 1
      BY <1>1, <1>2, <1>4, <1>6, <1>10 DEF IsDocument
    <2> QED BY <1>6, <2>1
  <1> QED BY <1>4, <1>6, <1>9, <1>10 DEF e, n

\* The end of an event: all documents that end in the lines so far are gathered.
LEMMA FlushGathers ==
  ASSUME NEW a \in Answers, WellFormed(a), NEW k \in 0..Len(a), NEW p \in Parsers(a), Holds(p, a, k),
         NEW q, q = FlushEvent(p)
  PROVE  Gathered(q, a, Docs(a, k))
  <1>1. PICK s \in 1..(k + 1) : /\ RunFrom(a, s, k) /\ EventIs(p.event, a, s, k)
                                /\ Gathered(p, a, Docs(a, s - 1))
    BY DEF Holds
  <1>2. Len(a) \in Nat /\ k \in Nat /\ s \in Nat /\ k <= Len(a) /\ s >= 1 /\ s <= k + 1
    BY AnswersFit
  <1>3. Docs(a, k) = Docs(a, s - 1) \cup (IF s <= k /\ a[s].part = 1 /\ a[s].of = k - s + 1 THEN {s} ELSE {})
    BY <1>1, DocsOfRun
  <1> DEFINE e == [p EXCEPT !.event = <<>>]
  <1>4. /\ p.event \in Seq(Gathering(a))
        /\ p \in Fields(a)
    BY DEF Parsers, Fields
  <1>5. e \in Parsers(a) /\ e.usage = p.usage /\ SameText(p, e)
    <2>1. <<>> \in Seq(Gathering(a)) /\ p.raw + p.gap <= p.rawLen /\ p.text <= p.textLen
      BY DEF Parsers
    <2> QED BY <1>4, <2>1 DEF Parsers, Fields, SameText
  <1>6. Gathered(e, a, Docs(a, s - 1))
    BY <1>1, <1>5, SameGathered
  <1>7. q = IF p.event # <<>> /\ IsDocument(p.event) THEN ProcessPayload(e, p.event[1].line.payload) ELSE e
    BY DEF FlushEvent
  <1> HIDE DEF e
  <1>8. CASE s = k + 1
    <2>1. Len(p.event) = 0
      BY <1>1, <1>2, <1>8 DEF EventIs
    <2>2. p.event = <<>>
      BY <1>4, <2>1
    <2>3. ~(s <= k)
      BY <1>2, <1>8
    <2> QED BY <1>3, <1>6, <1>7, <2>2, <2>3
  <1>9. CASE s # k + 1
    <2>1. s \in 1..k /\ k \in 1..Len(a) /\ s \in 1..Len(a) /\ s <= k
      BY <1>2, <1>9
    <2>2. /\ p.event # <<>> /\ p.event[1].line = a[s]
          /\ IsDocument(p.event) <=> a[s].part = 1 /\ a[s].of = k - s + 1
      BY <1>1, <2>1, EventIsDocument
    <2>3. CASE IsDocument(p.event)
      <3>1. q = ProcessPayload(e, a[s].payload)
        BY <1>7, <2>2, <2>3
      <3>2. Docs(a, k) = Docs(a, s - 1) \cup {s}
        BY <1>3, <2>1, <2>2, <2>3
      <3>3. Docs(a, s - 1) \in SUBSET (1..Len(a)) /\ \A j \in Docs(a, s - 1) : j < s
        <4>1. s - 1 \in 0..Len(a)
          BY <1>2
        <4>2. \A j \in 1..(s - 1) : j < s
          BY <1>2
        <4> QED BY <4>1, <4>2, DocsAreLines
      <3> QED BY <1>5, <1>6, <2>1, <3>1, <3>2, <3>3, OneMore
    <2>4. CASE ~IsDocument(p.event)
      BY <1>3, <1>6, <1>7, <2>2, <2>4
    <2> QED BY <2>3, <2>4
  <1> QED BY <1>8, <1>9

\* A line that no data line comes before starts a run of its own.
LEMMA RunEnds ==
  ASSUME NEW a \in Answers, WellFormed(a), NEW k \in 1..Len(a), NEW s, RunFrom(a, s, k - 1),
         a[k].kind \notin {"data", "blank"}
  PROVE  s = k
  <1>1. Len(a) \in Nat /\ k \in 1..Len(a) /\ s \in 1..k /\ \A i \in 1..Len(a) : a[i] \in Line
    BY AnswersFit DEF RunFrom
  <1>2. CASE s # k
    <2> DEFINE j == k - 1
    <2>1. j \in 1..Len(a) /\ j \in s..(k - 1) /\ j + 1 = k /\ j < Len(a)
      BY <1>1, <1>2
    <2>2. a[j].kind = "data" /\ a[j] \in Line /\ a[j].part \in 1..a[j].of /\ j \in DOMAIN a
      BY <1>1, <2>1, AnswersFit DEF RunFrom
    <2>3. CASE a[j].part = a[j].of
      BY <2>1, <2>2, <2>3 DEF WellFormed
    <2>4. CASE a[j].part # a[j].of
      <3>1. a[j].part < a[j].of
        BY <2>2, <2>4 DEF Line
      <3>2. a[k] = [a[j] EXCEPT !.part = @ + 1]
        BY <2>1, <2>2, <3>1 DEF WellFormed
      <3>3. a[k].kind = "data"
        BY <2>2, <3>2 DEF Line
      <3> QED BY <3>3
    <2> QED BY <2>3, <2>4
  <1> QED BY <1>2

-----------------------------------------------------------------------------
(* The line that is pending *)

\* What is pending is the first d halves of line k.
Pends(pending, k, d) ==
    Len(pending) = d /\ \A h \in 1..d : pending[h] = [line |-> k, half |-> h]

\* ProcessLine takes the line of the first symbol that is pending.
LEMMA PendingLine ==
  ASSUME NEW a \in Answers, NEW k \in 1..Len(a), NEW d \in Nat, NEW p \in Parsers(a), Pends(p.pending, k, d)
  PROVE  /\ p.pending = <<>> <=> d = 0
         /\ d # 0 => Head(p.pending).line = k
         /\ Len(p.pending) = d
  <1>1. p.pending \in Seq(HalfSymbols(a)) /\ Len(p.pending) = d
    BY DEF Parsers, Fields, Pends
  <1>2. p.pending = <<>> <=> d = 0
    BY <1>1
  <1>3. ASSUME d # 0 PROVE Head(p.pending).line = k
    <2>1. 1 \in 1..d /\ Head(p.pending) = p.pending[1]
      BY <1>1, <1>3
    <2>2. p.pending[1] = [line |-> k, half |-> 1]
      BY <2>1 DEF Pends
    <2> QED BY <2>1, <2>2
  <1> QED BY <1>1, <1>2, <1>3

Rest(p) == [p EXCEPT !.pending = <<>>]

\* What ProcessLine does with the first d halves of line k.
LineDone(p, e, q, a, k, d) ==
    /\ e \in Parsers(a) /\ e.event = p.event /\ e.usage = p.usage /\ SameText(p, e)
    /\ d = 0 => q = FlushEvent(e)
    /\ d # 0 /\ a[k].kind = "data" =>
          /\ q.event = Append(p.event, [line |-> a[k], whole |-> d = 2])
          /\ q.usage = p.usage /\ SameText(p, q)
    /\ d = 2 /\ a[k].kind = "json" => q = ProcessPayload(e, a[k].payload)
    /\ d = 1 /\ a[k].kind # "data" => q = e
    /\ d = 2 /\ a[k].kind = "other" => q = e

\* ProcessLine by the kind of its line and the halves of it that are pending.
LEMMA LineIs ==
  ASSUME NEW a \in Answers, NEW k \in 1..Len(a), NEW d \in 0..2, NEW p \in Parsers(a),
         Pends(p.pending, k, d), NEW e, e = Rest(p), NEW q, q = ProcessLine(p, a)
  PROVE  LineDone(p, e, q, a, k, d)
  <1>1. /\ p.pending = <<>> <=> d = 0
        /\ d # 0 => Head(p.pending).line = k
        /\ Len(p.pending) = d
    BY PendingLine
  <1>2. /\ p \in Fields(a)
        /\ p.raw + p.gap <= p.rawLen /\ p.text <= p.textLen /\ <<>> \in Seq(HalfSymbols(a))
    BY DEF Parsers
  <1>3. e \in Parsers(a) /\ e.event = p.event /\ e.usage = p.usage /\ SameText(p, e)
    BY <1>2 DEF Parsers, Fields, Rest, SameText
  <1>4. d = 0 => q = FlushEvent(e)
    BY <1>1 DEF ProcessLine, Rest
  <1>5. d # 0 => q = IF a[k].kind = "data" THEN [e EXCEPT !.event = Append(@, [line |-> a[k], whole |-> d = 2])]
                     ELSE IF a[k].kind = "json" /\ d = 2 THEN ProcessPayload(e, a[k].payload) ELSE e
    BY <1>1 DEF ProcessLine, Rest
  <1>6. ASSUME d # 0, a[k].kind = "data"
        PROVE  /\ q.event = Append(p.event, [line |-> a[k], whole |-> d = 2])
               /\ q.usage = p.usage /\ SameText(p, q)
    <2> DEFINE x == Append(p.event, [line |-> a[k], whole |-> d = 2])
    <2>1. q = [e EXCEPT !.event = x]
      BY <1>3, <1>5, <1>6
    <2> HIDE DEF x
    <2>2. q.event = x /\ q.usage = p.usage /\ SameText(p, q)
      BY <1>2, <2>1 DEF Rest, SameText, Fields
    <2> QED BY <2>2 DEF x
  <1>7. d = 2 /\ a[k].kind = "json" => q = ProcessPayload(e, a[k].payload)
    BY <1>5
  <1>8. /\ d = 1 /\ a[k].kind # "data" => q = e
        /\ d = 2 /\ a[k].kind = "other" => q = e
    BY <1>5
  <1> QED BY <1>3, <1>4, <1>6, <1>7, <1>8 DEF LineDone

\* After a line that is no data line, with nothing gathered.
LEMMA NothingPending ==
  ASSUME NEW a \in Answers, NEW k \in 1..Len(a), a[k].kind # "data",
         NEW q, Len(q.event) = 0, Gathered(q, a, Docs(a, k))
  PROVE  Holds(q, a, k)
  <1>1. Len(a) \in Nat /\ k \in Nat /\ k >= 1
    BY AnswersFit
  <1> DEFINE s == k + 1
  <1>2. s \in 1..(k + 1) /\ s - 1 = k /\ (\A j \in s..k : FALSE) /\ k - s + 1 = 0 /\ \A j \in 1..0 : FALSE
    BY <1>1
  <1> HIDE DEF s
  <1>3. RunFrom(a, s, k)
    BY <1>2 DEF RunFrom
  <1>4. EventIs(q.event, a, s, k)
    BY <1>2 DEF EventIs
  <1> QED BY <1>2, <1>3, <1>4 DEF Holds

\* A whole line.
LEMMA LineHolds ==
  ASSUME NEW a \in Answers, WellFormed(a), NEW k \in 1..Len(a), NEW p \in Parsers(a),
         Holds(p, a, k - 1), Pends(p.pending, k, Width(a[k])), NEW q, q = ProcessLine(p, a)
  PROVE  Holds(q, a, k)
  <1> DEFINE e == Rest(p)
             d == Width(a[k])
  <1>1. /\ Len(a) \in Nat /\ k \in Nat /\ k >= 1 /\ k <= Len(a) /\ a[k] \in Line /\ k - 1 \in 0..Len(a)
        /\ a[k].payload \in Payload /\ a \in Seq(Line)
    BY AnswersFit
  <1>2. d \in 0..2 /\ (d = IF a[k].kind = "blank" THEN 0 ELSE 2)
    BY DEF Width
  <1>0. e = Rest(p) /\ Pends(p.pending, k, d)
    OBVIOUS
  <1> HIDE DEF e, d
  <1>3. /\ e \in Parsers(a) /\ e.event = p.event /\ e.usage = p.usage /\ SameText(p, e)
        /\ d = 0 => q = FlushEvent(e)
        /\ d # 0 /\ a[k].kind = "data" =>
              /\ q.event = Append(p.event, [line |-> a[k], whole |-> d = 2])
              /\ q.usage = p.usage /\ SameText(p, q)
        /\ d = 2 /\ a[k].kind = "json" => q = ProcessPayload(e, a[k].payload)
        /\ d = 2 /\ a[k].kind = "other" => q = e
    <2>1. LineDone(p, e, q, a, k, d)
      BY <1>0, <1>2, LineIs
    <2> QED BY <2>1 DEF LineDone
  <1>4. PICK s \in 1..((k - 1) + 1) : /\ RunFrom(a, s, k - 1) /\ EventIs(p.event, a, s, k - 1)
                                      /\ Gathered(p, a, Docs(a, s - 1))
    BY DEF Holds
  <1>5. s \in 1..k /\ s \in Nat /\ s \in 1..(k + 1)
    BY <1>1
  <1>6. a[k].kind \in {"data", "json", "blank", "other"}
    BY <1>1 DEF Line
  <1>7. Holds(e, a, k - 1)
    BY <1>3, <1>4, SameGathered DEF Holds
  <1>8. CASE a[k].kind = "data"
    <2>1. /\ q.event = Append(p.event, [line |-> a[k], whole |-> TRUE])
          /\ q.usage = p.usage /\ SameText(p, q)
      <3>1. d # 0 /\ (d = 2) = TRUE
        BY <1>2, <1>8
      <3> QED BY <1>3, <1>8, <3>1
    <2>2. RunFrom(a, s, k)
      <3>1. \A j \in s..k : j \in s..(k - 1) \/ j = k
        BY <1>1, <1>5
      <3> QED BY <1>4, <1>5, <1>8, <3>1 DEF RunFrom
    <2>3. EventIs(q.event, a, s, k)
      <3> DEFINE n == k - s
                 x == [line |-> a[k], whole |-> TRUE]
      <3>1. n \in Nat /\ (k - 1) - s + 1 = n /\ k - s + 1 = n + 1 /\ s + (n + 1) - 1 = k
        BY <1>1, <1>5
      <3>2. p.event \in Seq(Gathering(a)) /\ Len(p.event) = n /\ \A j \in 1..n : p.event[j] = [line |-> a[s + j - 1], whole |-> TRUE]
        <4>1. p.event \in Seq(Gathering(a))
          BY DEF Parsers, Fields
        <4> HIDE DEF n
        <4> QED BY <1>4, <3>1, <4>1 DEF EventIs
      <3>3. \A j \in 1..(n + 1) : j \in 1..n \/ j = n + 1
        BY <3>1
      <3> HIDE DEF n
      <3>4. Len(q.event) = n + 1 /\ q.event[n + 1] = x /\ \A j \in 1..n : q.event[j] = p.event[j]
        <4> HIDE DEF x
        <4>1. q.event = Append(p.event, x)
          BY <2>1 DEF x
        <4>2. n \in Nat /\ Len(p.event) = n /\ p.event \in Seq(Gathering(a))
          BY <3>1, <3>2
        <4> DEFINE events == p.event
        <4> HIDE DEF events
        <4>3. /\ Len(Append(events, x)) = n + 1 /\ Append(events, x)[n + 1] = x
              /\ \A j \in 1..n : Append(events, x)[j] = events[j]
          BY <4>2 DEF events
        <4> QED BY <4>1, <4>3 DEF events
      <3>5. \A j \in 1..(n + 1) : q.event[j] = [line |-> a[s + j - 1], whole |-> TRUE]
        BY <3>1, <3>2, <3>3, <3>4
      <3> QED BY <3>1, <3>4, <3>5 DEF EventIs
    <2>4. Gathered(q, a, Docs(a, s - 1))
      BY <1>4, <2>1, SameGathered
    <2> QED BY <1>5, <2>2, <2>3, <2>4 DEF Holds
  <1>9. CASE a[k].kind = "blank"
    <2>1. q = FlushEvent(e)
      BY <1>2, <1>3, <1>9
    <2>2. Gathered(q, a, Docs(a, k - 1)) /\ Len(q.event) = 0
      <3>1. Gathered(q, a, Docs(a, k - 1))
        BY <1>1, <1>3, <1>7, <2>1, FlushGathers
      <3>2. q.event = <<>>
        BY <1>1, <1>3, <2>1, FlushFits
      <3> QED BY <3>1, <3>2
    <2>3. Docs(a, k) = Docs(a, k - 1)
      <3>1. a[k].kind # "data" /\ a[k].kind # "json"
        BY <1>9
      <3>2. Docs(a, k) = Docs(a, k - 1) \cup (IF a[k].kind = "json" THEN {k} ELSE {})
        BY <3>1, DocsOfLine
      <3> QED BY <3>1, <3>2
    <2> QED BY <1>9, <2>2, <2>3, NothingPending
  <1>10. CASE a[k].kind \in {"json", "other"}
    <2>1. s = k
      BY <1>4, <1>10, RunEnds
    <2>2. Len(p.event) = 0 /\ Gathered(e, a, Docs(a, k - 1))
      <3>1. (k - 1) - k + 1 = 0
        BY <1>1
      <3> QED BY <1>3, <1>4, <2>1, <3>1, SameGathered DEF EventIs
    <2>3. CASE a[k].kind = "other"
      <3>1. q = e
        BY <1>2, <1>3, <2>3
      <3>2. Docs(a, k) = Docs(a, k - 1)
        <4>1. a[k].kind # "data" /\ a[k].kind # "json"
          BY <2>3
        <4>2. Docs(a, k) = Docs(a, k - 1) \cup (IF a[k].kind = "json" THEN {k} ELSE {})
          BY <4>1, DocsOfLine
        <4> QED BY <4>1, <4>2
      <3> QED BY <1>3, <2>2, <2>3, <3>1, <3>2, NothingPending
    <2>4. CASE a[k].kind = "json"
      <3>1. q = ProcessPayload(e, a[k].payload)
        BY <1>2, <1>3, <2>4
      <3>2. Docs(a, k) = Docs(a, k - 1) \cup {k}
        BY <2>4, DocsOfLine
      <3>3. Docs(a, k - 1) \in SUBSET (1..Len(a)) /\ \A j \in Docs(a, k - 1) : j < k
        <4>1. \A j \in 1..(k - 1) : j < k
          BY <1>1
        <4> QED BY <1>1, <4>1, DocsAreLines
      <3>4. Gathered(q, a, Docs(a, k))
        <4> DEFINE D == Docs(a, k - 1)
        <4>1. D \in SUBSET (1..Len(a)) /\ (\A j \in D : j < k) /\ e \in Parsers(a) /\ Gathered(e, a, D)
          BY <1>3, <2>2, <3>3
        <4> HIDE DEF D
        <4>2. Gathered(q, a, D \cup {k})
          BY <3>1, <4>1, OneMore
        <4> QED BY <3>2, <4>2 DEF D
      <3>5. q.event = e.event
        <4> DEFINE x == a[k].payload
        <4>1. x \in Payload /\ CutsWell(x.text) /\ e \in Parsers(a) /\ q = ProcessPayload(e, x)
          BY <1>1, <1>3, <3>1, LinesAssumption
        <4> HIDE DEF x
        <4> QED BY <4>1, PayloadKeeps
      <3> QED BY <1>3, <2>2, <2>4, <3>4, <3>5, NothingPending
    <2> QED BY <1>10, <2>3, <2>4
  <1> QED BY <1>6, <1>8, <1>9, <1>10

\* The first half of a line, at the end of what was read, adds nothing.
LEMMA HalfLineAddsNothing ==
  ASSUME NEW a \in Answers, WellFormed(a), NEW k \in 1..Len(a), NEW p \in Parsers(a),
         Holds(p, a, k - 1), Pends(p.pending, k, 1), NEW q, q = ProcessLine(p, a),
         NEW r, r = FlushEvent(q)
  PROVE  Gathered(r, a, Docs(a, k - 1))
  <1> DEFINE e == Rest(p)
  <1>1. /\ Len(a) \in Nat /\ k \in Nat /\ k >= 1 /\ k <= Len(a) /\ k - 1 \in 0..Len(a) /\ a \in Seq(Line)
    BY AnswersFit
  <1>0. e = Rest(p)
    OBVIOUS
  <1> HIDE DEF e
  <1>2. /\ e \in Parsers(a) /\ e.event = p.event /\ e.usage = p.usage /\ SameText(p, e)
        /\ a[k].kind = "data" =>
              /\ q.event = Append(p.event, [line |-> a[k], whole |-> FALSE])
              /\ q.usage = p.usage /\ SameText(p, q)
        /\ a[k].kind # "data" => q = e
    <2> DEFINE d == 1
    <2>1. d \in 0..2 /\ Pends(p.pending, k, d)
      OBVIOUS
    <2>2. (d = 2) = FALSE /\ d # 0 /\ d = 1
      OBVIOUS
    <2> HIDE DEF d
    <2>3. /\ e \in Parsers(a) /\ e.event = p.event /\ e.usage = p.usage /\ SameText(p, e)
          /\ d # 0 /\ a[k].kind = "data" =>
               /\ q.event = Append(p.event, [line |-> a[k], whole |-> d = 2])
               /\ q.usage = p.usage /\ SameText(p, q)
          /\ d = 1 /\ a[k].kind # "data" => q = e
      <3>1. LineDone(p, e, q, a, k, d)
        BY <1>0, <2>1, LineIs
      <3> QED BY <3>1 DEF LineDone
    <2> QED BY <2>2, <2>3
  <1>3. PICK s \in 1..((k - 1) + 1) : /\ RunFrom(a, s, k - 1) /\ EventIs(p.event, a, s, k - 1)
                                      /\ Gathered(p, a, Docs(a, s - 1))
    BY DEF Holds
  <1>4. CASE a[k].kind # "data"
    <2>1. Holds(e, a, k - 1)
      BY <1>2, <1>3, SameGathered DEF Holds
    <2> QED BY <1>1, <1>2, <1>4, <2>1, FlushGathers
  <1>5. CASE a[k].kind = "data"
    <2>1. s \in 1..k /\ s \in Nat /\ s \in 1..(k + 1) /\ s >= 1 /\ s <= k
      BY <1>1
    <2>2. q \in Parsers(a)
      BY <1>1, LineFits
    <2>3. ~IsDocument(q.event)
      <3> DEFINE n == Len(p.event) + 1
                 x == [line |-> a[k], whole |-> FALSE]
      <3>1. p.event \in Seq(Gathering(a))
        BY DEF Parsers, Fields
      <3>2. q.event = Append(p.event, x)
        BY <1>2, <1>5
      <3>3. q.event[n] = x /\ n \in DOMAIN q.event
        <4> HIDE DEF x
        <4>1. q.event \in Seq(Gathering(a))
          BY <2>2 DEF Parsers, Fields
        <4> DEFINE events == p.event
        <4>2. events \in Seq(Gathering(a)) /\ n = Len(events) + 1 /\ q.event = Append(events, x)
          BY <3>1, <3>2
        <4> HIDE DEF events, n
        <4>3. Len(Append(events, x)) = n /\ Append(events, x)[n] = x /\ n \in Nat \ {0}
          BY <4>2
        <4>4. Len(q.event) = n /\ q.event[n] = x
          BY <4>2, <4>3
        <4> QED BY <4>1, <4>3, <4>4
      <3>4. q.event[n].whole = FALSE
        BY <3>3
      <3> QED BY <3>3, <3>4 DEF IsDocument
    <2>4. r = [q EXCEPT !.event = <<>>]
      BY <2>3 DEF FlushEvent
    <2>5. r.usage = p.usage /\ SameText(p, r)
      BY <1>2, <1>5, <2>2, <2>4 DEF Parsers, Fields, SameText
    <2>6. Docs(a, k - 1) = Docs(a, s - 1)
      <3>1. Docs(a, k - 1) = Docs(a, s - 1) \cup (IF s <= k - 1 /\ a[s].part = 1 /\ a[s].of = (k - 1) - s + 1 THEN {s} ELSE {})
        BY <1>1, <1>3, DocsOfRun
      <3>2. RunFrom(a, s, k)
        <4>1. \A j \in s..k : j \in s..(k - 1) \/ j = k
          BY <1>1, <2>1
        <4> QED BY <1>3, <1>5, <2>1, <4>1 DEF RunFrom
      <3>3. \A j \in 0..(k - s) :
            /\ a[s + j].kind = "data" /\ a[s + j].payload = a[s].payload
            /\ a[s + j].of = a[s].of /\ a[s + j].part = a[s].part + j /\ a[s + j].part \in 1..a[s].of
        BY <2>1, <3>2, RunsAreParts
      <3>4. k - s \in 0..(k - s)
        BY <1>1, <2>1
      <3>5. a[s].part + (k - s) \in 1..a[s].of
        BY <3>3, <3>4
      <3>6. ~(a[s].part = 1 /\ a[s].of = (k - 1) - s + 1)
        BY <1>1, <2>1, <3>5
      <3> QED BY <3>1, <3>6
    <2> QED BY <1>3, <2>5, <2>6, SameGathered
  <1> QED BY <1>4, <1>5

-----------------------------------------------------------------------------
(* The parser after the first symbols of an answer *)

\* The sizes of the first n symbols, and of what is kept of them.
Measures(a, n, p) ==
    /\ p.size = BytesIn(a, n) /\ p.rawLen <= RawIn(a, n)
    /\ RawIn(a, n) <= MaxText => p.raw + p.gap <= p.size /\ p.raw >= CharsIn(a, n)
    /\ BytesIn(a, n) = 0 => RawIn(a, n) = 0

\* After n symbols of the answer: the line that is being read and what is pending of it; the
\* lines that were read, and what is known of the bytes and the characters; the documents.
Reads(a, n, p) ==
    /\ \E s, k, d :
          /\ Place(a, s, n, k, d) /\ Pends(p.pending, k, d)
          /\ LinesIn(a, n) = {i \in 1..(IF d = 2 THEN k ELSE k - 1) : a[i].kind # "blank"}
          /\ WellFormed(a) => Holds(p, a, k - 1)
    /\ Measures(a, n, p)

\* The counts of characters and bytes.
LEMMA CountsIn ==
  ASSUME NEW a \in Answers
  PROVE  /\ Wire(a) \in Seq(SymbolsOf(a)) /\ Len(Wire(a)) \in Nat /\ DOMAIN Wire(a) = 1..Len(Wire(a))
         /\ \A n \in 0..Len(Wire(a)) :
               BytesIn(a, n) \in Nat /\ CharsIn(a, n) \in Nat /\ RawIn(a, n) \in Nat
         /\ BytesIn(a, 0) = 0 /\ CharsIn(a, 0) = 0 /\ RawIn(a, 0) = 0
         /\ \A n \in 0..(Len(Wire(a)) - 1) :
               /\ BytesIn(a, n + 1) = BytesIn(a, n) + SymbolBytes(a, Wire(a)[n + 1])
               /\ CharsIn(a, n + 1) = CharsIn(a, n) + SymbolChars(a, Wire(a)[n + 1])
               /\ RawIn(a, n + 1) = RawIn(a, n) + SymbolRaw(a, Wire(a)[n + 1])
  <1> DEFINE w == Wire(a)
             D == 1..Len(w)
             Counts(f) == f \in [D -> Nat]
             fb == [m \in D |-> SymbolBytes(a, w[m])]
             fc == [m \in D |-> SymbolChars(a, w[m])]
             fr == [m \in D |-> SymbolRaw(a, w[m])]
  <1>1. PICK s : Lays(a, s)
    BY AnswersFit, WireLaidOut
  <1>2. w \in Seq(SymbolsOf(a)) /\ Len(w) \in Nat /\ DOMAIN w = D
    BY <1>1 DEF Lays
  <1>3. ASSUME NEW symbol \in SymbolsOf(a)
        PROVE  SymbolBytes(a, symbol) \in Nat /\ SymbolChars(a, symbol) \in Nat /\ SymbolRaw(a, symbol) \in Nat
    <2>1. CASE symbol = LineFeed
      BY <2>1 DEF SymbolBytes, SymbolChars, SymbolRaw
    <2>2. CASE symbol # LineFeed
      <3>1. symbol \in HalfSymbols(a) /\ FALSE \in BOOLEAN
        BY <2>2 DEF SymbolsOf
      <3> QED BY <3>1, HalvesFit
    <2> QED BY <2>1, <2>2
  <1>4. Counts(fb) /\ Counts(fc) /\ Counts(fr)
    <2>1. \A m \in D : w[m] \in SymbolsOf(a)
      BY <1>2
    <2> HIDE DEF w, D
    <2> QED BY <1>3, <2>1
  <1>5. \A n : BytesIn(a, n) = Total(fb, 1..n) /\ CharsIn(a, n) = Total(fc, 1..n) /\ RawIn(a, n) = Total(fr, 1..n)
    BY <1>2 DEF BytesIn, CharsIn, RawIn
  <1>6. ASSUME NEW f, Counts(f)
        PROVE  /\ \A n \in 0..Len(w) : Total(f, 1..n) \in Nat
               /\ Total(f, 1..0) = 0
               /\ \A n \in 0..(Len(w) - 1) : Total(f, 1..(n + 1)) = Total(f, 1..n) + f[n + 1]
    <2> HIDE DEF w
    <2>1. ASSUME NEW n \in 0..Len(w) PROVE Total(f, 1..n) \in Nat
      <3> DEFINE T == 1..n
      <3>1. T \in SUBSET D
        BY <1>2
      <3>2. IsFiniteSet(D) /\ \A x \in D : f[x] \in Nat
        <4>1. IsFiniteSet(D)
          BY <1>2, FS_Interval
        <4>2. f \in [D -> Nat]
          BY <1>6
        <4> HIDE DEF D
        <4> QED BY <4>1, <4>2
      <3> HIDE DEF D, T
      <3>3. \A U \in SUBSET D : Total(f, U) \in Nat
        BY <3>2, TotalNat
      <3> QED BY <3>1, <3>3 DEF T
    <2>2. Total(f, 1..0) = 0
      <3>1. 1..0 = {}
        OBVIOUS
      <3> QED BY <3>1, TotalOfNone
    <2>3. ASSUME NEW n \in 0..(Len(w) - 1) PROVE Total(f, 1..(n + 1)) = Total(f, 1..n) + f[n + 1]
      <3>1. n \in Nat /\ n \in 0..Len(w) /\ n + 1 \in D /\ \A x \in 1..(n + 1) : x \in D
        BY <1>2
      <3>2. \A x \in 1..(n + 1) : f[x] \in Int
        BY <1>6, <3>1
      <3>3. Total(f, 1..(n + 1)) = f[n + 1] + Total(f, 1..n)
        BY <3>1, <3>2, TotalNext
      <3>4. Total(f, 1..n) \in Nat /\ f[n + 1] \in Nat
        BY <1>6, <2>1, <3>1
      <3> QED BY <3>3, <3>4
    <2> QED BY <2>1, <2>2, <2>3
  <1>7. \A m \in D : fb[m] = SymbolBytes(a, w[m]) /\ fc[m] = SymbolChars(a, w[m]) /\ fr[m] = SymbolRaw(a, w[m])
    OBVIOUS
  <1>8. \A n \in 0..(Len(w) - 1) : n + 1 \in D
    BY <1>2
  <1> HIDE DEF fb, fc, fr, Counts, D
  <1>9. /\ \A n \in 0..Len(w) : Total(fb, 1..n) \in Nat /\ Total(fc, 1..n) \in Nat /\ Total(fr, 1..n) \in Nat
        /\ Total(fb, 1..0) = 0 /\ Total(fc, 1..0) = 0 /\ Total(fr, 1..0) = 0
        /\ \A n \in 0..(Len(w) - 1) : /\ Total(fb, 1..(n + 1)) = Total(fb, 1..n) + fb[n + 1]
                                      /\ Total(fc, 1..(n + 1)) = Total(fc, 1..n) + fc[n + 1]
                                      /\ Total(fr, 1..(n + 1)) = Total(fr, 1..n) + fr[n + 1]
    BY <1>4, <1>6
  <1> QED BY <1>2, <1>5, <1>7, <1>8, <1>9 DEF w, D

\* One line more is read with the second half of a line, and with that only.
LEMMA LinesGrow ==
  ASSUME NEW a, NEW n \in Nat
  PROVE  LinesIn(a, n + 1) =
           LinesIn(a, n) \cup {i \in DOMAIN a : Wire(a)[n + 1] = [line |-> i, half |-> 2]}
  <1>1. \A m : m \in 1..(n + 1) <=> m \in 1..n \/ m = n + 1
    OBVIOUS
  <1> QED BY <1>1 DEF LinesIn

\* A new parser has read nothing.
LEMMA ReadsStart ==
  ASSUME NEW a \in Answers
  PROVE  NewParser \in Parsers(a) /\ Reads(a, 0, NewParser)
  <1> DEFINE p == NewParser
  <1>1. PICK s : Lays(a, s)
    BY AnswersFit, WireLaidOut
  <1>2. Len(a) \in Nat \ {0} /\ s[0] = 0 /\ s \in [0..Len(a) -> Nat] /\ DOMAIN a = 1..Len(a)
    BY <1>1, AnswersFit DEF Lays
  <1>3. /\ p.pending = <<>> /\ p.event = <<>> /\ p.usage = NoUsage /\ p.text = 0 /\ p.textLen = 0
        /\ p.raw = 0 /\ p.gap = 0 /\ p.rawLen = 0 /\ p.size = 0 /\ MaxText \in Nat
    BY ParserAssumption DEF NewParser
  <1>4. p \in Parsers(a)
    <2>1. <<>> \in Seq(HalfSymbols(a)) /\ <<>> \in Seq(Gathering(a)) /\ NoUsage \in Usage /\ MaxText \in Nat
      BY ParserAssumption DEF NoUsage, Usage, Names
    <2> QED BY <2>1 DEF Parsers, Fields, NewParser
  <1> HIDE DEF p
  <1>5. Place(a, s, 0, 1, 0)
    <2>1. 1 \in 1..Len(a) /\ 0 \in 0..Width(a[1]) /\ 0 = s[1 - 1] + 0
      BY <1>2 DEF Width
    <2> QED BY <1>1, <2>1 DEF Place
  <1>6. Pends(p.pending, 1, 0)
    BY <1>3 DEF Pends
  <1>7. LinesIn(a, 0) = {}
    BY DEF LinesIn
  <1>8. {i \in 1..(IF 0 = 2 THEN 1 ELSE 1 - 1) : a[i].kind # "blank"} = {}
    OBVIOUS
  <1>9. Holds(p, a, 1 - 1)
    <2>1. Docs(a, 0) = {}
      BY DEF Docs
    <2>2. RunFrom(a, 1, 0) /\ EventIs(p.event, a, 1, 0)
      BY <1>3 DEF RunFrom, EventIs
    <2>3. TextKept(a, {}) = 0 /\ TextBytes(a, {}) = 0
      BY TotalOfNone DEF TextKept, TextBytes
    <2>4. Gathered(p, a, {})
      BY <1>3, <2>3 DEF Gathered, Largest, First, NoUsage, Smaller
    <2> QED BY <2>1, <2>2, <2>4 DEF Holds
  <1>10. Measures(a, 0, p)
    BY <1>3, CountsIn DEF Measures
  <1> QED BY <1>4, <1>5, <1>6, <1>7, <1>8, <1>9, <1>10 DEF Reads, p

\* One symbol more.
LEMMA TakeReads ==
  ASSUME NEW a \in Answers, NEW n \in Nat, n < Len(Wire(a)), NEW p \in Parsers(a), Reads(a, n, p),
         NEW alone \in BOOLEAN, NEW r, r = TakeOne(p, Wire(a)[n + 1], alone, a)
  PROVE  Reads(a, n + 1, r)
  <1> DEFINE x == Wire(a)[n + 1]
             q == Kept(p, x, alone, a)
  <1>1. /\ Len(a) \in Nat \ {0} /\ a \in Seq(Line) /\ DOMAIN a = 1..Len(a)
    BY AnswersFit
  <1>2. PICK s, k, d :
          /\ Place(a, s, n, k, d) /\ Pends(p.pending, k, d)
          /\ LinesIn(a, n) = {i \in 1..(IF d = 2 THEN k ELSE k - 1) : a[i].kind # "blank"}
          /\ WellFormed(a) => Holds(p, a, k - 1)
    BY DEF Reads
  <1>3. /\ x \in SymbolsOf(a) /\ n \in 0..Len(Wire(a)) /\ n \in 0..(Len(Wire(a)) - 1) /\ n + 1 \in 0..Len(Wire(a))
    <2>1. n + 1 \in 1..Len(Wire(a)) /\ Wire(a) \in Seq(SymbolsOf(a)) /\ Len(Wire(a)) \in Nat
      BY CountsIn
    <2> QED BY <2>1
  <1>4. r = Feed(q, x, a)
    BY DEF TakeOne
  <1>5. /\ q \in Parsers(a)
        /\ q.pending = p.pending /\ q.event = p.event /\ q.usage = p.usage /\ SameText(p, q)
        /\ SymbolBytes(a, x) \in Nat /\ SymbolChars(a, x) \in Nat /\ SymbolRaw(a, x) \in Nat
        /\ SymbolBytes(a, x) = 0 => SymbolRaw(a, x) = 0
        /\ q.size = p.size + SymbolBytes(a, x)
        /\ q.rawLen <= p.rawLen + SymbolRaw(a, x)
        /\ p.rawLen + SymbolRaw(a, x) <= MaxText =>
              /\ q.raw + q.gap <= p.raw + p.gap + SymbolBytes(a, x)
              /\ q.raw >= p.raw + SymbolChars(a, x)
    <2> HIDE DEF x
    <2> QED BY <1>3, KeptFits DEF SameText
  <1>6. Measures(a, n + 1, q)
    <2> DEFINE B == BytesIn(a, n)
               C == CharsIn(a, n)
               R == RawIn(a, n)
               b == SymbolBytes(a, x)
               c == SymbolChars(a, x)
               w == SymbolRaw(a, x)
    <2>1. /\ BytesIn(a, n + 1) = B + b /\ CharsIn(a, n + 1) = C + c /\ RawIn(a, n + 1) = R + w
          /\ B \in Nat /\ C \in Nat /\ R \in Nat
      BY <1>3, CountsIn
    <2>2. /\ p.size = B /\ p.rawLen <= R
          /\ R <= MaxText => p.raw + p.gap <= p.size /\ p.raw >= C
          /\ B = 0 => R = 0
      BY DEF Reads, Measures
    <2>3. /\ p.raw \in Nat /\ p.gap \in Nat /\ q.raw \in Nat /\ q.gap \in Nat /\ p.size \in Nat
          /\ p.rawLen \in Nat /\ q.rawLen \in Nat /\ MaxText \in Nat
      BY <1>5, ParserAssumption DEF Parsers, Fields
    <2>4. /\ b \in Nat /\ c \in Nat /\ w \in Nat /\ (b = 0 => w = 0)
          /\ q.size = p.size + b /\ q.rawLen <= p.rawLen + w
          /\ p.rawLen + w <= MaxText => q.raw + q.gap <= p.raw + p.gap + b /\ q.raw >= p.raw + c
      BY <1>5
    <2> HIDE DEF B, C, R, b, c, w
    <2>5. q.rawLen <= R + w
      BY <2>1, <2>2, <2>3, <2>4, SMTT(30)
    <2>6. ASSUME R + w <= MaxText PROVE q.raw + q.gap <= q.size /\ q.raw >= C + c
      <3>1. R <= MaxText /\ p.rawLen + w <= MaxText
        BY <2>1, <2>2, <2>3, <2>4, <2>6
      <3>2. p.raw + p.gap <= p.size /\ p.raw >= C
        BY <2>2, <3>1
      <3>3. q.raw + q.gap <= p.raw + p.gap + b /\ q.raw >= p.raw + c
        BY <2>4, <3>1
      <3> DEFINE u == p.raw
                 v == p.gap
                 y == q.raw
                 z == q.gap
                 t == p.size
      <3>4. /\ u \in Nat /\ v \in Nat /\ y \in Nat /\ z \in Nat /\ t \in Nat
            /\ u + v <= t /\ u >= C /\ y + z <= u + v + b /\ y >= u + c /\ q.size = t + b
        BY <2>3, <2>4, <3>2, <3>3
      <3> HIDE DEF u, v, y, z, t
      <3>5. y + z <= t + b /\ y >= C + c
        BY <2>1, <2>4, <3>4
      <3> QED BY <3>4, <3>5 DEF y, z
    <2>7. B + b = 0 => R + w = 0
      BY <2>1, <2>2, <2>4
    <2> QED BY <2>1, <2>2, <2>4, <2>5, <2>6, <2>7 DEF Measures
  <1>7. LinesIn(a, n + 1) = LinesIn(a, n) \cup {i \in DOMAIN a : x = [line |-> i, half |-> 2]}
    BY LinesGrow
  <1>8. WellFormed(a) => Holds(q, a, k - 1)
    BY <1>2, <1>5, SameGathered DEF Holds
  <1>9. k \in 1..Len(a) /\ d \in 0..Width(a[k]) /\ Width(a[k]) \in {0, 2}
        /\ (Width(a[k]) = 0 <=> a[k].kind = "blank")
    BY <1>2 DEF Place, Width
  <1>10. \/ /\ d < Width(a[k]) /\ x = [line |-> k, half |-> d + 1]
            /\ Place(a, s, n + 1, k, d + 1)
         \/ /\ d = Width(a[k]) /\ k < Len(a) /\ x = LineFeed
            /\ Place(a, s, n + 1, k + 1, 0)
    BY <1>1, <1>2, NextSymbol
  <1> HIDE DEF x, q
  <1>11. CASE d < Width(a[k]) /\ x = [line |-> k, half |-> d + 1] /\ Place(a, s, n + 1, k, d + 1)
    <2> DEFINE e == d + 1
    <2>1. d \in {0, 1} /\ e \in {1, 2} /\ e \in Nat /\ a[k].kind # "blank" /\ k \in DOMAIN a
      BY <1>1, <1>9, <1>11
    <2>2. x # LineFeed
      <3>1. x.line = k /\ LineFeed.line = 0 /\ k # 0
        BY <1>1, <1>9, <1>11 DEF LineFeed
      <3> QED BY <3>1
    <2>3. r = [q EXCEPT !.pending = Append(@, x)]
      BY <1>4, <2>2 DEF Feed
    <2>4. /\ r.pending = Append(p.pending, x) /\ r.event = q.event /\ r.usage = q.usage /\ SameText(q, r)
          /\ SameRaw(q, r)
      BY <1>5, <2>3 DEF Parsers, Fields, SameText, SameRaw
    <2>5. Pends(r.pending, k, e)
      <3>1. p.pending \in Seq(HalfSymbols(a)) /\ x \in HalfSymbols(a)
        BY <1>3, <2>2 DEF Parsers, Fields, SymbolsOf
      <3>2. Len(p.pending) = d /\ \A h \in 1..d : p.pending[h] = [line |-> k, half |-> h]
        BY <1>2 DEF Pends
      <3>3. /\ Len(r.pending) = d + 1 /\ r.pending[d + 1] = x
            /\ \A h \in 1..d : r.pending[h] = p.pending[h]
        BY <2>1, <2>4, <3>1, <3>2, AppendProperties
      <3>4. \A h \in 1..(d + 1) : h \in 1..d \/ h = d + 1
        BY <2>1
      <3> QED BY <1>11, <3>2, <3>3, <3>4 DEF Pends
    <2>6. LinesIn(a, n + 1) = {i \in 1..(IF e = 2 THEN k ELSE k - 1) : a[i].kind # "blank"}
      <3>1. {i \in DOMAIN a : x = [line |-> i, half |-> 2]} = IF e = 2 THEN {k} ELSE {}
        BY <1>11, <2>1
      <3>2. LinesIn(a, n) = {i \in 1..(k - 1) : a[i].kind # "blank"}
        BY <1>2, <2>1
      <3>3. \A i : i \in 1..k <=> i \in 1..(k - 1) \/ i = k
        BY <1>1, <1>9
      <3> HIDE DEF e
      <3>4. CASE e = 2
        BY <1>7, <2>1, <3>1, <3>2, <3>3, <3>4
      <3>5. CASE e # 2
        BY <1>7, <2>1, <3>1, <3>2, <3>5
      <3> QED BY <3>4, <3>5
    <2>7. WellFormed(a) => Holds(r, a, k - 1)
      BY <1>8, <2>4, SameGathered DEF Holds
    <2>8. Place(a, s, n + 1, k, e)
      BY <1>11
    <2> HIDE DEF e
    <2>9. Measures(a, n + 1, r)
      BY <1>6, <2>4 DEF Measures, SameRaw
    <2> QED BY <2>5, <2>6, <2>7, <2>8, <2>9 DEF Reads
  <1>12. CASE d = Width(a[k]) /\ k < Len(a) /\ x = LineFeed /\ Place(a, s, n + 1, k + 1, 0)
    <2>1. r = ProcessLine(q, a)
      BY <1>4, <1>12 DEF Feed
    <2>2. r.pending = <<>> /\ SameRaw(q, r)
      BY <1>5, <2>1, LineFits
    <2>3. Pends(r.pending, k + 1, 0)
      BY <2>2 DEF Pends
    <2>4. WellFormed(a) => Holds(r, a, (k + 1) - 1)
      <3> SUFFICES ASSUME WellFormed(a) PROVE Holds(r, a, k)
        <4>1. (k + 1) - 1 = k
          BY <1>1, <1>9
        <4> QED BY <4>1
      <3>1. Pends(q.pending, k, Width(a[k])) /\ Holds(q, a, k - 1)
        BY <1>2, <1>5, <1>8, <1>12
      <3> QED BY <1>5, <1>9, <2>1, <3>1, LineHolds
    <2>5. LinesIn(a, n + 1) = {i \in 1..(IF 0 = 2 THEN k + 1 ELSE (k + 1) - 1) : a[i].kind # "blank"}
      <3>1. {i \in DOMAIN a : x = [line |-> i, half |-> 2]} = {}
        <4>1. \A i : LineFeed # [line |-> i, half |-> 2]
          <5>1. LineFeed.half = 0 /\ \A i : [line |-> i, half |-> 2].half = 2
            BY DEF LineFeed
          <5> QED BY <5>1
        <4> QED BY <1>12, <4>1
      <3>2. LinesIn(a, n + 1) = LinesIn(a, n)
        BY <1>7, <3>1
      <3>3. (k + 1) - 1 = k /\ \A i : i \in 1..k <=> i \in 1..(k - 1) \/ i = k
        BY <1>1, <1>9
      <3>4. CASE d = 2
        BY <1>2, <3>2, <3>3, <3>4
      <3>5. CASE d # 2
        <4>1. a[k].kind = "blank"
          BY <1>9, <1>12, <3>5
        <4> QED BY <1>2, <3>2, <3>3, <3>5, <4>1
      <3> QED BY <3>4, <3>5
    <2>6. Measures(a, n + 1, r)
      BY <1>6, <2>2 DEF Measures, SameRaw
    <2> QED BY <1>12, <2>3, <2>4, <2>5, <2>6 DEF Reads
  <1> QED BY <1>10, <1>11, <1>12

\* A chunk more, wherever it is cut.
LEMMA ChunkReads ==
  ASSUME NEW a \in Answers, NEW p \in Parsers(a), NEW n \in Nat, NEW m \in Nat, n < m,
         m <= Len(Wire(a)), Reads(a, n, p), NEW r, r = AppendChunk(p, SubSeq(Wire(a), n + 1, m), a)
  PROVE  r \in Parsers(a) /\ Reads(a, m, r)
  <1> DEFINE G == {y \in Nat \X Parsers(a) : Reads(a, y[1], y[2])}
  <1>1. <<n, p>> \in G
    OBVIOUS
  <1>2. ASSUME NEW i \in n..(m - 1), NEW q \in Parsers(a), NEW alone \in BOOLEAN, <<i, q>> \in G
        PROVE  <<i + 1, TakeOne(q, Wire(a)[i + 1], alone, a)>> \in G
    <2>1. i \in Nat /\ i + 1 \in Nat /\ Reads(a, i, q)
      BY <1>2
    <2>2. Wire(a) \in Seq(SymbolsOf(a)) /\ Len(Wire(a)) \in Nat
      BY CountsIn
    <2>3. i < Len(Wire(a)) /\ i + 1 \in 1..Len(Wire(a))
      BY <2>1, <2>2
    <2>4. Wire(a)[i + 1] \in SymbolsOf(a)
      BY <2>2, <2>3
    <2>5. TakeOne(q, Wire(a)[i + 1], alone, a) \in Parsers(a)
      BY <2>4, OneFits
    <2>6. Reads(a, i + 1, TakeOne(q, Wire(a)[i + 1], alone, a))
      BY <2>1, <2>3, TakeReads
    <2> QED BY <2>1, <2>5, <2>6
  <1>3. \A y : y \in G => Reads(a, y[1], y[2])
    OBVIOUS
  <1> HIDE DEF G
  <1>4. r \in Parsers(a) /\ <<m, r>> \in G
    BY <1>1, <1>2, ChunkKeeps
  <1>5. Reads(a, <<m, r>>[1], <<m, r>>[2])
    BY <1>3, <1>4
  <1> QED BY <1>4, <1>5

-----------------------------------------------------------------------------
(* The bill *)

\* What Finalize processes: the line that is pending, and then the event that was gathered.
AtEnd(p, a) == IF p.pending = <<>> THEN p ELSE ProcessLine(p, a)
Final(p, a) == FlushEvent(AtEnd(p, a))

\* At the end, wherever it came, the parser has gathered the documents that were wholly read.
LEMMA FinalReads ==
  ASSUME NEW a \in Answers, NEW n, NEW p \in Parsers(a), Reads(a, n, p), NEW q, q = Final(p, a)
  PROVE  /\ q \in Parsers(a) /\ SameRaw(p, q)
         /\ WellFormed(a) => Gathered(q, a, DocumentsIn(a, n))
  <1> DEFINE l == AtEnd(p, a)
  <1>1. Len(a) \in Nat \ {0} /\ a \in Seq(Line)
    BY AnswersFit
  <1>2. PICK s, k, d :
          /\ Place(a, s, n, k, d) /\ Pends(p.pending, k, d)
          /\ LinesIn(a, n) = {i \in 1..(IF d = 2 THEN k ELSE k - 1) : a[i].kind # "blank"}
          /\ WellFormed(a) => Holds(p, a, k - 1)
    BY DEF Reads
  <1>3. k \in 1..Len(a) /\ k \in 0..Len(a) /\ k - 1 \in 0..Len(a) /\ d \in 0..2 /\ d <= Width(a[k])
        /\ Width(a[k]) \in {0, 2}
    BY <1>1, <1>2 DEF Place, Width
  <1>4. (p.pending = <<>>) <=> (d = 0)
    <2>1. d \in Nat
      BY <1>3
    <2> QED BY <1>2, <1>3, <2>1, PendingLine
  <1>5. d = 0 => l = p
    BY <1>4 DEF AtEnd
  <1>6. d # 0 => l = ProcessLine(p, a)
    BY <1>4 DEF AtEnd
  <1>7. q = FlushEvent(l)
    BY DEF Final
  <1> HIDE DEF l
  <1>8. l \in Parsers(a) /\ SameRaw(p, l)
    <2>1. CASE d = 0
      BY <1>5, <2>1 DEF SameRaw
    <2>2. CASE d # 0
      BY <1>6, <2>2, LineFits
    <2> QED BY <2>1, <2>2
  <1>9. q \in Parsers(a) /\ SameRaw(p, q)
    <2>1. q \in Parsers(a) /\ SameRaw(l, q)
      BY <1>7, <1>8, FlushFits
    <2> QED BY <1>8, <2>1 DEF SameRaw
  <1>10. ASSUME WellFormed(a) PROVE Gathered(q, a, DocumentsIn(a, n))
    <2>1. Holds(p, a, k - 1)
      BY <1>2, <1>10
    <2>2. CASE d = 0
      <3>1. Gathered(q, a, Docs(a, k - 1))
        <4> DEFINE j == k - 1
        <4>1. j \in 0..Len(a) /\ Holds(p, a, j) /\ q = FlushEvent(p)
          BY <1>3, <1>5, <1>7, <2>1, <2>2
        <4> HIDE DEF j
        <4>2. Gathered(q, a, Docs(a, j))
          BY <1>10, <4>1, FlushGathers
        <4> QED BY <4>2 DEF j
      <3>2. LinesIn(a, n) = {i \in 1..(k - 1) : a[i].kind # "blank"}
        BY <1>2, <2>2
      <3>3. DocumentsIn(a, n) = Docs(a, k - 1)
        BY <1>3, <1>10, <3>2, DocumentsAreDocs
      <3> QED BY <3>1, <3>3
    <2>3. CASE d = 1
      <3>1. Gathered(q, a, Docs(a, k - 1))
        BY <1>2, <1>3, <1>6, <1>7, <1>10, <2>1, <2>3, HalfLineAddsNothing
      <3>2. LinesIn(a, n) = {i \in 1..(k - 1) : a[i].kind # "blank"}
        BY <1>2, <2>3
      <3>3. DocumentsIn(a, n) = Docs(a, k - 1)
        BY <1>3, <1>10, <3>2, DocumentsAreDocs
      <3> QED BY <3>1, <3>3
    <2>4. CASE d = 2
      <3>1. Holds(l, a, k)
        <4>1. Pends(p.pending, k, Width(a[k])) /\ l = ProcessLine(p, a)
          BY <1>2, <1>3, <1>6, <2>4
        <4> QED BY <1>3, <1>10, <2>1, <4>1, LineHolds
      <3>2. Gathered(q, a, Docs(a, k))
        BY <1>3, <1>7, <1>8, <1>10, <3>1, FlushGathers
      <3>3. LinesIn(a, n) = {i \in 1..k : a[i].kind # "blank"}
        BY <1>2, <2>4
      <3>4. DocumentsIn(a, n) = Docs(a, k)
        BY <1>3, <1>10, <3>3, DocumentsAreDocs
      <3> QED BY <3>2, <3>4
    <2> QED BY <1>3, <2>2, <2>3, <2>4
  <1> QED BY <1>9, <1>10

\* The estimate of tokens is a number, of nothing nothing, and grows with the characters.
LEMMA EstimateGrows ==
  /\ Estimate(0) = 0
  /\ \A x \in Nat : Estimate(x) \in Nat /\ (Estimate(x) = 0 => x = 0)
  /\ \A x \in Nat : \A y \in Nat : x <= y => Estimate(x) <= Estimate(y)
  <1>1. Estimate(0) = 0
    BY DEF Estimate
  <1>2. \A x \in Nat : Estimate(x) \in Nat /\ (Estimate(x) = 0 => x = 0)
    BY DEF Estimate
  <1>3. \A x \in Nat : \A y \in Nat : x <= y => Estimate(x) <= Estimate(y)
    BY DEF Estimate
  <1> QED BY <1>1, <1>2, <1>3

\* Finalize in terms of what has been gathered at the end.
LEMMA FinalizeIs ==
  ASSUME NEW p, NEW a, NEW r, NEW q, q = Final(p, a), NEW bill, bill = Finalize(p, r, a)
  PROVE  /\ bill.in = IF q.usage.in # 0 THEN q.usage.in ELSE Estimate(r.chars)
         /\ bill.out = IF q.usage.out # 0 THEN q.usage.out
                       ELSE IF Estimate(IF q.text # 0 THEN q.text ELSE q.raw) # 0
                            THEN Estimate(IF q.text # 0 THEN q.text ELSE q.raw)
                            ELSE Estimate(q.size)
         /\ bill.model = IF q.usage.model # NoModel THEN q.usage.model ELSE r.model
         /\ bill = [in |-> bill.in, out |-> bill.out, model |-> bill.model]
  BY DEF Finalize, Final, AtEnd

\* What is billed are two counts and a name.
LEMMA FinalizeFits ==
  ASSUME NEW a \in Answers, NEW p \in Parsers(a), NEW r \in Request
  PROVE  Finalize(p, r, a) \in Usage
  <1> DEFINE q == Final(p, a)
             bill == Finalize(p, r, a)
             t == IF q.text # 0 THEN q.text ELSE q.raw
  <1>1. q \in Parsers(a)
    <2>1. AtEnd(p, a) \in Parsers(a)
      BY LineFits DEF AtEnd
    <2> QED BY <2>1, FlushFits DEF Final
  <1>2. /\ bill.in = IF q.usage.in # 0 THEN q.usage.in ELSE Estimate(r.chars)
        /\ bill.out = IF q.usage.out # 0 THEN q.usage.out
                      ELSE IF Estimate(t) # 0 THEN Estimate(t) ELSE Estimate(q.size)
        /\ bill.model = IF q.usage.model # NoModel THEN q.usage.model ELSE r.model
        /\ bill = [in |-> bill.in, out |-> bill.out, model |-> bill.model]
    <2> HIDE DEF q, bill
    <2> QED BY FinalizeIs DEF q, bill
  <1> HIDE DEF q, bill
  <1>3. q.usage \in Usage /\ q.text \in Nat /\ q.raw \in Nat /\ q.size \in Nat
    BY <1>1 DEF Parsers, Fields
  <1>4. q.usage.in \in Nat /\ q.usage.out \in Nat /\ q.usage.model \in Names /\ r.model \in Names /\ r.chars \in Nat
    BY <1>3 DEF Usage, Request
  <1>5. t \in Nat
    BY <1>3
  <1> HIDE DEF t
  <1>6. Estimate(r.chars) \in Nat /\ Estimate(t) \in Nat /\ Estimate(q.size) \in Nat
    BY <1>3, <1>4, <1>5, EstimateGrows
  <1>7. bill.in \in Nat /\ bill.out \in Nat /\ bill.model \in Names
    BY <1>2, <1>4, <1>6
  <1>8. bill \in Usage
    BY <1>2, <1>7 DEF Usage
  <1> QED BY <1>8 DEF bill

\* The bill of what was gathered from the documents at the lines in D.
BillOf(bill, r, a, n, D, in, out, name) ==
    /\ Largest(in, Ins(a), D) /\ Largest(out, Outs(a), D) /\ First(name, ModelNames(a), D)
    /\ bill.in = IF in # 0 THEN in ELSE Estimate(r.chars)
    /\ bill.model = IF name # NoModel THEN name ELSE r.model
    /\ out # 0 => bill.out = out
    /\ out = 0 /\ TextKept(a, D) # 0 => bill.out = Estimate(TextKept(a, D))
    /\ out = 0 /\ TextKept(a, D) = 0 =>
          IF RawIn(a, n) <= MaxText
          THEN bill.out \in Estimate(CharsIn(a, n))..Estimate(BytesIn(a, n))
          ELSE bill.out \in 1..Estimate(Larger(BytesIn(a, n), MaxText))
    /\ bill.out = 0 => out = 0 /\ BytesIn(a, n) = 0

\* Reads and Finalize bill what was read.
LEMMA BillIs ==
  ASSUME NEW a \in Answers, WellFormed(a), NEW n \in 0..Len(Wire(a)), NEW p \in Parsers(a),
         Reads(a, n, p), NEW r \in Request, NEW bill, bill = Finalize(p, r, a),
         NEW D, D = DocumentsIn(a, n)
  PROVE  \E in \in Nat : \E out \in Nat : \E name \in Names : BillOf(bill, r, a, n, D, in, out, name)
  <1> DEFINE q == Final(p, a)
             in == q.usage.in
             out == q.usage.out
             name == q.usage.model
             t == IF q.text # 0 THEN q.text ELSE q.raw
             T == TextKept(a, D)
             C == CharsIn(a, n)
             B == BytesIn(a, n)
             R == RawIn(a, n)
             M == Larger(B, MaxText)
  <1>1. q \in Parsers(a) /\ SameRaw(p, q) /\ Gathered(q, a, D)
    <2> HIDE DEF q
    <2> QED BY FinalReads DEF q
  <1>2. /\ bill.in = IF in # 0 THEN in ELSE Estimate(r.chars)
        /\ bill.out = IF out # 0 THEN out ELSE IF Estimate(t) # 0 THEN Estimate(t) ELSE Estimate(q.size)
        /\ bill.model = IF name # NoModel THEN name ELSE r.model
    <2> HIDE DEF q
    <2> QED BY FinalizeIs DEF q
  <1> HIDE DEF q
  <1>3. /\ q.usage \in Usage /\ q.text \in Nat /\ q.raw \in Nat /\ q.size \in Nat
        /\ q.gap \in Nat /\ q.rawLen \in 0..MaxText /\ q.raw + q.gap <= q.rawLen /\ MaxText \in Nat \ {0}
    BY <1>1, ParserAssumption DEF Parsers, Fields
  <1>4. in \in Nat /\ out \in Nat /\ name \in Names
    BY <1>3 DEF Usage
  <1>5. q.text = T /\ T \in Nat
    BY <1>1, <1>3 DEF Gathered
  <1>6. /\ q.size = B /\ q.raw <= MaxText
        /\ R <= MaxText => q.raw <= B /\ q.raw >= C
        /\ B = 0 => R = 0
    <2>1. /\ q.size = B /\ (R <= MaxText => q.raw + q.gap <= q.size /\ q.raw >= C)
          /\ B = 0 => R = 0
      BY <1>1 DEF Reads, Measures, SameRaw
    <2>2. q.raw <= MaxText
      BY <1>3
    <2> HIDE DEF B, R, C
    <2> QED BY <1>3, <2>1, <2>2
  <1>7. B \in Nat /\ C \in Nat /\ R \in Nat
    BY CountsIn
  <1>8. M \in Nat /\ B <= M /\ MaxText <= M
    <2> HIDE DEF B
    <2> QED BY <1>3, <1>7 DEF Larger
  <1> HIDE DEF in, out, name, T, C, B, R, M
  <1>9. out = 0 /\ T # 0 => bill.out = Estimate(T) /\ bill.out # 0
    <2> SUFFICES ASSUME out = 0, T # 0
                 PROVE  bill.out = Estimate(T) /\ bill.out # 0
      OBVIOUS
    <2>1. t = T
      BY <1>5
    <2>2. Estimate(t) # 0
      BY <1>5, <2>1, EstimateGrows
    <2> HIDE DEF t
    <2> QED BY <1>2, <2>1, <2>2
  <1>10. ASSUME out = 0, T = 0
         PROVE  /\ IF R <= MaxText THEN bill.out \in Estimate(C)..Estimate(B)
                   ELSE bill.out \in 1..Estimate(M)
                /\ bill.out = 0 => B = 0
    <2>1. t = q.raw
      BY <1>5, <1>10
    <2> HIDE DEF t
    <2> DEFINE w == q.raw
    <2>2. bill.out = IF Estimate(w) # 0 THEN Estimate(w) ELSE Estimate(B)
      BY <1>2, <1>6, <1>10, <2>1
    <2>3. w \in Nat /\ w <= M /\ (R <= MaxText => w <= B /\ w >= C)
      BY <1>3, <1>6, <1>8
    <2> HIDE DEF w
    <2>4. /\ Estimate(C) \in Nat /\ Estimate(w) \in Nat /\ Estimate(B) \in Nat /\ Estimate(M) \in Nat
          /\ Estimate(w) <= Estimate(M) /\ Estimate(B) <= Estimate(M)
          /\ Estimate(B) = 0 => B = 0
      BY <1>7, <1>8, <2>3, EstimateGrows
    <2>5. CASE R <= MaxText
      <3>1. Estimate(C) <= Estimate(w) /\ Estimate(w) <= Estimate(B)
        BY <1>7, <2>3, <2>5, EstimateGrows
      <3>2. bill.out \in Estimate(C)..Estimate(B) /\ (bill.out = 0 => B = 0)
        BY <2>2, <2>4, <3>1
      <3> QED BY <2>5, <3>2
    <2>6. CASE ~(R <= MaxText)
      <3>1. B # 0
        BY <1>3, <1>6, <1>7, <2>6
      <3>2. bill.out \in 1..Estimate(M)
        BY <2>2, <2>4, <3>1
      <3> QED BY <2>6, <3>1, <3>2
    <2> QED BY <2>5, <2>6
  <1>11. bill.out = 0 => out = 0 /\ B = 0
    <2>1. out # 0 => bill.out = out
      BY <1>2
    <2> QED BY <1>9, <1>10, <2>1
  <1>12. Largest(in, Ins(a), D) /\ Largest(out, Outs(a), D) /\ First(name, ModelNames(a), D)
    BY <1>1 DEF Gathered, in, out, name
  <1>13. BillOf(bill, r, a, n, D, in, out, name)
    BY <1>2, <1>9, <1>10, <1>11, <1>12 DEF BillOf, T, C, B, R, M
  <1> QED BY <1>4, <1>13

\* The largest count is what Reported finds.
LEMMA ReportedIs ==
  ASSUME NEW count \in Nat, NEW D, NEW counts, \A i \in D : counts[i] \in Nat,
         Largest(count, counts, D), NEW S, S = {counts[i] : i \in D}
  PROVE  Reported(S) = count /\ (count = 0 <=> S \subseteq {0})
  <1> DEFINE U == S \cup {0}
  <1>1. /\ \A x \in U : x \in Nat /\ x <= count
        /\ count \in U
    BY DEF Largest
  <1>2. Max(U) \in U /\ \A y \in U : Max(U) >= y
    BY <1>1 DEF Max
  <1>3. Max(U) = count
    <2>1. Max(U) \in Nat /\ Max(U) <= count /\ Max(U) >= count
      BY <1>1, <1>2
    <2> QED BY <2>1
  <1>4. count = 0 <=> S \subseteq {0}
    <2>1. ASSUME count = 0 PROVE S \subseteq {0}
      BY <1>1, <2>1
    <2>2. ASSUME S \subseteq {0} PROVE count = 0
      BY <1>1, <2>2
    <2> QED BY <2>1, <2>2
  <1> QED BY <1>3, <1>4 DEF Reported

\* The first name is the one at the first line that gives one.
LEMMA FirstIs ==
  ASSUME NEW m \in Nat, NEW D \in SUBSET (1..m), NEW names, NEW name, First(name, names, D),
         NEW N \in SUBSET D, \A i \in D : i \in N <=> names[i] # NoModel
  PROVE  /\ name = NoModel <=> N = {}
         /\ N # {} => Min(N) \in N /\ name = names[Min(N)]
  <1>1. CASE N = {}
    BY <1>1 DEF First
  <1>2. CASE N # {}
    <2>1. PICK i \in N : name = names[i] /\ name # NoModel /\ \A j \in D : j < i => names[j] = NoModel
      BY <1>2 DEF First
    <2>2. \A j \in N : i <= j
      BY <2>1
    <2>3. Min(N) \in N /\ \A j \in N : Min(N) <= j
      BY <2>1, <2>2 DEF Min
    <2>4. Min(N) = i
      <3>1. Min(N) <= i /\ i <= Min(N)
        BY <2>1, <2>2, <2>3
      <3>2. i \in 1..m /\ Min(N) \in 1..m
        BY <2>1, <2>3
      <3> DEFINE x == Min(N)
      <3> HIDE DEF x
      <3>3. x = i
        BY <3>1, <3>2 DEF x
      <3> QED BY <3>3 DEF x
    <2> QED BY <1>2, <2>1, <2>3, <2>4
  <1> QED BY <1>1, <1>2

-----------------------------------------------------------------------------
(* The inductive invariant *)

\* The handler's places, once it knows how the answer is captured.
OfStream == {"copy", "write", "close"}
OfBuffer == {"readall", "reply"}

\* Where the handler is says how the answer is captured.
ModeFits ==
    /\ pc \in OfStream \cup OfBuffer \cup {"roundtrip", "track", "done"}
    /\ mode \in {"unknown", "buffered", "streaming"}
    /\ pc = "roundtrip" => mode = "unknown"
    /\ mode = "unknown" => pc \in {"roundtrip", "done"}
    /\ pc \in OfStream => mode = "streaming"
    /\ pc \in OfBuffer => mode = "buffered"
    /\ pc = "track" => resume \in IF mode = "streaming" THEN {"write", "close", "done"} ELSE {"reply"}

\* Before its one call of the tracker an answer is unfinished or unread; the row is stored
\* during that call.
CallsFit ==
    /\ calls \in {0, 1} /\ stored \in {0, 1} /\ stored <= calls /\ finished \in BOOLEAN
    /\ pc \in {"roundtrip", "readall"} => calls = 0 /\ ~finished
    /\ pc = "track" => calls = 1 /\ stored = 0
    /\ mode = "streaming" /\ ~finished => calls = 0 /\ pc \in OfStream

\* The other variables have their values.
ValuesFit ==
    /\ answer \in Answers /\ request \in Requests
    /\ read \in 0..Len(wire) /\ written \in 0..read
    /\ eof \in BOOLEAN /\ ctx \in {"live", "cancelled"}
    /\ resume \in {"write", "close", "done", "reply"} /\ billed \in Usage

\* The parser holds what was read of a stream, and nothing of a buffered answer.
ParserFits ==
    /\ parser \in Parsers(answer)
    /\ mode # "streaming" => parser = NewParser
    /\ mode # "buffered" => Reads(answer, read, parser)

\* Read is not called again after the stream was finished with, so that the parser stays as
\* it was when the bill was made of it.
FinalFits ==
    /\ finished => pc # "copy" /\ (pc = "write" => eof)
    /\ mode = "streaming" /\ pc = "track" => (resume = "write" => eof)
    /\ mode = "streaming" /\ finished =>
          LET bill == Finalize(parser, request, answer)
          IN IF calls = 0 THEN NothingToBill(bill) ELSE billed = bill

IInv == ModeFits /\ CallsFit /\ ValuesFit /\ ParserFits /\ FinalFits

\* The invariant holds before there is an answer.
LEMMA StartsFit == Init => IInv
  <1> SUFFICES ASSUME Init PROVE IInv
    OBVIOUS
  <1>1. /\ pc = "roundtrip" /\ mode = "unknown" /\ finished = FALSE /\ resume = "done"
        /\ calls = 0 /\ stored = 0
    BY DEF Init
  <1>2. ModeFits
    BY <1>1 DEF ModeFits, OfStream, OfBuffer
  <1>3. ~finished /\ finished \in BOOLEAN
    BY <1>1
  <1>4. CallsFit
    <2>1. pc = "roundtrip" /\ mode = "unknown" /\ calls = 0 /\ stored = 0
      BY <1>1
    <2> QED BY <1>3, <2>1, SMT DEF CallsFit
  <1>5. answer \in Answers /\ request \in Requests /\ read = 0 /\ written = 0 /\ parser = NewParser
    BY DEF Init
  <1>6. ValuesFit
    <2>1. Len(wire) \in Nat
      BY <1>5, CountsIn DEF wire
    <2>2. NoUsage \in Usage
      BY DEF NoUsage, Usage, Names
    <2>3. eof \in BOOLEAN /\ ctx \in {"live", "cancelled"} /\ billed = NoUsage
      BY DEF Init
    <2> QED BY <1>1, <1>5, <2>1, <2>2, <2>3 DEF ValuesFit
  <1>7. ParserFits
    BY <1>5, ReadsStart DEF ParserFits
  <1>8. FinalFits
    <2>1. mode # "streaming"
      BY <1>1
    <2> QED BY <1>3, <2>1 DEF FinalFits
  <1> QED BY <1>2, <1>4, <1>6, <1>7, <1>8 DEF IInv

\* finish, from wherever the stream ended: the first time the tracker may be called.
LEMMA FinishFits ==
  ASSUME IInv, mode = "streaming", pc \in OfStream, NEW p, NEW next \in {"write", "close", "done"},
         FinishWith(p, next), mode' = mode, stored' = stored
  PROVE  ModeFits' /\ CallsFit'
  <1>1. /\ finished' = TRUE
        /\ \/ pc' = next /\ calls' = calls
           \/ ~finished /\ pc' = "track" /\ resume' = next /\ calls' = calls + 1
    BY DEF FinishWith
  <1> QED BY <1>1 DEF IInv, ModeFits, CallsFit, OfStream, OfBuffer

\* And the bill, if it is made, is what the parser holds then.
LEMMA FinishBills ==
  ASSUME IInv, mode = "streaming", pc \in OfStream, answer' = answer, request' = request,
         mode' = mode, parser' \in Parsers(answer), finished => parser' = parser,
         NEW next \in {"write", "close", "done"}, next = "write" => eof', FinishWith(parser', next)
  PROVE  /\ FinalFits'
         /\ resume' \in {"write", "close", "done", "reply"} /\ billed' \in Usage
  <1> DEFINE b == Finalize(parser', request, answer)
  <1>1. /\ answer \in Answers /\ request \in Request /\ billed \in Usage
        /\ resume \in {"write", "close", "done", "reply"}
    BY RequestsAssumption DEF IInv, ValuesFit
  <1>2. b \in Usage
    BY <1>1, FinalizeFits
  <1>3. /\ finished' = TRUE
        /\ \/ /\ finished \/ NothingToBill(b)
              /\ pc' = next /\ UNCHANGED <<resume, calls, billed>>
           \/ /\ ~finished /\ ~NothingToBill(b)
              /\ pc' = "track" /\ resume' = next /\ calls' = calls + 1 /\ billed' = b
    BY DEF FinishWith
  <1>4. b = Finalize(parser', request', answer')
    OBVIOUS
  <1>5. resume' \in {"write", "close", "done", "reply"} /\ billed' \in Usage
    BY <1>1, <1>2, <1>3
  <1>6. IF calls' = 0 THEN NothingToBill(b) ELSE billed' = b
    <2>1. CASE finished
      <3>1. IF calls = 0 THEN NothingToBill(b) ELSE billed = b
        BY <2>1 DEF IInv, FinalFits
      <3> QED BY <1>3, <2>1, <3>1
    <2>2. CASE ~finished
      <3>1. calls = 0
        BY <2>2 DEF IInv, CallsFit
      <3> QED BY <1>3, <2>2, <3>1
    <2> QED BY <2>1, <2>2
  <1>7. /\ pc' # "copy" /\ (pc' = "write" => eof')
        /\ pc' = "track" => (resume' = "write" => eof')
    BY <1>3
  <1>8. FinalFits'
    <2> HIDE DEF b
    <2> QED BY <1>4, <1>6, <1>7 DEF FinalFits
  <1> QED BY <1>5, <1>8

\* What does not read leaves the parser alone.
LEMMA SameParser ==
  ASSUME IInv, answer' = answer, parser' = parser, read' = read,
         mode' = mode \/ mode = "unknown"
  PROVE  ParserFits'
  <1>1. parser \in Parsers(answer) /\ (mode # "streaming" => parser = NewParser)
        /\ (mode # "buffered" => Reads(answer, read, parser))
    BY DEF IInv, ParserFits
  <1> QED BY <1>1 DEF ParserFits

\* What is about neither the counts nor the answer's end leaves the bill alone.
LEMMA SameBill ==
  ASSUME IInv, answer' = answer, request' = request, parser' = parser, UNCHANGED tracking,
         mode' = mode, pc' # "copy" \/ ~finished, pc' = "write" => pc = "write" \/ ~finished \/ eof', eof' = eof,
         pc' = "track" => pc = "track"
  PROVE  FinalFits'
  <1>1. /\ finished' = finished /\ calls' = calls /\ billed' = billed /\ resume' = resume
    BY DEF tracking
  <1>2. /\ finished => (pc = "write" => eof)
        /\ mode = "streaming" /\ pc = "track" => (resume = "write" => eof)
        /\ mode = "streaming" /\ finished =>
              IF calls = 0 THEN NothingToBill(Finalize(parser, request, answer))
              ELSE billed = Finalize(parser, request, answer)
    BY DEF IInv, FinalFits
  <1>3. finished' => pc' # "copy" /\ (pc' = "write" => eof')
    BY <1>1, <1>2
  <1>4. mode' = "streaming" /\ pc' = "track" => (resume' = "write" => eof')
    BY <1>1, <1>2
  <1>5. mode' = "streaming" /\ finished' =>
            IF calls' = 0 THEN NothingToBill(Finalize(parser', request', answer'))
            ELSE billed' = Finalize(parser', request', answer')
    BY <1>1, <1>2
  <1> QED BY <1>3, <1>4, <1>5 DEF FinalFits

\* The values stay in place when neither the answer's position nor the bill changes.
LEMMA SameValues ==
  ASSUME IInv, UNCHANGED <<answer, request, read, eof, billed, resume>>, written' \in {written, read},
         ctx' \in {"live", "cancelled"}
  PROVE  ValuesFit'
  <1>1. /\ answer \in Answers /\ request \in Requests
        /\ read \in 0..Len(wire) /\ written \in 0..read /\ eof \in BOOLEAN
        /\ resume \in {"write", "close", "done", "reply"} /\ billed \in Usage
    BY DEF IInv, ValuesFit
  <1>2. wire' = wire
    BY DEF wire
  <1>3. written' \in 0..read
    <2>1. Len(wire) \in Nat
      BY <1>1, CountsIn DEF wire
    <2> QED BY <1>1, <2>1
  <1> QED BY <1>1, <1>2, <1>3 DEF ValuesFit

\* The steps that neither read the stream nor finish with it.
LEMMA OtherStepsFit ==
  ASSUME IInv, \/ Respond \/ NoAnswer \/ ReadAllFails \/ ReadBreaks \/ TrackEnds
               \/ Write \/ WriteFails \/ Reply \/ ClientLeaves \/ UNCHANGED vars
  PROVE  IInv'
  <1> USE DEF OfStream, OfBuffer
  <1>1. /\ UNCHANGED <<answer, request, read, eof, parser, finished, calls, billed, resume>>
        /\ written' \in {written, read}
        /\ ctx' \in {ctx, "cancelled"}
        /\ mode' = mode \/ pc = "roundtrip"
    BY DEF Respond, NoAnswer, ReadAllFails, ReadBreaks, TrackEnds, Write, WriteFails, Reply, ClientLeaves,
           vars, inputs, tracking
  <1>2. ModeFits' /\ CallsFit'
    <2>1. CASE Respond
      BY <2>1 DEF Respond, tracking, IInv, ModeFits, CallsFit
    <2>2. CASE NoAnswer
      BY <2>2 DEF NoAnswer, tracking, IInv, ModeFits, CallsFit
    <2>3. CASE ReadAllFails \/ ReadBreaks
      BY <2>3 DEF ReadAllFails, ReadBreaks, tracking, IInv, ModeFits, CallsFit
    <2>4. CASE TrackEnds
      <3>1. /\ pc = "track" /\ pc' = resume /\ UNCHANGED <<mode, tracking>>
            /\ stored' \in {stored, stored + 1}
        BY <2>4 DEF TrackEnds
      <3> QED BY <3>1 DEF tracking, IInv, ModeFits, CallsFit
    <2>5. CASE Write \/ WriteFails \/ Reply
      BY <2>5 DEF Write, WriteFails, Reply, tracking, IInv, ModeFits, CallsFit
    <2>6. CASE ClientLeaves
      BY <2>6 DEF ClientLeaves, tracking, IInv, ModeFits, CallsFit
    <2>7. CASE UNCHANGED vars
      BY <2>7 DEF vars, tracking, IInv, ModeFits, CallsFit
    <2> QED BY <2>1, <2>2, <2>3, <2>4, <2>5, <2>6, <2>7
  <1>3. ValuesFit'
    <2>1. ctx' \in {"live", "cancelled"}
      BY <1>1 DEF IInv, ValuesFit
    <2> QED BY <1>1, <2>1, SameValues
  <1>4. ParserFits'
    <2>1. mode' = mode \/ mode = "unknown"
      BY <1>1 DEF IInv, ModeFits
    <2> QED BY <1>1, <2>1, SameParser
  <1>5. FinalFits'
    <2>1. CASE Respond
      <3>1. ~finished' /\ pc' # "track"
        BY <1>1, <2>1 DEF Respond, IInv, CallsFit
      <3> QED BY <3>1 DEF FinalFits
    <2>2. CASE ~Respond
      <3>1. mode' = mode
        BY <2>2 DEF NoAnswer, ReadAllFails, ReadBreaks, TrackEnds, Write, WriteFails, Reply,
                    ClientLeaves, vars
      <3>2. pc = "track" => resume \in {"write", "close", "done", "reply"}
        BY DEF IInv, ValuesFit
      <3>3. pc' = "copy" => pc = "copy" \/ (pc = "write" /\ ~eof)
        BY <2>2, <3>2 DEF NoAnswer, ReadAllFails, ReadBreaks, TrackEnds, Write, WriteFails, Reply,
                    ClientLeaves, vars
      <3>4. pc' = "write" => pc = "write" \/ (pc = "track" /\ resume = "write")
        BY <2>2 DEF NoAnswer, ReadAllFails, ReadBreaks, TrackEnds, Write, WriteFails, Reply,
                    ClientLeaves, vars
      <3>5. pc' = "track" => pc = "track"
        BY <2>2, <3>2 DEF NoAnswer, ReadAllFails, ReadBreaks, TrackEnds, Write, WriteFails, Reply,
                    ClientLeaves, vars
      <3>6. /\ finished => pc # "copy" /\ (pc = "write" => eof)
            /\ mode = "streaming" /\ pc = "track" => (resume = "write" => eof)
            /\ pc = "track" /\ mode # "streaming" => resume = "reply"
        BY DEF IInv, FinalFits, ModeFits
      <3>7. pc' # "copy" \/ ~finished
        BY <3>3, <3>6
      <3>8. pc' = "write" => pc = "write" \/ ~finished \/ eof'
        BY <1>1, <3>4, <3>6
      <3> QED BY <1>1, <3>1, <3>5, <3>7, <3>8, SameBill DEF tracking
    <2> QED BY <2>1, <2>2
  <1> QED BY <1>2, <1>3, <1>4, <1>5 DEF IInv

\* A whole answer, read before it is sent on.
LEMMA ReadAllFits == IInv /\ ReadAll => IInv'
  <1> SUFFICES ASSUME IInv, ReadAll PROVE IInv'
    OBVIOUS
  <1>1. /\ pc = "readall" /\ UNCHANGED <<answer, request, mode, written, parser, ctx, stored, finished>>
        /\ read' = Len(wire) /\ eof' = TRUE
    BY DEF ReadAll, inputs
  <1>2. /\ mode = "buffered" /\ ~finished /\ calls = 0 /\ finished \in BOOLEAN /\ stored = 0
    BY <1>1, SMT DEF IInv, ModeFits, CallsFit, OfStream, OfBuffer
  <1>3. \/ pc' = "track" /\ resume' = "reply" /\ calls' = 1
        \/ pc' = "reply" /\ UNCHANGED <<resume, calls>>
    BY <1>2 DEF ReadAll
  <1>4. ModeFits' /\ CallsFit'
    BY <1>1, <1>2, <1>3 DEF ModeFits, CallsFit, OfStream, OfBuffer
  <1>5. billed' \in Usage /\ resume' \in {"write", "close", "done", "reply"}
    <2>1. request \in Request /\ billed \in Usage /\ resume \in {"write", "close", "done", "reply"}
      BY RequestsAssumption DEF IInv, ValuesFit
    <2>2. PICK body \in Bodies :
            IF body.found
            THEN /\ pc' = "track" /\ resume' = "reply" /\ calls' = calls + 1
                 /\ billed' = [body.usage EXCEPT !.model = IF @ = NoModel THEN request.model ELSE @]
            ELSE pc' = "reply" /\ UNCHANGED <<resume, calls, billed>>
      BY DEF ReadAll
    <2>3. body.usage \in Usage
      BY AnswersAssumption DEF Body
    <2>4. [body.usage EXCEPT !.model = IF @ = NoModel THEN request.model ELSE @] \in Usage
      BY <2>1, <2>3 DEF Usage, Request
    <2> QED BY <2>1, <2>2, <2>4
  <1>6. ValuesFit'
    <2>1. /\ answer \in Answers /\ request \in Requests /\ ctx \in {"live", "cancelled"}
          /\ read \in 0..Len(wire) /\ written \in 0..read
      BY DEF IInv, ValuesFit
    <2>2. Len(wire) \in Nat /\ wire' = wire
      BY <1>1, <2>1, CountsIn DEF wire
    <2>3. read' \in 0..Len(wire') /\ written' \in 0..read'
      BY <1>1, <2>1, <2>2
    <2> QED BY <1>1, <1>5, <2>1, <2>3 DEF ValuesFit
  <1>7. ParserFits'
    BY <1>1, <1>2 DEF IInv, ParserFits
  <1>8. FinalFits'
    <2>1. ~finished' /\ mode' # "streaming"
      BY <1>1, <1>2
    <2> QED BY <2>1 DEF FinalFits
  <1> QED BY <1>4, <1>6, <1>7, <1>8 DEF IInv

\* A chunk of the stream, perhaps the last.
LEMMA ReadChunkFits == IInv /\ ReadChunk => IInv'
  <1> SUFFICES ASSUME IInv, ReadChunk PROVE IInv'
    OBVIOUS
  <1>1. PICK n \in read + 1..Len(wire) :
          /\ read' = n
          /\ parser' = AppendChunk(parser, SubSeq(wire, read + 1, n), answer)
          /\ \/ eof' = FALSE /\ pc' = "write" /\ UNCHANGED tracking
             \/ n = Len(wire) /\ eof' = TRUE /\ FinishWith(parser', "write")
    BY DEF ReadChunk
  <1>2. /\ pc = "copy" /\ UNCHANGED <<answer, request, mode, written, ctx, stored>>
    BY DEF ReadChunk, inputs
  <1>3. /\ mode = "streaming" /\ ~finished /\ finished \in BOOLEAN
    BY <1>2 DEF IInv, ModeFits, CallsFit, FinalFits, OfStream, OfBuffer
  <1>4. /\ answer \in Answers /\ request \in Requests /\ ctx \in {"live", "cancelled"}
        /\ read \in 0..Len(wire) /\ written \in 0..read /\ billed \in Usage
        /\ resume \in {"write", "close", "done", "reply"}
    BY DEF IInv, ValuesFit
  <1>5. Len(wire) \in Nat /\ wire' = wire
    BY <1>2, <1>4, CountsIn DEF wire
  <1>6. read \in Nat /\ n \in Nat /\ read < n /\ n <= Len(wire)
    BY <1>1, <1>4, <1>5
  <1>7. parser' \in Parsers(answer) /\ Reads(answer, n, parser')
    <2>1. parser \in Parsers(answer) /\ Reads(answer, read, parser)
      BY <1>3 DEF IInv, ParserFits
    <2> QED BY <1>1, <1>4, <1>6, <2>1, ChunkReads DEF wire
  <1>8. ParserFits'
    BY <1>1, <1>2, <1>3, <1>7 DEF ParserFits
  <1>9. read' \in 0..Len(wire') /\ written' \in 0..read' /\ eof' \in BOOLEAN
    <2>1. n \in 0..Len(wire) /\ written \in 0..n
      <3> DEFINE N == Len(wire)
      <3>1. written \in 0..read /\ read \in Nat /\ n \in Nat /\ read < n /\ n <= N /\ N \in Nat
        BY <1>4, <1>5, <1>6
      <3> HIDE DEF N
      <3>2. n \in 0..N /\ written \in 0..n
        BY <3>1
      <3> QED BY <3>2 DEF N
    <2>2. eof' \in BOOLEAN
      BY <1>1
    <2> QED BY <1>1, <1>2, <1>5, <2>1, <2>2
  <1>10. CASE eof' = FALSE /\ pc' = "write" /\ UNCHANGED tracking
    <2>1. ModeFits' /\ CallsFit'
      BY <1>2, <1>10 DEF tracking, IInv, ModeFits, CallsFit, OfStream, OfBuffer
    <2>2. ValuesFit'
      BY <1>2, <1>4, <1>9, <1>10 DEF tracking, ValuesFit
    <2>3. FinalFits'
      <3>1. ~finished' /\ pc' # "track"
        BY <1>3, <1>10 DEF tracking
      <3> QED BY <3>1 DEF FinalFits
    <2> QED BY <1>8, <2>1, <2>2, <2>3 DEF IInv
  <1>11. CASE eof' = TRUE /\ FinishWith(parser', "write")
    <2>1. pc \in OfStream
      BY <1>2 DEF OfStream
    <2>2. ModeFits' /\ CallsFit'
      BY <1>2, <1>3, <1>11, <2>1, FinishFits
    <2>3. FinalFits' /\ resume' \in {"write", "close", "done", "reply"} /\ billed' \in Usage
      BY <1>2, <1>3, <1>7, <1>11, <2>1, FinishBills
    <2>4. ValuesFit'
      BY <1>2, <1>4, <1>9, <2>3 DEF ValuesFit
    <2> QED BY <1>8, <2>2, <2>3, <2>4 DEF IInv
  <1> QED BY <1>1, <1>10, <1>11

\* The end of the stream, seen alone by Read or by Close.
LEMMA EndFits == IInv /\ (ReadEnd \/ Close) => IInv'
  <1> SUFFICES ASSUME IInv, ReadEnd \/ Close PROVE IInv'
    OBVIOUS
  <1>1. /\ pc \in OfStream /\ UNCHANGED <<answer, request, mode, read, written, parser, ctx, stored>>
        /\ eof' \in {TRUE, eof}
        /\ \E next \in {"close", "done"} : FinishWith(parser', next)
    BY DEF ReadEnd, Close, inputs, OfStream
  <1>2. PICK next \in {"close", "done"} : FinishWith(parser', next)
    BY <1>1
  <1>3. mode = "streaming"
    BY <1>1 DEF IInv, ModeFits
  <1>4. parser' \in Parsers(answer)
    BY <1>1 DEF IInv, ParserFits
  <1>5. ModeFits' /\ CallsFit'
    BY <1>1, <1>2, <1>3, FinishFits
  <1>6. FinalFits' /\ resume' \in {"write", "close", "done", "reply"} /\ billed' \in Usage
    <2>1. next # "write"
      BY <1>2
    <2> QED BY <1>1, <1>2, <1>3, <1>4, <2>1, FinishBills
  <1>7. ValuesFit'
    <2>1. /\ answer \in Answers /\ request \in Requests /\ ctx \in {"live", "cancelled"}
          /\ read \in 0..Len(wire) /\ written \in 0..read /\ eof \in BOOLEAN
      BY DEF IInv, ValuesFit
    <2>2. wire' = wire
      BY <1>1 DEF wire
    <2>3. eof' \in BOOLEAN
      BY <1>1, <2>1
    <2> QED BY <1>1, <1>6, <2>1, <2>2, <2>3 DEF ValuesFit
  <1>8. ParserFits'
    BY <1>1, SameParser
  <1> QED BY <1>5, <1>6, <1>7, <1>8 DEF IInv

\* Every step keeps the invariant.
LEMMA StepsFit == IInv /\ [Next]_vars => IInv'
  BY OtherStepsFit, ReadAllFits, ReadChunkFits, EndFits DEF Next, Handler, Upstream, Done

-----------------------------------------------------------------------------
(* The theorems *)

\* Any answers, any requests and any cuts: the parser only ever holds symbols and lines of
\* its answer, within its bound on text, and what is billed are counts and a name.
THEOREM CaptureTypes == Spec => []TypeOK
  <1>1. IInv => TypeOK
    <2> SUFFICES ASSUME IInv PROVE TypeOK
      OBVIOUS
    <2>1. answer \in Answers /\ parser \in Parsers(answer)
      BY DEF IInv, ValuesFit, ParserFits
    <2>2. Len(answer) \in Nat /\ DOMAIN answer = 1..Len(answer)
      BY <2>1, AnswersFit
    <2>3. parser.pending \in Seq(Symbols)
      <3>1. HalfSymbols(answer) \subseteq Symbols
        BY DEF HalfSymbols, Symbols
      <3>2. parser.pending \in Seq(HalfSymbols(answer))
        BY <2>1 DEF Parsers, Fields
      <3> QED BY <3>1, <3>2
    <2>4. Len(parser.pending) <= 2
      <3>1. CASE mode = "buffered"
        <4>1. parser.pending = <<>>
          BY <3>1 DEF IInv, ParserFits, NewParser
        <4> QED BY <4>1
      <3>2. CASE mode # "buffered"
        <4>1. Reads(answer, read, parser)
          BY <3>2 DEF IInv, ParserFits
        <4>2. PICK s, k, d : Place(answer, s, read, k, d) /\ Pends(parser.pending, k, d)
          BY <4>1 DEF Reads
        <4>3. d \in 0..2 /\ Len(parser.pending) = d
          BY <4>2 DEF Place, Width, Pends
        <4> QED BY <4>3
      <3> QED BY <3>1, <3>2
    <2>5. \A i \in DOMAIN parser.event : parser.event[i].line \in ToSet(answer)
      <3>1. parser.event \in Seq(Gathering(answer))
        BY <2>1 DEF Parsers, Fields
      <3>2. \A i \in DOMAIN parser.event : parser.event[i] \in Gathering(answer)
        BY <3>1
      <3> QED BY <3>2 DEF Gathering
    <2>6. /\ parser.usage \in Usage /\ parser.textLen \in 0..MaxText /\ parser.text \in 0..parser.textLen
          /\ parser.rawLen \in 0..MaxText /\ parser.raw + parser.gap \in 0..parser.rawLen
      <3>1. /\ parser.usage \in Usage /\ parser.textLen \in 0..MaxText /\ parser.rawLen \in 0..MaxText
            /\ parser.text \in Nat /\ parser.text <= parser.textLen /\ MaxText \in Nat
            /\ parser.raw \in Nat /\ parser.gap \in Nat /\ parser.raw + parser.gap <= parser.rawLen
        BY <2>1, ParserAssumption DEF Parsers, Fields
      <3> QED BY <3>1
    <2>7. ParserOK
      BY <2>3, <2>4, <2>5, <2>6 DEF ParserOK
    <2>8. calls \in 0..1 /\ stored \in 0..calls /\ finished \in BOOLEAN
      BY DEF IInv, CallsFit
    <2>9. mode \in {"unknown", "buffered", "streaming"}
          /\ pc \in {"roundtrip", "readall", "copy", "write", "close", "track", "reply", "done"}
      BY DEF IInv, ModeFits, OfStream, OfBuffer
    <2> QED BY <2>7, <2>8, <2>9 DEF IInv, ValuesFit, TypeOK
  <1> QED BY <1>1, StartsFit, StepsFit, PTL DEF Spec

\* However an answer arrives, is cut, breaks off or is abandoned, it is billed at most once,
\* its usage has at most one row, and a stream's usage has been looked for.
THEOREM ExchangeIsBilledOnce == Spec => []BilledOnce
  <1>1. IInv => BilledOnce
    BY DEF IInv, ModeFits, CallsFit, BilledOnce, OfStream, OfBuffer
  <1> QED BY <1>1, StartsFit, StepsFit, PTL DEF Spec

\* What is or would be billed when the handler of a stream is done, in terms of the documents
\* that were wholly read.
LEMMA DoneIsBilled ==
  ASSUME IInv, pc = "done", mode = "streaming", WellFormed(answer)
  PROVE  \E bill \in Usage :
            /\ IF calls = 0 THEN NothingToBill(bill) ELSE billed = bill
            /\ \E in \in Nat : \E out \in Nat : \E name \in Names :
                  BillOf(bill, request, answer, read, DocumentsRead, in, out, name)
  <1> DEFINE bill == Finalize(parser, request, answer)
  <1>1. finished
    BY DEF IInv, CallsFit, OfStream
  <1>2. IF calls = 0 THEN NothingToBill(bill) ELSE billed = bill
    BY <1>1 DEF IInv, FinalFits
  <1>3. /\ answer \in Answers /\ request \in Request /\ read \in 0..Len(Wire(answer))
        /\ parser \in Parsers(answer) /\ Reads(answer, read, parser)
    BY RequestsAssumption DEF IInv, ValuesFit, ParserFits, wire
  <1>4. bill \in Usage
    BY <1>3, FinalizeFits
  <1> HIDE DEF bill
  <1>5. \E in \in Nat : \E out \in Nat : \E name \in Names :
          BillOf(bill, request, answer, read, DocumentsRead, in, out, name)
    BY <1>3, BillIs DEF bill, DocumentsRead
  <1> QED BY <1>2, <1>4, <1>5

\* The documents read are lines of the answer, and their counts what InputsRead and the others
\* say.
LEMMA DocumentsAreLines ==
  ASSUME IInv
  PROVE  /\ DOMAIN answer = 1..Len(answer) /\ Len(answer) \in Nat
         /\ DocumentsRead \in SUBSET (1..Len(answer))
         /\ \A i \in 1..Len(answer) : Ins(answer)[i] \in Nat /\ Outs(answer)[i] \in Nat
         /\ \A i \in 1..Len(answer) : /\ Ins(answer)[i] = answer[i].payload.in
                                      /\ Outs(answer)[i] = answer[i].payload.out
         /\ InputsRead = {Ins(answer)[i] : i \in DocumentsRead}
         /\ OutputsRead = {Outs(answer)[i] : i \in DocumentsRead}
         /\ NamesRead = {i \in DocumentsRead : ModelNames(answer)[i] # NoModel}
         /\ \A i \in DocumentsRead : answer[i].payload.model = ModelNames(answer)[i]
  <1>1. /\ DOMAIN answer = 1..Len(answer) /\ Len(answer) \in Nat
        /\ \A i \in 1..Len(answer) : answer[i].payload \in Payload
    BY AnswersFit DEF IInv, ValuesFit
  <1>2. DocumentsRead \in SUBSET (1..Len(answer))
    BY <1>1 DEF DocumentsRead, DocumentsIn, LinesIn
  <1>3. \A i \in 1..Len(answer) : /\ Ins(answer)[i] = answer[i].payload.in
                                  /\ Outs(answer)[i] = answer[i].payload.out
                                  /\ ModelNames(answer)[i] = answer[i].payload.model
    BY <1>1 DEF Ins, Outs, ModelNames
  <1>4. \A i \in 1..Len(answer) : Ins(answer)[i] \in Nat /\ Outs(answer)[i] \in Nat
    BY <1>1, <1>3 DEF Payload
  <1>5. InputsRead = {Ins(answer)[i] : i \in DocumentsRead}
    BY <1>2, <1>3 DEF InputsRead
  <1>6. OutputsRead = {Outs(answer)[i] : i \in DocumentsRead}
    BY <1>2, <1>3 DEF OutputsRead
  <1>7. NamesRead = {i \in DocumentsRead : ModelNames(answer)[i] # NoModel}
    BY <1>2, <1>3 DEF NamesRead
  <1> QED BY <1>1, <1>2, <1>3, <1>4, <1>5, <1>6, <1>7

\* However the stream was cut, and whoever saw its end: it is billed for exactly the documents
\* that were wholly read, their largest counts, their first name and the estimate of the
\* characters in the first MaxText bytes of their text; without any text, for no fewer
\* characters than were read and no more than bytes were, while they surely fit.
THEOREM BilledForWhatWasRead == Spec => []BilledAsRead
  <1>1. IInv => BilledAsRead
    <2> SUFFICES ASSUME IInv, pc = "done", mode = "streaming", WellFormed(answer)
                 PROVE  BilledAsRead
      BY DEF BilledAsRead
    <2> DEFINE D == DocumentsRead
               inputsum == IF Reported(InputsRead) # 0 THEN Reported(InputsRead) ELSE Estimate(request.chars)
               model == IF NamesRead # {} THEN answer[Min(NamesRead)].payload.model ELSE request.model
    <2>0. PICK bill \in Usage :
            /\ IF calls = 0 THEN NothingToBill(bill) ELSE billed = bill
            /\ \E in \in Nat : \E out \in Nat : \E name \in Names :
                  BillOf(bill, request, answer, read, D, in, out, name)
      BY DoneIsBilled
    <2>1. PICK in \in Nat, out \in Nat, name \in Names :
            BillOf(bill, request, answer, read, D, in, out, name)
      BY <2>0
    <2>2. /\ Len(answer) \in Nat /\ D \in SUBSET (1..Len(answer))
          /\ \A i \in D : Ins(answer)[i] \in Nat /\ Outs(answer)[i] \in Nat
          /\ InputsRead = {Ins(answer)[i] : i \in D} /\ OutputsRead = {Outs(answer)[i] : i \in D}
          /\ NamesRead = {i \in D : ModelNames(answer)[i] # NoModel}
          /\ \A i \in D : answer[i].payload.model = ModelNames(answer)[i]
      BY DocumentsAreLines
    <2> HIDE DEF D
    <2>3. /\ Largest(in, Ins(answer), D) /\ Largest(out, Outs(answer), D) /\ First(name, ModelNames(answer), D)
          /\ bill.in = IF in # 0 THEN in ELSE Estimate(request.chars)
          /\ bill.model = IF name # NoModel THEN name ELSE request.model
          /\ out # 0 => bill.out = out
          /\ out = 0 /\ TextKept(answer, D) # 0 => bill.out = Estimate(TextKept(answer, D))
          /\ out = 0 /\ TextKept(answer, D) = 0 =>
                IF RawIn(answer, read) <= MaxText
                THEN bill.out \in Estimate(CharsIn(answer, read))..Estimate(BytesIn(answer, read))
                ELSE bill.out \in 1..Estimate(Larger(BytesIn(answer, read), MaxText))
          /\ bill.out = 0 => out = 0 /\ BytesIn(answer, read) = 0
      BY <2>1 DEF BillOf
    <2>4. Reported(InputsRead) = in
      <3> DEFINE counts == Ins(answer)
                 S == InputsRead
      <3>1. (\A i \in D : counts[i] \in Nat) /\ S = {counts[i] : i \in D} /\ Largest(in, counts, D)
        BY <2>2, <2>3
      <3> HIDE DEF counts, S
      <3>2. Reported(S) = in /\ (in = 0 <=> S \subseteq {0})
        BY <3>1, ReportedIs, SMTT(30)
      <3> QED BY <3>2 DEF S
    <2>5. Reported(OutputsRead) = out /\ (out = 0 <=> OutputsRead \subseteq {0})
      <3> DEFINE counts == Outs(answer)
                 S == OutputsRead
      <3>1. (\A i \in D : counts[i] \in Nat) /\ S = {counts[i] : i \in D} /\ Largest(out, counts, D)
        BY <2>2, <2>3
      <3> HIDE DEF counts, S
      <3>2. Reported(S) = out /\ (out = 0 <=> S \subseteq {0})
        BY <3>1, ReportedIs, SMTT(30)
      <3> QED BY <3>2 DEF S
    <2>6. /\ name = NoModel <=> NamesRead = {}
          /\ NamesRead # {} => Min(NamesRead) \in NamesRead /\ name = ModelNames(answer)[Min(NamesRead)]
      <3> DEFINE names == ModelNames(answer)
                 N == NamesRead
      <3>1. N = {i \in D : names[i] # NoModel} /\ First(name, names, D) /\ Len(answer) \in Nat
            /\ D \in SUBSET (1..Len(answer))
        BY <2>2, <2>3
      <3> HIDE DEF names, N
      <3>2. /\ name = NoModel <=> N = {}
            /\ N # {} => Min(N) \in N /\ name = names[Min(N)]
        <4> DEFINE m == Len(answer)
        <4>1. m \in Nat /\ D \in SUBSET (1..m)
          BY <3>1
        <4> HIDE DEF m
        <4>2. First(name, names, D) /\ N \in SUBSET D /\ \A i \in D : i \in N <=> names[i] # NoModel
          BY <3>1
        <4> QED BY <4>1, <4>2, FirstIs
      <3> QED BY <3>2 DEF names, N
    <2>7. bill.model = model
      BY <2>2, <2>3, <2>6
    <2>8. bill.in = inputsum
      BY <2>3, <2>4
    <2> HIDE DEF inputsum, model
    <2>9. CASE calls = 0
      <3>1. model = NoModel \/ (inputsum = 0 /\ OutputsRead \subseteq {0} /\ BytesIn(answer, read) = 0)
        <4>1. bill.in \in Nat /\ bill.out \in Nat
          BY <2>0 DEF Usage
        <4>2. bill.model = NoModel \/ bill.in + bill.out = 0
          BY <2>0, <2>9 DEF NothingToBill
        <4>3. bill.model = NoModel \/ (bill.in = 0 /\ bill.out = 0)
          BY <4>1, <4>2
        <4> QED BY <2>3, <2>5, <2>7, <2>8, <4>3
      <3> QED BY <2>9, <3>1 DEF BilledAsRead, inputsum, model
    <2>10. CASE calls # 0
      <3>1. billed = bill
        BY <2>0, <2>10
      <3>2. /\ billed.in = inputsum /\ billed.model = model
            /\ IF Reported(OutputsRead) # 0 THEN billed.out = Reported(OutputsRead)
               ELSE IF TextRead # 0 THEN billed.out = Estimate(TextRead)
               ELSE IF RawIn(answer, read) <= MaxText
               THEN billed.out \in Estimate(CharsIn(answer, read))..Estimate(BytesIn(answer, read))
               ELSE billed.out \in 1..Estimate(Larger(BytesIn(answer, read), MaxText))
        BY <2>3, <2>5, <2>7, <2>8, <3>1 DEF TextRead, D
      <3> QED BY <2>10, <3>2 DEF BilledAsRead, inputsum, model
    <2> QED BY <2>9, <2>10
  <1> QED BY <1>1, StartsFit, StepsFit, PTL DEF Spec

\* With counts that grow, a stream whose last report was read is billed exactly that report.
THEOREM LastReportIsBilled == Spec => []TerminalUsageIsExact
  <1>1. IInv => TerminalUsageIsExact
    <2> DEFINE reports == {i \in DOMAIN answer : answer[i].payload.out # 0}
               m == Max(reports)
               D == DocumentsRead
    <2> SUFFICES ASSUME IInv, pc = "done", mode = "streaming", calls = 1, WellFormed(answer),
                        \A i \in reports : \A j \in reports :
                            i <= j => answer[i].payload.out <= answer[j].payload.out,
                        reports # {}, m \in D
                 PROVE  billed.out = answer[m].payload.out /\ (InputsRead # {0} => billed.in \in InputsRead)
      BY DEF TerminalUsageIsExact
    <2>0. PICK bill \in Usage :
            /\ IF calls = 0 THEN NothingToBill(bill) ELSE billed = bill
            /\ \E in \in Nat : \E out \in Nat : \E name \in Names :
                  BillOf(bill, request, answer, read, D, in, out, name)
      BY DoneIsBilled
    <2>1. PICK in \in Nat, out \in Nat, name \in Names :
            BillOf(bill, request, answer, read, D, in, out, name)
      BY <2>0
    <2>2. /\ Len(answer) \in Nat /\ D \in SUBSET (1..Len(answer)) /\ DOMAIN answer = 1..Len(answer)
          /\ \A i \in 1..Len(answer) : Ins(answer)[i] \in Nat /\ Outs(answer)[i] \in Nat
          /\ \A i \in 1..Len(answer) : Outs(answer)[i] = answer[i].payload.out
          /\ InputsRead = {Ins(answer)[i] : i \in D}
      BY DocumentsAreLines
    <2>3. billed = bill
      BY <2>0
    <2>4. /\ Largest(in, Ins(answer), D) /\ Largest(out, Outs(answer), D)
          /\ bill.in = IF in # 0 THEN in ELSE Estimate(request.chars)
          /\ out # 0 => bill.out = out
      BY <2>1 DEF BillOf
    <2>5. m \in reports /\ \A i \in reports : i <= m
      <3>1. reports \in SUBSET (1..Len(answer))
        BY <2>2
      <3> HIDE DEF reports
      <3> QED BY <2>2, <3>1, MaxIn
    <2> DEFINE outs == Outs(answer)
    <2>6. outs[m] # 0 /\ \A i \in D : outs[i] <= outs[m]
      <3>1. \A i \in D : i \in 1..Len(answer) /\ outs[i] \in Nat
        BY <2>2
      <3>2. outs[m] # 0
        BY <2>2, <2>5
      <3>3. ASSUME NEW i \in D PROVE outs[i] <= outs[m]
        <4>1. CASE i \in reports
          BY <2>2, <2>5, <4>1
        <4>2. CASE i \notin reports
          <5>1. outs[i] = 0
            BY <2>2, <4>2
          <5> HIDE DEF outs
          <5> QED BY <3>1, <5>1
        <4> QED BY <4>1, <4>2
      <3> QED BY <3>2, <3>3
    <2>7. out = outs[m]
      <3>1. outs[m] <= out /\ (out = 0 \/ \E i \in D : out = outs[i]) /\ outs[m] \in Nat
        BY <2>2, <2>4 DEF Largest
      <3> HIDE DEF outs, m
      <3> QED BY <2>6, <3>1
    <2>8. billed.out = answer[m].payload.out
      BY <2>2, <2>3, <2>4, <2>6, <2>7
    <2>9. InputsRead # {0} => billed.in \in InputsRead
      <3>1. CASE in # 0
        BY <2>2, <2>3, <2>4, <3>1 DEF Largest
      <3>2. CASE in = 0
        <4>1. \A i \in D : Ins(answer)[i] = 0
          <5>1. \A i \in D : Ins(answer)[i] \in Nat /\ Ins(answer)[i] <= 0
            BY <2>2, <2>4, <3>2 DEF Largest
          <5> QED BY <5>1
        <4> QED BY <2>2, <4>1
      <3> QED BY <3>1, <3>2
    <2> QED BY <2>8, <2>9
  <1> QED BY <1>1, StartsFit, StepsFit, PTL DEF Spec

-----------------------------------------------------------------------------
(* What is found in a document *)

\* The texts of the values, and what a document can report.
TextsOf == {v.s : v \in {w \in Values : w.kind = "str"}} \cup {NoModel}
Reports == [in : Nat, out : Nat, model : TextsOf]

\* A report merged from those of S: the largest counts, and a name if one has one.
Gathers(u, S) ==
    /\ u \in Reports
    /\ (\E s \in S : s.in = u.in) /\ (\A s \in S : s.in <= u.in)
    /\ (\E s \in S : s.out = u.out) /\ (\A s \in S : s.out <= u.out)
    /\ (\E s \in S : s.model = u.model) /\ (u.model = NoModel => \A s \in S : s.model = NoModel)

\* One more report merged.
LEMMA GathersOneMore ==
  ASSUME NEW S \in SUBSET Reports, NEW u, Gathers(u, S), NEW r \in Reports
  PROVE  Gathers(MergeUsage(u, r), S \cup {r})
  <1>1. /\ u \in Reports /\ u.in \in Nat /\ r.in \in Nat /\ u.out \in Nat /\ r.out \in Nat
        /\ u.model \in TextsOf /\ r.model \in TextsOf
    BY DEF Gathers, Reports
  <1> DEFINE m == MergeUsage(u, r)
  <1>2. /\ m = [in |-> m.in, out |-> m.out, model |-> m.model]
        /\ m.in = (IF u.in >= r.in THEN u.in ELSE r.in)
        /\ m.out = (IF u.out >= r.out THEN u.out ELSE r.out)
        /\ m.model = (IF u.model = NoModel THEN r.model ELSE u.model)
    BY DEF MergeUsage, Larger
  <1> HIDE DEF m
  <1>3. m \in Reports
    BY <1>1, <1>2 DEF Reports
  <1>4. \A s \in S : s.in \in Nat /\ s.out \in Nat
    BY DEF Reports
  <1>5. (\E s \in S \cup {r} : s.in = m.in) /\ (\A s \in S \cup {r} : s.in <= m.in)
    <2>1. CASE u.in >= r.in
      BY <1>1, <1>2, <1>4, <2>1 DEF Gathers
    <2>2. CASE ~(u.in >= r.in)
      BY <1>1, <1>2, <1>4, <2>2 DEF Gathers
    <2> QED BY <2>1, <2>2
  <1>6. (\E s \in S \cup {r} : s.out = m.out) /\ (\A s \in S \cup {r} : s.out <= m.out)
    <2>1. CASE u.out >= r.out
      BY <1>1, <1>2, <1>4, <2>1 DEF Gathers
    <2>2. CASE ~(u.out >= r.out)
      BY <1>1, <1>2, <1>4, <2>2 DEF Gathers
    <2> QED BY <2>1, <2>2
  <1>7. /\ \E s \in S \cup {r} : s.model = m.model
        /\ m.model = NoModel => \A s \in S \cup {r} : s.model = NoModel
    BY <1>2 DEF Gathers
  <1> QED BY <1>3, <1>5, <1>6, <1>7 DEF Gathers, m

\* A report by itself.
LEMMA GathersOne ==
  ASSUME NEW r \in Reports
  PROVE  Gathers(r, {r})
  BY DEF Gathers, Reports

\* What is in MergeEach.
LEMMA MergeEachHas ==
  ASSUME NEW A, NEW B, NEW x
  PROVE  x \in MergeEach(A, B) <=> \E a \in A : \E b \in B : x = MergeUsage(a, b)
  BY DEF MergeEach

\* The loop over the parts of a value merges what one of them reports after the other: f is
\* what it has come to by each set of them.
MergedBy(f, own, sets) ==
    /\ FoldLeft(MergeEach, {own}, sets) = f[DOMAIN sets]
    /\ \A T \in SUBSET DOMAIN sets :
          f[T] = IF T = {} THEN {own} ELSE MergeEach(f[T \ {Max(T)}], sets[Max(T)])

LEMMA MergesFold ==
  ASSUME NEW own, NEW V, {own} \in V, \A A \in V : \A B \in V : MergeEach(A, B) \in V,
         NEW sets \in Seq(V)
  PROVE  \E f : MergedBy(f, own, sets)
  <1> DEFINE D == DOMAIN sets
             Loops(g) == g = [T \in SUBSET D |->
                                IF T = {} THEN {own} ELSE MergeEach(g[T \ {Max(T)}], sets[Max(T)])]
             step == [p \in V \X D |-> MergeEach(p[1], sets[p[2]])]
             pick == [T \in SUBSET D |-> Max(T)]
  <1>1. IsFiniteSet(D) /\ (\A i \in D : sets[i] \in V)
        /\ \A T \in SUBSET D : T # {} => Max(T) \in T
    <2> DEFINE n == Len(sets)
    <2>1. n \in Nat /\ D = 1..n /\ \A i \in D : sets[i] \in V
      OBVIOUS
    <2> HIDE DEF D, n
    <2>2. IsFiniteSet(D)
      BY <2>1, FS_Interval
    <2>3. \A T \in SUBSET D : T # {} => Max(T) \in T
      BY <2>1, MaxIn
    <2> QED BY <2>1, <2>2, <2>3
  <1>2. step \in [V \X D -> V]
    <2> HIDE DEF D
    <2> QED BY <1>1
  <1>3. \A T \in SUBSET D : T # {} => pick[T] \in T
    BY <1>1
  <1>4. PICK g : Folds(V, {own}, pick, step, D, g)
    <2> HIDE DEF D, pick, step
    <2> QED BY <1>1, <1>2, <1>3, FoldsExist
  <1>5. g = [T \in SUBSET D |-> g[T]]
    BY <1>4 DEF Folds
  <1>6. ASSUME NEW T \in SUBSET D
        PROVE  g[T] = IF T = {} THEN {own} ELSE MergeEach(g[T \ {Max(T)}], sets[Max(T)])
    <2>1. g[T] = IF T = {} THEN {own} ELSE step[<<g[T \ {pick[T]}], pick[T]>>]
      <3> HIDE DEF step, pick
      <3> QED BY <1>4 DEF Folds
    <2>2. CASE T = {}
      BY <2>1, <2>2
    <2>3. CASE T # {}
      <3>1. pick[T] = Max(T) /\ Max(T) \in D
        BY <1>1, <2>3
      <3>2. g[T \ {Max(T)}] \in V
        <4> HIDE DEF step, pick, D
        <4> QED BY <1>4 DEF Folds
      <3>3. <<g[T \ {Max(T)}], Max(T)>> \in V \X D
        BY <3>1, <3>2
      <3> HIDE DEF D, pick
      <3> QED BY <2>1, <2>3, <3>1, <3>3
    <2> QED BY <2>2, <2>3
  <1>7. Loops(g)
    <2> HIDE DEF D
    <2> QED BY <1>5, <1>6
  <1> DEFINE f == CHOOSE h : Loops(h)
  <1>8. Loops(f)
    <2> HIDE DEF Loops
    <2> QED BY <1>7
  <1>9. FoldLeft(MergeEach, {own}, sets) = f[D]
    BY DEF FoldLeft, MapThenFoldSet
  <1> HIDE DEF f
  <1> QED BY <1>8, <1>9 DEF MergedBy

\* If the value and each of its parts may report something, the loop may.
LEMMA FoldAnswers ==
  ASSUME NEW own \in Reports, NEW sets \in Seq((SUBSET Reports) \ {{}})
  PROVE  FoldLeft(MergeEach, {own}, sets) \in (SUBSET Reports) \ {{}}
  <1> DEFINE D == DOMAIN sets
             V == (SUBSET Reports) \ {{}}
  <1>1. IsFiniteSet(D) /\ (\A i \in D : sets[i] \in V)
        /\ \A T \in SUBSET D : T # {} => Max(T) \in T
    <2> DEFINE n == Len(sets)
    <2>1. n \in Nat /\ D = 1..n /\ \A i \in D : sets[i] \in V
      OBVIOUS
    <2> HIDE DEF D, V, n
    <2>2. IsFiniteSet(D)
      BY <2>1, FS_Interval
    <2>3. \A T \in SUBSET D : T # {} => Max(T) \in T
      BY <2>1, MaxIn
    <2> QED BY <2>1, <2>2, <2>3
  <1>2. {own} \in V
    OBVIOUS
  <1>3. ASSUME NEW A \in V, NEW B \in V PROVE MergeEach(A, B) \in V
    <2>1. \A a \in A, b \in B : MergeUsage(a, b) \in Reports
      BY DEF MergeUsage, Larger, Reports
    <2>2. PICK a \in A, b \in B : TRUE
      OBVIOUS
    <2>3. MergeUsage(a, b) \in MergeEach(A, B)
      BY MergeEachHas
    <2> QED BY <2>1, <2>3, MergeEachHas
  <1>4. PICK f : MergedBy(f, own, sets)
    <2> HIDE DEF V
    <2>1. sets \in Seq(V)
      BY DEF V
    <2> QED BY <1>2, <1>3, <2>1, MergesFold
  <1> DEFINE G == {T \in SUBSET D : f[T] \in V}
  <1>5. ASSUME NEW T \in SUBSET D, \A U \in SUBSET T : U # T => U \in G PROVE T \in G
    <2>1. CASE T = {}
      BY <1>2, <1>4, <2>1 DEF MergedBy
    <2>2. CASE T # {}
      <3>1. Max(T) \in D /\ T \ {Max(T)} \in G
        BY <1>1, <1>5, <2>2
      <3>2. f[T] = MergeEach(f[T \ {Max(T)}], sets[Max(T)])
        BY <1>4, <2>2 DEF MergedBy
      <3> HIDE DEF V
      <3> QED BY <1>1, <1>3, <3>1, <3>2
    <2> QED BY <2>1, <2>2
  <1>6. D \in G
    <2> HIDE DEF G, D
    <2> QED BY <1>1, <1>5, SubsetInduction
  <1> HIDE DEF V
  <1> QED BY <1>4, <1>6 DEF V, MergedBy

\* What the loop over the parts of a value may report is merged from one report of its own
\* and one of each part.
LEMMA FoldGathers ==
  ASSUME NEW own \in Reports, NEW sets \in Seq(SUBSET Reports),
         NEW u \in FoldLeft(MergeEach, {own}, sets)
  PROVE  \E c \in [DOMAIN sets -> Reports] :
            /\ \A i \in DOMAIN sets : c[i] \in sets[i]
            /\ Gathers(u, {own} \cup {c[i] : i \in DOMAIN sets})
  <1> DEFINE D == DOMAIN sets
             V == SUBSET Reports
             n == Len(sets)
  <1>1. n \in Nat /\ D = 1..n /\ IsFiniteSet(D) /\ \A i \in D : sets[i] \in V
    <2>1. n \in Nat /\ D = 1..n /\ \A i \in D : sets[i] \in V
      OBVIOUS
    <2> HIDE DEF D, n
    <2> QED BY <2>1, FS_Interval
  <1>2. \A T \in SUBSET D : T # {} => Max(T) \in T
    BY <1>1, MaxIn
  <1>3. {own} \in V
    OBVIOUS
  <1>4. ASSUME NEW A \in V, NEW B \in V PROVE MergeEach(A, B) \in V
    <2>1. \A a \in A, b \in B : MergeUsage(a, b) \in Reports
      BY DEF MergeUsage, Larger, Reports
    <2> QED BY <2>1, MergeEachHas
  <1>5. PICK f : MergedBy(f, own, sets)
    <2> HIDE DEF V
    <2>1. sets \in Seq(V)
      BY DEF V
    <2> QED BY <1>3, <1>4, <2>1, MergesFold
  <1>6. \A T \in SUBSET D :
           f[T] = IF T = {} THEN {own} ELSE MergeEach(f[T \ {Max(T)}], sets[Max(T)])
    BY <1>5 DEF MergedBy
  <1>7. FoldLeft(MergeEach, {own}, sets) = f[D]
    BY <1>5 DEF MergedBy
  <1> DEFINE Chosen(c, T) == {own} \cup {c[i] : i \in T}
             Picks(c, T) == c \in [D -> Reports] /\ \A i \in T : c[i] \in sets[i]
             G == {T \in SUBSET D : \A x \in f[T] : \E c : Picks(c, T) /\ Gathers(x, Chosen(c, T))}
  <1>8. ASSUME NEW T \in SUBSET D, \A U \in SUBSET T : U # T => U \in G PROVE T \in G
    <2>1. CASE T = {}
      <3> DEFINE c == [i \in D |-> own]
      <3>1. f[T] = {own}
        BY <1>6, <2>1
      <3>2. Picks(c, T) /\ Chosen(c, T) = {own}
        BY <2>1
      <3>3. Gathers(own, Chosen(c, T))
        BY <3>2, GathersOne
      <3> HIDE DEF c, Picks, Chosen
      <3> QED BY <3>1, <3>2, <3>3
    <2>2. CASE T # {}
      <3> DEFINE m == Max(T)
                 U == T \ {m}
      <3>1. m \in T /\ m \in D /\ U \in SUBSET T /\ U # T /\ U \in G
        BY <1>2, <1>8, <2>2
      <3>2. f[T] = MergeEach(f[U], sets[m])
        BY <1>6, <2>2
      <3>3. ASSUME NEW x \in f[T] PROVE \E c : Picks(c, T) /\ Gathers(x, Chosen(c, T))
        <4>1. PICK y \in f[U], r \in sets[m] : x = MergeUsage(y, r)
          BY <3>2, <3>3, MergeEachHas
        <4>2. PICK c : Picks(c, U) /\ Gathers(y, Chosen(c, U))
          BY <3>1, <4>1
        <4>3. r \in Reports
          BY <1>1, <3>1, <4>1
        <4> DEFINE d == [i \in D |-> IF i = m THEN r ELSE c[i]]
        <4>4. Picks(d, T)
          <5>1. d \in [D -> Reports]
            <6> HIDE DEF D
            <6> QED BY <4>2, <4>3
          <5>2. \A i \in T : i \in D /\ (i = m \/ i \in U)
            OBVIOUS
          <5>3. \A i \in T : d[i] \in sets[i]
            BY <4>1, <4>2, <5>2
          <5> QED BY <5>1, <5>3
        <4>5. Chosen(d, T) = Chosen(c, U) \cup {r}
          <5>1. d[m] = r /\ \A i \in U : d[i] = c[i]
            BY <3>1
          <5> HIDE DEF d
          <5> QED BY <3>1, <5>1
        <4>6. Chosen(c, U) \in SUBSET Reports
          <5> HIDE DEF D
          <5> QED BY <3>1, <4>2
        <4>7. Gathers(x, Chosen(d, T))
          <5> HIDE DEF Chosen, d
          <5>1. Gathers(MergeUsage(y, r), Chosen(c, U) \cup {r})
            BY <4>2, <4>3, <4>6, GathersOneMore
          <5> QED BY <4>1, <4>5, <5>1
        <4> HIDE DEF Picks, Chosen, d
        <4> QED BY <4>4, <4>7
      <3> HIDE DEF Picks, Chosen
      <3> QED BY <3>3
    <2> QED BY <2>1, <2>2
  <1>9. D \in G
    <2>1. \A T \in SUBSET D : (\A U \in SUBSET T : U # T => U \in G) => T \in G
      BY <1>8
    <2> HIDE DEF G, D
    <2>2. IsFiniteSet(D)
      BY <1>1
    <2>3. \A T \in SUBSET D : T \in G
      <3> HIDE DEF G, D
      <3> QED BY <2>1, <2>2, SubsetInduction
    <2> QED BY <2>3
  <1> QED BY <1>7, <1>9
-----------------------------------------------------------------------------
(* The search *)

\* The parts of a value.
PartsIn(v) ==
    CASE v.kind = "obj" -> {v.fields[k] : k \in DOMAIN v.fields}
      [] v.kind = "arr" -> {v.items[i] : i \in DOMAIN v.items}
      [] OTHER -> {}

\* A part of a value is a value, and not as deep.
LEMMA PartsFit ==
  ASSUME NEW v \in Values
  PROVE  \A w \in PartsIn(v) : w \in Values /\ Depth[w] < Depth[v]
  <1>1. CASE v.kind = "obj"
    <2>1. \A k \in DOMAIN v.fields : v.fields[k] \in Values /\ Depth[v.fields[k]] < Depth[v]
      BY <1>1, ValuesAssumption, DepthAssumption DEF Null, Num, Str, Digits, Arr
    <2> QED BY <1>1, <2>1 DEF PartsIn
  <1>2. CASE v.kind = "arr"
    <2>1. v.items \in Seq(Values)
      BY <1>2, ValuesAssumption DEF Null, Num, Str, Digits, Obj
    <2>2. \A i \in DOMAIN v.items : v.items[i] \in Values /\ Depth[v.items[i]] < Depth[v]
      BY <1>2, <2>1, DepthAssumption
    <2> QED BY <1>2, <2>2 DEF PartsIn
  <1>3. CASE v.kind \notin {"obj", "arr"}
    BY <1>3 DEF PartsIn
  <1> QED BY <1>1, <1>2, <1>3

\* One level of recursiveUsage, and of Within.
UsageBy(g, v) ==
    CASE v.kind = "obj" ->
            UNION {FoldLeft(MergeEach, {OwnUsage(v)}, [i \in DOMAIN order |-> g[v.fields[order[i]]]]) :
                   order \in SetToSeqs(DOMAIN v.fields)}
      [] v.kind = "arr" ->
            FoldLeft(MergeEach, {NoUsage}, [i \in DOMAIN v.items |-> g[v.items[i]]])
      [] OTHER -> {NoUsage}
WithinBy(g, v) ==
    CASE v.kind = "obj" -> {v} \cup UNION {g[v.fields[k]] : k \in DOMAIN v.fields}
      [] v.kind = "arr" -> UNION {g[v.items[i]] : i \in DOMAIN v.items}
      [] OTHER -> {}

\* How many keys there are.
LEMMA KeysAre == DOMAIN InputKeys = 1..5 /\ DOMAIN OutputKeys = 1..5 /\ DOMAIN ModelKeys = 1..3
  BY DEF InputKeys, OutputKeys, ModelKeys

\* A field of a value is a value.
LEMMA FieldFits ==
  ASSUME NEW v \in Values, NEW key
  PROVE  Field(v, key) \in Values
  <1>1. CASE Has(v, key)
    BY <1>1, ValuesAssumption DEF Has, Field, Null, Num, Str, Digits, Arr
  <1>2. CASE ~Has(v, key)
    BY <1>2, ValuesAssumption DEF Field
  <1> QED BY <1>1, <1>2

\* What firstInt and firstString return.
LEMMA FirstIntFits ==
  ASSUME NEW v \in Values, NEW keys, NEW n \in Nat, DOMAIN keys = 1..n
  PROVE  FirstInt(v, keys) \in Nat
  <1> DEFINE held == {i \in DOMAIN keys : Field(v, keys[i]).kind \in {"num", "digits"}}
  <1>1. CASE held = {}
    BY <1>1 DEF FirstInt
  <1>2. CASE held # {}
    <2>1. Min(held) \in held
      BY <1>2, MinIn
    <2>2. Field(v, keys[Min(held)]) \in Values /\ Field(v, keys[Min(held)]).kind \in {"num", "digits"}
      BY <2>1, FieldFits
    <2>3. Field(v, keys[Min(held)]).n \in Nat
      BY <2>2, ValuesAssumption DEF Null, Str, Arr, Obj
    <2> QED BY <1>2, <2>3 DEF FirstInt
  <1> QED BY <1>1, <1>2

LEMMA FirstStringFits ==
  ASSUME NEW v \in Values, NEW keys, NEW n \in Nat, DOMAIN keys = 1..n
  PROVE  FirstString(v, keys) \in TextsOf
  <1> DEFINE held == {i \in DOMAIN keys : Field(v, keys[i]).kind = "str" /\ Field(v, keys[i]).chars > 0}
  <1>1. CASE held = {}
    BY <1>1 DEF FirstString, TextsOf
  <1>2. CASE held # {}
    <2>1. Min(held) \in held
      BY <1>2, MinIn
    <2>2. Field(v, keys[Min(held)]) \in Values /\ Field(v, keys[Min(held)]).kind = "str"
      BY <2>1, FieldFits
    <2> QED BY <1>2, <2>2 DEF FirstString, TextsOf
  <1> QED BY <1>1, <1>2

\* What an object reports by itself is a report, and so is nothing.
LEMMA OwnFits ==
  ASSUME NEW v \in Values
  PROVE  OwnUsage(v) \in Reports /\ NoUsage \in Reports
  <1>1. FirstInt(v, InputKeys) \in Nat /\ FirstInt(v, OutputKeys) \in Nat
    BY KeysAre, FirstIntFits
  <1>2. FirstString(v, ModelKeys) \in TextsOf
    BY KeysAre, FirstStringFits
  <1> QED BY <1>1, <1>2 DEF OwnUsage, NoUsage, Reports, TextsOf
\* The parts of all values, as a function.
Parts == [v \in Values |-> PartsIn(v)]

LEMMA PartsAre ==
  /\ Layered(Values, MaxDepth, Depth, Parts) /\ MaxDepth \in Nat
  /\ \A v \in Values : Parts[v] = PartsIn(v)
  <1>1. \A v \in Values : PartsIn(v) \in SUBSET Values
    BY PartsFit
  <1>2. Parts \in [Values -> SUBSET Values] /\ \A v \in Values : Parts[v] = PartsIn(v)
    BY <1>1 DEF Parts
  <1>3. \A v \in Values : \A w \in Parts[v] : Depth[w] < Depth[v]
    BY <1>2, PartsFit
  <1>4. Depth \in [Values -> 0..MaxDepth]
    BY DepthAssumption
  <1>5. MaxDepth \in Nat
    BY DEF MaxDepth
  <1> QED BY <1>2, <1>3, <1>4, <1>5 DEF Layered

\* The orders in which Go ranges over an object are sequences of its keys.
LEMMA OrdersOf ==
  ASSUME NEW v \in Values, v.kind = "obj", NEW order \in SetToSeqs(DOMAIN v.fields)
  PROVE  /\ order \in Seq(DOMAIN v.fields)
         /\ \A k \in DOMAIN v.fields : \E i \in DOMAIN order : order[i] = k
  <1>1. IsFiniteSet(DOMAIN v.fields)
    BY ValuesAssumption DEF Null, Num, Str, Digits, Arr
  <1> QED BY <1>1, OrdersCover

\* What is known of the parts, in an order or as they stand, makes a sequence.
LEMMA PartsReport ==
  ASSUME NEW v \in Values, NEW V, NEW g \in [Values -> V]
  PROVE  /\ v.kind = "obj" => \A order \in SetToSeqs(DOMAIN v.fields) :
                [i \in DOMAIN order |-> g[v.fields[order[i]]]] \in Seq(V)
         /\ v.kind = "arr" => [i \in DOMAIN v.items |-> g[v.items[i]]] \in Seq(V)
  <1>1. ASSUME v.kind = "obj", NEW order \in SetToSeqs(DOMAIN v.fields)
        PROVE  [i \in DOMAIN order |-> g[v.fields[order[i]]]] \in Seq(V)
    <2>1. order \in Seq(DOMAIN v.fields)
      BY <1>1, OrdersOf
    <2>2. \A k \in DOMAIN v.fields : v.fields[k] \in Values
      BY <1>1, PartsFit DEF PartsIn
    <2>3. Len(order) \in Nat /\ DOMAIN order = 1..Len(order)
      BY <2>1
    <2>4. \A i \in DOMAIN order : g[v.fields[order[i]]] \in V
      BY <2>1, <2>2
    <2> QED BY <2>3, <2>4
  <1>2. ASSUME v.kind = "arr"
        PROVE  [i \in DOMAIN v.items |-> g[v.items[i]]] \in Seq(V)
    <2>1. v.items \in Seq(Values)
      BY <1>2, ValuesAssumption DEF Null, Num, Str, Digits, Obj
    <2>2. Len(v.items) \in Nat /\ DOMAIN v.items = 1..Len(v.items)
      BY <2>1
    <2>3. \A i \in DOMAIN v.items : g[v.items[i]] \in V
      BY <2>1
    <2> QED BY <2>2, <2>3
  <1> QED BY <1>1, <1>2

\* What a search may report: a report at least.
Findings == (SUBSET Reports) \ {{}}

\* One level of the search reports something when the levels below do.
LEMMA UsageByFits ==
  ASSUME NEW g \in [Values -> Findings], NEW v \in Values
  PROVE  UsageBy(g, v) \in Findings
  <1>1. OwnUsage(v) \in Reports /\ NoUsage \in Reports
    BY OwnFits
  <1>2. ASSUME NEW own \in Reports, NEW sets \in Seq(Findings)
        PROVE  FoldLeft(MergeEach, {own}, sets) \in Findings
    BY <1>2, FoldAnswers DEF Findings
  <1>3. CASE v.kind = "obj"
    <2> DEFINE Loop(order) ==
                 FoldLeft(MergeEach, {OwnUsage(v)}, [i \in DOMAIN order |-> g[v.fields[order[i]]]])
               orders == SetToSeqs(DOMAIN v.fields)
    <2>1. \A order \in orders : Loop(order) \in Findings
      BY <1>1, <1>2, <1>3, PartsReport
    <2>2. orders # {}
      <3>1. IsFiniteSet(DOMAIN v.fields)
        BY <1>3, ValuesAssumption DEF Null, Num, Str, Digits, Arr
      <3> QED BY <3>1, OrdersExist
    <2>3. UsageBy(g, v) = UNION {Loop(order) : order \in orders}
      BY <1>3 DEF UsageBy
    <2> HIDE DEF Loop, orders
    <2> QED BY <2>1, <2>2, <2>3 DEF Findings
  <1>4. CASE v.kind = "arr"
    BY <1>1, <1>2, <1>4, PartsReport DEF UsageBy
  <1>5. CASE v.kind \notin {"obj", "arr"}
    BY <1>1, <1>5 DEF UsageBy, Findings
  <1> QED BY <1>3, <1>4, <1>5

\* It depends on nothing but what the search reports of the parts.
LEMMA UsageByParts ==
  ASSUME NEW g, NEW h, NEW v \in Values, \A w \in PartsIn(v) : g[w] = h[w]
  PROVE  UsageBy(g, v) = UsageBy(h, v)
  <1>1. CASE v.kind = "obj"
    <2>1. \A k \in DOMAIN v.fields : g[v.fields[k]] = h[v.fields[k]]
      BY <1>1 DEF PartsIn
    <2>2. ASSUME NEW order \in SetToSeqs(DOMAIN v.fields)
          PROVE  [i \in DOMAIN order |-> g[v.fields[order[i]]]]
                   = [i \in DOMAIN order |-> h[v.fields[order[i]]]]
      <3>1. \A i \in DOMAIN order : order[i] \in DOMAIN v.fields
        BY <1>1, OrdersOf
      <3> QED BY <2>1, <3>1
    <2> QED BY <1>1, <2>2 DEF UsageBy
  <1>2. CASE v.kind = "arr"
    <2>1. [i \in DOMAIN v.items |-> g[v.items[i]]] = [i \in DOMAIN v.items |-> h[v.items[i]]]
      BY <1>2 DEF PartsIn
    <2> QED BY <1>2, <2>1 DEF UsageBy
  <1>3. CASE v.kind \notin {"obj", "arr"}
    BY <1>3 DEF UsageBy
  <1> QED BY <1>1, <1>2, <1>3

\* recursiveUsage is defined for every value.
LEMMA SearchEquation == \A v \in Values : RecursiveUsage[v] = UsageBy(RecursiveUsage, v)
  <1> DEFINE body == [p \in [Values -> Findings] \X Values |-> UsageBy(p[1], p[2])]
  <1>1. body \in [[Values -> Findings] \X Values -> Findings]
    BY UsageByFits
  <1>2. OfParts(Values, Parts, Findings, body)
    BY <1>1, UsageByParts, PartsAre DEF OfParts
  <1>3. PICK g : Recurs(Values, Findings, body, g)
    <2>1. {NoUsage} \in Findings
      BY OwnFits, ValuesAssumption DEF Findings
    <2> HIDE DEF body
    <2> QED BY <1>2, <2>1, PartsAre, DepthRecursion
  <1> DEFINE Searches(f) == f = [v \in Values |-> UsageBy(f, v)]
  <1>4. Searches(g)
    <2>1. \A v \in Values : g[v] = UsageBy(g, v)
      BY <1>3 DEF Recurs
    <2>2. g = [v \in Values |-> g[v]]
      BY <1>3 DEF Recurs
    <2> QED BY <2>1, <2>2
  <1>5. RecursiveUsage = CHOOSE f : Searches(f)
    BY DEF RecursiveUsage, UsageBy
  <1>6. Searches(RecursiveUsage)
    <2> HIDE DEF Searches
    <2> QED BY <1>4, <1>5
  <1> QED BY <1>6

\* It always reports something.
LEMMA SearchAnswers == \A v \in Values : RecursiveUsage[v] \in Findings
  <1> DEFINE G == {v \in Values : RecursiveUsage[v] \in Findings}
             known == [w \in Values |-> IF w \in G THEN RecursiveUsage[w] ELSE {NoUsage}]
  <1>1. known \in [Values -> Findings]
    BY OwnFits DEF Findings
  <1>2. ASSUME NEW v \in Values, Parts[v] \subseteq G PROVE v \in G
    <2>1. \A w \in PartsIn(v) : known[w] = RecursiveUsage[w]
      BY <1>2, PartsAre
    <2>2. RecursiveUsage[v] = UsageBy(known, v)
      <3> HIDE DEF G, known
      <3> QED BY <2>1, SearchEquation, UsageByParts
    <2>3. UsageBy(known, v) \in Findings
      <3> HIDE DEF G, known
      <3> QED BY <1>1, UsageByFits
    <2> HIDE DEF known
    <2> QED BY <2>2, <2>3
  <1> HIDE DEF G
  <1>3. Values \subseteq G
    BY <1>2, PartsAre, DepthInduction
  <1> QED BY <1>3 DEF G

\* So is Within.
LEMMA WithinEquation == \A v \in Values : Within[v] = WithinBy(Within, v)
  <1> DEFINE V == SUBSET Values
             body == [p \in [Values -> V] \X Values |-> WithinBy(p[1], p[2])]
  <1>1. ASSUME NEW g \in [Values -> V], NEW v \in Values
        PROVE  WithinBy(g, v) \in V
    <2>1. \A w \in PartsIn(v) : g[w] \in V
      BY PartsFit
    <2>2. CASE v.kind = "obj"
      <3>1. \A k \in DOMAIN v.fields : g[v.fields[k]] \in V
        BY <2>1, <2>2 DEF PartsIn
      <3> QED BY <2>2, <3>1 DEF WithinBy
    <2>3. CASE v.kind = "arr"
      <3>1. \A i \in DOMAIN v.items : g[v.items[i]] \in V
        BY <2>1, <2>3 DEF PartsIn
      <3> QED BY <2>3, <3>1 DEF WithinBy
    <2>4. CASE v.kind \notin {"obj", "arr"}
      BY <2>4 DEF WithinBy
    <2> QED BY <2>2, <2>3, <2>4
  <1>2. ASSUME NEW g, NEW h, NEW v \in Values, \A w \in PartsIn(v) : g[w] = h[w]
        PROVE  WithinBy(g, v) = WithinBy(h, v)
    <2>1. CASE v.kind = "obj"
      <3>1. \A k \in DOMAIN v.fields : g[v.fields[k]] = h[v.fields[k]]
        BY <1>2, <2>1 DEF PartsIn
      <3>2. {g[v.fields[k]] : k \in DOMAIN v.fields} = {h[v.fields[k]] : k \in DOMAIN v.fields}
        BY <3>1
      <3> QED BY <2>1, <3>2 DEF WithinBy
    <2>2. CASE v.kind = "arr"
      <3>1. \A i \in DOMAIN v.items : g[v.items[i]] = h[v.items[i]]
        BY <1>2, <2>2 DEF PartsIn
      <3>2. {g[v.items[i]] : i \in DOMAIN v.items} = {h[v.items[i]] : i \in DOMAIN v.items}
        BY <3>1
      <3> QED BY <2>2, <3>2 DEF WithinBy
    <2>3. CASE v.kind \notin {"obj", "arr"}
      BY <2>3 DEF WithinBy
    <2> QED BY <2>1, <2>2, <2>3
  <1>3. body \in [[Values -> V] \X Values -> V]
    <2> HIDE DEF V
    <2> QED BY <1>1
  <1>4. OfParts(Values, Parts, V, body)
    <2> HIDE DEF V
    <2> QED BY <1>2, <1>3, PartsAre DEF OfParts
  <1>5. PICK g : Recurs(Values, V, body, g)
    <2>1. {} \in V
      OBVIOUS
    <2> HIDE DEF V, body
    <2> QED BY <1>4, <2>1, PartsAre, DepthRecursion
  <1> DEFINE Collects(f) == f = [v \in Values |-> WithinBy(f, v)]
  <1>6. Collects(g)
    <2>1. \A v \in Values : g[v] = WithinBy(g, v)
      <3> HIDE DEF V
      <3> QED BY <1>5 DEF Recurs
    <2>2. g = [v \in Values |-> g[v]]
      BY <1>5 DEF Recurs
    <2> QED BY <2>1, <2>2
  <1>7. Within = CHOOSE f : Collects(f)
    BY DEF Within, WithinBy
  <1>8. Collects(Within)
    <2> HIDE DEF Collects
    <2> QED BY <1>6, <1>7
  <1> QED BY <1>8

\* m is the largest of the numbers S, or 0 if there is none.
IsLargest(m, S) == m \in S \cup {0} /\ m \in Nat /\ \A x \in S : x <= m

\* What the search is to find in a document: the largest counts of its objects, and one of
\* the names they give, if they give any.
InputsOf(doc) == {FirstInt(w, InputKeys) : w \in Within[doc]}
OutputsOf(doc) == {FirstInt(w, OutputKeys) : w \in Within[doc]}
NamesOf(doc) == {FirstString(w, ModelKeys) : w \in Within[doc]} \ {NoModel}
Finds(u, doc) ==
    /\ u \in Reports
    /\ IsLargest(u.in, InputsOf(doc)) /\ IsLargest(u.out, OutputsOf(doc))
    /\ u.model \in NamesOf(doc) \/ (u.model = NoModel /\ NamesOf(doc) = {})

\* What a value contains are values.
LEMMA WithinFits == \A v \in Values : Within[v] \subseteq Values
  <1> DEFINE G == {v \in Values : Within[v] \subseteq Values}
  <1>1. ASSUME NEW v \in Values, Parts[v] \subseteq G PROVE v \in G
    <2>1. \A w \in PartsIn(v) : Within[w] \subseteq Values
      BY <1>1, PartsAre
    <2>2. Within[v] = WithinBy(Within, v)
      BY WithinEquation
    <2>3. WithinBy(Within, v) \subseteq Values
      <3>1. CASE v.kind = "obj"
        BY <2>1, <3>1 DEF WithinBy, PartsIn
      <3>2. CASE v.kind = "arr"
        BY <2>1, <3>2 DEF WithinBy, PartsIn
      <3>3. CASE v.kind \notin {"obj", "arr"}
        BY <3>3 DEF WithinBy
      <3> QED BY <3>1, <3>2, <3>3
    <2> QED BY <2>2, <2>3
  <1> HIDE DEF G
  <1>2. Values \subseteq G
    BY <1>1, PartsAre, DepthInduction
  <1> QED BY <1>2 DEF G

\* The counts in what a value contains are numbers.
LEMMA CountsWithin ==
  ASSUME NEW w \in Values
  PROVE  FirstInt(w, InputKeys) \in Nat /\ FirstInt(w, OutputKeys) \in Nat
  BY KeysAre, FirstIntFits

\* A report merged from what was found in each part, and the value's own, is what is to be
\* found in the whole.
LEMMA PartsFind ==
  ASSUME NEW v \in Values, NEW own \in Reports, NEW W, NEW u, NEW D, NEW c, NEW part,
         Gathers(u, {own} \cup {c[i] : i \in D}),
         \A i \in D : c[i] \in Reports /\ Finds(c[i], part[i]),
         W \subseteq {v},
         Within[v] = W \cup UNION {Within[part[i]] : i \in D},
         own = IF W = {} THEN NoUsage ELSE OwnUsage(v)
  PROVE  Finds(u, v)
  <1>1. /\ u \in Reports /\ u.in \in Nat /\ u.out \in Nat /\ own.in \in Nat /\ own.out \in Nat
        /\ \A i \in D : c[i].in \in Nat /\ c[i].out \in Nat
    BY DEF Gathers, Reports
  <1>2. /\ own.in = IF W = {} THEN 0 ELSE FirstInt(v, InputKeys)
        /\ own.out = IF W = {} THEN 0 ELSE FirstInt(v, OutputKeys)
        /\ own.model = IF W = {} THEN NoModel ELSE FirstString(v, ModelKeys)
    BY DEF OwnUsage, NoUsage
  <1>3. ASSUME NEW w
        PROVE  w \in Within[v] <=> (W # {} /\ w = v) \/ \E i \in D : w \in Within[part[i]]
    OBVIOUS
  <1>4. /\ u.in = own.in \/ \E i \in D : u.in = c[i].in
        /\ u.out = own.out \/ \E i \in D : u.out = c[i].out
        /\ u.model = own.model \/ \E i \in D : u.model = c[i].model
        /\ own.in <= u.in /\ \A i \in D : c[i].in <= u.in
        /\ own.out <= u.out /\ \A i \in D : c[i].out <= u.out
        /\ u.model = NoModel => own.model = NoModel /\ \A i \in D : c[i].model = NoModel
    BY DEF Gathers
  <1>5. IsLargest(u.in, InputsOf(v))
    <2>1. ASSUME NEW w \in Within[v] PROVE FirstInt(w, InputKeys) <= u.in
      <3>1. CASE W # {} /\ w = v
        BY <1>2, <1>4, <3>1
      <3>2. CASE \E i \in D : w \in Within[part[i]]
        <4>1. PICK i \in D : w \in Within[part[i]]
          BY <3>2
        <4>2. FirstInt(w, InputKeys) <= c[i].in
          BY <4>1 DEF Finds, IsLargest, InputsOf
        <4>3. FirstInt(w, InputKeys) \in Nat
          BY WithinFits, CountsWithin
        <4> QED BY <1>1, <1>4, <4>2, <4>3
      <3> QED BY <1>3, <3>1, <3>2
    <2>2. u.in \in InputsOf(v) \cup {0}
      <3>1. CASE u.in = own.in
        BY <1>2, <1>3, <3>1 DEF InputsOf
      <3>2. CASE \E i \in D : u.in = c[i].in
        <4>1. PICK i \in D : u.in = c[i].in
          BY <3>2
        <4>2. u.in \in InputsOf(part[i]) \cup {0}
          BY <4>1 DEF Finds, IsLargest
        <4> QED BY <1>3, <4>2 DEF InputsOf
      <3> QED BY <1>4, <3>1, <3>2
    <2> QED BY <1>1, <2>1, <2>2 DEF IsLargest, InputsOf
  <1>6. IsLargest(u.out, OutputsOf(v))
    <2>1. ASSUME NEW w \in Within[v] PROVE FirstInt(w, OutputKeys) <= u.out
      <3>1. CASE W # {} /\ w = v
        BY <1>2, <1>4, <3>1
      <3>2. CASE \E i \in D : w \in Within[part[i]]
        <4>1. PICK i \in D : w \in Within[part[i]]
          BY <3>2
        <4>2. FirstInt(w, OutputKeys) <= c[i].out
          BY <4>1 DEF Finds, IsLargest, OutputsOf
        <4>3. FirstInt(w, OutputKeys) \in Nat
          BY WithinFits, CountsWithin
        <4> QED BY <1>1, <1>4, <4>2, <4>3
      <3> QED BY <1>3, <3>1, <3>2
    <2>2. u.out \in OutputsOf(v) \cup {0}
      <3>1. CASE u.out = own.out
        BY <1>2, <1>3, <3>1 DEF OutputsOf
      <3>2. CASE \E i \in D : u.out = c[i].out
        <4>1. PICK i \in D : u.out = c[i].out
          BY <3>2
        <4>2. u.out \in OutputsOf(part[i]) \cup {0}
          BY <4>1 DEF Finds, IsLargest
        <4> QED BY <1>3, <4>2 DEF OutputsOf
      <3> QED BY <1>4, <3>1, <3>2
    <2> QED BY <1>1, <2>1, <2>2 DEF IsLargest, OutputsOf
  <1>7. u.model \in NamesOf(v) \/ (u.model = NoModel /\ NamesOf(v) = {})
    <2>1. CASE u.model = NoModel
      <3>1. own.model = NoModel /\ \A i \in D : NamesOf(part[i]) = {}
        BY <1>4, <2>1 DEF Finds, NamesOf
      <3>2. \A w \in Within[v] : FirstString(w, ModelKeys) = NoModel
        BY <1>2, <1>3, <3>1 DEF NamesOf
      <3> QED BY <2>1, <3>2 DEF NamesOf
    <2>2. CASE u.model # NoModel /\ u.model = own.model
      BY <1>2, <1>3, <2>2 DEF NamesOf
    <2>3. CASE u.model # NoModel /\ \E i \in D : u.model = c[i].model
      <3>1. PICK i \in D : u.model = c[i].model
        BY <2>3
      <3>2. u.model \in NamesOf(part[i])
        BY <2>3, <3>1 DEF Finds
      <3> QED BY <1>3, <3>2 DEF NamesOf
    <2> QED BY <1>4, <2>1, <2>2, <2>3
  <1> QED BY <1>1, <1>5, <1>6, <1>7 DEF Finds

\* recursiveUsage of any document, in whatever order Go ranges over its maps (stream.go:291),
\* finds the largest counts of its objects, 0 where there is none, and the name one of its
\* objects gives a model, or none only where none does; some order there is.
THEOREM SearchFinds ==
  \A doc \in Values : RecursiveUsage[doc] # {} /\ \A u \in RecursiveUsage[doc] : Finds(u, doc)
  <1> DEFINE G == {v \in Values : \A u \in RecursiveUsage[v] : Finds(u, v)}
  <1>1. ASSUME NEW v \in Values, Parts[v] \subseteq G, NEW u \in RecursiveUsage[v]
        PROVE  Finds(u, v)
    <2>1. \A w \in PartsIn(v) : \A x \in RecursiveUsage[w] : Finds(x, w)
      BY <1>1, PartsAre
    <2>2. u \in UsageBy(RecursiveUsage, v) /\ Within[v] = WithinBy(Within, v)
      BY <1>1, SearchEquation, WithinEquation
    <2>3. OwnUsage(v) \in Reports /\ NoUsage \in Reports
      BY OwnFits
    <2>4. CASE v.kind = "obj"
      <3> DEFINE PartOf(order) == [i \in DOMAIN order |-> v.fields[order[i]]]
                 Sets(order) == [i \in DOMAIN order |-> RecursiveUsage[v.fields[order[i]]]]
      <3>1. PICK order \in SetToSeqs(DOMAIN v.fields) :
               u \in FoldLeft(MergeEach, {OwnUsage(v)}, Sets(order))
        BY <2>2, <2>4 DEF UsageBy
      <3> DEFINE part == PartOf(order)
                 sets == Sets(order)
                 D == DOMAIN order
      <3>2. /\ order \in Seq(DOMAIN v.fields)
            /\ \A k \in DOMAIN v.fields : \E i \in D : order[i] = k
        BY <2>4, OrdersOf
      <3>3. \A i \in D : part[i] \in PartsIn(v) /\ order[i] \in DOMAIN v.fields
        BY <2>4, <3>2 DEF PartsIn
      <3>4. sets \in Seq(SUBSET Reports)
        <4>1. \A i \in D : \A x \in RecursiveUsage[part[i]] : x \in Reports
          BY <2>1, <3>3 DEF Finds
        <4>2. Len(order) \in Nat /\ D = 1..Len(order)
          BY <3>2
        <4>3. \A i \in D : sets[i] \in SUBSET Reports
          BY <4>1
        <4> QED BY <4>2, <4>3
      <3>5. DOMAIN sets = D /\ \A i \in D : sets[i] = RecursiveUsage[part[i]]
        OBVIOUS
      <3>6. u \in FoldLeft(MergeEach, {OwnUsage(v)}, sets)
        BY <3>1
      <3> HIDE DEF sets
      <3>7. PICK c \in [DOMAIN sets -> Reports] :
               /\ \A i \in DOMAIN sets : c[i] \in sets[i]
               /\ Gathers(u, {OwnUsage(v)} \cup {c[i] : i \in DOMAIN sets})
        BY <2>3, <3>4, <3>6, FoldGathers
      <3>8. \A i \in D : c[i] \in Reports /\ Finds(c[i], part[i])
        BY <2>1, <3>3, <3>5, <3>7
      <3>9. Within[v] = {v} \cup UNION {Within[part[i]] : i \in D}
        <4>1. Within[v] = {v} \cup UNION {Within[v.fields[k]] : k \in DOMAIN v.fields}
          BY <2>2, <2>4 DEF WithinBy
        <4>2. {Within[v.fields[k]] : k \in DOMAIN v.fields} = {Within[part[i]] : i \in D}
          BY <3>2, <3>3
        <4> QED BY <4>1, <4>2
      <3>10. Gathers(u, {OwnUsage(v)} \cup {c[i] : i \in D})
        BY <3>5, <3>7
      <3>11. {v} \subseteq {v} /\ OwnUsage(v) = IF {v} = {} THEN NoUsage ELSE OwnUsage(v)
        OBVIOUS
      <3> HIDE DEF part, D
      <3> QED BY <2>3, <3>8, <3>9, <3>10, <3>11, PartsFind
    <2>5. CASE v.kind = "arr"
      <3> DEFINE sets == [i \in DOMAIN v.items |-> RecursiveUsage[v.items[i]]]
                 D == DOMAIN v.items
      <3>1. v.items \in Seq(Values)
        BY <2>5, ValuesAssumption DEF Null, Num, Str, Digits, Obj
      <3>2. \A i \in D : v.items[i] \in PartsIn(v)
        BY <2>5 DEF PartsIn
      <3>3. sets \in Seq(SUBSET Reports)
        <4>1. \A i \in D : \A x \in RecursiveUsage[v.items[i]] : x \in Reports
          BY <2>1, <3>2 DEF Finds
        <4>2. Len(v.items) \in Nat /\ D = 1..Len(v.items)
          BY <3>1
        <4>3. \A i \in D : sets[i] \in SUBSET Reports
          BY <4>1
        <4> QED BY <4>2, <4>3
      <3>4. DOMAIN sets = D /\ \A i \in D : sets[i] = RecursiveUsage[v.items[i]]
        OBVIOUS
      <3>5. u \in FoldLeft(MergeEach, {NoUsage}, sets)
        BY <2>2, <2>5 DEF UsageBy
      <3> HIDE DEF sets
      <3>6. PICK c \in [DOMAIN sets -> Reports] :
               /\ \A i \in DOMAIN sets : c[i] \in sets[i]
               /\ Gathers(u, {NoUsage} \cup {c[i] : i \in DOMAIN sets})
        BY <2>3, <3>3, <3>5, FoldGathers
      <3>7. \A i \in D : c[i] \in Reports /\ Finds(c[i], v.items[i])
        BY <2>1, <3>2, <3>4, <3>6
      <3> DEFINE W == {}
      <3>8. Within[v] = W \cup UNION {Within[v.items[i]] : i \in D}
        BY <2>2, <2>5 DEF WithinBy
      <3>9. Gathers(u, {NoUsage} \cup {c[i] : i \in D})
        BY <3>4, <3>6
      <3>10. W \subseteq {v} /\ NoUsage = IF W = {} THEN NoUsage ELSE OwnUsage(v)
        OBVIOUS
      <3> HIDE DEF D, W
      <3> QED BY <2>3, <3>7, <3>8, <3>9, <3>10, PartsFind
    <2>6. CASE v.kind \notin {"obj", "arr"}
      <3>1. u = NoUsage /\ Within[v] = {}
        BY <2>2, <2>6 DEF UsageBy, WithinBy
      <3> QED BY <2>3, <3>1 DEF Finds, IsLargest, InputsOf, OutputsOf, NamesOf, NoUsage
    <2> QED BY <2>4, <2>5, <2>6
  <1> HIDE DEF G
  <1>2. ASSUME NEW v \in Values, Parts[v] \subseteq G PROVE v \in G
    BY <1>1, <1>2 DEF G
  <1>3. Values \subseteq G
    BY <1>2, PartsAre, DepthInduction
  <1> QED BY <1>3, SearchAnswers DEF G, Findings

\* Of a set of numbers only one is the largest.
LEMMA OneLargest ==
  ASSUME NEW S, S \subseteq Nat, NEW m, NEW n, IsLargest(m, S), IsLargest(n, S)
  PROVE  m = n
  BY DEF IsLargest

\* A document says the same however it is read.
LEMMA DocumentsReadTheSame ==
  ASSUME NEW doc \in Values, NEW provider
  PROVE  ReadsTheSame(doc, provider)
  <1> DEFINE strict == ExtractResponseUsage(doc, provider)
             Same(x, y) == /\ x.in = y.in /\ x.out = y.out
                           /\ (\A a, b \in NamesOf(doc) : a = b) => x.model = y.model
  <1>1. ASSUME NEW x \in ExtractStreamUsage(doc, provider), NEW y \in ExtractStreamUsage(doc, provider)
        PROVE  Same(x, y)
    <2>1. CASE strict.found /\ strict.usage # NoUsage
      <3>1. x = strict.usage /\ y = strict.usage
        BY <1>1, <2>1 DEF ExtractStreamUsage
      <3> QED BY <3>1
    <2>2. CASE ~(strict.found /\ strict.usage # NoUsage)
      <3>1. x \in RecursiveUsage[doc] /\ y \in RecursiveUsage[doc]
        BY <1>1, <2>2 DEF ExtractStreamUsage
      <3>2. Finds(x, doc) /\ Finds(y, doc)
        BY <3>1, SearchFinds
      <3>3. InputsOf(doc) \subseteq Nat /\ OutputsOf(doc) \subseteq Nat
        BY WithinFits, CountsWithin DEF InputsOf, OutputsOf
      <3>4. x.in = y.in /\ x.out = y.out
        BY <3>2, <3>3, OneLargest DEF Finds
      <3> QED BY <3>2, <3>4 DEF Finds
    <2> QED BY <2>1, <2>2
  <1>2. ASSUME NEW p \in PayloadsOf(doc, provider), NEW q \in PayloadsOf(doc, provider)
        PROVE  /\ p.in = q.in /\ p.out = q.out
               /\ (\A a, b \in NamesOf(doc) : a = b) => p.model = q.model
    <2>1. PICK x \in ExtractStreamUsage(doc, provider) : p.in = x.in /\ p.out = x.out /\ p.model = x.model
      BY <1>2 DEF PayloadsOf
    <2>2. PICK y \in ExtractStreamUsage(doc, provider) : q.in = y.in /\ q.out = y.out /\ q.model = y.model
      BY <1>2 DEF PayloadsOf
    <2>3. Same(x, y)
      BY <1>1
    <2> QED BY <2>1, <2>2, <2>3
  <1> QED BY <1>2 DEF ReadsTheSame, NamesOf

\* The documents of an answer report the same counts in whatever order Go ranges over their
\* maps, and the same model unless two of a document's objects name different ones
\* (stream.go:315).
THEOREM MapOrderIsHarmlessAlways == Spec => []MapOrderIsHarmless
  <1>1. Unsettled = {}
    BY DocumentsReadTheSame DEF Unsettled
  <1>2. MapOrderIsHarmless
    BY <1>1 DEF MapOrderIsHarmless
  <1> QED BY <1>2, PTL

-----------------------------------------------------------------------------
(* Text *)

\* A sum of numbers is a number, and 0 only if each of them is.
LEMMA SumOf ==
  ASSUME NEW f, IsFiniteSet(DOMAIN f), \A x \in DOMAIN f : f[x] \in Nat
  PROVE  SumFunction(f) \in Nat /\ (SumFunction(f) = 0 <=> \A x \in DOMAIN f : f[x] = 0)
  <1> DEFINE D == DOMAIN f
  <1>1. SumFunction(f) = Total(f, D)
    BY DEF SumFunction, SumFunctionOnSet, FoldFunctionOnSet, Total, MapThenSumSet
  <1> HIDE DEF D
  <1>2. IsFiniteSet(D) /\ \A x \in D : f[x] \in Nat
    BY DEF D
  <1>3. \A T \in SUBSET D : Total(f, T) \in Nat /\ Total(f, T) <= Total(f, D)
    BY <1>2, TotalNat
  <1>4. ASSUME Total(f, D) = 0, NEW x \in D PROVE f[x] = 0
    <2>1. Total(f, {x}) = f[x] + Total(f, {x} \ {x})
      BY <1>2, TotalTakes
    <2>2. Total(f, {x} \ {x}) = 0
      <3>1. {x} \ {x} = {}
        OBVIOUS
      <3> QED BY <3>1, TotalOfNone
    <2>3. Total(f, {x}) <= 0 /\ f[x] \in Nat
      BY <1>2, <1>3, <1>4
    <2> QED BY <2>1, <2>2, <2>3
  <1>5. ASSUME \A x \in D : f[x] = 0 PROVE Total(f, D) = 0
    BY <1>2, <1>5, TotalOfZeros
  <1> QED BY <1>1, <1>3, <1>4, <1>5 DEF D

\* A value has no more than finitely many parts, and the characters of a text are counted.
LEMMA PartsAreFinite ==
  ASSUME NEW v \in Values
  PROVE  /\ Chars(v) \in Nat /\ (v.kind \in {"obj", "arr", "null"} => Chars(v) = 0)
         /\ v.kind = "obj" => IsFiniteSet(DOMAIN v.fields)
         /\ v.kind = "arr" => IsFiniteSet(DOMAIN v.items)
  <1>1. Chars(v) \in Nat /\ (v.kind \in {"obj", "arr", "null"} => Chars(v) = 0)
    BY ValuesAssumption DEF Chars, Null, Num, Str, Digits, Arr, Obj
  <1>2. v.kind = "obj" => IsFiniteSet(DOMAIN v.fields)
    BY ValuesAssumption DEF Null, Num, Str, Digits, Arr
  <1>3. ASSUME v.kind = "arr" PROVE IsFiniteSet(DOMAIN v.items)
    <2>1. v.items \in Seq(Values)
      BY <1>3, ValuesAssumption DEF Null, Num, Str, Digits, Obj
    <2>2. Len(v.items) \in Nat /\ DOMAIN v.items = 1..Len(v.items)
      BY <2>1
    <2> QED BY <2>2, FS_Interval
  <1> QED BY <1>1, <1>2, <1>3

\* What appendContentText reads of a value: its parts, and null for a field that is not there.
Levels == [v \in Values |-> IF v = Null THEN 0 ELSE Depth[v] + 1]
PartsRead == [v \in Values |-> IF v = Null THEN {} ELSE PartsIn(v) \cup {Null}]

LEMMA PartsReadAre ==
  /\ Layered(Values, MaxDepth + 1, Levels, PartsRead) /\ MaxDepth + 1 \in Nat
  /\ \A v \in Values : PartsIn(v) \subseteq PartsRead[v]
  /\ \A v \in Values : v.kind = "obj" => \A key : Field(v, key) \in PartsRead[v]
  <1>1. MaxDepth \in Nat
    BY DEF MaxDepth
  <1>2. Null \in Values /\ PartsIn(Null) = {} /\ Null.kind = "null"
    BY ValuesAssumption DEF Null, PartsIn
  <1>3. \A v \in Values : Depth[v] \in 0..MaxDepth
    BY DepthAssumption
  <1>4. Levels \in [Values -> 0..MaxDepth + 1]
    BY <1>1, <1>3 DEF Levels
  <1>5. \A v \in Values : PartsIn(v) \in SUBSET Values
    BY PartsFit
  <1>6. PartsRead \in [Values -> SUBSET Values]
    BY <1>2, <1>5 DEF PartsRead
  <1>7. ASSUME NEW v \in Values, NEW w \in PartsRead[v] PROVE Levels[w] < Levels[v]
    <2>1. v # Null /\ (w = Null \/ w \in PartsIn(v))
      BY <1>7 DEF PartsRead
    <2>2. CASE w = Null
      BY <1>2, <1>3, <2>1, <2>2 DEF Levels
    <2>3. CASE w # Null
      <3>1. w \in Values /\ Depth[w] < Depth[v]
        BY <2>1, <2>3, PartsFit
      <3> QED BY <1>3, <2>1, <2>3, <3>1 DEF Levels
    <2> QED BY <2>2, <2>3
  <1>8. \A v \in Values : PartsIn(v) \subseteq PartsRead[v]
    BY <1>2 DEF PartsRead
  <1>9. ASSUME NEW v \in Values, v.kind = "obj", NEW key PROVE Field(v, key) \in PartsRead[v]
    <2>1. v # Null
      BY <1>2, <1>9
    <2>2. Field(v, key) = Null \/ Field(v, key) \in PartsIn(v)
      BY <1>9 DEF Field, Has, PartsIn
    <2> QED BY <2>1, <2>2 DEF PartsRead
  <1>10. Layered(Values, MaxDepth + 1, Levels, PartsRead)
    BY <1>4, <1>6, <1>7 DEF Layered
  <1> QED BY <1>1, <1>8, <1>9, <1>10

\* One level of appendContentText, and of appendRecursiveText.
ContentBy(g, v) ==
    CASE v.kind = "obj" ->
            Chars(Field(v, "text")) + Chars(Field(v, "outputText"))
                 + g[Field(v, "content")] + g[Field(v, "parts")] + g[Field(v, "delta")]
      [] v.kind = "arr" -> SumFunction([i \in DOMAIN v.items |-> g[v.items[i]]])
      [] OTHER -> Chars(v)
TextBy(g, v) ==
    CASE v.kind = "obj" ->
            ContentText[v] + SumFunction([k \in DOMAIN v.fields |-> g[v.fields[k]]])
      [] v.kind = "arr" -> SumFunction([i \in DOMAIN v.items |-> g[v.items[i]]])
      [] OTHER -> Chars(v)

\* The sum over the items of an array, or over the fields of an object.
LEMMA SumOfParts ==
  ASSUME NEW v \in Values, NEW g, \A w \in PartsIn(v) : g[w] \in Nat
  PROVE  /\ v.kind = "arr" =>
               LET sum == SumFunction([i \in DOMAIN v.items |-> g[v.items[i]]])
               IN sum \in Nat /\ (sum = 0 <=> \A w \in PartsIn(v) : g[w] = 0)
         /\ v.kind = "obj" =>
               LET sum == SumFunction([k \in DOMAIN v.fields |-> g[v.fields[k]]])
               IN sum \in Nat /\ (sum = 0 <=> \A w \in PartsIn(v) : g[w] = 0)
  <1>1. ASSUME v.kind = "arr"
        PROVE  LET sum == SumFunction([i \in DOMAIN v.items |-> g[v.items[i]]])
               IN sum \in Nat /\ (sum = 0 <=> \A w \in PartsIn(v) : g[w] = 0)
    <2> DEFINE f == [i \in DOMAIN v.items |-> g[v.items[i]]]
    <2>1. PartsIn(v) = {v.items[i] : i \in DOMAIN v.items}
      BY <1>1 DEF PartsIn
    <2>2. /\ IsFiniteSet(DOMAIN f) /\ (\A x \in DOMAIN f : f[x] \in Nat)
          /\ (\A x \in DOMAIN f : f[x] = 0) <=> \A w \in PartsIn(v) : g[w] = 0
      BY <1>1, <2>1, PartsAreFinite
    <2> HIDE DEF f
    <2>3. SumFunction(f) \in Nat /\ (SumFunction(f) = 0 <=> \A w \in PartsIn(v) : g[w] = 0)
      BY <2>2, SumOf
    <2> QED BY <2>3 DEF f
  <1>2. ASSUME v.kind = "obj"
        PROVE  LET sum == SumFunction([k \in DOMAIN v.fields |-> g[v.fields[k]]])
               IN sum \in Nat /\ (sum = 0 <=> \A w \in PartsIn(v) : g[w] = 0)
    <2> DEFINE f == [k \in DOMAIN v.fields |-> g[v.fields[k]]]
    <2>1. PartsIn(v) = {v.fields[k] : k \in DOMAIN v.fields}
      BY <1>2 DEF PartsIn
    <2>2. /\ IsFiniteSet(DOMAIN f) /\ (\A x \in DOMAIN f : f[x] \in Nat)
          /\ (\A x \in DOMAIN f : f[x] = 0) <=> \A w \in PartsIn(v) : g[w] = 0
      BY <1>2, <2>1, PartsAreFinite
    <2> HIDE DEF f
    <2>3. SumFunction(f) \in Nat /\ (SumFunction(f) = 0 <=> \A w \in PartsIn(v) : g[w] = 0)
      BY <2>2, SumOf
    <2> QED BY <2>3 DEF f
  <1> QED BY <1>1, <1>2

\* appendContentText is defined for every value.
LEMMA ContentEquation ==
  /\ ContentText \in [Values -> Nat]
  /\ \A v \in Values : ContentText[v] = ContentBy(ContentText, v)
  <1> DEFINE body == [p \in [Values -> Nat] \X Values |-> ContentBy(p[1], p[2])]
  <1>1. ASSUME NEW g \in [Values -> Nat], NEW v \in Values
        PROVE  ContentBy(g, v) \in Nat
    <2>1. \A w \in PartsIn(v) : g[w] \in Nat
      BY PartsFit
    <2>2. CASE v.kind = "obj"
      <3>1. \A key : Chars(Field(v, key)) \in Nat /\ g[Field(v, key)] \in Nat
        BY FieldFits, PartsAreFinite
      <3> QED BY <2>2, <3>1 DEF ContentBy
    <2>3. CASE v.kind = "arr"
      BY <2>1, <2>3, SumOfParts DEF ContentBy
    <2>4. CASE v.kind \notin {"obj", "arr"}
      BY <2>4, PartsAreFinite DEF ContentBy
    <2> QED BY <2>2, <2>3, <2>4
  <1>2. ASSUME NEW g, NEW h, NEW v \in Values, \A w \in PartsRead[v] : g[w] = h[w]
        PROVE  ContentBy(g, v) = ContentBy(h, v)
    <2>1. CASE v.kind = "obj"
      <3>1. \A key : g[Field(v, key)] = h[Field(v, key)]
        BY <1>2, <2>1, PartsReadAre
      <3> QED BY <2>1, <3>1 DEF ContentBy
    <2>2. CASE v.kind = "arr"
      <3>1. \A i \in DOMAIN v.items : g[v.items[i]] = h[v.items[i]]
        BY <1>2, <2>2, PartsReadAre DEF PartsIn
      <3>2. [i \in DOMAIN v.items |-> g[v.items[i]]] = [i \in DOMAIN v.items |-> h[v.items[i]]]
        BY <3>1
      <3> QED BY <2>2, <3>2 DEF ContentBy
    <2>3. CASE v.kind \notin {"obj", "arr"}
      BY <2>3 DEF ContentBy
    <2> QED BY <2>1, <2>2, <2>3
  <1>3. body \in [[Values -> Nat] \X Values -> Nat]
    BY <1>1
  <1>4. OfParts(Values, PartsRead, Nat, body)
    BY <1>2, <1>3 DEF OfParts
  <1>5. PICK g : Recurs(Values, Nat, body, g)
    <2>1. 0 \in Nat
      OBVIOUS
    <2> HIDE DEF body
    <2> QED BY <1>4, <2>1, PartsReadAre, DepthRecursion
  <1> DEFINE Counts(f) == f = [v \in Values |-> ContentBy(f, v)]
  <1>6. Counts(g)
    <2>1. \A v \in Values : g[v] = ContentBy(g, v)
      BY <1>5 DEF Recurs
    <2>2. g = [v \in Values |-> g[v]]
      BY <1>5 DEF Recurs
    <2> QED BY <2>1, <2>2
  <1>7. ContentText = CHOOSE f : Counts(f)
    BY DEF ContentText, ContentBy
  <1>8. Counts(ContentText)
    <2> HIDE DEF Counts
    <2> QED BY <1>6, <1>7
  <1> DEFINE G == {v \in Values : ContentText[v] \in Nat}
             known == [w \in Values |-> IF w \in G THEN ContentText[w] ELSE 0]
  <1>9. ASSUME NEW v \in Values, PartsRead[v] \subseteq G PROVE v \in G
    <2>1. known \in [Values -> Nat] /\ \A w \in PartsRead[v] : known[w] = ContentText[w]
      BY <1>9
    <2> HIDE DEF known
    <2>2. ContentText[v] = ContentBy(ContentText, v)
      BY <1>8
    <2>3. ContentBy(ContentText, v) = ContentBy(known, v)
      BY <1>2, <2>1
    <2> QED BY <1>1, <2>1, <2>2, <2>3
  <1> HIDE DEF G
  <1>10. Values \subseteq G
    BY <1>9, PartsReadAre, DepthInduction
  <1> QED BY <1>8, <1>10 DEF G

\* So is appendRecursiveText.
LEMMA TextEquation ==
  /\ RecursiveText \in [Values -> Nat]
  /\ \A v \in Values : RecursiveText[v] = TextBy(RecursiveText, v)
  <1> DEFINE body == [p \in [Values -> Nat] \X Values |-> TextBy(p[1], p[2])]
  <1>1. ASSUME NEW g, NEW v \in Values, \A w \in PartsIn(v) : g[w] \in Nat
        PROVE  TextBy(g, v) \in Nat
    <2>1. CASE v.kind = "obj"
      <3> DEFINE sum == SumFunction([k \in DOMAIN v.fields |-> g[v.fields[k]]])
      <3>1. sum \in Nat
        BY <1>1, <2>1, SumOfParts
      <3>2. TextBy(g, v) = ContentText[v] + sum /\ ContentText[v] \in Nat
        BY <2>1, ContentEquation DEF TextBy
      <3> HIDE DEF sum
      <3> QED BY <3>1, <3>2
    <2>2. CASE v.kind = "arr"
      BY <1>1, <2>2, SumOfParts DEF TextBy
    <2>3. CASE v.kind \notin {"obj", "arr"}
      BY <2>3, PartsAreFinite DEF TextBy
    <2> QED BY <2>1, <2>2, <2>3
  <1>2. ASSUME NEW g, NEW h, NEW v \in Values, \A w \in PartsIn(v) : g[w] = h[w]
        PROVE  TextBy(g, v) = TextBy(h, v)
    <2>1. CASE v.kind = "obj"
      <3>1. [k \in DOMAIN v.fields |-> g[v.fields[k]]] = [k \in DOMAIN v.fields |-> h[v.fields[k]]]
        BY <1>2, <2>1 DEF PartsIn
      <3> QED BY <2>1, <3>1 DEF TextBy
    <2>2. CASE v.kind = "arr"
      <3>1. [i \in DOMAIN v.items |-> g[v.items[i]]] = [i \in DOMAIN v.items |-> h[v.items[i]]]
        BY <1>2, <2>2 DEF PartsIn
      <3> QED BY <2>2, <3>1 DEF TextBy
    <2>3. CASE v.kind \notin {"obj", "arr"}
      BY <2>3 DEF TextBy
    <2> QED BY <2>1, <2>2, <2>3
  <1>3. body \in [[Values -> Nat] \X Values -> Nat]
    BY <1>1, PartsFit
  <1>4. OfParts(Values, Parts, Nat, body)
    BY <1>2, <1>3, PartsAre DEF OfParts
  <1>5. PICK g : Recurs(Values, Nat, body, g)
    <2>1. 0 \in Nat
      OBVIOUS
    <2> HIDE DEF body
    <2> QED BY <1>4, <2>1, PartsAre, DepthRecursion
  <1> DEFINE Counts(f) == f = [v \in Values |-> TextBy(f, v)]
  <1>6. Counts(g)
    <2>1. \A v \in Values : g[v] = TextBy(g, v)
      BY <1>5 DEF Recurs
    <2>2. g = [v \in Values |-> g[v]]
      BY <1>5 DEF Recurs
    <2> QED BY <2>1, <2>2
  <1>7. RecursiveText = CHOOSE f : Counts(f)
    BY DEF RecursiveText, TextBy
  <1>8. Counts(RecursiveText)
    <2> HIDE DEF Counts
    <2> QED BY <1>6, <1>7
  <1> DEFINE G == {v \in Values : RecursiveText[v] \in Nat}
  <1>9. ASSUME NEW v \in Values, Parts[v] \subseteq G PROVE v \in G
    <2>1. \A w \in PartsIn(v) : RecursiveText[w] \in Nat
      BY <1>9, PartsAre
    <2>2. RecursiveText[v] = TextBy(RecursiveText, v)
      BY <1>8
    <2> QED BY <1>1, <2>1, <2>2
  <1> HIDE DEF G
  <1>10. Values \subseteq G
    BY <1>9, PartsAre, DepthInduction
  <1> QED BY <1>8, <1>10 DEF G

\* w is the document or within it, at any depth.
PartOf(w, doc) ==
    \A S \in SUBSET Values : doc \in S /\ (\A v \in S : PartsIn(v) \subseteq S) => w \in S

\* No string of the document, wherever it stands, has a character.
Silent(doc) == \A w \in Values : PartOf(w, doc) => Chars(w) = 0

\* What is silent is so throughout.
LEMMA SilentParts ==
  ASSUME NEW v \in Values, Silent(v)
  PROVE  /\ Chars(v) = 0 /\ \A w \in PartsIn(v) : Silent(w)
         /\ \A key : Field(v, key) \in Values /\ Silent(Field(v, key))
         /\ \A i \in DOMAIN Items(v) : Items(v)[i] \in Values /\ Silent(Items(v)[i])
  <1>1. PartOf(v, v)
    BY DEF PartOf
  <1>2. ASSUME NEW w \in PartsIn(v), NEW x \in Values, PartOf(x, w) PROVE PartOf(x, v)
    BY <1>2 DEF PartOf
  <1>3. \A w \in PartsIn(v) : Silent(w)
    BY <1>2 DEF Silent
  <1>4. Silent(Null)
    <2>1. \A w : PartOf(w, Null) => w \in {Null}
      <3>1. {Null} \in SUBSET Values /\ PartsIn(Null) \subseteq {Null}
        BY ValuesAssumption DEF Null, PartsIn
      <3> QED BY <3>1 DEF PartOf
    <2>2. Chars(Null) = 0
      BY DEF Chars, Null
    <2> QED BY <2>1, <2>2 DEF Silent
  <1>5. ASSUME NEW key PROVE Field(v, key) \in Values /\ Silent(Field(v, key))
    <2>1. Field(v, key) = Null \/ Field(v, key) \in PartsIn(v)
      BY DEF Field, Has, PartsIn
    <2> QED BY <1>3, <1>4, <2>1, FieldFits
  <1>6. ASSUME NEW i \in DOMAIN Items(v) PROVE Items(v)[i] \in Values /\ Silent(Items(v)[i])
    <2>1. v.kind = "arr"
      BY <1>6 DEF Items
    <2>2. Items(v)[i] \in PartsIn(v)
      BY <1>6, <2>1 DEF Items, PartsIn
    <2> QED BY <1>3, <2>2, PartsFit
  <1> QED BY <1>1, <1>3, <1>5, <1>6 DEF Silent

\* There is no content in what is silent.
LEMMA SilentContent == \A v \in Values : Silent(v) => ContentText[v] = 0
  <1> DEFINE G == {v \in Values : Silent(v) => ContentText[v] = 0}
  <1>1. ASSUME NEW v \in Values, PartsRead[v] \subseteq G, Silent(v) PROVE ContentText[v] = 0
    <2>1. ContentText[v] = ContentBy(ContentText, v)
      BY ContentEquation
    <2>2. CASE v.kind = "obj"
      <3>1. \A key : ContentText[Field(v, key)] = 0 /\ Chars(Field(v, key)) = 0
        BY <1>1, <2>2, SilentParts, PartsReadAre
      <3> QED BY <2>1, <2>2, <3>1 DEF ContentBy
    <2>3. CASE v.kind = "arr"
      <3>1. \A w \in PartsIn(v) : ContentText[w] \in Nat /\ ContentText[w] = 0
        BY <1>1, SilentParts, PartsReadAre
      <3> QED BY <2>1, <2>3, <3>1, SumOfParts DEF ContentBy
    <2>4. CASE v.kind \notin {"obj", "arr"}
      BY <1>1, <2>1, <2>4, SilentParts DEF ContentBy
    <2> QED BY <2>2, <2>3, <2>4
  <1> HIDE DEF G
  <1>2. ASSUME NEW v \in Values, PartsRead[v] \subseteq G PROVE v \in G
    BY <1>1, <1>2 DEF G
  <1>3. Values \subseteq G
    BY <1>2, PartsReadAre, DepthInduction
  <1> QED BY <1>3 DEF G

\* The search for text finds some unless there is none.
LEMMA SearchHears == \A v \in Values : RecursiveText[v] = 0 <=> Silent(v)
  <1> DEFINE Mute == {v \in Values : RecursiveText[v] = 0}
             G == {v \in Values : Silent(v) => RecursiveText[v] = 0}
  <1>1. ASSUME NEW v \in Values
        PROVE  /\ RecursiveText[v] = 0 => Chars(v) = 0 /\ PartsIn(v) \subseteq Mute
               /\ Chars(v) = 0 /\ ContentText[v] = 0 /\ PartsIn(v) \subseteq Mute
                     => RecursiveText[v] = 0
    <2>1. RecursiveText[v] = TextBy(RecursiveText, v) /\ ContentText[v] \in Nat
      BY TextEquation, ContentEquation
    <2>2. \A w \in PartsIn(v) : w \in Values /\ RecursiveText[w] \in Nat
      BY TextEquation, PartsFit
    <2>3. PartsIn(v) \subseteq Mute <=> \A w \in PartsIn(v) : RecursiveText[w] = 0
      BY <2>2
    <2> HIDE DEF Mute
    <2>4. CASE v.kind = "obj"
      <3>1. Chars(v) = 0
        BY <2>4, PartsAreFinite
      <3> DEFINE sum == SumFunction([k \in DOMAIN v.fields |-> RecursiveText[v.fields[k]]])
      <3>2. sum \in Nat /\ (sum = 0 <=> PartsIn(v) \subseteq Mute)
        BY <2>2, <2>3, <2>4, SumOfParts
      <3>3. RecursiveText[v] = ContentText[v] + sum
        BY <2>1, <2>4 DEF TextBy
      <3> HIDE DEF sum
      <3> QED BY <2>1, <3>1, <3>2, <3>3
    <2>5. CASE v.kind = "arr"
      <3>1. Chars(v) = 0
        BY <2>5, PartsAreFinite
      <3> QED BY <2>1, <2>2, <2>3, <2>5, <3>1, SumOfParts DEF TextBy
    <2>6. CASE v.kind \notin {"obj", "arr"}
      BY <2>1, <2>6 DEF TextBy, PartsIn
    <2> QED BY <2>4, <2>5, <2>6
  <1>2. ASSUME NEW v \in Values, RecursiveText[v] = 0 PROVE Silent(v)
    <2>1. v \in Mute /\ Mute \in SUBSET Values /\ \A w \in Mute : PartsIn(w) \subseteq Mute
      BY <1>1, <1>2
    <2>2. \A w \in Mute : Chars(w) = 0
      BY <1>1
    <2> HIDE DEF Mute
    <2> QED BY <2>1, <2>2 DEF Silent, PartOf
  <1>3. ASSUME NEW v \in Values, Parts[v] \subseteq G PROVE v \in G
    <2>1. ASSUME Silent(v) PROVE RecursiveText[v] = 0
      <3>1. \A w \in PartsIn(v) : w \in Values /\ RecursiveText[w] = 0
        BY <1>3, <2>1, SilentParts, PartsAre, PartsFit
      <3>2. Chars(v) = 0 /\ ContentText[v] = 0
        BY <2>1, SilentParts, SilentContent
      <3> QED BY <1>1, <3>1, <3>2
    <2> QED BY <2>1
  <1> HIDE DEF G
  <1>4. Values \subseteq G
    BY <1>3, PartsAre, DepthInduction
  <1> QED BY <1>2, <1>4 DEF G

\* What the providers' own fields hold is text of the document.
LEMMA SilentOwnText ==
  ASSUME NEW doc \in Values, NEW provider
  PROVE  OwnText(doc, provider) \in Nat /\ (Silent(doc) => OwnText(doc, provider) = 0)
  <1>1. \A v \in Values : ContentText[v] \in Nat /\ (Silent(v) => ContentText[v] = 0)
    BY ContentEquation, SilentContent
  <1>2. ASSUME NEW keys, IsFiniteSet(keys)
        PROVE  TextUnder(doc, keys) \in Nat /\ (Silent(doc) => TextUnder(doc, keys) = 0)
    <2> DEFINE f == [k \in keys |-> ContentText[Field(doc, k)]]
    <2>1. DOMAIN f = keys /\ \A k \in keys : f[k] \in Nat /\ (Silent(doc) => f[k] = 0)
      BY <1>1, FieldFits, SilentParts
    <2>2. TextUnder(doc, keys) = SumFunction(f)
      BY DEF TextUnder
    <2> HIDE DEF f
    <2>3. SumFunction(f) \in Nat /\ (SumFunction(f) = 0 <=> \A k \in keys : f[k] = 0)
      BY <1>2, <2>1, SumOf
    <2> QED BY <2>1, <2>2, <2>3
  <1>3. \A a, b, c : IsFiniteSet({a, b}) /\ IsFiniteSet({a, b, c})
    <2>1. ASSUME NEW a, NEW b, NEW c PROVE IsFiniteSet({a, b}) /\ IsFiniteSet({a, b, c})
      <3>1. IsFiniteSet({a}) /\ IsFiniteSet({b}) /\ IsFiniteSet({c})
        BY FS_Singleton
      <3>2. IsFiniteSet({a} \cup {b})
        BY <3>1, FS_Union
      <3>3. IsFiniteSet(({a} \cup {b}) \cup {c})
        BY <3>1, <3>2, FS_Union
      <3>4. {a, b} = {a} \cup {b} /\ {a, b, c} = ({a} \cup {b}) \cup {c}
        OBVIOUS
      <3> QED BY <3>2, <3>3, <3>4
    <2> QED BY <2>1
  <1>4. CASE provider \in OpenAILike
    <2> DEFINE choices == Items(Field(doc, "choices"))
               f == [i \in DOMAIN choices |-> ContentText[Field(choices[i], "delta")]
                                              + ContentText[Field(choices[i], "message")]]
    <2>1. Field(doc, "choices") \in Values
      BY FieldFits
    <2>2. IsFiniteSet(DOMAIN choices) /\ \A i \in DOMAIN choices : choices[i] \in Values
      <3>1. CASE Field(doc, "choices").kind = "arr"
        <4>1. choices \in Seq(Values)
          BY <2>1, <3>1, ValuesAssumption DEF Items, Null, Num, Str, Digits, Obj
        <4>2. choices = Field(doc, "choices").items
          BY <3>1 DEF Items
        <4>3. IsFiniteSet(DOMAIN choices)
          BY <2>1, <3>1, <4>2, PartsAreFinite
        <4> HIDE DEF choices
        <4> QED BY <4>1, <4>3
      <3>2. CASE Field(doc, "choices").kind # "arr"
        <4>1. choices = <<>>
          BY <3>2 DEF Items
        <4>2. DOMAIN choices = {}
          BY <4>1
        <4> QED BY <4>2, FS_EmptySet
      <3> QED BY <3>1, <3>2
    <2>3. Silent(doc) => \A i \in DOMAIN choices : Silent(choices[i])
      BY <2>1, SilentParts
    <2>4. ASSUME NEW i \in DOMAIN choices
          PROVE  f[i] \in Nat /\ (Silent(doc) => f[i] = 0)
      <3>1. \A key : /\ ContentText[Field(choices[i], key)] \in Nat
                     /\ Silent(doc) => ContentText[Field(choices[i], key)] = 0
        <4> HIDE DEF choices
        <4> QED BY <1>1, <2>2, <2>3, <2>4, FieldFits, SilentParts
      <3> HIDE DEF choices
      <3> QED BY <2>4, <3>1
    <2>5. DOMAIN f = DOMAIN choices /\ OwnText(doc, provider) = SumFunction(f)
      BY <1>4 DEF OwnText, OpenAILike
    <2> HIDE DEF f, choices
    <2>6. SumFunction(f) \in Nat /\ (SumFunction(f) = 0 <=> \A i \in DOMAIN choices : f[i] = 0)
      BY <2>2, <2>4, <2>5, SumOf
    <2> QED BY <2>4, <2>5, <2>6
  <1>5. CASE provider \notin OpenAILike
    <2>1. \A keys : IsFiniteSet(keys) /\ OwnText(doc, provider) = TextUnder(doc, keys) =>
             OwnText(doc, provider) \in Nat /\ (Silent(doc) => OwnText(doc, provider) = 0)
      BY <1>2
    <2>2. CASE provider = "anthropic"
      BY <1>3, <2>1, <2>2 DEF OwnText, OpenAILike
    <2>3. CASE provider = "vertex-ai"
      BY <1>3, <2>1, <2>3 DEF OwnText, OpenAILike
    <2>4. CASE provider = "bedrock"
      BY <1>3, <2>1, <2>4 DEF OwnText, OpenAILike
    <2>5. CASE provider \notin {"anthropic", "vertex-ai", "bedrock"}
      BY <1>5, <2>5 DEF OwnText
    <2> QED BY <2>2, <2>3, <2>4, <2>5
  <1> QED BY <1>4, <1>5

\* extractStreamText finds text in a document, whatever the provider and wherever it stands,
\* unless no string of the document has a character (stream.go:358): an answer of which
\* no usage is known is not estimated to be empty because its layout is another one.
THEOREM TextIsFound ==
  \A doc \in Values, provider \in Providers :
     doc.kind = "obj" => /\ ExtractStreamText(doc, provider) \in Nat
                         /\ ExtractStreamText(doc, provider) = 0 <=> Silent(doc)
  <1> SUFFICES ASSUME NEW doc \in Values, NEW provider \in Providers, doc.kind = "obj"
               PROVE  /\ ExtractStreamText(doc, provider) \in Nat
                      /\ ExtractStreamText(doc, provider) = 0 <=> Silent(doc)
    OBVIOUS
  <1>1. OwnText(doc, provider) \in Nat /\ (Silent(doc) => OwnText(doc, provider) = 0)
    BY SilentOwnText
  <1>2. RecursiveText[doc] \in Nat /\ (RecursiveText[doc] = 0 <=> Silent(doc))
    BY TextEquation, SearchHears
  <1> QED BY <1>1, <1>2 DEF ExtractStreamText

\* What the providers' own layouts report.
LEMMA LayoutsFit ==
  ASSUME NEW doc \in Values, NEW provider \in Providers
  PROVE  ExtractResponseUsage(doc, provider) \in [found : BOOLEAN, usage : Reports]
  <1>1. ASSUME NEW v \in Values
        PROVE  IntOf(v) \in Nat /\ NameOf(v) \in TextsOf
    BY <1>1, ValuesAssumption DEF IntOf, NameOf, TextsOf, Null, Str, Digits, Arr, Obj
  <1>2. \A v \in Values : \A key : /\ Field(v, key) \in Values
                                   /\ IntOf(Field(v, key)) \in Nat
                                   /\ NameOf(Field(v, key)) \in TextsOf
    BY <1>1, FieldFits
  <1>3. Nothing \in [found : BOOLEAN, usage : Reports]
    BY OwnFits DEF Nothing, Strict
  <1>4. \A a, b, c : StructUsage(doc, a, b, c) \in [found : BOOLEAN, usage : Reports]
    BY <1>2, <1>3 DEF StructUsage, Strict, Reports
  <1>5. \A a, b, c, d : MapUsage(doc, a, b, c, d) \in [found : BOOLEAN, usage : Reports]
    BY <1>2, <1>3 DEF MapUsage, Strict, Reports
  <1> QED BY <1>3, <1>4, <1>5 DEF ExtractResponseUsage

\* A document always gives the parser counts, a model named by one of its strings or none,
\* and a text of some characters and bytes, whatever it is a document of (stream.go:184, extractor.go:77): any
\* document makes one of the payloads the capture takes an answer to be made of.
THEOREM DocumentsAreRead ==
  \A doc \in Values, provider \in Providers :
     /\ PayloadsOf(doc, provider) # {}
     /\ PayloadsOf(doc, provider) \subseteq [in : Nat, out : Nat, model : TextsOf, text : Text]
     /\ ExtractResponseUsage(doc, provider) \in [found : BOOLEAN, usage : Reports]
  <1> SUFFICES ASSUME NEW doc \in Values, NEW provider \in Providers
               PROVE  /\ PayloadsOf(doc, provider) # {}
                      /\ PayloadsOf(doc, provider)
                            \subseteq [in : Nat, out : Nat, model : TextsOf, text : Text]
                      /\ ExtractResponseUsage(doc, provider) \in [found : BOOLEAN, usage : Reports]
    OBVIOUS
  <1> DEFINE strict == ExtractResponseUsage(doc, provider)
             chars == ExtractStreamText(doc, provider)
             PayloadOf(u, bytes) == [in |-> u.in, out |-> u.out, model |-> u.model,
                                     text |-> [chars |-> chars, bytes |-> bytes]]
  <1>1. strict \in [found : BOOLEAN, usage : Reports]
    BY LayoutsFit
  <1>2. chars \in Nat
    BY TextIsFound DEF ExtractStreamText
  <1>3. ExtractStreamUsage(doc, provider) \in Findings
    <2>1. CASE strict.found /\ strict.usage # NoUsage
      BY <1>1, <2>1 DEF ExtractStreamUsage, Findings
    <2>2. CASE ~(strict.found /\ strict.usage # NoUsage)
      BY <2>2, SearchAnswers DEF ExtractStreamUsage
    <2> QED BY <2>1, <2>2
  <1>4. PayloadsOf(doc, provider) =
           {PayloadOf(u, bytes) : u \in ExtractStreamUsage(doc, provider), bytes \in chars..4 * chars}
    BY DEF PayloadsOf
  <1> HIDE DEF strict, chars
  <1>5. \A u \in ExtractStreamUsage(doc, provider) : u \in Reports
    BY <1>3 DEF Findings
  <1>6. PayloadsOf(doc, provider) # {}
    <2>1. PICK u : u \in ExtractStreamUsage(doc, provider)
      BY <1>3 DEF Findings
    <2>2. chars \in chars..4 * chars
      BY <1>2
    <2>3. PayloadOf(u, chars) \in PayloadsOf(doc, provider)
      BY <1>4, <2>1, <2>2
    <2> QED BY <2>3
  <1>7. PayloadsOf(doc, provider) \subseteq [in : Nat, out : Nat, model : TextsOf, text : Text]
    <2>1. ASSUME NEW u \in Reports, NEW bytes \in chars..4 * chars
          PROVE  PayloadOf(u, bytes) \in [in : Nat, out : Nat, model : TextsOf, text : Text]
      <3>1. bytes \in Nat
        BY <1>2
      <3>2. [chars |-> chars, bytes |-> bytes] \in Text
        BY <1>2, <3>1 DEF Text
      <3>3. u.in \in Nat /\ u.out \in Nat /\ u.model \in TextsOf
        BY DEF Reports
      <3> QED BY <3>2, <3>3
    <2> HIDE DEF PayloadOf
    <2> QED BY <1>4, <1>5, <2>1
  <1> QED BY <1>1, <1>6, <1>7 DEF strict
=============================================================================
